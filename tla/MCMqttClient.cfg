CONSTANTS
  Messages = {"r", "m1", "m2"}
  Proto <- FrontEnds
  MaxOpenConns = 1
SPECIFICATION MqttFairSpec
INVARIANTS
  MqttTypeOK
  RestRecordHasRow
  BothSinksTried
  AckMeansTried
PROPERTIES
  EveryMessageSettles
  ReceivedIsAcked
CHECK_DEADLOCK FALSE

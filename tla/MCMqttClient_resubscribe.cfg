CONSTANTS
  Messages = {"m1"}
  Proto <- FrontEnds
  MaxOpenConns = 1
SPECIFICATION MqttFairSpec
PROPERTY StaysSubscribed
CHECK_DEADLOCK FALSE

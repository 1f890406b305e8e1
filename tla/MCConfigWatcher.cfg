CONSTANTS
  NumServers = 3
  NilServers = {2}
  Workers = {w1, w2}
  QueueCap = 2
  MaxRev = 3
SPECIFICATION FairSpec
INVARIANTS
  TypeOK
  NoEditLost
  OnlyParsedConfigs
  SerialReloadsConverge
PROPERTIES
  EditReachesServers
  StopQuiesces
CHECK_DEADLOCK FALSE

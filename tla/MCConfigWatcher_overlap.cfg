CONSTANTS
  NumServers = 2
  NilServers = {}
  Workers = {w1, w2}
  QueueCap = 2
  MaxRev = 2
SPECIFICATION Spec
INVARIANT WatchedEditTakesEffect
CHECK_DEADLOCK FALSE

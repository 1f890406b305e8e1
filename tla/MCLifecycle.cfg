CONSTANTS
  Requests = {"q1", "q2"}
  NumTargets = 2
  Term = 60
  TrapEnabled = TRUE
SPECIFICATION FairSpec
INVARIANTS
  TypeOK
  SinksCloseAfterWaits
  SnmpOnlyInServfull
PROPERTIES
  SnmpStopReturns
  ProcessEnds
CHECK_DEADLOCK FALSE

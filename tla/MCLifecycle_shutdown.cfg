CONSTANTS
  Requests = {"q1"}
  NumTargets = 1
  Term = 0
  TrapEnabled = FALSE
SPECIFICATION Spec
INVARIANT GracefulShutdown
CHECK_DEADLOCK FALSE

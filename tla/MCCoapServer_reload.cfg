CONSTANTS
  NumReloads = 1
  AddrOf <- SameAddress
  Overlapping <- Wildcard
  Endpoints <- EndpointSet
SPECIFICATION Spec
INVARIANT ReloadRestarts
CHECK_DEADLOCK FALSE

CONSTANTS
  NumReloads = 2
  AddrOf <- Addresses
  Overlapping <- Wildcard
  Endpoints <- EndpointSet
SPECIFICATION Spec
INVARIANT StopIsGraceful
CHECK_DEADLOCK FALSE

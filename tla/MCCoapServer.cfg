CONSTANTS
  NumReloads = 2
  AddrOf <- Addresses
  Overlapping <- Wildcard
  Endpoints <- EndpointSet
SPECIFICATION FairSpec
INVARIANTS
  TypeOK
  PanicNeedsARace
  RouterFromOneConfig
  
  ListeningIsBacked
PROPERTY NewAddressTakesEffect
CHECK_DEADLOCK FALSE

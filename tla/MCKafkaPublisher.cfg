CONSTANTS
  Calls = {c1, c2, c3}
  MaxBuffered = 2
SPECIFICATION FairSpec
INVARIANTS
  TypeOK
  SuccessIsDelivered
  OneResultPerCall
  MetricsMatchReturns
PROPERTIES
  ImplementsContract
  SlotIsFreed
  PublishReturnsUnlessFull
CHECK_DEADLOCK FALSE

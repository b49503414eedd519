CONSTANTS
  QueueSize = 2
  MaxMessages = 5
  MayFail = TRUE
SPECIFICATION Spec
INVARIANTS NothingVanishes DropsAreOldest
PROPERTIES ImplementsDelivery CloseCleansUp
CHECK_DEADLOCK FALSE

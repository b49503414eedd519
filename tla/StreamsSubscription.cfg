CONSTANTS
  MaxEntries = 4
  MaxLength = 3
  MayExpire = TRUE
  MayFail = TRUE
SPECIFICATION Spec
INVARIANT NoGapAfterFirst
PROPERTIES ImplementsDelivery EverybodyStops
CHECK_DEADLOCK FALSE

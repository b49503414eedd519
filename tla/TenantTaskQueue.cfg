CONSTANTS
  Tasks = {t1, t2, t3, t4}
  Workers = {w1, w2}
  NoTask = NoTask
  Concurrency = 1
  BillingModes = {TRUE, FALSE}
  FlagMayExpire = TRUE
  MaxFaults = 1
SPECIFICATION Spec
INVARIANTS WaitingTaskHasPuller SetFlagHasOwner ChainsBounded
PROPERTIES ImplementsDelivery WaitingTaskEnds
CHECK_DEADLOCK FALSE

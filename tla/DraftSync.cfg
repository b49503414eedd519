CONSTANTS
  t1 = t1
  t2 = t2
  e1 = e1
  e2 = e2
  f2 = f2
  v1 = v1
  Tabs = {t1, t2}
  EditsOf <- TwoPages
  MaxEdits <- EditsMade
  Features = {f2}
  Variables = {v1}
  Restless = {t1}
  MaxQueue = 1
  MaxRefreshes = 2
  MaxTrips = 1
  MaxFaults = 1
SPECIFICATION Spec
INVARIANTS NoSelfConflict EditIsSavedOrGivenUp
PROPERTIES OverwritesOnlyKnown DraftOpensAgain
CHECK_DEADLOCK FALSE

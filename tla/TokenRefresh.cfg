CONSTANTS
  t1 = t1
  t2 = t2
  r1 = r1
  r2 = r2
  s1 = s1
  Tabs = {t1, t2}
  Requests = {r1, r2, s1}
  TabOf <- TwoPages
  Streams = {s1}
  MaxCalls = 2
  MaxCrashes = 1
  MaxTokens = 6
SPECIFICATION RefreshSpec
INVARIANTS SameTabExclusive DeniedOnlyAfterOverlap
PROPERTY NoCrossTabDeadlock
CHECK_DEADLOCK FALSE

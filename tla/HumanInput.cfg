CONSTANTS
  f1 = f1
  f2 = f2
  Forms = {f1, f2}
  Before <- Parallel
  r1 = r1
  r2 = r2
  Recipients <- TwoThenNone
  Nobody = Nobody
  Workers = {w1, w2}
  MaxFaults = 1
SPECIFICATION Spec
INVARIANTS OneExecution AnswerTakenStands AnsweredRunIsResumed
PROPERTIES EndIsFinal 
CHECK_DEADLOCK FALSE

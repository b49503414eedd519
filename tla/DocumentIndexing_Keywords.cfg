CONSTANTS
  Docs = {d1}
  Chunks = {c1}
  Requests = {q1}
  Upload = Upload
  NoDoc = NoDoc
  Techniques = {"economy"}
  MayFail = TRUE
  MaxCrashes = 0
SPECIFICATION Safety
INVARIANT CompletedTogether
CHECK_DEADLOCK FALSE

CONSTANTS
  Docs = {d1}
  Chunks = {c1}
  Requests = {q1, q2}
  Upload = Upload
  NoDoc = NoDoc
  Techniques = {"high_quality"}
  MayFail = TRUE
  MaxCrashes = 0
SPECIFICATION Spec
INVARIANT CompletedSegmentIsIndexed
PROPERTY IndexingEnds
CHECK_DEADLOCK FALSE

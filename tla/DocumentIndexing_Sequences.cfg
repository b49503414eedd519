CONSTANTS
  Docs = {d1}
  Chunks = {c1, c2}
  Requests = {q1, q2, q3, q4}
  Upload = Upload
  NoDoc = NoDoc
  Techniques = {"high_quality", "economy"}
  MayFail = TRUE
  MaxCrashes = 2
SPECIFICATION Safety
SYMMETRY Symmetric
CONSTRAINT UsersWait
INVARIANTS TypeOK OneSegmentPerChunk NoOrphanInIndex CompletedIsSearchable PauseHolds DeletionCleans
CHECK_DEADLOCK FALSE

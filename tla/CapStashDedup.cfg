\* Duplicate shares and roll-overs: re-announced works, clean and plain jobs, a key cap of one.
SPECIFICATION SafetySpec
CONSTANTS
  Works = {w1, w2}
  Diffs <- OneDiff
  Chunks <- Chunk1
  Span = 1
  En2Span = 2
  KeyCap = 1
  BackendFails = FALSE
  MaxNotify = 3
  MaxShares = 2
INVARIANTS
  PlainJobsNotResent

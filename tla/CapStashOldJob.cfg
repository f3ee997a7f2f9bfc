\* A share of an old generation passes the stale check.
SPECIFICATION SafetySpec
CONSTANTS
  Works = {w1}
  Diffs <- OneDiff
  Chunks <- Chunk1
  Span = 2
  En2Span = 2
  KeyCap = 2
  BackendFails = FALSE
  MaxNotify = 2
  MaxShares = 1
INVARIANTS
  NeverOldGeneration

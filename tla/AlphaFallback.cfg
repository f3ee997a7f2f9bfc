\* One job at a difficulty, one rejected share.
SPECIFICATION SafetySpec
CONSTANTS
  Diffs <- OneDiff
  Chunks <- Chunk1
  Span = 2
  GpuFails = FALSE
  MaxPub = 1
INVARIANT FallbackApplies

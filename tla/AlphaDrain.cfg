\* One job, its cancel late.
SPECIFICATION SafetySpec
CONSTANTS
  Diffs <- OneDiff
  Chunks <- Chunk1
  Span = 2
  GpuFails = FALSE
  MaxPub = 1
INVARIANT DrainedBatchIsStale

\* Failing scans, two difficulties, two publications, batches of a whole nonce space.
SPECIFICATION Spec
CONSTANTS
  Diffs <- TwoDiffs
  Chunks <- Chunk2
  Span = 2
  GpuFails = TRUE
  MaxPub = 2
INVARIANTS
  TypeOK
  SubmitsPublishedJob
  TargetFollowsDifficulty
  SubmitsOncePerPickUp
PROPERTIES
  HandoffSpec
  StopsAfterEof

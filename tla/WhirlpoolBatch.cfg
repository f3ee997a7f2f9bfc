\* Two set-ups and two batches over up to two blocks, with failing calls.
SPECIFICATION Spec
CONSTANTS
  Hex = 4
  N = 8
  double_sha256 <- Mix
  Works <- SomeWorks
  HashValues <- SomeHashes
  Batches <- SomeBatches
  Warp = 1
  MaxThreads = 2
  Saturation = 1
  PollEvery = 2
  MaxCount = 3
  MaxSetups = 2
  MaxBatches = 2
  MaxFaults = 1
INVARIANTS
  FindIsReal
  FindIsWorthIt
  EmptyMeansScanned
  BlockIsBlock
PROPERTIES
  SearchSpec

\* Staleness, uploads, ranges, extranonce1, hand-off and shutdown: two notifies, two difficulties, failures, fair threads.
SPECIFICATION Spec
CONSTANTS
  Works = {w1}
  Diffs <- TwoDiffs
  Chunks <- Chunk2
  Span = 3
  En2Span = 1
  KeyCap = 2
  BackendFails = TRUE
  MaxNotify = 2
  MaxShares = 1
INVARIANTS
  TypeOK
  SubmitsPublishedJob
  ScansWhatWasUploaded
  SharesUseExtranonce1
PROPERTIES
  HandoffSpec
  StopsAfterEof

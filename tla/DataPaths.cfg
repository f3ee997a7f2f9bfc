\* Two lines each way in small portions; notifies of every layout, difficulties
\* from 0 to beyond the clamp, the fallback; every header under two nonces;
\* writes of every length; both Whirlpools.
SPECIFICATION Spec
CONSTANTS
  Texts <- TwoTexts
  TmpSize = 3
  MaxIn = 2
  MaxOut = 2
  Base = 16
  Limbs = 2
  Scale = 4
  ShiftStep = 2
  Bits = 8
  TimeFloor = 18
  Now = 19
  BlockNumbers <- OneBlock
  PrevHashes <- OnePrevHash
  Merkles <- TwoMerkles
  Times <- OneTime
  HeaderDiffs <- FourHeaderDiffs
  OwnTargets <- ThreeTargets
  OddLines <- SomeOddLines
  PoolDiffs <- SomePoolDiffs
  Nonces = {0, 1}
  WordRadix = 3
  WordBytes = 2
  HashWords = 2
  BLEN = 8
  WLEN = 1
  Radix = 32
  UnalignedWords = FALSE
  ContentByte <- MarkByte
  MaxLength = 20
  MaxMessages = 3
  Lengths <- FourLengths
  Headers <- TwoHeaders
  Starts <- TwoStarts
  BlockDim = 2
INVARIANTS
  LinesAsSent
  FieldsAsMeant
  TargetFromScratch
  WordPathIsBytePath
  VerdictIsByteOrder
  DigestIsOfTheMessage
  CpuIsWhirlpool
  KernelHashesLikeVerifier
PROPERTIES
  HarderIsNotEasier

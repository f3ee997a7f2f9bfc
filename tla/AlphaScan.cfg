\* Two blocks of two threads, slices of five.
SPECIFICATION Spec
CONSTANTS
  BlockDim = 2
  Saturation = 2
  SliceMax = 5
  PollEvery = 2
  Word = 9
  NonceSpace = 7
  MaxCount = 7
INVARIANTS
  NoneDuplicated
  NoneSkipped
  AccountingExact
  FindIsReal
PROPERTIES
  SearchSpec

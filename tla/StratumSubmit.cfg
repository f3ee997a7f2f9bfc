\* Two formats per share, four ids: two shares with delayed and repeated answers.
CONSTANTS
  NFormats = 2
  MaxSubmits = 4
SPECIFICATION Spec
INVARIANTS JudgedAtMostOnce NoVerdictLost LedgerBalances NoWrongFormat

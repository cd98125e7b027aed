CONSTANTS
  SumSpan = 2
  SumMod = 2
  SumMinDist = 1
  BlockSize = 2
  Byte <- MCByte
  MaxLen = 4
  Plains <- MCPlains
SPECIFICATION RTSpec
INVARIANTS RTTypeOK IntactRestored
PROPERTIES ReachesVerdict IsFaithfulCopy

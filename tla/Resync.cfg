CONSTANTS
  SumSpan = 3
  SumMod = 3
  SumMinDist = 1
  BlockSize = 2
  Byte <- MCByte
  MaxLen = 6
  Plains <- MCPlains
SPECIFICATION RsSpec
INVARIANTS EncTypeOK CutsByContent RsyncFriendly
CHECK_DEADLOCK FALSE

SPECIFICATION BfdSpec
CONSTANTS
  Objects = {o1, o2, o3}
  Numbers <- MCNumbers
  Files = {w, r, p}
  Written = {w}
  Piped = {p}
  BufSize = 4
  Block = 2
  Counts <- MCCounts
  MaxGiven = 9
  FileLen = 5
  MayFall = TRUE
SYMMETRY MCSymmetry
INVARIANTS PartialWriteKept
CHECK_DEADLOCK FALSE

CONSTANTS
  MaxFiles = 2
  MaxSize = 2
  Capacity = 1
  LastProc = 4
SPECIFICATION GpSpec
INVARIANTS GpTypeOK OnlyWhole OwnEnds ReapedIsClosed
PROPERTY EverythingEnds
CHECK_DEADLOCK FALSE

CONSTANTS
  MaxFiles = 2
  MaxSize = 2
  Capacity = 1
  LastProc = 4
SPECIFICATION GpSpec
INVARIANT GzipSucceeded
CHECK_DEADLOCK FALSE

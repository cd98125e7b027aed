CONSTANTS
  Plain = {p, q}
  Cipher = {c1, c2, c3}
  None = None
  Opts <- NoDelete
  MaxChanges = 1
  MaxFaults = 0
SPECIFICATION NmSpec
INVARIANT NamesStored

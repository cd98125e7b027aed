CONSTANTS
  Plain = {p, q}
  Cipher = {c1, c2, c3}
  None = None
  Opts <- MCOpts
  MaxChanges = 2
  MaxFaults = 2
SPECIFICATION NmSpec
INVARIANTS NmTypeOK MapsMirror MapsReadable NamesNeverMixed FilesNamed NamesKept DeleteExact DecryptComplete
SYMMETRY AnyNames

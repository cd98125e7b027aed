CONSTANTS
  DirsepC = "/"
  Hex = {"A", "F"}
  CipherLen = 2
  MaxCuts = 1
  MaxNest = 2
  MaxNoise = 6
  Found <- MCFound
  Paths <- MCPaths
SPECIFICATION FfSpec
INVARIANTS FfTypeOK RecoverExact RecoveredReadable RereadAsMeant NestedFound

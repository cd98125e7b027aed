CONSTANTS
  Params = {1, 2}
  Opts <- MCOpts
  MaxVersion = 2
  MaxTime = 3
  MaxKey = 4
  MaxFaults = 2
  ModWin = 1
  Granularity = 2
SPECIFICATION BfSpec
INVARIANTS BfTypeOK NeverPartial MtimeMeansContent SuccessIsRecent KeyOpensDst
PROPERTY BackupConverges

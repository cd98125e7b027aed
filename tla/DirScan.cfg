SPECIFICATION DsSpec
CONSTANTS
  Sources <- MCSources
  Roots <- MCRoots
  Lines <- MCLines
  Opts <- MCOpts
  Trim = 1
  MaxMishaps = 2
INVARIANTS DsTypeOK EachTried DeleteExact
PROPERTIES DeleteKeepsBacked

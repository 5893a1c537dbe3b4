SPECIFICATION FairSpec
CONSTANTS
  Lines <- MCLines
  Most = 4
  Inputs <- MCInputs
  Missing <- MCMissing
  Sorted <- MCSorted
  CAP = 2
  Mishaps <- MCMishaps
  Unique = TRUE
INVARIANT CleanExit
PROPERTIES ExitIsLast AllEnd
CHECK_DEADLOCK FALSE

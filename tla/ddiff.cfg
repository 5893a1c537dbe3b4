CONSTANTS
  Refs <- MCRefs
  Lines <- MCLines
  Fmts <- MCFmts
  LineCount = 2
  Base <- MCBase
  NANOS_PER_SEC = 10
SPECIFICATION Spec
INVARIANT UnitsAddUp
INVARIANT UnitsAreCarried
INVARIANT ExitTells
CHECK_DEADLOCK FALSE

CONSTANTS
  Jobs <- MCJobs
  Base <- MCBase
  NANOS_PER_SEC = 10
  UINT_RANGE = 1073741824
SPECIFICATION Spec
INVARIANT RoundsToNearest
INVARIANT RoundsToMultiple
INVARIANT OrderIsKept
CHECK_DEADLOCK FALSE

CONSTANTS
  Jobs <- MCJobs
  Base <- MCBase
  NANOS_PER_SEC = 10
SPECIFICATION Spec
INVARIANT MeaningIsKept
INVARIANT LinesAreRight
PROPERTY Terminates
CHECK_DEADLOCK FALSE

CONSTANTS
  Args <- MCArgs
  Base <- MCBase
  NANOS_PER_SEC = 10
SPECIFICATION Spec
INVARIANT OnlyWhatWasAsked
INVARIANT NothingIsMissed
PROPERTY SequenceLeadsOn
PROPERTY SequencesEnd
CHECK_DEADLOCK FALSE

CONSTANTS
  Jobs <- MCFour
  Base <- MCBase
  NANOS_PER_SEC = 10
SPECIFICATION Spec
CHECK_DEADLOCK FALSE
INVARIANT AnyExpressionIsGrepped

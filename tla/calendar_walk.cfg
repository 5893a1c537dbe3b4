CONSTANT
  Walks <- MCWalks
SPECIFICATION Spec
INVARIANT ConversionsAgree
INVARIANT CountsAreRight
CHECK_DEADLOCK FALSE

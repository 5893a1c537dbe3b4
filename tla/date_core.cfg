CONSTANTS
  Typs <- MCTyps
  Firsts <- MCFirsts
  Days <- MCDays
  Weeks <- MCWeeks
  Bizdays <- MCBizdays
  Months <- MCMonths
  Years <- MCYears
  Calls = 2
SPECIFICATION FairSpec
INVARIANT GoalIsKept
INVARIANT DatesAreSound
INVARIANT OrderAgrees
INVARIANT DiffCountsWorkdays
INVARIANT DiffAddsBack
PROPERTY CallsReturn
CHECK_DEADLOCK FALSE

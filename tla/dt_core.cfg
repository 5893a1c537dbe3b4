CONSTANTS
  Typs <- MCTyps
  Firsts <- MCFirsts
  Times <- MCTimes
  Epochs <- MCEpochs
  Durs <- MCDurs
  Zones <- MCZones
  Base <- MCBase
  NANOS_PER_SEC = 10
  Calls = 2
SPECIFICATION Spec
INVARIANT AddIsExact
INVARIANT RealSecondsAreAdded
INVARIANT ZonesAreUndone
INVARIANT LocalTimeIsShown
INVARIANT DifferencesAddBack
INVARIANT WeeksAddBack
INVARIANT MomentsAreOrdered
CHECK_DEADLOCK FALSE

SPECIFICATION FairSpec
CONSTANTS
  STAMP_MIN <- MCStampMin
  STAMP_MAX = 12
  TRNO_MOD = 256
  Zones <- MCZones
  Args <- MCArgs
INVARIANTS CacheSound LocalRight ZrngRight UtcRight
PROPERTY Returns

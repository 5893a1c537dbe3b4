SPECIFICATION FairSpec
CONSTANTS
  NL = "NL"
  CR = "CR"
  NUL = "NUL"
  Char <- MCChar
  Argv <- Anything
  CHUNK_SIZE = 2
  MAX_NLINES = 2
  MAP_LEN = 7
INVARIANTS LinesInBuffer NoOverlap
PROPERTIES StreamSpec Termination

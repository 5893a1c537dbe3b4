SPECIFICATION Spec
CONSTANTS
  NL = "NL"
  CR = "CR"
  NUL = "NUL"
  Char <- MCChar
  Argv <- AnyOne
  CHUNK_SIZE = 2
  MAX_NLINES = 2
  MAP_LEN = 7
INVARIANT Complete

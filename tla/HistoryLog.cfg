CONSTANTS
  a = a
  b = b
  State = {a, b}
  Unknown = Unknown
  MaxTime = 2
  Boots = 3
  MaxLine = 4
SPECIFICATION LogSpec
INVARIANTS Acknowledged Reopenable Transparent IndexReadsFile
CHECK_DEADLOCK FALSE
SYMMETRY Symmetry

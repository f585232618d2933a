SPECIFICATION Spec
CONSTANTS
  Capacity = 2
  Bytes <- ByteSet
  Dbs = {0, 1}
  Sizes = {2}
  MaxWrites = 2
  MaxRewrites = 0
  MaxCrashes = 0
INVARIANTS
  FileCanBeRead
CHECK_DEADLOCK FALSE

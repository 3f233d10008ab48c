SPECIFICATION Spec
CONSTANTS
  p1 = p1
  p2 = p2
  Nobody = Nobody
  Proc <- MCProc
  NumHandles = 1
  Uses <- MCOwn
  Modes <- MCModes
  Lengths <- MCLengths
  Seeks <- MCSeeks
  B = 2
  NumBlocks = 5
  NumMeta = 1
  NumInodes = 2
  TableSize = 2
  Names <- MCNames
  Match <- MCMatch
  Values <- MCZero
  Garbage <- MCZero
PROPERTIES OnlyOwnerChanges
CHECK_DEADLOCK FALSE

SPECIFICATION Spec
CONSTANTS
  p1 = p1
  p2 = p2
  Nobody = Nobody
  Proc <- MCProc
  NumHandles = 2
  Uses <- MCOwn
  Modes <- MCModes
  Lengths <- MCLengths
  Seeks <- MCSeekBack
  B = 2
  NumBlocks = 5
  NumMeta = 1
  NumInodes = 2
  TableSize = 2
  Names <- MCNames
  Match <- MCMatch
  Values <- MCZero
  Garbage <- MCZero
INVARIANTS TypeOK EntriesNameFiles
PROPERTY BlockWaitersStay
CHECK_DEADLOCK FALSE

SPECIFICATION Spec
CONSTANTS
  B = 3
  NumBlocks = 6
  NumMeta = 2
  NumInodes = 1
  TableSize = 3
  Names <- MCOneName
  Match <- MCOneMatch
  Values <- MCOne
  Garbage <- MCZero
  Extents <- MCExtents
PROPERTY WriteStaysInFile

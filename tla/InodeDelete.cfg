SPECIFICATION Spec
CONSTANTS
  B = 3
  NumBlocks = 6
  NumMeta = 2
  NumInodes = 2
  TableSize = 1
  Names <- MCNames
  Match <- MCMatch
  Values <- MCZero
  Garbage <- MCZero
  Extents <- MCFarExtents
PROPERTY DeleteFreesOnlyItsOwn

SPECIFICATION Spec
CONSTANTS
  B = 3
  NumBlocks = 6
  NumMeta = 2
  NumInodes = 2
  TableSize = 3
  Names <- MCNames
  Match <- MCMatch
  Values <- MCOne
  Garbage <- MCZero
  Extents <- MCExtents
INVARIANTS TypeOK BlocksAreOwned NamesApart
PROPERTY ReadsBack

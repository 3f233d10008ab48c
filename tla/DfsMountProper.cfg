SPECIFICATION Spec
CONSTANTS
  NumInodeBlocks = 2
  NumFbvBlocks = 1
  MaxVersion = 2
  MaxFaults = 1
  ReadFaults = TRUE
PROPERTY MountIsProper

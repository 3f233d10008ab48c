SPECIFICATION Spec
CONSTANTS
  NumInodeBlocks = 2
  NumFbvBlocks = 1
  MaxVersion = 3
  MaxFaults = 2
  ReadFaults = FALSE
INVARIANTS TypeOK ValidIsTruthful MountedIsMarked
PROPERTIES MarkHoldsCommitted FormatSurvives

SPECIFICATION Spec
CONSTANTS
  NumProcs = 4
  NoProc = NoProc
  Quantum = 2
INVARIANTS TypeOK QueuesMatchStatus CurrentIsFront
PROPERTY ComputingShares
CHECK_DEADLOCK FALSE

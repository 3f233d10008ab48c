SPECIFICATION SynchSpec
CONSTANTS
  NumProcs = 4
  NoProc = NoProc
  Quantum = 0
  NumLocks = 2
  NumSems = 1
  NumConds = 1
  InitialCounts <- MCCounts
  MaxCalls = 4
  ExitHolding = TRUE
INVARIANTS SynchTypeOK SleepersAreQueued HoldersOwn SleepersAreBlocked SemCountsUnits
PROPERTY LocksAreMutexes
CONSTRAINT OneKind
CHECK_DEADLOCK FALSE

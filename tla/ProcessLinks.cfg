SPECIFICATION Spec
CONSTANTS
  l1 = l1
  l2 = l2
  l3 = l3
  l4 = l4
  l5 = l5
  l6 = l6
  LinkPool <- MCLinkPool
  NoLink = NoLink
  Waits <- MCWaits
  Queues <- MCQueues
  FreeLinks = "freeLinks"
  NoQueue = "none"
  NumProcs = 3
  NoProc = NoProc
  NoObject = NoProc
  Quantum = 1
INVARIANTS TypeOK WellLinked QueuesNeverFail LinkIsOwn
PROPERTY ImplementsProcess
SYMMETRY MCSymmetry
CHECK_DEADLOCK FALSE

SPECIFICATION ResSpec
CONSTANTS
  NumProcs = 3
  NoProc = NoProc
  Quantum = 0
  WordBits = 3
  PageStart = 1
  MaxPage = 6
  PageSize = 20
  NumPtes = 3
  MaxOpen = 5
  Names <- MCNames
  NoName = "noname"
  Host <- MCHost
  Lines <- MCLines
  Executable <- MCExecutable
  NoAddr <- MCNoAddr
  InfoChars = 6
  PieceChars = 12
  ArgBuff = 7
  ArgScan = 6
  MaxArgs = 3
  Disk = "disk"
  VmNames <- MCVmNames
  Programs <- MCPrograms
  ArgLists <- MCArgLists
  Fillers <- MCFillers
  DumpLists <- MCDumps
  ArgCopied = 6
  BlockSize = 2
  MaxForks = 2
INVARIANTS ResTypeOK PagesAreOwned SearchEnds DescriptorsAccounted DiskUsable ProgramIntact ArgumentsArrive
CHECK_DEADLOCK FALSE

------------------------------ MODULE Resources ------------------------------
(***************************************************************************)
(* What a process owns besides its PCB: its two pages and the program and  *)
(* arguments in the first of them (flat/os/process.c, flat/os/memory.c),   *)
(* and what creating it does to the kernel's descriptors, which the disk   *)
(* needs too (flat/os/filesys.c, flat/os/disk.c).                          *)
(*                                                                         *)
(* The module composes the process table of Process with the memory, the   *)
(* descriptors and the loader; a trap is one step.                         *)
(***************************************************************************)
EXTENDS Process, Loader, Arguments

CONSTANTS Disk,      \* DISK_FILENAME
          VmNames,   \* the file vm as main finds it: there, or not to be opened
          Programs,  \* names that programs are created from
          ArgLists,  \* the arguments they are given, without their own name
          Fillers,   \* what main's buffer of arguments may hold before its use
          DumpLists, \* the files that the options -f name, in their order
          ArgCopied, \* SIZE_ARG_BUFF - 32, the part of the buffer copied
          BlockSize, \* DISK_BLOCKSIZE
          MaxForks   \* bound on the programs created

ASSUME NameAssumption == Disk \in Names /\ VmNames \cup Programs \subseteq Names
ASSUME CopyAssumption == ArgCopied \in ArgScan .. ArgBuff

\* The disk has been created (module DfsMount) and holds a block at least.
ASSUME DiskAssumption ==
  BlockSize \in Nat /\ ~Host[Disk].dlx /\ Host[Disk].size >= BlockSize

\* A bound: fewer options -f than slots.
ASSUME DumpAssumption ==
  \A dumps \in DumpLists : dumps \in Seq(Names) /\ Len(dumps) < MaxOpen
ASSUME ForksAssumption == MaxForks \in Nat

VARIABLES memory,    \* the pages
          openfiles, \* the descriptors
          pcbs,      \* pcbs[p]: page table, stack page and stack pointer
          born,      \* history: what each PCB was last loaded with, and by whom
          lost,      \* history: slots of openfiles that stay taken
          access,    \* result of the last access to the disk
          forks      \* programs created so far

resVars == <<table, jiffies, memory, openfiles, pcbs, born, lost, access, forks>>

WriteMode == 2 \* FS_MODE_WRITE
ReadWrite == 3 \* FS_MODE_RW

NoBirth == [by |-> "none", name |-> NoName, strings |-> <<>>]
ArgBase == PageSize - ArgBuff

-----------------------------------------------------------------------------
(* ProcessFork.                                                            *)

FreeResourcesKeepsStack(m, pcb) == \* mutant: the stack page is not freed
  MemoryFreePte(m, pcb.pagetable[0])

\* The pages of ProcessFreeResources: npages of them, and the system stack.
FreeResources(m, pcb) ==
  MemoryFreePage(MemoryFreePte(m, pcb.pagetable[0]), pcb.sysStack)

\* The buffer and the words of argc and argv, below the top of the page.
PutArguments(m, pcb, buf) ==
  LET words == ArgVector(buf, ArgBase)
      count == Cardinality(DOMAIN words)
      copied == MemoryCopySystemToUser(m, pcb, buf, ArgBase, ArgCopied)
  IN  MemoryCopySystemToUser(copied, pcb, words, ArgBase - count, count)

StackPointer(buf) == ArgBase - Cardinality(DOMAIN ArgVector(buf, ArgBase))

\* One user page, mapped, and the page of the system stack.
NewPcb(page, stack, buf) ==
  [npages |-> 1,
   pagetable |-> [i \in 0 .. NumPtes - 1 |-> IF i = 0 THEN MemorySetupPte(page) ELSE 0],
   sysStack |-> stack,
   sp |-> StackPointer(buf)]

\* The program goes into the pages, unless its file is no executable.
ForkWith(k, mem, pcb, info, buf) ==
  LET p == Head(k.table.free)
      Started(load) == [k EXCEPT !.table = Fork(@),
                                 !.memory = PutArguments(load.mem, pcb, buf),
                                 !.pcbs[p] = pcb,
                                 !.openfiles = FsClose(load.table, info.fd)]
  IN  IF info.fd < 0
      THEN [k EXCEPT !.table = ForkNoCode(@),
                     !.memory = FreeResources(mem, pcb),
                     !.pcbs[p] = pcb,
                     !.openfiles = info.table]
      ELSE Started(LoadProgram(mem, pcb, info.table, info.fd))

\* A kernel k is a record of the four variables; the result is the next one.
ProcessFork(k, name, buf) ==
  LET WithBoth(user, stack) ==
        IF user.page = 0 \/ stack.page = 0
        THEN [k EXCEPT !.table = Halt(@), !.memory = stack.mem]
        ELSE ForkWith(k, stack.mem, NewPcb(user.page, stack.page, buf),
                      ProcessGetCodeInfo(k.openfiles, name), buf)
      WithUser(user) == WithBoth(user, MemoryAllocPage(user.mem))
  IN  IF k.table.free = <<>> THEN [k EXCEPT !.table = Halt(@)]
      ELSE WithUser(MemoryAllocPage(k.memory))

\* A program was loaded into PCB p, which was free before.
Loaded(k, next) == k.table.free # <<>> /\ next.table.status[Head(k.table.free)] = "runnable"

-----------------------------------------------------------------------------
(* The start of the system: main.                                          *)

\* Option -f lists an executable; it closes the host's file and not the slot.
DumpProgram(t, name) == ProcessGetCodeInfo(t, name).table

\* A write of vm that is not looked at, and its close.
WriteVm(t, vm) ==
  LET open == FsOpen(t, vm, WriteMode)
  IN  FsClose(FsWrite(FsSeekSet(open.table, open.fd, 0), open.fd, 1).table, open.fd)

DiskBlockKeepsOpen(t, transfers) == \* mutant: the image is not closed
  LET open == FsOpen(t, Disk, ReadWrite)
      done == FsRead(open.table, open.fd, BlockSize)
  IN  [table |-> done.table, ok |-> done.got = BlockSize]

\* DiskReadBlock and DiskWriteBlock: one opens, seeks, transfers and closes.
DiskBlock(t, transfers) ==
  LET open == FsOpen(t, Disk, IF transfers = "reads" THEN ReadMode ELSE ReadWrite)
      at   == FsSeekSet(open.table, open.fd, 0)
      done == IF transfers = "reads" THEN FsRead(at, open.fd, BlockSize)
              ELSE FsWrite(at, open.fd, BlockSize)
  IN  [table |-> FsClose(done.table, open.fd), ok |-> done.got = BlockSize]

NoPcb == [npages |-> 0, pagetable |-> [i \in 0 .. NumPtes - 1 |-> 0],
          sysStack |-> 0, sp |-> 0]

\* The table of descriptors when main has come to the mount.
Booted(dumps, vm) ==
  LET Dumped[i \in 0 .. Len(dumps)] ==
        IF i = 0 THEN FsModuleInit ELSE DumpProgram(Dumped[i - 1], dumps[i])
  IN  DiskBlock(WriteVm(Dumped[Len(dumps)], vm), "reads").table

Exists(name) == Host[name].dlx \/ Host[name].size >= 0

\* A text that is looked at for "start:" and has none.
IsText(name) == /\ ~Host[name].dlx
                /\ Host[name].size >= InfoChars
                /\ name \notin Executable

\* The first file that is opened at all gets slot 0, which is never given
\* back; a file that -f lists, or fails to find "start:" in, keeps its slot.
LostAtBoot(dumps) ==
  1 + Cardinality({i \in DOMAIN dumps : /\ dumps[i] \in Executable \/ IsText(dumps[i])
                                        /\ \E j \in 1 .. i - 1 : Exists(dumps[j])})

Birth(by, name, args) ==
  [by |-> by, name |-> name, strings |-> <<Host[name].chars>> \o args]

ResInit ==
  \E dumps \in DumpLists, vm \in VmNames, name \in Programs,
     args \in ArgLists, filler \in Fillers :
    LET birth == Birth("main", name, args)
        k == [table |-> ModuleInit, memory |-> MemoryModuleInit,
              pcbs |-> [p \in Proc |-> NoPcb], openfiles |-> Booted(dumps, vm)]
    IN \E next \in {ProcessFork(k, name, MainArgs(birth.strings, filler))} :
        /\ Loaded(k, next)
        /\ table = next.table
        /\ jiffies = 0
        /\ memory = next.memory
        /\ pcbs = next.pcbs
        /\ openfiles = next.openfiles
        /\ born = [p \in Proc |-> IF p = table.current THEN birth ELSE NoBirth]
        /\ lost = LostAtBoot(dumps)
        /\ access = "none"
        /\ forks = 0

-----------------------------------------------------------------------------
(* Traps.                                                                  *)

\* The trap that creates a process, with arguments as the caller has them.
CreateProgram(name, args) ==
  LET birth == Birth("trap", name, args)
      k == [table |-> table, memory |-> memory, pcbs |-> pcbs,
            openfiles |-> openfiles]
      Handled == IF ArgsAccepted(birth.strings)
                 THEN ProcessFork(k, name, TrapArgs(birth.strings))
                 ELSE [k EXCEPT !.table = Halt(@)]
  IN  /\ Running
      /\ forks < MaxForks
      /\ forks' = forks + 1
      /\ \E next \in {Handled} :
           /\ table' = next.table
           /\ memory' = next.memory
           /\ pcbs' = next.pcbs
           /\ openfiles' = next.openfiles
           /\ born' = IF Loaded(k, next)
                      THEN [born EXCEPT ![Head(table.free)] = birth] ELSE born
           /\ lost' = IF /\ ~next.table.halted
                         /\ IsText(name)
                         /\ OpenSlots(openfiles) # Slot
                      THEN lost + 1 ELSE lost
      /\ UNCHANGED <<jiffies, access>>

\* Exit makes the process a zombie and the scheduler, called at once, frees it.
ExitAndFree ==
  /\ Exit
  /\ LET freed == {p \in Proc : table.status[p] # "free" /\ table'.status[p] = "free"}
     IN  memory' = FoldSet(LAMBDA p, m : FreeResources(m, pcbs[p]), memory, freed)
  /\ UNCHANGED <<openfiles, pcbs, born, lost, access, forks>>

\* A file system call reads or writes a block of the disk.
DiskAccess(transfers) ==
  LET done == DiskBlock(openfiles, transfers) IN
  /\ Running
  /\ openfiles' = done.table
  /\ access' = IF done.ok THEN "ok" ELSE "failed"
  /\ UNCHANGED <<table, jiffies, memory, pcbs, born, lost, forks>>

OtherProcessTrap ==
  /\ Yield \/ Sleep \/ Tick \/ \E p \in table.waiting : WakeOne(p)
  /\ UNCHANGED <<memory, openfiles, pcbs, born, lost, access, forks>>

ResNext ==
  \/ \E name \in Programs, args \in ArgLists : CreateProgram(name, args)
  \/ ExitAndFree
  \/ \E transfers \in {"reads", "writes"} : DiskAccess(transfers)
  \/ OtherProcessTrap

ResSpec == ResInit /\ [][ResNext]_resVars

-----------------------------------------------------------------------------
(* Properties.                                                             *)

ResTypeOK ==
  /\ TypeOK
  /\ memory.freepages \in [Word -> SUBSET (0 .. WordBits - 1)]
  /\ memory.nfreepages \in 0 .. MaxPage - PageStart
  /\ memory.mapnum \in Word
  /\ openfiles \in [Slot -> [flags : 0 .. ReadWrite, name : Names \cup {NoName},
                            pos : Nat]]
  /\ lost \in 0 .. MaxOpen
  /\ access \in {"none", "ok", "failed"}
  /\ forks \in 0 .. MaxForks

Live == {p \in Proc : table.status[p] # "free"}
PagesOf(p) == {pcbs[p].pagetable[0] \div PageSize, pcbs[p].sysStack}

\* No page is lost, none has two owners and none is owned and free: every
\* process has two pages of its own behind the operating system, and all the
\* others are free, whatever creations failed and in whatever order processes
\* exit.
PagesAreOwned ==
  Running =>
    /\ \A p \in Live : /\ Cardinality(PagesOf(p)) = 2
                        /\ PagesOf(p) \subseteq PageStart .. MaxPage - 1
    /\ \A p, q \in Live : p # q => PagesOf(p) \cap PagesOf(q) = {}
    /\ FreePages(memory) = (PageStart .. MaxPage - 1) \ UNION {PagesOf(p) : p \in Live}

\* The count that MemoryAllocPage trusts is that of the bits, so its search for
\* a word with a free page never goes round for ever.
SearchEnds == MapIsCounted(memory) /\ ~memory.stuck

\* Between two traps the slots that are taken are the ones lost for good: slot
\* 0, and one for every text that was no executable.  A creation, also a
\* failed one, and an access to the disk leave nothing else open.
DescriptorsAccounted == Cardinality(OpenSlots(openfiles)) = lost

\* The disk can be read and written until every slot is lost.
DiskUsable == access = "failed" => lost = MaxOpen

\* Each process finds in its memory what the file of its program says, every
\* cell of it: no piece is skipped, read twice or put elsewhere, and no other
\* process, however it came and went, has touched the page since.
ProgramIntact ==
  \A p \in Live : LET image == Image(born[p].name) IN
    \A a \in DOMAIN image : UserCells(memory, pcbs[p], a, 1)[0] = image[a]

StringAt(p, at, string) ==
  UserCells(memory, pcbs[p], at, Len(string) + 1)
    = [i \in 0 .. Len(string) |-> IF i < Len(string) THEN string[i + 1] ELSE NUL]

\* A new process finds the strings it was created with by argc and argv: the
\* strings were packed, scanned, copied to the top of its page and described
\* by words below them.
ArgumentsArrive ==
  \A p \in Live :
    LET Word0(at) == UserCells(memory, pcbs[p], at, 1)[0]
        argc == Word0(pcbs[p].sp)
        argv == Word0(pcbs[p].sp + 1)
        delivered == Delivered(born[p].strings)
    IN  /\ IF born[p].by = "trap" THEN argc = delivered ELSE argc >= delivered
        /\ \A i \in 1 .. delivered :
             StringAt(p, Word0(argv + i - 1), born[p].strings[i])
=============================================================================

# A TLA+ verification project for the DLXOS file system lab

The repository is a small operating system for the simulated DLX processor
(`flat/os`), extended with a file system: a driver (`dfs.c`), a file API
(`files.c`) and a user program that formats the disk (`fdisk.c`). This directory
holds TLA+ modules that model it, configurations that model-check them with
TLC, and proofs that TLAPS checks. Paths below are relative to the repository's
root; line numbers are those of the files there.

## 1. The system

### Components

| Component | Code | State | Operations |
|---|---|---|---|
| Free block vector | `flat/os/dfs.c` 348-496 | `fbv`, an array of 32-bit words; a 1 is a block in use | `DfsAllocateBlock`, `DfsFreeBlock`, `block_allocated` |
| Mounting and closing | `flat/os/dfs.c` 9-334, `GracefulExit` in `traps.c`, `flat/apps/fdisk` | superblock copy `sb` with `sb.valid`, `fs_open`, the inode array, the image on disk | `DfsModuleInit`, `DfsOpenFileSystem`, `DfsCloseFileSystem`, `DfsInvalidate`, `DiskCreate`, the writes of fdisk |
| Inode layer | `flat/os/dfs.c` 506-1400 | 192 inodes: in use, name, size, ten direct blocks, one indirect block; `inode_lock`, and `block_lock` in the block functions | `DfsInodeOpen`, `-Delete`, `-ReadBytes`, `-WriteBytes`, `-FilenameExists`, `-Filesize`, `-AllocateVirtualBlock`, `-TranslateVirtualToFilesys`, `DfsReadBlock`, `DfsWriteBlock` |
| File API | `flat/os/files.c` | 15 open files: name, inode, mode, position, owner; `file_lock` | `FileOpen`, `-Close`, `-Read`, `-Write`, `-Seek`, `-Delete` |
| Processes | `flat/os/process.c`, `clock.c` | 32 PCBs, the queues `freepcbs`, `runQueue`, `waitQueue`, `zombieQueue`, `currentPCB`, the count of jiffies | fork, exit, yield, sleep, wake-up, schedule, timer interrupt |
| Synchronization | `flat/lib/synch.o` (assembler text), `include/os/synch.h` | tables of semaphores, locks and condition variables, each with a queue of sleepers | create, wait and signal; acquire and release; wait, signal and broadcast |
| Link queues | `flat/os/queue.c` | a pool of 400 links with `next`, `prev`, `queue` and `object`; queues with `first`, `last` and `nitems` | allocate, insert, remove, move |
| Emulated disk | `flat/os/disk.c` | the image file | create, read block, write block |
| UNIX descriptors | `flat/os/filesys.c` | 32 descriptors over the host's files | open, close, read, write, seek |
| Memory pages | `flat/os/memory.c` | map of free pages, their number, where the search goes on | allocate, free, translate, copy between spaces |
| Program loading | `flat/os/process.c` 592-734 | the position in the executable, the address loaded last | look for `start:`, read a piece, place it |
| Arguments | `flat/os/process.c` 847-861, 898-924; `traps.c` 290-393 | one buffer of 1024 characters | pack, scan, put on the user's stack |
| Traps | `flat/os/traps.c`, `dlxos.s`, `usertraps.s` | none of its own | one handler for each trap and interrupt |

The rest is `misc.c` (strings; `dstrncmp` decides which file names are equal),
programs that exercise the system (`ostests.c`, `file_test.c`, `makeprocs.c`),
`flat/os/sysproc.c` (commented out as a whole), `multilevel/` (a second exercise
that was never begun: its `dfs.c` and `files.c` hold nothing) and build outputs.

### How the components interact

A user program traps into the kernel. The handler runs with interrupts
disabled and calls the file API, which takes `file_lock` and calls the inode
layer, which takes `inode_lock` and reads and writes blocks under `block_lock`.
Allocation takes `fbv_lock`, and never sleeps inside it. A lock that is taken
suspends the calling process: it goes from `runQueue` to `waitQueue`, the
scheduler picks the next one, and the owner's release hands the lock over and
wakes the sleeper. The timer interrupts user mode only. So **the kernel is a
row of atomic steps that end where a process sleeps or returns**; this decides
what is one action in every module.

A process owns two pages (memory and system stack) and one link, and a second
link while it waits for an object. Creating one loads an executable of the host
through the same table of descriptors that every access to the emulated disk
needs. The pages of a process that exits are freed by the scheduler, in the
same trap but when its PCB is free already.

At boot `DfsModuleInit` opens the file system from the disk; `GracefulExit`
closes it. `fdisk` is an ordinary process that calls `dfs_invalidate` and then
writes the image under the running driver.

### What is hard here

* State looked at before a sleep and used after it: the owner of a file handle,
  the inode of a name, the lookup before a creation.
* Metadata on several blocks written one after another, with a crash or a
  failing access between any two.
* The hand-over of locks: a woken process owns what it waited for without
  looking again, so each hand-over must be to the right process, once.
* Condition variables: a release, a sleep, a wake-up and another acquisition.
* Word and mask arithmetic in which the shift amount is negative for every
  block but the first 32, and unsigned arithmetic for ranges inside a block.
* Failure paths that return with locks held, or with half the work done.
* Scheduling: a queue whose front is rotated whether or not the process at its
  front has run.
* Links that are given back and taken again on every change of queue, behind a
  pointer that each PCB keeps.
* A creation that fails with a PCB, two pages and a descriptor in hand.
* A program that is read in pieces of 200 characters, whose ends fall anywhere in
  its lines; arguments that are found again by offsets in a buffer.

`PROJECT.json` lists these hazards one by one, each with its line.

### What makes each component correct

* Free block vector: the bits are exactly the blocks in use; a block is given
  out to one caller; a double free does no harm.
* Mounting: a mark *valid* that a close or fdisk has made stands for complete
  metadata and is taken away by a mount, so that the driver's own sequences of
  writes never leave a torn image marked as clean. (The code does not get further
  than that: what is written to files goes over the metadata on the disk, and may
  spell a valid superblock; run `inode_in_file` and section 5.)
* Inode layer: no block serves two purposes; a name is one file; what is written
  is what is read. (Not so for bytes inside one block, section 5.)
* File API: a handle is what it was opened as until its owner closes it; nothing
  that was looked at before a sleep is used when it has changed.
* Processes: every PCB is on the one queue that its status names; the running
  process is in front; a process that computes does not keep the processor.
* Link queues: every link is in one queue, all pointers agree, none is lost and
  the pool never runs out; the queues are the sequences one thinks of.
* Memory and descriptors: nothing is owned twice, owned and free, or lost,
  except the descriptors that the code does lose (section 5).
* Loading: the memory of a process is what its file says, and its arguments are
  the strings it was given, as far as `get_argument` looks.
* Synchronization: no wake-up is lost, no sleeper is forgotten; a lock has one
  owner; a semaphore lets through what its units allow.

## 2. The modules

| Module | Models | Uses |
|---|---|---|
| `BlockPool` | what the free block vector promises: a set of blocks | |
| `FreeBlockVector` | `DfsAllocateBlock`, `DfsFreeBlock` on words and bits | refines `BlockPool` |
| `FreeBlockVector_proofs` | theorems about it | `TLAPS` |
| `DfsMount` | open, close, invalidate, exit, `DiskCreate`, fdisk | |
| `DfsMount_proofs` | theorems about it | `TLAPS` |
| `Process` | process table, scheduling, quantum | |
| `LinkQueues` | the routines of `queue.c`, as operators on a heap of links | |
| `ProcessLinks` | process table and sleepers of objects on those queues | extends `LinkQueues`, refines `Process` |
| `ProcessLinks_proofs` | theorems about it, the refinement among them | `TLAPS` |
| `MemoryPages` | pages, page table entries, copies between spaces | |
| `FsTable` | the descriptors of `filesys.c` | |
| `Loader` | looking up and loading an executable | extends `MemoryPages`, `FsTable` |
| `Arguments` | packing and finding arguments | |
| `Resources` | what processes own and what creating and ending them does to it; accesses to the disk | extends `Process`, `Loader`, `Arguments` |
| `Resources_proofs` | theorems about it | extends `Synch_proofs` |
| `Mutex` | what the locks promise | |
| `Synch` | semaphores, locks, condition variables over the process table | extends `Process`, refines `Mutex` |
| `Synch_proofs` | theorems about it and about `Process`, the refinement of `Mutex` among them | `TLAPS` |
| `DfsInode` | the inode functions, as operators from a driver state to an answer | |
| `DfsInode_proofs` | lemmas about those operators | `TLAPS` |
| `DfsCalls` | one caller of those functions | extends `DfsInode` |
| `DfsCalls_proofs` | theorems about it | extends `DfsInode_proofs` |
| `Files` | the file API, called by several processes | extends `DfsInode` |
| `Files_proofs` | theorems about it | extends `DfsInode_proofs` |
| `MC...` | values of the constants for TLC | |

**FreeBlockVector.** `fbv[i][j]` is bit `j` of word `i` counted from the most
significant end, the way `find_Open_Bit` counts. `ShiftedBit` is the bit that
`0x1 << (31 - k)` sets when the processor takes the amount modulo the width of
a word; the code relies on that for every word but the first (`dfs.c:404`).
`held` is a history variable: the blocks callers have been given and have not
freed. `valid` and `fsOpen` are there because `DfsAllocateBlock` looks at them
through `DfsCheckSystem`, and `DfsFreeBlock` does not.

**DfsMount.** One disk access is one step. A metadata block is the *version* of
its content: zeros, what fdisk writes, or the number of the change in memory
that produced it. That is all the properties tell apart. `Modify` changes the arrays in memory. `FileWrite(b)` is one
block of a file written: `DfsInodeWriteBytes` takes the number of the virtual
block for that of a block of the disk (`dfs.c:1132`), so the first blocks of every file
are the metadata on the disk, and those after them are not of interest here. It
leaves a version of its own there, or, in the superblock, one of
`FileSuper`: nonsense, invalid, valid (`FileValid`), or with other sizes
(`OtherSizes`). `kernel` and `fdisk`
say how far each has come; `Crash` stops the machine anywhere; an access may
fail `MaxFaults` times. `DiskCreate` is one trap, so no other process runs
between its writes, but the machine may stop there. `committed` is a history
variable: the metadata of the last close or format whose superblock was written.

**Process.** The routines of `process.c` are functions from a state of the
table to the next (`Fork`, `Suspend`, `Wakeup`, `Destroy`, `Schedule`), and
each trap composes them as its handler does: an exit is
`Schedule(Destroy(table, Current))`. A fork without a free PCB, or a schedule
without a runnable process, stops the system (`halted`), as the code exits the
simulator. Whether an executable can be loaded is a choice.

**LinkQueues, ProcessLinks.** A heap is a record of the four fields of every
link and the three of every queue; a routine is a function from a heap to the
next. `AQueueAllocLink` takes a link out by hand and `AQueueRemove` puts one back
into `freeLinks`, as in the code, so the pool is a queue like the others. A
routine that answers `QUEUE_FAIL` marks the heap as failed; every caller but one
(`AQueueMoveAfter` in `ProcessSchedule`, whose answer is ignored) then stops the
system. The routines of `process.c` are rebuilt on them, step for step, and the
refinement mapping reads the queues back as the sequences of `Process`.
`WaitIn(q)` and `WakeFirst(q)` stand for all the waits and wake-ups of
`synch.o`: a second link, in the queue of the object, is what they have in common.

**MemoryPages, FsTable, Loader, Arguments, Resources.** A memory is the map of
free pages (each word the set of its one bits), the count `nfreepages`, the word
`mapnum` where the last search ended, and the cells; a cell is a byte or a word.
A table of descriptors keeps the position that the host keeps. `Host[n]` says of
a file its size and which of the two file systems it names. An executable is a
sequence of lines, each with its length in characters, its address or none,
and its bytes; positions count characters, so `Taken` cuts a piece where
`ProcessGetFromFile` does, and `Image` says independently what the memory must
be. `GetArguments` gives the answers of `get_argument`, call by call.
`Resources` puts them together: `ResInit` is `main` from `FsModuleInit` to the
first process, `CreateProgram` the create trap, `ExitAndFree` an exit with the
zombie's pages, `DiskAccess` one block read or written. `born` (what each PCB was
loaded with) and `lost` (the descriptors that stay taken) are history variables.

**Synch.** `call[p]` is the handler in which `p` sleeps or has been woken; the
rest of it (`ReturnAwake`, `CondWaitAwake`) runs when `p` is the current
process again. `holds` (the locks a process was told it has) and `log` (the
count, signals and waits of a semaphore) are history variables. `synch.o` is
the only source there is of these routines; they are read from its assembler
text, and the header gives the sizes and the records.

**DfsInode.** A driver state is a record of inodes, blocks in use and disk. Each
function answers the next state, its return value, the locks it takes, and
those it does not give back: several failure paths return with `inode_lock` or
`block_lock` held, and so does every in-block write and in-block read that
*succeeds*. A block is `B` cells; a cell is a byte or a pointer of the indirect
block. `Garbage` is what the kernel's stack may hold, which a new indirect block
takes over. Blocks are given out lowest first, which is what
`FreeBlockVector` does. `Match` is the set of pairs of names that `dstrncmp` calls
equal when it is given the length of the name looked for (`dfs.c:659`): one is
the beginning of the other. So it contains every pair of a name with itself and
every pair in both orders, which two assumptions say; it need not be transitive.

**DfsCalls** has one caller, who is not disturbed, and remembers the locks it was
left with. **Files** runs the same functions from several processes. A handler
there is a row of parts, each of which begins with a lock; `call[p]` is the part
in which `p` sleeps. The state that a later part uses, such as the slot found
or the inode, is what the handler keeps in its variables, so a value read before
a sleep is used after it exactly where the code does so.

## 3. The runs

`tlc -config X.cfg M` in this directory; the sizes are in the `.cfg` files.

### Runs that pass

| Run | Shows | Bounds, and why they are enough |
|---|---|---|
| `fbv` | `BitsMatchHolders`, `FreshBlock`, and that the words and masks implement `BlockPool` | three words of three bits, the first word full of metadata and one bit in the second: first, middle and last word, full and partly full words, shift amounts below and above zero, a full vector |
| `mount` | `ValidIsTruthful`, `MountedIsMarked`, `MarkHoldsCommitted`, `FormatSurvives` | two inode blocks and one vector block: writes that are first, in the middle and last of a group; three changes, in memory or by files on the disk, and two failing writes; any number of boots, crashes and closes |
| `process` | `QueuesMatchStatus`, `CurrentIsFront`, and the liveness property `ComputingShares` | four PCBs, quantum 2: the run queue can have a front, a middle and an end, and PCBs run out |
| `links` | `WellLinked`, `QueuesNeverFail`, `LinkIsOwn`, and that the queues implement `Process` | three PCBs, six links (two for each PCB, the least that is enough; 400 for 32 in the code), two objects to wait for: queues of none, one, two and three links, a full and an empty pool |
| `synch` | `SleepersAreQueued`, `HoldersOwn`, `SleepersAreBlocked`, `SemCountsUnits`, and that the locks implement `Mutex` | four processes; two locks, so that they can be held in both orders, with one condition variable, or one semaphore with initial counts -1, 0 and 1 and up to four waits and signals (two waiters below zero is how `makeprocs.c` uses one as a barrier); exits with and without locks |
| `resources` | `PagesAreOwned`, `SearchEnds`, `DescriptorsAccounted`, `DiskUsable`, `ProgramIntact`, `ArgumentsArrive` | five pages in two words of the map for three PCBs, so that a creation gets two pages, one or none; five descriptors, of which the boot can lose three and two creations the rest; pieces of 12 characters over lines of 4, 5 and 8, with gaps, addresses inside a piece and a cell given twice; arguments that fit, that fit exactly and that do not |
| `inode_blocks` | `BlocksAreOwned`, `NamesApart`, `ReadsBack` | blocks of three cells; ranges that fill a block, lie inside one, and run over several, which overlap; any handle, also of an inode that is not in use; four free blocks for two files of up to three, so that allocation fails half-way; three names, two of which are equal to the driver |
| `files` | `EntriesNameFiles`, `BlockWaitersStay` | two processes with a name each, two handles, two inodes, four free blocks; modes `w` (which truncates) and `rw`; writes, reads and seeks back |

`process`, `links`, `synch`, `resources` and `files` do not check for deadlock: the
first four stop when the system has halted, or when every process has gone; in
`files` the processes really do block for ever, since calls keep their locks
(section 5).

What the properties say is in the comments above them. Each one has a mutant in
`PROJECT.json`: a bug of the kind one would make in that code (a dropped test, a
loop that ends early, the superblock written first, a queue not emptied), with
which TLC finds the property violated. The properties are not consequences of
the model's shape.

Four restrictions matter for reading these results:

* In `mount` the reads of an open do not fail (except past the end of the
  image, where they do). With failing reads the driver is up on metadata
  that it has not read, which is what `mount_proper` shows. A superblock with other
  sizes, which only a file can have written, is not opened: the loops of the open
  would run over the kernel's arrays. `ValidIsTruthful`, `MountedIsMarked` and
  `MarkHoldsCommitted` speak of the mark that the driver or fdisk made
  (`SuperValid`), not of file bytes that read the same (section 5).
* In `synch` a behaviour uses the semaphore or the locks and the condition variable,
  and not both (the constraint `OneKind` in `MCSynch`). They have no code and no
  state in common but the process table.
* In `inode_blocks` the stack holds zeros and files fit the direct blocks.
  The indirect block is reached in `inode_delete`. `ReadsBack` compares ranges that
  are cut up in parts, and any range with itself; with a range inside one block it
  does not hold (section 5).
* In `files` two processes do not use the same name. When they do, a refused
  open takes the file over (section 5), `EntriesNameFiles` does not hold, and one
  file may be created twice. `BlockWaitersStay` needs none of this: it is
  proved for shared names, too. Failing calls keep their locks, so the long
  sequences after them are those of the process that holds the locks.

### Runs that find a disagreement

Each of these checks one sentence of the repository and ends with a
counterexample.

| Run | Sentence | What the code does |
|---|---|---|
| `mount_proper` | README.md:12, the driver fails "if the file system is invalid" and "will not run" unless the superblock "was initialized properly" | an open that fails after the superblock leaves `fs_open` and `valid` set, and `DfsModuleInit` ignores the failure (`dfs.c:201`): the trace. With `ReadFaults = FALSE` the same property breaks where the field valid that was read is not tested and an image left invalid by a crash is mounted (`dfs.c:174`) |
| `inode_in_file` | `dfs.c:1062`, "to the file represented by the inode handle" | the virtual block number is used as the number of a block of the disk, so a write at the start of a file changes block 0, the superblock (`dfs.c:1132`) |
| `inode_delete` | `dfs.c:753`, "de-allocates any data blocks used by this inode" | a delete that fails half-way, tried again, frees the blocks of another file (`dfs.c:840`) |
| `files_stale` | `files.c:226`, "Verify the process has authority over file" | `FileClose` checks the owner, then sleeps for `file_lock`, then closes whatever is in the slot |

### Fairness

Only `Process` has a liveness property. Its fairness is `WF_vars(Tick)`: the
timer keeps interrupting. `ClkStart` starts it and `ClkInterrupt` sets it again
each time, and user mode, in which the system is between two steps, has
interrupts enabled. Nothing is assumed about what processes do: `ComputingShares`
holds for those executions in which, from some point on, only timer interrupts
and yields happen. (In others a process can sleep for ever or a stream of new
processes can come before it, and the code does not promise otherwise.)

## 4. What is proved

Eight modules of proofs hold for every value of the constants: every number of
words, blocks, cells, processes, locks, inodes and open files, every quantum,
every set of names and of ranges. They assume only what the `ASSUME`s next to
the `CONSTANTS` say (sizes are positive, metadata blocks are blocks, values that
stand for "none" are not among the others, `Match` as in section 2) and, where a
theorem says so, one of three hypotheses:

| Hypothesis | In | What it excludes, and why it is needed |
|---|---|---|
| `~ReadFaults` | three theorems of `DfsMount_proofs` | reads of an open that fail. The driver then runs on metadata that it has not read and a close writes that (`dfs.c:201`); with `ReadFaults = TRUE` TLC finds `ValidIsTruthful` violated. Writes may fail, and the machine may stop, anywhere |
| `DirectExtents` | two theorems of `DfsCalls_proofs` | ranges that reach the indirect block. Its vector starts as what the stack held (`dfs.c:1306`), so a file may name any block: the run `inode_delete` shows what comes of it |
| `SeparateNames` | `EntriesAlwaysNameFiles` of `Files_proofs` | two processes with names that a lookup takes for each other, and names like `a`, `ab`, `ac`. TLC finds `EntriesNameFiles` violated without either half (section 5) |

The passing runs satisfy these hypotheses, so each theorem says for all sizes what a run
shows for one.

**FreeBlockVector_proofs**

* `TypeCorrect`: `Spec => []TypeOK`.
* `BitsMatchHoldersHolds`: `Spec => []BitsMatchHolders`.
* `FreshBlockHolds`: `Spec => FreshBlock`.
* `ImplementsPoolHolds`: `Spec => ImplementsPool`.

`BitsMatchHolders` is inductive together with `TypeOK`. The work is in the
arithmetic: `BlockSplit` and `BlockJoin` (a block is a word and a bit, and
nothing else is), `Remainder` and `ShiftLemma` (the mask built from the *block*
number sets the bit of the block *in its word*, on both sides of zero),
`FindOpenBitLemma` (the search answers the first clear bit) and `ToggleLemma`
(exactly one block changes). Then one lemma for each of the two operations, and
`StepLemma`, which says how each step changes the sets of used and held blocks.
The refinement follows from the same lemmas: a successful allocation is
`Allocate`, a refused one too because no word is open only when every block is
used (`FullMeansAllUsed`), and opening and closing are `Switch`.

**Synch_proofs, the process table**

Of the module `Process`, with its `Spec`:

* `TypeCorrect`: `Spec => []TypeOK`.
* `QueuesAlwaysMatch`: `Spec => []QueuesMatchStatus`.
* `CurrentAlwaysFront`: `Spec => []CurrentIsFront`.

The inductive invariant is the conjunction of the three. Neither of the last two is
inductive alone: `Suspend` and `Destroy` take the link of the *current* process
out of the run queue, which is right only if the current process is on it
(`CurrentIsFront`), and `Schedule` leaves the right process in front only if the
queue and the statuses agree. The proof has lemmas for queues (what `Append`,
`Tail`, `Unlink`, concatenation and rotation do to "holds exactly these, each
once"), one lemma for each routine of `process.c`, and one step for each trap.

**ProcessLinks_proofs**

* `TypeCorrect`: `Spec => []TypeOK`.
* `AlwaysWellLinked`: `Spec => []WellLinked`.
* `QueuesNeverFailHolds`: `Spec => []QueuesNeverFail`.
* `LinkAlwaysOwn`: `Spec => []LinkIsOwn`.
* `ImplementsProcessHolds`: `Spec => ImplementsProcess`.

The only assumption about sizes is the one of `ProcessLinks`: a pool of at least two
links for each PCB (400 for 32 in the code). The argument has four layers.

1. *Pointers.* `Rep(h, c, out)` says that the heap `h` represents the sequences
   `c`, one for each queue, while the links `out` are between two queues. Each
   routine of `queue.c` takes a heap that represents some sequences to one that
   represents the expected ones (`DetachLemma`, `InsertLastLemma`, `InsertFirstLemma`,
   `AllocLemma`, `RemoveLemma`, `MoveLemma`), with queues of no, one and more links.
2. *Processes.* `State(k, v, w, off)` forgets the links: the queues of processes are
   the sequences `v` of PIDs, `w` says which process a link in an object stands
   for, and the processes `off` are on no queue, as in the middle of a routine of
   `process.c`. Every routine has a lemma in these terms, and the same lemma says
   that it does what the operator of `Process` does.
3. *The pool.* A routine fails only when no link is free. Every PCB has one link in a
   queue of processes, a process that sleeps in an object has one more, and the
   current process sleeps nowhere; so one of `2 * NumProcs` links is free
   (`FreeLinkLeft`, with the pigeonhole theorem of the library).
4. *Recursion.* `Objects`, which walks a chain, the loops of `AQueueModuleInit` and
   `ProcessModuleInit` and `FreeZombies` are recursive functions. `CountUp` ("what
   holds of 0 and of the next number holds of every number up to a bound", from
   the least number of which it would not hold) is applied to each of them as a
   set of numbers, which needs no induction theorem with an operator
   (`ChainLemma`, `FreeLinksFilled`, `PCBsBooted`, `ZombieLoop`).

The inductive invariant `IInv` says that some sequences and sleepers make up the
kernel (`State`), that whoever sleeps in an object waits, in one object only
(`WaitsOK`), and that the table so read is `Settled` in the sense of `Process`. The
four invariants follow from it, and `NextReaches` takes each trap to the trap
of `Process` with the same name: the wait in an object to `Sleep`, the wake-up of the
first sleeper to `WakeOne`.

**DfsMount_proofs**

* `TypeCorrect`: `Spec => []TypeOK`.
* `ValidIsTruthfulHolds`: `~ReadFaults => (Spec => []ValidIsTruthful)`.
* `MountedIsMarkedHolds`: `~ReadFaults => (Spec => []MountedIsMarked)`.
* `MarkHoldsCommittedHolds`: `~ReadFaults => (Spec => MarkHoldsCommitted)`.
* `FormatSurvivesHolds`: `Spec => FormatSurvives`, whatever fails.

All of them hold with files written over any block of the metadata on the disk, at any
time between an open and a close. That is no contradiction to the
finding `inode_in_file`: they are about the mark that the driver or fdisk has made.
A file write can only come while the file system is up, when that mark is gone from the
image, and what it may put there instead is not that mark; the next close writes all of
the metadata from memory, and only then marks it.

`MountInv` adds to the properties what each sequence of accesses has done so far:
an open has read the blocks before the next one as they are on the disk
(`OpenProgress`); a close has written those before the next one, under a mark
that says invalid (`CloseProgress`); `DiskCreate` leaves zeros or nothing, and
fdisk the format up to its place (`ZeroProgress`, `FormatProgress`). It also needs that
a valid image has no hole (`ValidIsWhole`), since a hole is the one thing that ends an
open early when reads do not fail. `FdiskAlone` (fdisk goes on only while
the system runs with `valid` cleared) carries `FormatSurvives`: it is why a
`GracefulExit` in the middle of a format writes nothing.

**Synch_proofs, the synchronization**

* `SynchTypeCorrect`: `Spec => []SynchTypeOK`.
* `SleepersAlwaysQueued`: `Spec => []SleepersAreQueued`.
* `HoldersAlwaysOwn`: `Spec => []HoldersOwn`.
* `SleepersAlwaysBlocked`: `Spec => []SleepersAreBlocked`.
* `SemAlwaysCountsUnits`: `Spec => []SemCountsUnits`.
* `LocksImplementMutexes`: `Spec => LocksAreMutexes`.

(`Spec` is that of `Synch`.) `SynchInv` contains the invariant of the process
table, whose lemmas say what the routines of `process.c` do to the table; here only who is
asleep matters. The parts that are not properties:
`HandedOver` (a process that was given a lock in its sleep owns it until it
runs and returns: without it `HoldersOwn` breaks at `ReturnAwake`), `CallsOK` (who
waits for a condition waits for one that exists and comes back to a lock that
exists: `CondWaitAwake` acquires without looking), and in `Balanced` the clause
that the count is not negative once somebody has been let through, which is what
makes a negative initial count add up. Queues are the sets of sleepers, each once,
so a hand-over wakes one process and takes that one out. A release with a
queue is then `HandOver` of `Mutex`, one without is `GiveUp`, and `Acquire` is
`Take`, `Wait` or, by the owner, a stutter.

**DfsInode_proofs** has the lemmas about the inode functions that the next two
modules share, and no theorem of a specification. Two are hard. `NthExists`: the
`n`-th free block exists as long as there are `n`; it is proved from "every
set of numbers has a least one" (`LeastOf`) and not by induction, so that
blocks allocated in one call are free and differ (`FreshIsFree`, `FreshDistinct`).
`PlaceIsCell` and `PartsMeet`: the first part, the whole blocks and the last part of a
range that does not lie inside one block meet, so a byte has the same place
whatever range it is written or read in; `WriteStoresRange` says what a write leaves
on the disk, and `WriteReadsBack` what a read then gives.

**DfsCalls_proofs**

* `TypeCorrect`: `Spec => []TypeOK`.
* `NamesAlwaysApart`: `Spec => []NamesApart`.
* `BlocksAlwaysOwned`: `DirectExtents => (Spec => []BlocksAreOwned)`.
* `WritesReadBack`: `DirectExtents => (Spec => ReadsBack)`.

`NamesApart` is inductive with the types: a name is added only when the lookup
finds none, and `Match` is symmetric, so it does not matter which of the two names
is looked for. `BlocksAreOwned` is inductive with `DirectFiles` (no file has an
indirect block), which `DirectExtents` keeps, and with the metadata being in use. An
allocation that fails half-way has put free blocks into its own file only
(`AllocateOwned`); a delete then meets no block that is not in use, so it goes
through and frees all that its table named (`DeleteOwned`).

**Files_proofs**

* `TypeCorrect`: `Spec => []TypeOK`.
* `EntriesAlwaysNameFiles`: `SeparateNames => (Spec => []EntriesNameFiles)`.
* `BlockWaitersAlwaysStay`: `Spec => BlockWaitersStay`.

A handler is a row of parts, and every theorem has to hold over the sleeps between
them. The inductive invariant `Good` of the second one adds to `EntriesNameFiles`, all for
separate names, `Apart` (no two inodes in use have one name), `Ordered` (whoever is
in an inode function has `file_lock`, whoever sleeps has a call), `Named` (a
process asks for its own names) and `Pending`: what a handler has found out before it
sleeps is still so when it wakes. A process that is to truncate still has the
inode that the name finds, and the slot that names it; one that is to create still
finds nothing. `file_lock` alone does not give this, since a refused open goes on
without it (`files.c:145`) and a failed call returns with it; it does
because, with separate names, an open is never refused. `Holds` and `Running` say
what is so *while* a handler runs, when its own locks are not yet given back:
each part has a lemma from `Running` to `Good`, and `HandlerGood` puts them
together. TLC has checked `Good` on the run `files`.

One case is less obvious than it looks: the creation that follows a truncation
runs with nothing in between, takes `inode_lock`, which the deletion has just given
back, and finds an inode free, the one just deleted. It therefore neither sleeps nor
fails, and no state has an entry whose file is gone.

The third theorem has an invariant of its own: nobody sleeps for `block_lock`
(`NoWaiter`), or one process does, alone, in a call and with `inode_lock` (`Waiter`).
Every part of a handler of another process keeps that (`Undisturbed`): to give
`block_lock` back, or to come to sleep for it, it would need `inode_lock`. A part of the
process's own can at most put it to sleep (`Kept`).

**Resources_proofs**

* `ResourcesTyped`: `ResSpec => []ResTypeOK`.
* `PagesAlwaysOwned`: `ResSpec => []PagesAreOwned`.
* `SearchAlwaysEnds`: `ResSpec => []SearchEnds`.
* `DescriptorsAlwaysAccounted`: `ResSpec => []DescriptorsAccounted`.
* `DiskAlwaysUsable`: `ResSpec => []DiskUsable`.

They hold for any number of PCBs, pages, words and slots, any host and any
executables, which need not fit a page. `Host`, `Lines` and the like are
arbitrary but for these assumptions of `Loader` and `Resources`: the file of the
disk exists and has a block (`DiskAssumption`; it is what `DiskCreate` makes), an
executable is a text in which `start:` can be found and that has a line
(`InfoAssumption`, `ExecutableAssumption`), a line has a length and bytes
(`LineAssumption`) that add up to the size of the file (`LinesAssumption`) and fit a
piece (`PieceAssumption`, section 6), and there are fewer options `-f` than slots
(`DumpAssumption`, a bound: the 32 slots are never used up by the command line).

The inductive invariant `ResInv` is the invariant of `Process` with two parts.

1. *Pages* (`PagesInv`). Some set `F` is what the words, the bits, and the count say
   (`MapIs`), and while the system runs `F` is what the pages of the living
   processes leave (`Owned`). `PageSplit` and `PageJoin` say that a page is a word
   and a bit and nothing else is; with them an allocation takes one page of
   `F` or none and a release adds one (`AllocPageLemma`, `FreePageLemma`). The
   search starts at the word where the last one ended and cannot go round, since a
   positive count means that `F` has a page and its word a one bit: that is why
   `SearchEnds` is no invariant by itself. `PagesAreOwned` needs the process table:
   a creation writes the PCB in front of the free queue, which must belong to
   nobody (`GrantLemma`), and an exit gives back the pages of the one zombie
   (`ReclaimLemma`), which is the process that ended because no other zombie was
   left (`Settled`). A halted system may have stopped between a page and
   its owner, so `Owned` is said of a running one.
2. *Descriptors* (`SlotsInv`). The table is used as a set of taken slots; slot 0 is one
   of them from boot on, and there are as many as `lost` says. Slot 0 matters:
   `FdValid` refuses it, so had it been free, the next open would hand out a descriptor
   that nobody can close. Each routine leaves the set of slots as it was
   or with one more, and says which (`FsOpenLemma`, `CodeInfoLemma`, `LoadLemma`,
   `VisitLemma`, `DumpLemma`). `DiskUsable` needs that a full table is one in which
   all are lost.

The loop that loads an executable runs until a read fails, over lines of any number. What
it does to the slots and the map is proved from the least number of rounds for
which it would not hold (`CountUp`, as in `ProcessLinks_proofs`); what it
puts into the memory is not. The fold over the
zombies is a fold over none or one (`FoldNone`, `FoldOne`).

**Only model-checked.** The liveness property `ComputingShares`: liveness under fairness
is out of the prover's reach. `ProgramIntact` and `ArgumentsArrive`: what the loop over
the pieces of a file computes, for files of any length, and where a scan finds
strings of any length are inductions over data, and both hold only for files
and strings that fit a page, which the run's do. Every other property of a passing
run is a theorem.

## 5. Where code and documents differ, without a run

These came up while modelling. The models do what the code does in each case.

* `DfsFreeBlock` does not call `DfsCheckSystem` (README.md:12; `dfs.c:456`).
* The image of a mounted file system is to say invalid (`dfs.c:228`, "Change superblock
  to be invalid, write back to disk"), and does not any more when a whole block has been
  written at the start of a file and its bytes read as a valid superblock: the write
  goes to block 0 of the disk (`dfs.c:1132`). A crash then leaves an image that the next
  boot takes for clean. In `DfsMount` this is `FileWrite(0)` with `FileValid`.
* A write inside one block puts its bytes at the end of the block (`dfs.c:1163`) and not
  at their offset (`dfs.c:1062`-1063, "starting at virtual byte start_byte"), and a read
  inside one block takes them from there (`dfs.c:997`). A read of the whole block finds
  other bytes at the offset, so `ReadsBack` leaves these pairs of ranges out.
* `DfsInodeReadBytes`, too, takes virtual block numbers for numbers of the disk
  (`dfs.c:972`), so all files share their bytes with each other and the metadata; the
  run `inode_in_file` is spent on the writes.
* A write allocates blocks for the whole file up to its last byte, also where
  there are some (`dfs.c:1108`-1121); the old ones are lost.
* A delete never frees the indirect block (`dfs.c:753`-754; 823-856).
* A name that is the beginning of another is the same file (`dfs.c:659`,
  `misc.c` 61-82).
* `FileOpen` with mode `w` deletes the file found and looks the name up again. When
  the names `a`, `ab` and `ac` are in use, of which `a` is the beginning of both
  others, opening `a` deletes `ab`, then finds `ac`, and makes a second entry for
  it if it is open (`files.c` 166-184; `dfs.c:659`): one process alone gets two
  handles on one inode.
* `DfsInodeOpen` looks for the name before it takes its lock (`dfs.c:693`), though it
  says "If the filename exists, return the handle of the inode. If it does not,
  allocate a new inode for this filename" (673-675). In `Files` with a shared name: one
  process has `a` and `b` open and, after a write inside one block, keeps `inode_lock`;
  the other is refused `a`, gives `file_lock` back, goes on (`files.c:145`) and sleeps
  for `inode_lock` to delete `a`; then both look for `a`, do not find it, sleep, and
  create it: one name, two inodes.
* In-block writes and unaligned reads return with `inode_lock` held
  (`dfs.c:1174`). Their process can then wait for `file_lock` while its owner
  waits for `inode_lock`: a deadlock, which `Files` reaches. No document promises an
  order of locks, and no property claims one.
* A refused read or write of a block returns with `block_lock` and `inode_lock` held
  (`dfs.c` 528-531); whoever comes to wait for `block_lock` waits for ever
  (`BlockWaitersStay`).
* An open of a file that another process has open says so, gives `file_lock`
  back and goes on, and takes the file over (`files.c:137`-148).
* A successful `FileOpen` returns with `file_lock` held (`files.c:221`;
  README.md:12 and 19); the next call of the same process gives it back.
* A refused seek leaves the position past the end and `file_lock` held, and
  the length of the next read is negative (`files.c:290`, 448-456).
* A process that exits keeps its locks (`process.c` 306-322).
* `ProcessSchedule` rotates the run queue also after a sleep or an exit, so the
  process that was to be next goes to the end (`process.c:204`).
* A quantum is one jiffy longer than `CLOCK_PROCESS_JIFFIES` (`clock.c:62`).
* `CondHandleBroadcast` calls `CondSignal` (`synch.o:4029`).
* `ProcessGetCodeInfo` does not close a file that has no `start:`
  (`process.c:617`), though its descriptor "MUST be closed" (588-589): the caller
  gets -1 and cannot. `lost` counts them; when all slots are lost no program is
  loaded and no block of the disk is read (`DiskUsable`).
* `FsOpen` hands out descriptor 0 first, and `FdValid` refuses it everywhere
  (`filesys.c:34`): the first file opened, `vm` or the executable of an option
  `-f`, can be neither read nor closed.
* Option `-f` ends with `close(fd)` (`process.c:804`), which closes a file of the
  host by the number of a slot; the slot stays taken.
* `MemoryTranslateUserToSystem` accepts the page behind the last one
  (`memory.c:169`), so a copy that runs on goes to physical page 0 and does not
  stop "at the first unmapped address" (190-191).
* `get_argument` looks at the first 100 characters (`process.c:915`), though
  `traps.c` 284-287 allows 1024 of them; later arguments are dropped, and an
  empty one ends the list. `Delivered` states what does arrive.
* The trap refuses arguments that are exactly as long as the buffer
  (`traps.c:344`; "less than or equal", 286-287).
* The branch for callers in system mode writes the first argument over the name
  (`traps.c:367`).
* `main` packs the arguments into a buffer it has not cleared (`process.c:758`):
  what is behind them may look like more of them. `Fillers` is what it may hold.
* `DiskReadBlock` tests `filename[11]` of a null pointer (`disk.c:125`).
* A page is not cleared between two owners (`memory.c` 110-136); what a program's
  file does not mention keeps the last owner's bytes.

## 6. What is not modelled, and why

* *Behaviour after memory is overwritten.* A read of a negative length, an
  access to `inodes[-1]` or `files[-1]`, and files longer than the indirect
  block's vector write over the kernel; what follows depends on the linker. The
  guard `Followed` in `Files` and the assumption on `Extents` in `DfsCalls` leave
  these executions out. A seek before the start of a file (2^32 less) is
  left out with them.
* *Disk faults in `DfsInode` and `Files`.* They belong to `DfsMount`; the inode
  functions are modelled on a mounted system whose disk works. `DfsCheckSystem`
  is true there.
* *The exit of a process in `Files`.* It is a process that makes no more calls;
  its locks stay, as in the code. That its PID is used again is not modelled.
* *The eof flag* of an open file: it decides only whether a read at the end
  answers -1 by one branch or another (`FILE_EOF` and `FILE_FAIL` are both -1).
* *The order of `waitQueue`*, which is never looked at.
* Copying between address spaces, saving registers, `printf`, the keyboard, the
  string functions other than `dstrncmp`, debugging: no state that a property
  is about.
* `multilevel/`, `sysproc.c` and the build outputs: there is no code to model.
* `MemoryGetOperandAddress` and `MemoryPteToPage` compute an address and change
  nothing. There is no page fault handler: a page fault ends the whole system
  (`traps.c` 812-815), which is `GracefulExit` of `DfsMount`; that it stops the other
  modules between two steps is an end that every behaviour may have.
* The number of a program's start address, and what `printf` shows of a file
  that `-f` lists. That an executable has a line longer than a piece is
  excluded by `PieceAssumption`: the search for its end would leave the buffer.
  An executable whose last line has no newline cannot be written down in `Loader`,
  where a line is what a newline ends: `ProcessGetFromFile` backs up to the last newline
  (`process.c` 686-690), so it would drop that line, or leave the buffer when it is
  alone in its piece.
* The interrupt flag that a failing disk access leaves disabled (`disk.c:91`): the
  return from the trap restores the flag of the caller, so nothing outside that
  trap sees it.
* `FsDelete`, which no code calls.

## 7. Plan

The order follows how much depends on a part: blocks, mount, processes, locks,
inodes, files, then queues, memory, descriptors and programs. These are done.
What is left to model, in this order:

1. In `Files`, processes that end and PIDs that are used again; in `DfsCalls`, a
   passing run with an indirect block.
2. The numbers and strings of `misc.c` (`dstrtol`, `ditoa`, `dstrstr`) against
   reference definitions.

Proofs: every safety property of a passing run is proved but `ProgramIntact` and
`ArgumentsArrive`. Lemmas about one round of the loader (`Taken`, `Collected`) and
about one answer of `get_argument` could be proved for a file that fits its page; the
sum over all rounds stays with TLC.

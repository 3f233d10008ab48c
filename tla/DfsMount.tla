------------------------------ MODULE DfsMount ------------------------------
(***************************************************************************)
(* The life of the DFS metadata on disk: DfsModuleInit, DfsOpenFileSystem, *)
(* DfsCloseFileSystem and DfsInvalidate (flat/os/dfs.c), the close in      *)
(* GracefulExit (flat/os/traps.c), DiskCreate (flat/os/disk.c) and the     *)
(* user program fdisk, with loss of power between any two disk accesses    *)
(* and with disk accesses that fail.                                       *)
(*                                                                         *)
(* Block 0 is the superblock; then come the blocks of the inode array and  *)
(* those of the free block vector.  A metadata block is represented by the *)
(* version of its content: zeros, what fdisk writes, or the number of the  *)
(* change that produced it, in memory or by the write of a file, which     *)
(* goes to these blocks too.                                               *)
(***************************************************************************)
EXTENDS Integers, FiniteSets

CONSTANTS NumInodeBlocks, \* blocks of the inode array (18)
          NumFbvBlocks,   \* blocks of the free block vector (2)
          MaxVersion,     \* bound on the changes of metadata
          MaxFaults,      \* bound on the disk accesses that fail
          ReadFaults      \* TRUE when the reads of an open may fail too

ASSUME SizeAssumption == NumInodeBlocks \in Nat \ {0} /\ NumFbvBlocks \in Nat \ {0}
ASSUME BoundAssumption == MaxVersion \in Nat /\ MaxFaults \in Nat
ASSUME SwitchAssumption == ReadFaults \in BOOLEAN

VARIABLES disk,      \* disk[b]: content of block b of the image
          mem,       \* the inodes and fbv arrays of the kernel, as blocks
          valid,     \* sb.valid
          fsOpen,    \* fs_open
          kernel,    \* what the operating system is doing, and its next block
          fdisk,     \* where the fdisk process is, and its next write
          version,   \* number of changes of metadata so far
          faults,    \* disk accesses that have failed so far
          committed  \* history: the metadata of the last full close or format

vars == <<disk, mem, valid, fsOpen, kernel, fdisk, version, faults, committed>>

NumMeta == NumInodeBlocks + NumFbvBlocks
Meta    == 1 .. NumMeta
Block   == 0 .. NumMeta

\* Contents of a metadata block; from 2 on they are versions.
Missing == -1  \* past the end of the image file
Zeros   == 0
Format  == 1   \* the free block vector that fdisk writes
Content == Missing .. MaxVersion + 1

\* Contents of the superblock, which is in the second half of its block.  Bytes
\* of a file, those from 512 on, may read as a valid superblock or as one with
\* other sizes (dfs_shared.h 9-18); they are kept apart from what the driver and
\* fdisk write.
SuperInvalid == 1
SuperValid   == 2
FileValid    == -2
OtherSizes   == -3
FileSuper    == {Zeros, SuperInvalid, FileValid, OtherSizes}
SuperContent == {Missing, SuperValid} \cup FileSuper

SaysValid(content) == content \in {SuperValid, FileValid}

CheckSystem == valid /\ fsOpen

-----------------------------------------------------------------------------
(* Disk accesses.                                                          *)

\* DiskWriteBlock seeks and writes; a hole before the block reads as zeros.
Written(b, content) ==
  [c \in Block |-> IF c = b THEN content
                   ELSE IF c < b /\ disk[c] = Missing THEN Zeros ELSE disk[c]]

\* An access that the code answers with DISK_FAIL.
Fault == faults < MaxFaults /\ faults' = faults + 1
NoFault == UNCHANGED faults
ReadFails(b) == \/ disk[b] = Missing /\ NoFault
                \/ ReadFaults /\ Fault

At(place, next) == [at |-> place, next |-> next]

Idle == At("idle", 0)

\* The machine stops: everything but the image is gone.
PowerOff ==
  /\ kernel' = At("off", 0)
  /\ fdisk' = Idle
  /\ mem' = [b \in Meta |-> Zeros]
  /\ valid' = FALSE
  /\ fsOpen' = FALSE

Init ==
  /\ disk = [b \in Block |-> Missing]
  /\ mem = [b \in Meta |-> Zeros]
  /\ valid = FALSE
  /\ fsOpen = FALSE
  /\ kernel = At("off", 0)
  /\ fdisk = Idle
  /\ version = 0
  /\ faults = 0
  /\ committed = [b \in Meta |-> Missing]

-----------------------------------------------------------------------------
(* Opening: superblock, inodes, vector, then the invalid mark.             *)

Boot ==
  /\ kernel.at = "off"
  /\ kernel' = At("open", 0)
  /\ valid' = FALSE
  /\ fsOpen' = TRUE
  /\ UNCHANGED <<disk, mem, fdisk, version, faults, committed>>

\* DfsModuleInit ignores the answer of DfsOpenFileSystem: the system runs.
\* With other sizes the loops run over the kernel's arrays; not followed.
OpenSuper ==
  /\ kernel = At("open", 0)
  /\ \/ /\ ReadFails(0)
        /\ kernel' = At("run", 0)
        /\ UNCHANGED <<valid, fsOpen>>
     \/ /\ disk[0] \notin {Missing, OtherSizes}
        /\ NoFault
        /\ valid' = SaysValid(disk[0])
        /\ fsOpen' = (disk[0] # Zeros)
        /\ kernel' = IF disk[0] = Zeros THEN At("run", 0) ELSE At("open", 1)
  /\ UNCHANGED <<disk, mem, fdisk, version, committed>>

LastReadButOne == NumMeta - 1 \* mutant: the loop over the vector stops early
LastRead == NumMeta

OpenBlock ==
  /\ kernel.at = "open"
  /\ kernel.next \in 1 .. LastRead
  /\ LET b == kernel.next IN
       \/ /\ ReadFails(b)
          /\ kernel' = At("run", 0)
          /\ UNCHANGED mem
       \/ /\ disk[b] # Missing
          /\ NoFault
          /\ mem' = [mem EXCEPT ![b] = disk[b]]
          /\ kernel' = At("open", b + 1)
  /\ UNCHANGED <<disk, valid, fsOpen, fdisk, version, committed>>

\* Mutant: the superblock is not marked invalid on the disk.
OpenWithoutMark ==
  /\ kernel = At("open", NumMeta + 1)
  /\ valid' = TRUE
  /\ kernel' = At("run", 0)
  /\ UNCHANGED <<disk, mem, fsOpen, fdisk, version, faults, committed>>

OpenMark ==
  /\ kernel = At("open", LastRead + 1)
  /\ \/ /\ Fault
        /\ valid' = FALSE
        /\ UNCHANGED disk
     \/ /\ NoFault
        /\ disk' = Written(0, SuperInvalid)
        /\ valid' = TRUE
  /\ kernel' = At("run", 0)
  /\ UNCHANGED <<mem, fsOpen, fdisk, version, committed>>

-----------------------------------------------------------------------------
(* Running and closing: inodes, vector, and the superblock last.           *)

\* The inode and allocation functions change some of the metadata in memory.
Modify ==
  /\ kernel.at = "run"
  /\ CheckSystem
  /\ version < MaxVersion
  /\ version' = version + 1
  /\ \E touched \in SUBSET Meta \ {{}} :
       mem' = [b \in Meta |-> IF b \in touched THEN version + 2 ELSE mem[b]]
  /\ UNCHANGED <<disk, valid, fsOpen, kernel, fdisk, faults, committed>>

\* DfsInodeWriteBytes takes the numbers of virtual blocks for those of file
\* system blocks (dfs.c 1132, 1183, 1207), so the first blocks of every file are
\* the metadata on the disk: each is read, changed and written back.  That
\* DfsCheckSystem comes before block_lock makes no difference (BlockWaitersStay
\* of Files).  A read that fails ends the call.
FileWrite(b) ==
  /\ kernel.at = "run" /\ CheckSystem
  /\ disk[b] # Missing
  /\ version < MaxVersion
  /\ \/ /\ Fault
        /\ UNCHANGED <<disk, version>>
     \/ /\ NoFault
        /\ \E content \in IF b = 0 THEN FileSuper ELSE {version + 2} :
             disk' = Written(b, content)
        /\ version' = version + 1
  /\ UNCHANGED <<mem, valid, fsOpen, kernel, fdisk, committed>>

\* DiskCreate is one trap: no other process runs between its writes.
Interruptible == kernel.at = "run" /\ fdisk.at # "zero"

GracefulExit ==
  /\ Interruptible
  /\ IF CheckSystem
     THEN /\ kernel' = At("close", 1)
          /\ UNCHANGED <<mem, valid, fsOpen, fdisk>>
     ELSE PowerOff
  /\ UNCHANGED <<disk, version, faults, committed>>

\* The block that the close writes n-th: the superblock is the last.
CloseFromZero(n) == n - 1 \* mutant: the start of the inode array is not added
CloseTarget(n) == IF n <= NumMeta THEN n ELSE 0

\* A write that fails ends the close, and the simulator stops all the same.
CloseBlock ==
  /\ kernel.at = "close"
  /\ LET n == kernel.next
         last == NumMeta + 1 IN
       \/ /\ Fault
          /\ PowerOff
          /\ UNCHANGED <<disk, committed>>
       \/ /\ NoFault
          /\ disk' = Written(CloseTarget(n), IF n = last THEN SuperValid ELSE mem[n])
          /\ IF n = last
             THEN /\ PowerOff
                  /\ committed' = mem
             ELSE /\ kernel' = At("close", n + 1)
                  /\ UNCHANGED <<mem, valid, fsOpen, fdisk, committed>>
  /\ UNCHANGED version

\* The simulator is killed, at any point of any operation.
Crash ==
  /\ kernel.at # "off"
  /\ PowerOff
  /\ UNCHANGED <<disk, version, faults, committed>>

-----------------------------------------------------------------------------
(* The fdisk process.  It exits as soon as one of its writes fails.        *)

KernelUnchanged == UNCHANGED <<mem, fsOpen, kernel, version>>

FdiskWithoutInvalidate == \* mutant: fdisk formats under a mounted system
  /\ Interruptible
  /\ fdisk = Idle
  /\ fdisk' = At("create", 0)
  /\ UNCHANGED <<disk, valid, faults, committed>>
  /\ KernelUnchanged

FdiskInvalidate ==
  /\ Interruptible
  /\ fdisk = Idle
  /\ valid' = FALSE
  /\ fdisk' = At("create", 0)
  /\ UNCHANGED <<disk, faults, committed>>
  /\ KernelUnchanged

\* FsOpen in write mode truncates the image; fdisk exits when it fails.
FdiskTruncate ==
  /\ Interruptible
  /\ fdisk.at = "create"
  /\ \/ /\ Fault
        /\ fdisk' = At("exited", 0)
        /\ UNCHANGED disk
     \/ /\ NoFault
        /\ disk' = [b \in Block |-> Missing]
        /\ fdisk' = At("zero", 0)
  /\ UNCHANGED <<valid, committed>>
  /\ KernelUnchanged

\* One FsWrite of zeros at the end of the image; its answer is not looked at.
FdiskZero ==
  /\ kernel.at = "run"
  /\ fdisk.at = "zero"
  /\ \/ Fault /\ UNCHANGED disk
     \/ /\ NoFault
        /\ disk' = Written(Cardinality({b \in Block : disk[b] # Missing}), Zeros)
  /\ fdisk' = IF fdisk.next = NumMeta THEN At("format", 1)
              ELSE At("zero", fdisk.next + 1)
  /\ UNCHANGED <<valid, committed>>
  /\ KernelUnchanged

\* fdisk writes the vector, then the superblock, then the inodes.
FormatSuperFirst(n) == n - 1 \* mutant: the superblock before the vector
FormatTarget(n) ==
  IF n <= NumFbvBlocks THEN NumInodeBlocks + n ELSE n - NumFbvBlocks - 1

FormatContent(b) ==
  IF b = 0 THEN SuperValid ELSE IF b <= NumInodeBlocks THEN Zeros ELSE Format

FdiskWrite ==
  /\ Interruptible
  /\ fdisk.at = "format"
  /\ LET b == FormatTarget(fdisk.next) IN
       \/ /\ Fault
          /\ fdisk' = At("exited", 0)
          /\ UNCHANGED <<disk, committed>>
       \/ /\ NoFault
          /\ disk' = Written(b, FormatContent(b))
          /\ committed' = IF b = 0 THEN [m \in Meta |-> FormatContent(m)]
                          ELSE committed
          /\ fdisk' = IF fdisk.next = NumMeta + 1 THEN At("exited", 0)
                      ELSE At("format", fdisk.next + 1)
  /\ UNCHANGED valid
  /\ KernelUnchanged

FdiskStep == FdiskInvalidate \/ FdiskTruncate \/ FdiskZero \/ FdiskWrite

Next ==
  \/ Boot
  \/ OpenSuper
  \/ OpenBlock
  \/ OpenMark
  \/ Modify
  \/ \E b \in Block : FileWrite(b)
  \/ GracefulExit
  \/ CloseBlock
  \/ Crash
  \/ FdiskStep

Spec == Init /\ [][Next]_vars

-----------------------------------------------------------------------------
(* Properties.                                                             *)

TypeOK ==
  /\ disk \in [Block -> Content \cup SuperContent]
  /\ disk[0] \in SuperContent
  /\ mem \in [Meta -> Content]
  /\ valid \in BOOLEAN
  /\ fsOpen \in BOOLEAN
  /\ kernel \in [at : {"off", "open", "run", "close"}, next : 0 .. NumMeta + 1]
  /\ fdisk \in [at : {"idle", "create", "zero", "format", "exited"},
                next : 0 .. NumMeta + 1]
  /\ version \in 0 .. MaxVersion
  /\ faults \in 0 .. MaxFaults
  /\ committed \in [Meta -> Content]

\* A valid mark that the driver or fdisk made is truthful at every instant, also
\* between two writes of a close or of a format, after a crash there, and when
\* files have been written over the metadata before: every metadata block under
\* it is the one of the last close or format that was completed ("Write Super
\* Block into Disk Last", dfs.c:317).
ValidIsTruthful ==
  disk[0] = SuperValid => \A b \in Meta : disk[b] = committed[b]

\* While the driver answers that the file system is up, the valid mark of the last
\* close is gone from the image: it never stands over blocks that files or a
\* half-way close have changed (dfs.c 228-243).
MountedIsMarked == kernel.at = "run" /\ CheckSystem => disk[0] # SuperValid

\* The step that takes such a mark away from an image has the committed metadata
\* in memory: a mount and a crash do not lose a completed close.
MarkHoldsCommitted ==
  [][ OpenMark /\ disk[0] = SuperValid => mem = committed ]_vars

\* From the moment fdisk has invalidated the file system until the next boot,
\* nothing but fdisk changes the image: the exit of the operating system does
\* not wipe out what fdisk wrote (fdisk.c 35-40, dfs.c 118-123).
FormatSurvives ==
  [][ fdisk.at # "idle" /\ ~FdiskStep => UNCHANGED disk ]_vars

\* README.md:12 says of the driver that it "will return DFS_FAIL if the file
\* system is invalid" and "will not run" without a properly initialized
\* superblock: an open that leaves a system that passes DfsCheckSystem found an
\* image marked valid and has all of its metadata in memory.
MountIsProper ==
  [][ kernel.at = "open" /\ kernel'.at = "run" /\ CheckSystem'
      => /\ SaysValid(disk[0])
         /\ \A b \in Meta : mem'[b] = disk[b] ]_vars
=============================================================================

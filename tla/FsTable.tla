------------------------------- MODULE FsTable -------------------------------
(***************************************************************************)
(* The descriptors of the host's files that the kernel itself uses         *)
(* (flat/os/filesys.c): the image of the disk, the file vm that main       *)
(* writes, and the executables.  User programs get none of them.           *)
(*                                                                         *)
(* A table is the array openfiles; the routines are functions from a       *)
(* table, giving what they return and the next table.  The host keeps the  *)
(* position of an open file; here it is kept with the descriptor.          *)
(***************************************************************************)
EXTENDS Integers, Sequences, FiniteSetsExt

CONSTANTS MaxOpen,  \* FS_MAX_OPEN_FILES (32)
          Names,    \* names of files
          NoName,   \* what a free slot names
          Host      \* Host[n]: the size of the host's file n, -1 for none, and
                    \* whether the name begins with "dlx:"

ASSUME MaxOpenAssumption == MaxOpen \in Nat \ {0}
ASSUME NoNameAssumption == NoName \notin Names
ASSUME HostAssumption ==
  \A n \in Names : Host[n].size \in Nat \cup {-1} /\ Host[n].dlx \in BOOLEAN

Slot == 0 .. MaxOpen - 1
FreeSlot == [flags |-> 0, name |-> NoName, pos |-> 0]

FsModuleInit == [s \in Slot |-> FreeSlot]

\* The descriptor 0 counts as an error everywhere, but is given out.
FdValid(t, fd) == fd > 0 /\ fd < MaxOpen /\ t[fd].flags # 0

FsOpenKeepsSlot(t, name, mode) == \* mutant: a failed open keeps its slot
  LET free == {s \in Slot : t[s].flags = 0} IN
  IF free = {} THEN [fd |-> -1, table |-> t]
  ELSE [fd |-> IF ~Host[name].dlx /\ Host[name].size < 0 THEN -1 ELSE Min(free),
        table |-> [t EXCEPT ![Min(free)] = [flags |-> mode, name |-> name,
                                            pos |-> 0]]]

\* The first free slot; it is given back when the host has no such file.  In
\* the DLX file system, a stub, every open succeeds.
FsOpen(t, name, mode) ==
  LET free == {s \in Slot : t[s].flags = 0} IN
  IF mode = 0 \/ free = {} THEN [fd |-> -1, table |-> t]
  ELSE IF ~Host[name].dlx /\ Host[name].size < 0 THEN [fd |-> -1, table |-> t]
  ELSE [fd |-> Min(free),
        table |-> [t EXCEPT ![Min(free)] = [flags |-> mode, name |-> name,
                                            pos |-> 0]]]

FsClose(t, fd) == IF FdValid(t, fd) THEN [t EXCEPT ![fd] = FreeSlot] ELSE t

\* How many characters a read of n gets; the stub of a DLX file says 1.
Got(t, fd, n) ==
  LET file == Host[t[fd].name] IN
  IF file.dlx THEN 1 ELSE Min({n, Max({0, file.size - t[fd].pos})})

FsRead(t, fd, n) ==
  IF ~FdValid(t, fd) THEN [got |-> -1, table |-> t]
  ELSE [got |-> Got(t, fd, n),
        table |-> IF Host[t[fd].name].dlx THEN t
                  ELSE [t EXCEPT ![fd].pos = @ + Got(t, fd, n)]]

\* A write to a file of fixed size: only the image and vm are written.
FsWrite(t, fd, n) ==
  IF ~FdValid(t, fd) THEN [got |-> -1, table |-> t]
  ELSE [got |-> n, table |-> [t EXCEPT ![fd].pos = @ + n]]

FsSeekSet(t, fd, offset) ==
  IF FdValid(t, fd) /\ ~Host[t[fd].name].dlx THEN [t EXCEPT ![fd].pos = offset]
  ELSE t

\* FsSeek(fd, 0, FS_SEEK_CUR)
FsTell(t, fd) ==
  IF ~FdValid(t, fd) THEN -1 ELSE IF Host[t[fd].name].dlx THEN 0 ELSE t[fd].pos

OpenSlots(t) == {s \in Slot : t[s].flags # 0}
=============================================================================

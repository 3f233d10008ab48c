--------------------------------- MODULE Files ---------------------------------
(***************************************************************************)
(* The file API (flat/os/files.c) called by several processes: the table   *)
(* of open files, the locks file_lock, inode_lock and block_lock, and the  *)
(* inode functions of DfsInode under them.                                 *)
(*                                                                         *)
(* A handler runs in a trap, with interrupts off, and gives the processor  *)
(* away only where LockAcquire puts it to sleep.  A handler is therefore a *)
(* row of parts; each part starts with a lock to take, and is one step     *)
(* with the parts behind it as far as the locks are free.  call[p] is the  *)
(* part in which p sleeps; it goes on when the lock has been handed to p.  *)
(* Processes are preempted between their calls (module Process), so any of *)
(* them may take the next step.                                            *)
(***************************************************************************)
EXTENDS DfsInode, Sequences

CONSTANTS Proc,       \* the processes
          Nobody,     \* owner_id -1, and the owner of a free lock
          NumHandles, \* FILE_MAX_OPEN_FILES (15)
          Uses,       \* Uses[p]: the names that p opens and deletes
          Modes,      \* the modes that processes ask for
          Lengths,    \* the numbers of bytes of a read or a write
          Seeks       \* the pairs <<from_where, num_bytes>> of a seek

ASSUME ProcAssumption == Nobody \notin Proc /\ NumHandles \in Nat \ {0}
ASSUME UseAssumption == Uses \in [Proc -> SUBSET Names]
ASSUME LengthAssumption ==
  /\ Lengths \subseteq Nat
  /\ Seeks \subseteq {"cur", "set", "end", "other"} \X Int
ASSUME ModeAssumption == Modes \subseteq {"r", "w", "rw", "undefined"}

VARIABLES dfs,   \* the driver: see DfsInode
          files, \* files[h]: the open file h
          locks, \* locks[l]: owner and queue of a lock
          call   \* call[p]: the part of a handler in which p sleeps

vars == <<dfs, files, locks, call>>

Handle == 0 .. NumHandles - 1
Lock   == {"file_lock", "inode_lock", "block_lock"}

NoFile == [name |-> "", inode |-> DFS_FAIL, mode |-> "undefined", pos |-> 0,
           owner |-> Nobody]
NoCall == [part |-> "none"]

\* The handlers are functions of a state; this is the present one.
Now == [dfs |-> dfs, files |-> files, locks |-> locks, call |-> call]

Becomes(s) ==
  /\ dfs' = s.dfs
  /\ files' = s.files
  /\ locks' = s.locks
  /\ call' = s.call

Init ==
  /\ dfs = Formatted
  /\ files = [h \in Handle |-> NoFile]
  /\ locks = [l \in Lock |-> [owner |-> Nobody, queue |-> <<>>]]
  /\ call = [p \in Proc |-> NoCall]

-----------------------------------------------------------------------------
(* Locks, as the module Synch has them.                                    *)

MayTake(s, p, l) == s.locks[l].owner \in {p, Nobody}
Take(s, p, l) == [s EXCEPT !.locks[l].owner = p]

SleepWithout(s, p, l, c) == \* mutant: a sleeper gives its other locks up
  [s EXCEPT !.locks = [m \in Lock |->
              IF m = l THEN [@[l] EXCEPT !.queue = Append(@, p)]
              ELSE IF @[m].owner = p THEN [@[m] EXCEPT !.owner = Nobody]
              ELSE @[m]],
            !.call[p] = c]

Sleep(s, p, l, c) ==
  [s EXCEPT !.locks[l].queue = Append(@, p), !.call[p] = c]

\* LockHandleRelease: fails when p is not the owner, else hands the lock over.
Give(s, p, l) ==
  LET lock == s.locks[l] IN
  IF lock.owner # p THEN s
  ELSE IF lock.queue = <<>> THEN [s EXCEPT !.locks[l].owner = Nobody]
  ELSE [s EXCEPT !.locks[l] = [owner |-> Head(lock.queue),
                               queue |-> Tail(lock.queue)]]

\* p has run an inode function of answer a: it gives back what a does not keep.
After(s, p, a) ==
  LET taken == [s EXCEPT !.dfs = a.dfs,
                         !.locks = [l \in Lock |->
                            IF l \in a.takes THEN [s.locks[l] EXCEPT !.owner = p]
                            ELSE s.locks[l]]]
      given == IF "block_lock" \in a.takes \ a.keeps
               THEN Give(taken, p, "block_lock") ELSE taken
  IN IF "inode_lock" \in a.takes \ a.keeps
     THEN Give(given, p, "inode_lock") ELSE given

\* The inode function of answer a in the part c of a handler, and what follows.
\* Nobody without inode_lock sees the difference when a sleep for block_lock
\* comes before what the function does until then.
Locked(s, p, c, a, Rest(_)) ==
  IF ~MayTake(s, p, "inode_lock") THEN Sleep(s, p, "inode_lock", c)
  ELSE IF "block_lock" \in a.takes /\ ~MayTake(s, p, "block_lock")
  THEN Sleep(Take(s, p, "inode_lock"), p, "block_lock", c)
  ELSE Rest(After(s, p, a))

\* The handler returns to its process, with file_lock given back or not.
Return(s, p) == [s EXCEPT !.call[p] = NoCall]
GiveAndReturn(s, p) == Return(Give(s, p, "file_lock"), p)

-----------------------------------------------------------------------------
(* FileOpen, from its last part to its first.                              *)

FreeSlots(s) == {h \in Handle : s.files[h].inode = DFS_FAIL}

\* A success returns with file_lock held; a full table does not.
FillEntry(s, p, c) ==
  LET slot == IF c.slot # DFS_FAIL THEN c.slot
              ELSE IF FreeSlots(s) = {} THEN DFS_FAIL ELSE Lowest(FreeSlots(s))
  IN IF slot = DFS_FAIL THEN GiveAndReturn(s, p)
     ELSE Return([s EXCEPT !.files[slot] =
                    [name |-> c.name, inode |-> c.inode, mode |-> c.mode,
                     pos |-> 0, owner |-> p]], p)

OpenCreate(s, p, c) ==
  LET a == InodeCreate(s.dfs, c.name) IN
  Locked(s, p, c, a,
         LAMBDA t : IF a.ret = DFS_FAIL THEN GiveAndReturn(t, p)
                    ELSE FillEntry(t, p, [c EXCEPT !.inode = a.ret]))

\* DfsInodeOpen looks for the name before it takes its lock, and not again.
OpenNew(s, p, c) ==
  LET found == FilenameExists(s.dfs, c.name) IN
  IF found # DFS_FAIL THEN FillEntry(s, p, [c EXCEPT !.inode = found])
  ELSE OpenCreate(s, p, [c EXCEPT !.part = "create"])

OpenTruncate(s, p, c) ==
  LET a == InodeDelete(s.dfs, c.inode) IN
  Locked(s, p, c, a,
         LAMBDA t : IF a.ret = DFS_FAIL THEN GiveAndReturn(t, p)
                    ELSE OpenNew(t, p, c))

\* The entry that names the inode, when there is one.
EntryOf(s, inode) ==
  LET found == {h \in Handle : inode # DFS_FAIL /\ s.files[h].inode = inode}
  IN IF found = {} THEN DFS_FAIL ELSE Lowest(found)

\* Another owner is told so and file_lock given back, and the handler goes on.
CheckOwner(s, p, slot) ==
  IF slot # DFS_FAIL /\ s.files[slot].owner # p
  THEN Give(s, p, "file_lock") ELSE s

OpenFile(s, p, c) ==
  LET found == FilenameExists(s.dfs, c.name)
      slot  == EntryOf(s, found)
      t     == CheckOwner(Take(s, p, "file_lock"), p, slot)
      c1    == [part |-> "truncate", name |-> c.name, mode |-> c.mode,
                inode |-> found, slot |-> slot]
  IN IF ~MayTake(s, p, "file_lock") THEN Sleep(s, p, "file_lock", c)
     ELSE IF c.mode = "undefined" THEN GiveAndReturn(Take(s, p, "file_lock"), p)
     ELSE IF c.mode # "w" THEN FillEntry(t, p, c1)
     ELSE IF found # DFS_FAIL THEN OpenTruncate(t, p, c1)
     ELSE OpenNew(t, p, c1)

-----------------------------------------------------------------------------
(* FileDelete and FileClose.                                               *)

NullifyToZero(s, h) == \* mutant: inode_handle is set to 0 as bzero would
  [s EXCEPT !.files[h] = [NoFile EXCEPT !.inode = 0]]
NullifyFileEntry(s, h) == [s EXCEPT !.files[h] = NoFile]

DeleteErase(s, p, c) ==
  LET a == InodeDelete(s.dfs, c.inode) IN
  Locked(s, p, c, a,
         LAMBDA t : IF a.ret = DFS_FAIL THEN Return(t, p)
                    ELSE GiveAndReturn(NullifyFileEntry(t, c.slot), p))

\* A file that is not open is not deleted; file_lock stays held when there is
\* no such file or the inode cannot be deleted.
DeleteFile(s, p, c) ==
  LET found == FilenameExists(s.dfs, c.name)
      slot  == EntryOf(s, found)
      t     == CheckOwner(Take(s, p, "file_lock"), p, slot)
  IN IF ~MayTake(s, p, "file_lock") THEN Sleep(s, p, "file_lock", c)
     ELSE IF found = DFS_FAIL THEN Return(t, p)
     ELSE IF slot = DFS_FAIL THEN GiveAndReturn(t, p)
     ELSE DeleteErase(t, p, [part |-> "erase", inode |-> found, slot |-> slot])

\* The owner is looked at before the lock is taken, and not again.
CloseFile(s, p, c) ==
  IF ~MayTake(s, p, "file_lock") THEN Sleep(s, p, "file_lock", c)
  ELSE GiveAndReturn(NullifyFileEntry(Take(s, p, "file_lock"), c.handle), p)

-----------------------------------------------------------------------------
(* FileRead, FileWrite and FileSeek.                                       *)

Size(s, h) == s.dfs.inodes[s.files[h].inode].size

\* What is left of num_bytes at the end of the file.
ReadLength(s, h, num) ==
  IF s.files[h].pos + num > Size(s, h) THEN Size(s, h) - s.files[h].pos ELSE num

MovedUnchecked(s, p, c, a) == \* mutant: a failure is taken for a count
  GiveAndReturn([s EXCEPT !.files[c.handle].pos = @ + a.ret], p)

\* The inode function has moved ret bytes for the handler c.
Moved(s, p, c, a) ==
  IF a.ret = DFS_FAIL THEN GiveAndReturn(s, p)
  ELSE GiveAndReturn([s EXCEPT !.files[c.handle].pos = @ + a.ret], p)

ReadInode(s, p, c) ==
  LET a == ReadBytes(s.dfs, c.inode, c.start, c.num) IN
  Locked(s, p, c, a, LAMBDA t : Moved(t, p, c, a))

WriteInode(s, p, c) ==
  LET a == WriteBytes(s.dfs, c.inode, c.start, c.num, 0, [e \in Entry |-> 0]) IN
  Locked(s, p, c, a, LAMBDA t : Moved(t, p, c, a))

InodeCall(s, c, part, num) ==
  [part |-> part, handle |-> c.handle, inode |-> s.files[c.handle].inode,
   start |-> s.files[c.handle].pos, num |-> num]

ReadFile(s, p, c) ==
  IF ~MayTake(s, p, "file_lock") THEN Sleep(s, p, "file_lock", c)
  ELSE ReadInode(Take(s, p, "file_lock"), p,
                 InodeCall(s, c, "reading", ReadLength(s, c.handle, c.num)))

WriteFile(s, p, c) ==
  IF ~MayTake(s, p, "file_lock") THEN Sleep(s, p, "file_lock", c)
  ELSE WriteInode(Take(s, p, "file_lock"), p, InodeCall(s, c, "writing", c.num))

SeekTo(s, c) ==
  CASE c.from = "cur" -> s.files[c.handle].pos + c.num
    [] c.from = "set" -> c.num
    [] c.from = "end" -> Size(s, c.handle) + c.num

\* A position past the end is refused, but stays, and so does file_lock.
SeekFile(s, p, c) ==
  LET t == Take(s, p, "file_lock")
      u == [t EXCEPT !.files[c.handle].pos = SeekTo(s, c)]
  IN IF ~MayTake(s, p, "file_lock") THEN Sleep(s, p, "file_lock", c)
     ELSE IF c.from = "other" THEN GiveAndReturn(t, p)
     ELSE IF SeekTo(s, c) > Size(s, c.handle) THEN Return(u, p)
     ELSE GiveAndReturn(u, p)

-----------------------------------------------------------------------------
(* The steps of a process.                                                 *)

\* What is not followed: the use of inodes[-1] and a read of a negative number
\* of bytes, which overwrite the kernel, a seek to before the start, which is
\* one to 2^32 less, and files longer than the bound.
MaxSize == TableSize * B - 1
Followed(c) ==
  LET f == files[c.handle] IN
  c.part \in {"read", "write", "seek"} /\ ~(c.part = "seek" /\ c.from = "other")
  => /\ f.inode # DFS_FAIL
     /\ c.part = "read" => ReadLength(Now, c.handle, c.num) >= 0
     /\ c.part = "write" => f.pos + c.num <= MaxSize
     /\ c.part = "seek" => SeekTo(Now, c) \in 0 .. MaxSize

Run(p, c) ==
  /\ MayTake(Now, p, "file_lock") => Followed(c)
  /\ Becomes(CASE c.part = "open" -> OpenFile(Now, p, c)
               [] c.part = "truncate" -> OpenTruncate(Now, p, c)
               [] c.part = "create" -> OpenCreate(Now, p, c)
               [] c.part = "delete" -> DeleteFile(Now, p, c)
               [] c.part = "erase" -> DeleteErase(Now, p, c)
               [] c.part = "close" -> CloseFile(Now, p, c)
               [] c.part = "read" -> ReadFile(Now, p, c)
               [] c.part = "reading" -> ReadInode(Now, p, c)
               [] c.part = "write" -> WriteFile(Now, p, c)
               [] c.part = "writing" -> WriteInode(Now, p, c)
               [] c.part = "seek" -> SeekFile(Now, p, c))

Idle(p) == call[p] = NoCall

Open(p) ==
  /\ Idle(p)
  /\ \E name \in Uses[p], mode \in Modes :
       Run(p, [part |-> "open", name |-> name, mode |-> mode])

Delete(p) ==
  /\ Idle(p)
  /\ \E name \in Uses[p] : Run(p, [part |-> "delete", name |-> name])

\* The other functions refuse a handle of another owner at once.
Owned(p) == {h \in Handle : files[h].owner = p}

Close(p) ==
  /\ Idle(p)
  /\ \E h \in Owned(p) : Run(p, [part |-> "close", handle |-> h])

Read(p) ==
  /\ Idle(p)
  /\ \E h \in Owned(p), num \in Lengths :
       /\ files[h].mode \in {"r", "rw"}
       /\ Run(p, [part |-> "read", handle |-> h, num |-> num])

Write(p) ==
  /\ Idle(p)
  /\ \E h \in Owned(p), num \in Lengths :
       /\ files[h].mode \in {"w", "rw"}
       /\ Run(p, [part |-> "write", handle |-> h, num |-> num])

Seek(p) ==
  /\ Idle(p)
  /\ \E h \in Owned(p), to \in Seeks :
       Run(p, [part |-> "seek", handle |-> h, from |-> to[1], num |-> to[2]])

\* p goes on once the lock it waited for has been handed to it.
Resume(p) ==
  /\ ~Idle(p)
  /\ \A l \in Lock : \A i \in DOMAIN locks[l].queue : locks[l].queue[i] # p
  /\ Run(p, call[p])

Step(p) ==
  \/ Open(p)
  \/ Delete(p)
  \/ Close(p)
  \/ Read(p)
  \/ Write(p)
  \/ Seek(p)
  \/ Resume(p)

Next == \E p \in Proc : Step(p)

Spec == Init /\ [][Next]_vars

-----------------------------------------------------------------------------
(* Properties.                                                             *)

TypeOK ==
  /\ dfs.used \subseteq Block
  /\ dfs.inodes \in [Inode -> [inuse : BOOLEAN, name : Names \cup {""}, size : Nat,
                               table : [Slot -> Block], indirect : {0}]]
  /\ files \in [Handle -> [name : Names \cup {""}, inode : Inode \cup {DFS_FAIL},
                           mode : {"r", "w", "rw", "undefined"}, pos : Nat,
                           owner : Proc \cup {Nobody}]]
  /\ locks \in [Lock -> [owner : Proc \cup {Nobody}, queue : Seq(Proc)]]
  /\ \A p \in Proc : Idle(p) \/ call[p].part # "none"

Opened == {h \in Handle : files[h].inode # DFS_FAIL}

\* An open file is an inode in use whose name is the one it was opened by, and
\* no two open files are the same inode.
EntriesNameFiles ==
  /\ \A h \in Opened : LET f == dfs.inodes[files[h].inode] IN
                       f.inuse /\ <<f.name, files[h].name>> \in Match
  /\ \A h, i \in Opened : files[h].inode = files[i].inode => h = i

Asleep(p, l) == \E i \in DOMAIN locks[l].queue : locks[l].queue[i] = p

\* Whoever goes to sleep for block_lock never runs again: the lock is asked for
\* with inode_lock in hand, so its owner cannot get as far as giving it back.
\* What DfsReadBlock and DfsWriteBlock have looked at before they sleep, and not
\* again, is therefore never used when it has changed (dfs.c 514-525, 578-589);
\* everybody who wants inode_lock waits behind the sleeper for ever.
BlockWaitersStay ==
  [][ \A p \in Proc :
        Asleep(p, "block_lock") => Asleep(p, "block_lock")' /\ ~Step(p) ]_vars

-----------------------------------------------------------------------------
(* What the code's comments and documents say, and the code does not do.    *)

\* "Verify the process has authority over file" (files.c 226) and "Permission
\* Denied" (files.c 137): an open file is changed only by the process that
\* opened it.
OnlyOwnerChanges ==
  [][ \A h \in Opened : files'[h] # files[h] => Step(files[h].owner) ]_vars
=============================================================================

------------------------------ MODULE Files_proofs ------------------------------
(***************************************************************************)
(* Proofs about the file API called by several processes, for every number *)
(* of processes, handles, inodes, blocks and names.  A handler is a        *)
(* function of a state, so each lemma says what a handler makes of a state *)
(* that has the invariant.                                                 *)
(***************************************************************************)
EXTENDS Files, DfsInode_proofs

-----------------------------------------------------------------------------
(* Types.                                                                  *)

Files0 == [name : Names \cup {""}, inode : Inode \cup {DFS_FAIL},
           mode : {"r", "w", "rw", "undefined"}, pos : Nat,
           owner : Proc \cup {Nobody}]
LockRecord == [owner : Proc \cup {Nobody}, queue : Seq(Proc)]

\* The parts of the handlers in which a process sleeps, and what they remember.
OpenCalls   == [part : {"open"}, name : Names, mode : Modes]
DeleteCalls == [part : {"delete"}, name : Names]
CloseCalls  == [part : {"close"}, handle : Handle]
MoveCalls   == [part : {"read", "write"}, handle : Handle, num : Lengths]
SeekCalls   == [part : {"seek"}, handle : Handle,
                from : {"cur", "set", "end", "other"}, num : Int]
FirstCalls  == OpenCalls \cup DeleteCalls \cup CloseCalls \cup MoveCalls \cup SeekCalls

TruncateCalls == [part : {"truncate"}, name : Names, mode : Modes,
                  inode : Inode, slot : Handle \cup {DFS_FAIL}]
CreateCalls   == [part : {"create"}, name : Names, mode : Modes,
                  inode : Inode \cup {DFS_FAIL}, slot : Handle \cup {DFS_FAIL}]
EraseCalls    == [part : {"erase"}, inode : Inode, slot : Handle]
ReadingCalls  == [part : {"reading"}, handle : Handle, inode : Inode,
                  start : Nat, num : Nat]
WritingCalls  == {c \in [part : {"writing"}, handle : Handle, inode : Inode,
                         start : Nat, num : Nat] : c.start + c.num <= MaxSize}
InnerCalls    == TruncateCalls \cup CreateCalls \cup EraseCalls
                 \cup ReadingCalls \cup WritingCalls

Calls == {NoCall} \cup FirstCalls \cup InnerCalls

DirectDrivers == {d \in Drivers : OwnedBlocks(d) /\ DirectFiles(d)}

States == [dfs : DirectDrivers, files : [Handle -> Files0],
           locks : [Lock -> LockRecord], call : [Proc -> Calls]]

TypeInv == Now \in States

-----------------------------------------------------------------------------
(* The operations on locks keep the types, and what they leave alone.      *)

LEMMA TakeOK ==
  ASSUME NEW s \in States, NEW p \in Proc, NEW l \in Lock
  PROVE  /\ Take(s, p, l) \in States
         /\ Take(s, p, l).dfs = s.dfs /\ Take(s, p, l).files = s.files
         /\ Take(s, p, l).call = s.call
         /\ Take(s, p, l).locks = [s.locks EXCEPT ![l].owner = p]
<1>1. s.locks[l] \in LockRecord /\ [s.locks[l] EXCEPT !.owner = p] \in LockRecord
  BY DEF States, LockRecord
<1>2. [s.locks EXCEPT ![l].owner = p] \in [Lock -> LockRecord]
  BY <1>1 DEF States
<1> QED BY <1>2 DEF Take, States

LEMMA SleepOK ==
  ASSUME NEW s \in States, NEW p \in Proc, NEW l \in Lock, NEW c \in Calls
  PROVE  /\ Sleep(s, p, l, c) \in States
         /\ Sleep(s, p, l, c).dfs = s.dfs /\ Sleep(s, p, l, c).files = s.files
         /\ Sleep(s, p, l, c).call = [s.call EXCEPT ![p] = c]
<1>1. s.locks[l].queue \in Seq(Proc)
  BY DEF States, LockRecord
<1>2. Append(s.locks[l].queue, p) \in Seq(Proc)
  BY <1>1
<1>3. [s.locks EXCEPT ![l].queue = Append(s.locks[l].queue, p)] \in [Lock -> LockRecord]
  BY <1>2 DEF States, LockRecord
<1>4. [s.call EXCEPT ![p] = c] \in [Proc -> Calls]
  BY DEF States
<1> QED BY <1>3, <1>4 DEF Sleep, States

LEMMA SleepLocks ==
  ASSUME NEW s \in States, NEW p \in Proc, NEW l \in Lock, NEW c
  PROVE  /\ \A k \in Lock : k # l => Sleep(s, p, l, c).locks[k] = s.locks[k]
         /\ Sleep(s, p, l, c).locks[l].owner = s.locks[l].owner
         /\ Sleep(s, p, l, c).locks[l].queue = Append(s.locks[l].queue, p)
<1>1. s.locks \in [Lock -> LockRecord] /\ s.locks[l] \in LockRecord
  BY DEF States
<1>2. Sleep(s, p, l, c).locks = [s.locks EXCEPT ![l].queue = Append(s.locks[l].queue, p)]
  BY DEF Sleep, States
<1> QED BY <1>1, <1>2 DEF LockRecord

LEMMA GiveOK ==
  ASSUME NEW s \in States, NEW p \in Proc, NEW l \in Lock
  PROVE  /\ Give(s, p, l) \in States
         /\ Give(s, p, l).dfs = s.dfs /\ Give(s, p, l).files = s.files
         /\ Give(s, p, l).call = s.call
         /\ \A k \in Lock : k # l => Give(s, p, l).locks[k] = s.locks[k]
<1>1. PICK lock \in LockRecord : lock = s.locks[l]
  BY DEF States
<1>2. CASE lock.owner # p
  BY <1>1, <1>2 DEF Give
<1>3. CASE lock.owner = p
  <2>1. PICK r : r = IF lock.queue = <<>> THEN [lock EXCEPT !.owner = Nobody]
                     ELSE [owner |-> Head(lock.queue), queue |-> Tail(lock.queue)]
    OBVIOUS
  <2>2. r \in LockRecord
    <3>1. CASE lock.queue = <<>>
      BY <2>1, <3>1 DEF LockRecord
    <3>2. CASE lock.queue # <<>>
      <4>1. lock.queue \in Seq(Proc)
        BY DEF LockRecord
      <4>2. Head(lock.queue) \in Proc /\ Tail(lock.queue) \in Seq(Proc)
        BY <3>2, <4>1
      <4> QED BY <2>1, <3>2, <4>2 DEF LockRecord
    <3> QED BY <3>1, <3>2
  <2>3. Give(s, p, l) = [s EXCEPT !.locks[l] = r]
    <3>1. CASE lock.queue = <<>>
      <4>1. Give(s, p, l) = [s EXCEPT !.locks[l].owner = Nobody]
        BY <1>1, <1>3, <3>1 DEF Give
      <4> QED BY <1>1, <2>1, <3>1, <4>1
    <3>2. CASE lock.queue # <<>>
      BY <1>1, <1>3, <2>1, <3>2 DEF Give
    <3> QED BY <3>1, <3>2
  <2>4. [s.locks EXCEPT ![l] = r] \in [Lock -> LockRecord]
    BY <2>2 DEF States
  <2>5. Give(s, p, l) \in States
    BY <2>3, <2>4 DEF States
  <2>6. /\ \A k \in Lock : k # l => Give(s, p, l).locks[k] = s.locks[k]
        /\ Give(s, p, l).dfs = s.dfs /\ Give(s, p, l).files = s.files
        /\ Give(s, p, l).call = s.call
    BY <2>3 DEF States
  <2> QED BY <2>5, <2>6
<1> QED BY <1>2, <1>3

LEMMA GiveEmpty ==
  ASSUME NEW s \in States, NEW p \in Proc, NEW l \in Lock, s.locks[l].queue = <<>>
  PROVE  /\ Give(s, p, l).locks[l].queue = <<>>
         /\ s.locks[l].owner = p => Give(s, p, l).locks[l].owner = Nobody
<1>1. PICK lock \in LockRecord : lock = s.locks[l]
  BY DEF States
<1>2. CASE lock.owner # p
  BY <1>1, <1>2 DEF Give
<1>3. CASE lock.owner = p
  <2>1. Give(s, p, l) = [s EXCEPT !.locks[l].owner = Nobody]
    BY <1>1, <1>3 DEF Give
  <2>2. Give(s, p, l).locks[l] = [lock EXCEPT !.owner = Nobody]
    BY <1>1, <2>1 DEF States
  <2> QED BY <1>1, <2>2 DEF LockRecord
<1> QED BY <1>2, <1>3

LEMMA ReturnOK ==
  ASSUME NEW s \in States, NEW p \in Proc
  PROVE  /\ Return(s, p) \in States
         /\ Return(s, p).dfs = s.dfs /\ Return(s, p).files = s.files
         /\ Return(s, p).locks = s.locks
         /\ Return(s, p).call = [s.call EXCEPT ![p] = NoCall]
         /\ GiveAndReturn(s, p) \in States
<1>1. ASSUME NEW t \in States PROVE Return(t, p) \in States
  BY DEF Return, States, Calls
<1>2. Give(s, p, "file_lock") \in States
  BY GiveOK DEF Lock
<1> QED BY <1>1, <1>2 DEF Return, GiveAndReturn, States

\* An inode function leaves the table of open files and file_lock alone.  Where
\* nobody waits for the other locks, nobody does so after it.
LEMMA AfterOK ==
  ASSUME NEW s \in States, NEW p \in Proc, NEW a,
         a.dfs \in DirectDrivers, a.takes \in {InodeLock, Both}
  PROVE  /\ After(s, p, a) \in States
         /\ After(s, p, a).dfs = a.dfs /\ After(s, p, a).files = s.files
         /\ After(s, p, a).call = s.call
         /\ After(s, p, a).locks["file_lock"] = s.locks["file_lock"]
         /\ \A l \in {"inode_lock", "block_lock"} :
              s.locks[l].queue = <<>> => After(s, p, a).locks[l].queue = <<>>
         /\ a.keeps = {} /\ s.locks["inode_lock"].queue = <<>> =>
              After(s, p, a).locks["inode_lock"].owner = Nobody
<1>1. PICK taken : taken = [s EXCEPT !.dfs = a.dfs,
                              !.locks = [l \in Lock |->
                                 IF l \in a.takes THEN [s.locks[l] EXCEPT !.owner = p]
                                 ELSE s.locks[l]]]
  OBVIOUS
<1>2. PICK locks1 : locks1 = [l \in Lock |->
                                IF l \in a.takes THEN [s.locks[l] EXCEPT !.owner = p]
                                ELSE s.locks[l]]
  OBVIOUS
<1>3. taken = [s EXCEPT !.dfs = a.dfs, !.locks = locks1]
  BY <1>1, <1>2
<1>4. locks1 \in [Lock -> LockRecord]
  <2>1. \A l \in Lock : s.locks[l] \in LockRecord /\ [s.locks[l] EXCEPT !.owner = p] \in LockRecord
    BY DEF States, LockRecord
  <2> QED BY <1>2, <2>1
<1>5. /\ taken \in States /\ taken.dfs = a.dfs /\ taken.files = s.files
      /\ taken.call = s.call /\ taken.locks = locks1
  BY <1>3, <1>4 DEF States
<1>6. /\ locks1["file_lock"] = s.locks["file_lock"]
      /\ locks1["inode_lock"].queue = s.locks["inode_lock"].queue
      /\ locks1["block_lock"].queue = s.locks["block_lock"].queue
      /\ locks1["inode_lock"].owner = p
  <2>1. \A l \in Lock : [s.locks[l] EXCEPT !.owner = p].queue = s.locks[l].queue
                        /\ [s.locks[l] EXCEPT !.owner = p].owner = p
    BY DEF States, LockRecord
  <2>2. "file_lock" \notin a.takes /\ "inode_lock" \in a.takes
    BY DEF InodeLock, Both
  <2> QED BY <1>2, <2>1, <2>2 DEF Lock
<1>7. PICK given : given = IF "block_lock" \in a.takes \ a.keeps
                           THEN Give(taken, p, "block_lock") ELSE taken
  OBVIOUS
<1>8. /\ given \in States /\ given.dfs = a.dfs /\ given.files = s.files
      /\ given.call = s.call
      /\ given.locks["file_lock"] = taken.locks["file_lock"]
      /\ given.locks["inode_lock"] = taken.locks["inode_lock"]
      /\ taken.locks["block_lock"].queue = <<>> => given.locks["block_lock"].queue = <<>>
  <2>1. CASE given = taken
    BY <1>5, <2>1
  <2>2. CASE given = Give(taken, p, "block_lock")
    <3>1. "block_lock" \in Lock /\ "inode_lock" \in Lock /\ "file_lock" \in Lock
      BY DEF Lock
    <3>2. /\ given \in States /\ given.dfs = taken.dfs /\ given.files = taken.files
          /\ given.call = taken.call
          /\ \A k \in Lock : k # "block_lock" => given.locks[k] = taken.locks[k]
      <4>1. /\ Give(taken, p, "block_lock") \in States
            /\ Give(taken, p, "block_lock").dfs = taken.dfs
            /\ Give(taken, p, "block_lock").files = taken.files
            /\ Give(taken, p, "block_lock").call = taken.call
            /\ \A k \in Lock : k # "block_lock" =>
                 Give(taken, p, "block_lock").locks[k] = taken.locks[k]
        BY <1>5, <3>1, GiveOK
      <4> QED BY <2>2, <4>1
    <3>3. taken.locks["block_lock"].queue = <<>> => given.locks["block_lock"].queue = <<>>
      BY <1>5, <2>2, <3>1, GiveEmpty
    <3> QED BY <1>5, <3>1, <3>2, <3>3
  <2> QED BY <1>7, <2>1, <2>2
<1>9. After(s, p, a) = IF "inode_lock" \in a.takes \ a.keeps
                       THEN Give(given, p, "inode_lock") ELSE given
  BY <1>1, <1>7 DEF After
<1>10. CASE After(s, p, a) = given /\ ~("inode_lock" \in a.takes \ a.keeps)
  <2>1. a.keeps # {}
    BY <1>10 DEF InodeLock, Both
  <2> QED BY <1>5, <1>6, <1>8, <1>10, <2>1
<1>11. CASE After(s, p, a) = Give(given, p, "inode_lock")
  <2>1. "block_lock" \in Lock /\ "inode_lock" \in Lock /\ "file_lock" \in Lock
    BY DEF Lock
  <2>2. given.locks["inode_lock"].owner = p
    BY <1>5, <1>6, <1>8
  <2>3. /\ After(s, p, a) \in States /\ After(s, p, a).dfs = given.dfs
        /\ After(s, p, a).files = given.files /\ After(s, p, a).call = given.call
        /\ \A k \in Lock : k # "inode_lock" => After(s, p, a).locks[k] = given.locks[k]
    <3>1. /\ Give(given, p, "inode_lock") \in States
          /\ Give(given, p, "inode_lock").dfs = given.dfs
          /\ Give(given, p, "inode_lock").files = given.files
          /\ Give(given, p, "inode_lock").call = given.call
          /\ \A k \in Lock : k # "inode_lock" =>
               Give(given, p, "inode_lock").locks[k] = given.locks[k]
      BY <1>8, <2>1, GiveOK
    <3> QED BY <1>11, <3>1
  <2>4. given.locks["inode_lock"].queue = <<>> =>
             /\ After(s, p, a).locks["inode_lock"].queue = <<>>
             /\ After(s, p, a).locks["inode_lock"].owner = Nobody
    BY <1>8, <1>11, <2>1, <2>2, GiveEmpty
  <2> QED BY <1>5, <1>6, <1>8, <2>1, <2>3, <2>4
<1> QED BY <1>9, <1>10, <1>11

\* One entry of the table of open files changes.
LEMMA SetEntryOK ==
  ASSUME NEW s \in States, NEW h \in Handle, NEW f \in Files0
  PROVE  /\ [s EXCEPT !.files[h] = f] \in States
         /\ [s EXCEPT !.files[h] = f].files = [s.files EXCEPT ![h] = f]
         /\ [s EXCEPT !.files[h] = f].dfs = s.dfs
         /\ [s EXCEPT !.files[h] = f].locks = s.locks
         /\ [s EXCEPT !.files[h] = f].call = s.call
<1>1. [s.files EXCEPT ![h] = f] \in [Handle -> Files0]
  BY DEF States
<1> QED BY <1>1 DEF States

LEMMA NoFileOK == NoFile \in Files0
BY DEF NoFile, Files0

-----------------------------------------------------------------------------
(* Entries.                                                                *)

Opening(p, c) == [name |-> c.name, inode |-> c.inode, mode |-> c.mode,
                  pos |-> 0, owner |-> p]

LEMMA OpeningOK ==
  ASSUME NEW p \in Proc, NEW c, c.name \in Names, c.mode \in Modes,
         c.inode \in Inode \cup {DFS_FAIL}
  PROVE  Opening(p, c) \in Files0
BY ModeAssumption DEF Opening, Files0

\* FileOpen fills the entry it found, or a free one, or none when the table is
\* full (files.c 186-222).
LEMMA FillAnswers ==
  ASSUME NEW s \in States, NEW p \in Proc, NEW c, c.slot \in Handle \cup {DFS_FAIL}
  PROVE  \/ c.slot = DFS_FAIL /\ FillEntry(s, p, c) = GiveAndReturn(s, p)
         \/ \E h \in Handle :
              /\ h = c.slot \/ (c.slot = DFS_FAIL /\ s.files[h].inode = DFS_FAIL)
              /\ FillEntry(s, p, c)
                   = Return([s EXCEPT !.files[h] = Opening(p, c)], p)
<1>1. DFS_FAIL \notin Handle
  BY ProcAssumption DEF Handle, DFS_FAIL
<1>2. FreeSlots(s) # {} => Lowest(FreeSlots(s)) \in FreeSlots(s)
  <2>1. FreeSlots(s) \in SUBSET Nat
    BY ProcAssumption DEF FreeSlots, Handle
  <2> QED BY <2>1, LeastOf
<1>3. CASE c.slot # DFS_FAIL
  <2>1. FillEntry(s, p, c) = Return([s EXCEPT !.files[c.slot] = Opening(p, c)], p)
    BY <1>3 DEF FillEntry, Opening
  <2> QED BY <1>3, <2>1
<1>4. CASE c.slot = DFS_FAIL /\ FreeSlots(s) = {}
  BY <1>4 DEF FillEntry
<1>5. CASE c.slot = DFS_FAIL /\ FreeSlots(s) # {}
  <2>1. PICK h : h = Lowest(FreeSlots(s))
    OBVIOUS
  <2>2. h \in Handle /\ s.files[h].inode = DFS_FAIL
    BY <1>2, <1>5, <2>1 DEF FreeSlots
  <2>3. FillEntry(s, p, c) = Return([s EXCEPT !.files[h] = Opening(p, c)], p)
    BY <1>1, <1>5, <2>1, <2>2 DEF FillEntry, Opening
  <2> QED BY <1>5, <2>2, <2>3
<1> QED BY <1>3, <1>4, <1>5

\* The lookup of an inode in the table answers the entry that has it.
LEMMA EntryAnswers ==
  ASSUME NEW s, NEW i
  PROVE  \/ /\ EntryOf(s, i) = DFS_FAIL
            /\ i # DFS_FAIL => \A h \in Handle : s.files[h].inode # i
         \/ /\ EntryOf(s, i) \in Handle /\ i # DFS_FAIL
            /\ s.files[EntryOf(s, i)].inode = i
<1>1. PICK found : found = {h \in Handle : i # DFS_FAIL /\ s.files[h].inode = i}
  OBVIOUS
<1>2. found \in SUBSET Nat
  BY <1>1, ProcAssumption DEF Handle
<1>3. found # {} => Lowest(found) \in found
  BY <1>2, LeastOf
<1>4. EntryOf(s, i) = IF found = {} THEN DFS_FAIL ELSE Lowest(found)
  BY <1>1 DEF EntryOf
<1> QED BY <1>1, <1>3, <1>4

LEMMA FillTypes ==
  ASSUME NEW s \in States, NEW p \in Proc, NEW c, c.slot \in Handle \cup {DFS_FAIL},
         c.name \in Names, c.mode \in Modes, c.inode \in Inode \cup {DFS_FAIL}
  PROVE  FillEntry(s, p, c) \in States
<1>1. ASSUME NEW h \in Handle
      PROVE  Return([s EXCEPT !.files[h] = Opening(p, c)], p) \in States
  BY OpeningOK, SetEntryOK, ReturnOK
<1>2. GiveAndReturn(s, p) \in States
  BY ReturnOK
<1>3. \/ c.slot = DFS_FAIL /\ FillEntry(s, p, c) = GiveAndReturn(s, p)
      \/ \E h \in Handle :
           /\ h = c.slot \/ (c.slot = DFS_FAIL /\ s.files[h].inode = DFS_FAIL)
           /\ FillEntry(s, p, c)
                = Return([s EXCEPT !.files[h] = Opening(p, c)], p)
  BY FillAnswers
<1> QED BY <1>1, <1>2, <1>3

LEMMA CheckOwnerOK ==
  ASSUME NEW s \in States, NEW p \in Proc, NEW slot
  PROVE  /\ CheckOwner(s, p, slot) \in States
         /\ CheckOwner(s, p, slot).dfs = s.dfs
         /\ CheckOwner(s, p, slot).files = s.files
         /\ CheckOwner(s, p, slot).call = s.call
         /\ \/ CheckOwner(s, p, slot) = s
            \/ slot # DFS_FAIL /\ s.files[slot].owner # p
<1>1. "file_lock" \in Lock
  BY DEF Lock
<1>2. /\ Give(s, p, "file_lock") \in States
      /\ Give(s, p, "file_lock").dfs = s.dfs
      /\ Give(s, p, "file_lock").files = s.files
      /\ Give(s, p, "file_lock").call = s.call
      /\ \A k \in Lock : k # "file_lock" => Give(s, p, "file_lock").locks[k] = s.locks[k]
  BY <1>1, GiveOK
<1> QED BY <1>2 DEF CheckOwner

-----------------------------------------------------------------------------
(* The inode functions, on drivers whose files have direct blocks only.    *)

LEMMA CreateDirect ==
  ASSUME NEW d \in DirectDrivers, NEW name \in Names
  PROVE  LET a == InodeCreate(d, name)
         IN  /\ a.dfs \in DirectDrivers /\ a.takes = InodeLock /\ a.keeps = {}
             /\ a.ret \in Inode \cup {DFS_FAIL}
<1>1. d \in Drivers /\ OwnedBlocks(d) /\ DirectFiles(d)
  BY DEF DirectDrivers
<1>2. PICK a : a = InodeCreate(d, name)
  OBVIOUS
<1>3. a.dfs \in Drivers
  BY <1>1, <1>2, CreateKeeps
<1>4. OwnedBlocks(a.dfs) /\ DirectFiles(a.dfs)
  BY <1>1, <1>2, CreateOwned
<1>5. a.takes = InodeLock /\ a.keeps = {} /\ a.ret \in Inode \cup {DFS_FAIL}
  BY <1>1, <1>2, CreateAnswers
<1> QED BY <1>2, <1>3, <1>4, <1>5 DEF DirectDrivers

LEMMA DeleteDirect ==
  ASSUME NEW d \in DirectDrivers, NEW i \in Inode
  PROVE  LET a == InodeDelete(d, i)
         IN  a.dfs \in DirectDrivers /\ a.takes \in {InodeLock, Both}
<1>1. d \in Drivers /\ OwnedBlocks(d) /\ DirectFiles(d)
  BY DEF DirectDrivers
<1>2. PICK a : a = InodeDelete(d, i)
  OBVIOUS
<1>3. a.dfs \in Drivers /\ a.takes \in {InodeLock, Both}
  BY <1>1, <1>2, DeleteKeeps
<1>4. OwnedBlocks(a.dfs) /\ DirectFiles(a.dfs)
  BY <1>1, <1>2, DeleteOwned
<1> QED BY <1>2, <1>3, <1>4 DEF DirectDrivers

LEMMA ReadDirect ==
  ASSUME NEW d \in DirectDrivers, NEW i \in Inode, NEW start \in Nat, NEW num \in Nat
  PROVE  LET a == ReadBytes(d, i, start, num)
         IN  /\ a.dfs \in DirectDrivers /\ a.takes \in {InodeLock, Both}
             /\ a.ret \in {DFS_FAIL, num}
             /\ \A j \in Inode : /\ a.dfs.inodes[j].inuse = d.inodes[j].inuse
                                 /\ a.dfs.inodes[j].name = d.inodes[j].name
<1>1. d \in Drivers /\ OwnedBlocks(d) /\ DirectFiles(d)
  BY DEF DirectDrivers
<1>2. PICK a : a = ReadBytes(d, i, start, num)
  OBVIOUS
<1>3. /\ a.dfs \in Drivers
      /\ \A j \in Inode : /\ a.dfs.inodes[j].inuse = d.inodes[j].inuse
                          /\ a.dfs.inodes[j].name = d.inodes[j].name
      /\ a.ret \in {DFS_FAIL, num}
      /\ a.takes \in {InodeLock, Both} /\ a.keeps \in {{}, InodeLock, Both}
      /\ OwnedBlocks(d) => OwnedBlocks(a.dfs)
      /\ DirectFiles(d) => DirectFiles(a.dfs)
  BY <1>1, <1>2, ReadKeeps
<1> QED BY <1>1, <1>2, <1>3 DEF DirectDrivers

LEMMA WriteDirect ==
  ASSUME NEW d \in DirectDrivers, NEW i \in Inode, NEW start \in Nat, NEW num \in Nat,
         start + num <= MaxSize
  PROVE  LET a == WriteBytes(d, i, start, num, 0, [e \in Entry |-> 0])
         IN  /\ a.dfs \in DirectDrivers /\ a.takes \in {InodeLock, Both}
             /\ a.ret \in {DFS_FAIL, num}
             /\ \A j \in Inode : /\ a.dfs.inodes[j].inuse = d.inodes[j].inuse
                                 /\ a.dfs.inodes[j].name = d.inodes[j].name
<1>1. d \in Drivers /\ OwnedBlocks(d) /\ DirectFiles(d)
  BY DEF DirectDrivers
<1>2. PICK stack : stack = [e \in Entry |-> 0]
  OBVIOUS
<1>3. 0 \in Content
  BY BlockAssumption DEF Content
<1>4. stack \in [Entry -> Content]
  BY <1>2, <1>3
<1>5. (start + num) \div B < TableSize
  <2>1. PICK n \in Nat : n = start + num
    OBVIOUS
  <2>2. n \div B \in Nat /\ n % B \in Entry /\ n = B * (n \div B) + (n % B)
    BY Quotient
  <2>3. PICK q \in Nat, r \in Entry : q = n \div B /\ n = B * q + r
    BY <2>2
  <2>4. B * q < B * TableSize
    <3>1. n < TableSize * B
      BY <2>1, BlockAssumption DEF MaxSize
    <3>2. TableSize * B = B * TableSize /\ B * q \in Nat /\ r \in Nat
      BY BlockAssumption DEF Entry
    <3> QED BY <2>3, <3>1, <3>2, BlockAssumption
  <2>5. PICK t \in Int : TableSize = t + 1
    BY BlockAssumption
  <2>6. q <= t
    <3>1. \A p, u \in Int : B * p < B * (u + 1) => p <= u
      BY BlockSums
    <3>2. q \in Int
      BY <2>3
    <3>3. B * q < B * (t + 1) => q <= t
      BY <2>5, <3>1, <3>2
    <3> QED BY <2>4, <2>5, <3>3
  <2> QED BY <2>1, <2>3, <2>5, <2>6
<1>6. PICK a : a = WriteBytes(d, i, start, num, 0, stack)
  OBVIOUS
<1>7. /\ a.dfs \in Drivers
      /\ \A j \in Inode : /\ a.dfs.inodes[j].inuse = d.inodes[j].inuse
                          /\ a.dfs.inodes[j].name = d.inodes[j].name
      /\ a.ret \in {DFS_FAIL, num}
      /\ a.takes \in {InodeLock, Both} /\ a.keeps \in {{}, InodeLock, Both}
      /\ (/\ (start + num) \div B < TableSize
          /\ OwnedBlocks(d) /\ DirectFiles(d))
         => OwnedBlocks(a.dfs) /\ DirectFiles(a.dfs)
  BY <1>1, <1>3, <1>4, <1>6, WriteKeeps
<1> QED BY <1>1, <1>2, <1>5, <1>6, <1>7 DEF DirectDrivers

-----------------------------------------------------------------------------
(* The handlers keep the types.                                            *)

LEMMA InnerSleeps ==
  ASSUME NEW s \in States, NEW p \in Proc, NEW c \in Calls
  PROVE  /\ Sleep(s, p, "file_lock", c) \in States
         /\ Sleep(s, p, "inode_lock", c) \in States
         /\ Sleep(Take(s, p, "inode_lock"), p, "block_lock", c) \in States
<1>1. "file_lock" \in Lock /\ "inode_lock" \in Lock /\ "block_lock" \in Lock
  BY DEF Lock
<1>2. Take(s, p, "inode_lock") \in States
  BY <1>1, TakeOK
<1> QED BY <1>1, <1>2, SleepOK

LEMMA AfterTypes ==
  ASSUME NEW s \in States, NEW p \in Proc, NEW a,
         a.dfs \in DirectDrivers, a.takes \in {InodeLock, Both}
  PROVE  After(s, p, a) \in States
BY AfterOK

LEMMA CreateTypes ==
  ASSUME NEW s \in States, NEW p \in Proc, NEW c \in CreateCalls
  PROVE  OpenCreate(s, p, c) \in States
<1>1. c \in Calls /\ c.name \in Names
  BY DEF Calls, InnerCalls, CreateCalls
<1>2. PICK a : a = InodeCreate(s.dfs, c.name)
  OBVIOUS
<1>3. a.dfs \in DirectDrivers /\ a.takes = InodeLock /\ a.ret \in Inode \cup {DFS_FAIL}
  <2>1. s.dfs \in DirectDrivers
    BY DEF States
  <2> QED BY <1>1, <1>2, <2>1, CreateDirect
<1>4. PICK t \in States : t = After(s, p, a)
  BY <1>3, AfterTypes
<1>5. PICK e : e = [c EXCEPT !.inode = a.ret]
  OBVIOUS
<1>6. e \in CreateCalls
  BY <1>3, <1>5 DEF CreateCalls
<1>7. FillEntry(t, p, e) \in States
  <2>1. /\ e.slot \in Handle \cup {DFS_FAIL} /\ e.name \in Names /\ e.mode \in Modes
        /\ e.inode \in Inode \cup {DFS_FAIL}
    BY <1>6 DEF CreateCalls
  <2> QED BY <2>1, FillTypes
<1>8. GiveAndReturn(t, p) \in States
  BY ReturnOK
<1>9. OpenCreate(s, p, c) \in
        {Sleep(s, p, "inode_lock", c),
         Sleep(Take(s, p, "inode_lock"), p, "block_lock", c),
         GiveAndReturn(t, p), FillEntry(t, p, e)}
  BY <1>2, <1>4, <1>5 DEF OpenCreate, Locked
<1> QED BY <1>1, <1>7, <1>8, <1>9, InnerSleeps

LEMMA NewTypes ==
  ASSUME NEW s \in States, NEW p \in Proc, NEW c \in TruncateCalls \cup CreateCalls
  PROVE  OpenNew(s, p, c) \in States
<1>1. /\ c.slot \in Handle \cup {DFS_FAIL} /\ c.name \in Names /\ c.mode \in Modes
      /\ c.inode \in Inode \cup {DFS_FAIL}
      /\ [c EXCEPT !.part = "create"] \in CreateCalls
  BY DEF TruncateCalls, CreateCalls
<1>2. PICK found \in Inode \cup {DFS_FAIL} : found = FilenameExists(s.dfs, c.name)
  BY LookupAnswers
<1>3. PICK e : e = [c EXCEPT !.inode = found]
  OBVIOUS
<1>4. /\ e.slot \in Handle \cup {DFS_FAIL} /\ e.name \in Names /\ e.mode \in Modes
      /\ e.inode \in Inode \cup {DFS_FAIL}
  BY <1>2, <1>3 DEF TruncateCalls, CreateCalls
<1>5. FillEntry(s, p, e) \in States
  BY <1>4, FillTypes
<1>6. OpenCreate(s, p, [c EXCEPT !.part = "create"]) \in States
  BY <1>1, CreateTypes
<1> QED BY <1>2, <1>3, <1>5, <1>6 DEF OpenNew

LEMMA TruncateTypes ==
  ASSUME NEW s \in States, NEW p \in Proc, NEW c \in TruncateCalls
  PROVE  OpenTruncate(s, p, c) \in States
<1>1. c \in Calls /\ c.inode \in Inode
  BY DEF Calls, InnerCalls, TruncateCalls
<1>2. PICK a : a = InodeDelete(s.dfs, c.inode)
  OBVIOUS
<1>3. a.dfs \in DirectDrivers /\ a.takes \in {InodeLock, Both}
  <2>1. s.dfs \in DirectDrivers
    BY DEF States
  <2> QED BY <1>1, <1>2, <2>1, DeleteDirect
<1>4. PICK t \in States : t = After(s, p, a)
  BY <1>3, AfterTypes
<1>5. OpenNew(t, p, c) \in States
  BY NewTypes
<1>6. GiveAndReturn(t, p) \in States
  BY ReturnOK
<1>7. OpenTruncate(s, p, c) \in
        {Sleep(s, p, "inode_lock", c),
         Sleep(Take(s, p, "inode_lock"), p, "block_lock", c),
         GiveAndReturn(t, p), OpenNew(t, p, c)}
  BY <1>2, <1>4 DEF OpenTruncate, Locked
<1> QED BY <1>1, <1>5, <1>6, <1>7, InnerSleeps

LEMMA EraseTypes ==
  ASSUME NEW s \in States, NEW p \in Proc, NEW c \in EraseCalls
  PROVE  DeleteErase(s, p, c) \in States
<1>1. c \in Calls /\ c.inode \in Inode /\ c.slot \in Handle
  BY DEF Calls, InnerCalls, EraseCalls
<1>2. PICK a : a = InodeDelete(s.dfs, c.inode)
  OBVIOUS
<1>3. a.dfs \in DirectDrivers /\ a.takes \in {InodeLock, Both}
  <2>1. s.dfs \in DirectDrivers
    BY DEF States
  <2> QED BY <1>1, <1>2, <2>1, DeleteDirect
<1>4. PICK t \in States : t = After(s, p, a)
  BY <1>3, AfterTypes
<1>5. NullifyFileEntry(t, c.slot) \in States
  BY <1>1, NoFileOK, SetEntryOK DEF NullifyFileEntry
<1>6. /\ Return(t, p) \in States
      /\ GiveAndReturn(NullifyFileEntry(t, c.slot), p) \in States
  BY <1>5, ReturnOK
<1>7. DeleteErase(s, p, c) \in
        {Sleep(s, p, "inode_lock", c),
         Sleep(Take(s, p, "inode_lock"), p, "block_lock", c),
         Return(t, p), GiveAndReturn(NullifyFileEntry(t, c.slot), p)}
  BY <1>2, <1>4 DEF DeleteErase, Locked
<1> QED BY <1>1, <1>6, <1>7, InnerSleeps

\* A position changes.
MovedTo(s, h, pos) == [s EXCEPT !.files[h].pos = pos]

LEMMA MovedToOK ==
  ASSUME NEW s \in States, NEW h \in Handle, NEW pos \in Nat
  PROVE  /\ MovedTo(s, h, pos) \in States
         /\ MovedTo(s, h, pos).dfs = s.dfs
         /\ MovedTo(s, h, pos).locks = s.locks
         /\ MovedTo(s, h, pos).call = s.call
         /\ \A i \in Handle :
              /\ MovedTo(s, h, pos).files[i].inode = s.files[i].inode
              /\ MovedTo(s, h, pos).files[i].name = s.files[i].name
              /\ MovedTo(s, h, pos).files[i].owner = s.files[i].owner
<1>1. PICK f \in Files0 : f = s.files[h]
  BY DEF States
<1>2. PICK g : g = [f EXCEPT !.pos = pos]
  OBVIOUS
<1>3. g \in Files0 /\ g.inode = f.inode /\ g.name = f.name /\ g.owner = f.owner
  BY <1>2 DEF Files0
<1>4. MovedTo(s, h, pos) = [s EXCEPT !.files[h] = g]
  BY <1>1, <1>2 DEF MovedTo, States
<1>5. /\ MovedTo(s, h, pos) \in States
      /\ MovedTo(s, h, pos).files = [s.files EXCEPT ![h] = g]
      /\ MovedTo(s, h, pos).dfs = s.dfs
      /\ MovedTo(s, h, pos).locks = s.locks
      /\ MovedTo(s, h, pos).call = s.call
  <2>1. /\ [s EXCEPT !.files[h] = g] \in States
        /\ [s EXCEPT !.files[h] = g].files = [s.files EXCEPT ![h] = g]
        /\ [s EXCEPT !.files[h] = g].dfs = s.dfs
        /\ [s EXCEPT !.files[h] = g].locks = s.locks
        /\ [s EXCEPT !.files[h] = g].call = s.call
    BY <1>3, SetEntryOK
  <2> QED BY <1>4, <2>1
<1>6. s.files \in [Handle -> Files0]
  BY DEF States
<1> QED BY <1>1, <1>3, <1>5, <1>6

\* The number of bytes that were moved is added to the position, or nothing.
LEMMA MovedAnswers ==
  ASSUME NEW s \in States, NEW p \in Proc, NEW c, c.handle \in Handle, NEW a,
         a.ret \in Nat \cup {DFS_FAIL}
  PROVE  \/ Moved(s, p, c, a) = GiveAndReturn(s, p)
         \/ \E pos \in Nat :
              Moved(s, p, c, a) = GiveAndReturn(MovedTo(s, c.handle, pos), p)
<1>1. CASE a.ret = DFS_FAIL
  BY <1>1 DEF Moved
<1>2. CASE a.ret # DFS_FAIL
  <2>1. PICK h \in Handle : h = c.handle
    OBVIOUS
  <2>2. s.files[h].pos \in Nat
    BY DEF States, Files0
  <2>3. PICK pos \in Nat : pos = s.files[h].pos + a.ret
    BY <1>2, <2>2
  <2>4. MovedTo(s, h, pos) = [s EXCEPT !.files[h].pos = @ + a.ret]
    BY <2>3 DEF MovedTo
  <2>5. Moved(s, p, c, a) = GiveAndReturn(MovedTo(s, h, pos), p)
    BY <1>2, <2>1, <2>4 DEF Moved
  <2> QED BY <2>1, <2>5
<1> QED BY <1>1, <1>2

LEMMA MovedTypes ==
  ASSUME NEW s \in States, NEW p \in Proc, NEW c, c.handle \in Handle, NEW a,
         a.ret \in Nat \cup {DFS_FAIL}
  PROVE  Moved(s, p, c, a) \in States
<1>1. GiveAndReturn(s, p) \in States
  BY ReturnOK
<1>2. ASSUME NEW pos \in Nat
      PROVE  GiveAndReturn(MovedTo(s, c.handle, pos), p) \in States
  <2>1. MovedTo(s, c.handle, pos) \in States
    BY MovedToOK
  <2> QED BY <2>1, ReturnOK
<1> QED BY <1>1, <1>2, MovedAnswers

LEMMA ReadingTypes ==
  ASSUME NEW s \in States, NEW p \in Proc, NEW c \in ReadingCalls
  PROVE  ReadInode(s, p, c) \in States
<1>1. /\ c \in Calls /\ c.inode \in Inode /\ c.handle \in Handle
      /\ c.start \in Nat /\ c.num \in Nat
  BY DEF Calls, InnerCalls, ReadingCalls
<1>2. PICK a : a = ReadBytes(s.dfs, c.inode, c.start, c.num)
  OBVIOUS
<1>3. a.dfs \in DirectDrivers /\ a.takes \in {InodeLock, Both}
      /\ a.ret \in Nat \cup {DFS_FAIL}
  <2>1. s.dfs \in DirectDrivers
    BY DEF States
  <2> QED BY <1>1, <1>2, <2>1, ReadDirect
<1>4. PICK t \in States : t = After(s, p, a)
  BY <1>3, AfterTypes
<1>5. Moved(t, p, c, a) \in States
  BY <1>1, <1>3, MovedTypes
<1>6. ReadInode(s, p, c) \in
        {Sleep(s, p, "inode_lock", c),
         Sleep(Take(s, p, "inode_lock"), p, "block_lock", c), Moved(t, p, c, a)}
  BY <1>2, <1>4 DEF ReadInode, Locked
<1> QED BY <1>1, <1>5, <1>6, InnerSleeps

LEMMA WritingTypes ==
  ASSUME NEW s \in States, NEW p \in Proc, NEW c \in WritingCalls
  PROVE  WriteInode(s, p, c) \in States
<1>1. /\ c \in Calls /\ c.inode \in Inode /\ c.handle \in Handle
      /\ c.start \in Nat /\ c.num \in Nat /\ c.start + c.num <= MaxSize
  BY DEF Calls, InnerCalls, WritingCalls
<1>2. PICK a : a = WriteBytes(s.dfs, c.inode, c.start, c.num, 0, [e \in Entry |-> 0])
  OBVIOUS
<1>3. a.dfs \in DirectDrivers /\ a.takes \in {InodeLock, Both}
      /\ a.ret \in Nat \cup {DFS_FAIL}
  <2>1. s.dfs \in DirectDrivers
    BY DEF States
  <2> QED BY <1>1, <1>2, <2>1, WriteDirect
<1>4. PICK t \in States : t = After(s, p, a)
  BY <1>3, AfterTypes
<1>5. Moved(t, p, c, a) \in States
  BY <1>1, <1>3, MovedTypes
<1>6. WriteInode(s, p, c) \in
        {Sleep(s, p, "inode_lock", c),
         Sleep(Take(s, p, "inode_lock"), p, "block_lock", c), Moved(t, p, c, a)}
  BY <1>2, <1>4 DEF WriteInode, Locked
<1> QED BY <1>1, <1>5, <1>6, InnerSleeps

LEMMA OpenTypes ==
  ASSUME NEW s \in States, NEW p \in Proc, NEW c \in OpenCalls
  PROVE  OpenFile(s, p, c) \in States
<1>1. c \in Calls /\ c.name \in Names /\ c.mode \in Modes
  BY DEF Calls, FirstCalls, OpenCalls
<1>2. PICK found \in Inode \cup {DFS_FAIL} : found = FilenameExists(s.dfs, c.name)
  BY LookupAnswers
<1>3. PICK slot \in Handle \cup {DFS_FAIL} : slot = EntryOf(s, found)
  BY EntryAnswers
<1>4. PICK u \in States : u = Take(s, p, "file_lock")
  BY TakeOK DEF Lock
<1>5. PICK t \in States : t = CheckOwner(u, p, slot)
  BY CheckOwnerOK
<1>6. PICK c1 : c1 = [part |-> "truncate", name |-> c.name, mode |-> c.mode,
                      inode |-> found, slot |-> slot]
  OBVIOUS
<1>7. /\ c1.slot \in Handle \cup {DFS_FAIL} /\ c1.name \in Names /\ c1.mode \in Modes
      /\ c1.inode \in Inode \cup {DFS_FAIL}
  BY <1>1, <1>6
<1>8. FillEntry(t, p, c1) \in States /\ GiveAndReturn(u, p) \in States
  BY <1>7, FillTypes, ReturnOK
<1>9. found # DFS_FAIL => OpenTruncate(t, p, c1) \in States
  <2>1. found # DFS_FAIL => c1 \in TruncateCalls
    BY <1>1, <1>6 DEF TruncateCalls
  <2> QED BY <2>1, TruncateTypes
<1>10. OpenNew(t, p, c1) \in States
  <2>1. FilenameExists(t.dfs, c1.name) \in Inode \cup {DFS_FAIL}
    BY LookupAnswers
  <2>2. PICK e1 : e1 = [c1 EXCEPT !.inode = FilenameExists(t.dfs, c1.name)]
    OBVIOUS
  <2>3. /\ e1.slot \in Handle \cup {DFS_FAIL} /\ e1.name \in Names /\ e1.mode \in Modes
        /\ e1.inode \in Inode \cup {DFS_FAIL}
    BY <1>1, <1>6, <2>1, <2>2
  <2>4. FillEntry(t, p, e1) \in States
    BY <2>3, FillTypes
  <2>5. [c1 EXCEPT !.part = "create"] \in CreateCalls
    BY <1>1, <1>6 DEF CreateCalls
  <2>6. OpenCreate(t, p, [c1 EXCEPT !.part = "create"]) \in States
    BY <2>5, CreateTypes
  <2> QED BY <2>2, <2>4, <2>6 DEF OpenNew
<1>11. Sleep(s, p, "file_lock", c) \in States
  BY <1>1, InnerSleeps
<1>12. /\ OpenFile(s, p, c) \in
           {Sleep(s, p, "file_lock", c), GiveAndReturn(u, p), FillEntry(t, p, c1),
            OpenTruncate(t, p, c1), OpenNew(t, p, c1)}
       /\ found = DFS_FAIL => OpenFile(s, p, c) \in
           {Sleep(s, p, "file_lock", c), GiveAndReturn(u, p), FillEntry(t, p, c1),
            OpenNew(t, p, c1)}
  BY <1>2, <1>3, <1>4, <1>5, <1>6 DEF OpenFile
<1> QED BY <1>8, <1>9, <1>10, <1>11, <1>12

LEMMA DeleteTypes ==
  ASSUME NEW s \in States, NEW p \in Proc, NEW c \in DeleteCalls
  PROVE  DeleteFile(s, p, c) \in States
<1>1. c \in Calls
  BY DEF Calls, FirstCalls
<1>2. PICK found \in Inode \cup {DFS_FAIL} : found = FilenameExists(s.dfs, c.name)
  BY LookupAnswers
<1>3. PICK slot \in Handle \cup {DFS_FAIL} : slot = EntryOf(s, found)
  BY EntryAnswers
<1>4. PICK u \in States : u = Take(s, p, "file_lock")
  BY TakeOK DEF Lock
<1>5. PICK t \in States : t = CheckOwner(u, p, slot)
  BY CheckOwnerOK
<1>6. PICK c1 : c1 = [part |-> "erase", inode |-> found, slot |-> slot]
  OBVIOUS
<1>7. found # DFS_FAIL /\ slot # DFS_FAIL => DeleteErase(t, p, c1) \in States
  <2>1. found # DFS_FAIL /\ slot # DFS_FAIL => c1 \in EraseCalls
    BY <1>6 DEF EraseCalls
  <2> QED BY <2>1, EraseTypes
<1>8. Return(t, p) \in States /\ GiveAndReturn(t, p) \in States
  BY ReturnOK
<1>9. Sleep(s, p, "file_lock", c) \in States
  BY <1>1, InnerSleeps
<1>10. DeleteFile(s, p, c) =
         IF ~MayTake(s, p, "file_lock") THEN Sleep(s, p, "file_lock", c)
         ELSE IF found = DFS_FAIL THEN Return(t, p)
         ELSE IF slot = DFS_FAIL THEN GiveAndReturn(t, p)
         ELSE DeleteErase(t, p, c1)
  BY <1>2, <1>3, <1>4, <1>5, <1>6 DEF DeleteFile
<1> QED BY <1>7, <1>8, <1>9, <1>10

LEMMA CloseTypes ==
  ASSUME NEW s \in States, NEW p \in Proc, NEW c \in CloseCalls
  PROVE  CloseFile(s, p, c) \in States
<1>1. c \in Calls /\ c.handle \in Handle
  BY DEF Calls, FirstCalls, CloseCalls
<1>2. PICK u \in States : u = Take(s, p, "file_lock")
  BY TakeOK DEF Lock
<1>3. NullifyFileEntry(u, c.handle) \in States
  BY <1>1, NoFileOK, SetEntryOK DEF NullifyFileEntry
<1>4. GiveAndReturn(NullifyFileEntry(u, c.handle), p) \in States
  BY <1>3, ReturnOK
<1>5. Sleep(s, p, "file_lock", c) \in States
  BY <1>1, InnerSleeps
<1> QED BY <1>2, <1>4, <1>5 DEF CloseFile

LEMMA SizeOK ==
  ASSUME NEW s \in States, NEW h \in Handle, s.files[h].inode # DFS_FAIL
  PROVE  s.files[h].inode \in Inode /\ Size(s, h) \in Nat /\ s.files[h].pos \in Nat
<1>1. s.files[h] \in Files0
  BY DEF States
<1>2. PICK i \in Inode : i = s.files[h].inode
  BY <1>1 DEF Files0
<1>3. s.dfs.inodes[i] \in InodeRecord
  BY DEF States, DirectDrivers, Drivers
<1> QED BY <1>1, <1>2, <1>3 DEF Size, Files0, InodeRecord

LEMMA ReadTypes ==
  ASSUME NEW s \in States, NEW p \in Proc, NEW c \in MoveCalls,
         MayTake(s, p, "file_lock") =>
           s.files[c.handle].inode # DFS_FAIL /\ ReadLength(s, c.handle, c.num) >= 0
  PROVE  ReadFile(s, p, c) \in States
<1>1. c \in Calls /\ c.handle \in Handle /\ c.num \in Nat
  BY LengthAssumption DEF Calls, FirstCalls, MoveCalls
<1>2. PICK u \in States : u = Take(s, p, "file_lock")
  BY TakeOK DEF Lock
<1>3. CASE ~MayTake(s, p, "file_lock")
  <2>1. Sleep(s, p, "file_lock", c) \in States
    BY <1>1, InnerSleeps
  <2> QED BY <1>3, <2>1 DEF ReadFile
<1>4. CASE MayTake(s, p, "file_lock")
  <2>1. PICK c1 : c1 = InodeCall(s, c, "reading", ReadLength(s, c.handle, c.num))
    OBVIOUS
  <2>2. /\ s.files[c.handle].inode \in Inode /\ Size(s, c.handle) \in Nat
        /\ s.files[c.handle].pos \in Nat
    BY <1>1, <1>4, SizeOK
  <2>3. ReadLength(s, c.handle, c.num) \in Nat
    BY <1>1, <1>4, <2>2 DEF ReadLength
  <2>4. c1 \in ReadingCalls
    BY <1>1, <2>1, <2>2, <2>3 DEF InodeCall, ReadingCalls
  <2>5. ReadInode(u, p, c1) \in States
    BY <2>4, ReadingTypes
  <2> QED BY <1>2, <1>4, <2>1, <2>5 DEF ReadFile
<1> QED BY <1>3, <1>4

LEMMA WriteTypes ==
  ASSUME NEW s \in States, NEW p \in Proc, NEW c \in MoveCalls,
         MayTake(s, p, "file_lock") =>
           s.files[c.handle].inode # DFS_FAIL /\ s.files[c.handle].pos + c.num <= MaxSize
  PROVE  WriteFile(s, p, c) \in States
<1>1. c \in Calls /\ c.handle \in Handle /\ c.num \in Nat
  BY LengthAssumption DEF Calls, FirstCalls, MoveCalls
<1>2. PICK u \in States : u = Take(s, p, "file_lock")
  BY TakeOK DEF Lock
<1>3. CASE ~MayTake(s, p, "file_lock")
  <2>1. Sleep(s, p, "file_lock", c) \in States
    BY <1>1, InnerSleeps
  <2> QED BY <1>3, <2>1 DEF WriteFile
<1>4. CASE MayTake(s, p, "file_lock")
  <2>1. PICK c1 : c1 = InodeCall(s, c, "writing", c.num)
    OBVIOUS
  <2>2. s.files[c.handle].inode \in Inode /\ s.files[c.handle].pos \in Nat
    BY <1>1, <1>4, SizeOK
  <2>3. c1 \in WritingCalls
    BY <1>1, <1>4, <2>1, <2>2 DEF InodeCall, WritingCalls
  <2>4. WriteInode(u, p, c1) \in States
    BY <2>3, WritingTypes
  <2> QED BY <1>2, <1>4, <2>1, <2>4 DEF WriteFile
<1> QED BY <1>3, <1>4

LEMMA SeekTypes ==
  ASSUME NEW s \in States, NEW p \in Proc, NEW c \in SeekCalls,
         MayTake(s, p, "file_lock") /\ c.from # "other" => SeekTo(s, c) \in 0 .. MaxSize
  PROVE  SeekFile(s, p, c) \in States
<1>1. c \in Calls /\ c.handle \in Handle
  BY DEF Calls, FirstCalls, SeekCalls
<1>2. PICK u \in States : u = Take(s, p, "file_lock")
  BY TakeOK DEF Lock
<1>3. Sleep(s, p, "file_lock", c) \in States
  BY <1>1, InnerSleeps
<1>4. GiveAndReturn(u, p) \in States
  BY ReturnOK
<1>5. CASE ~MayTake(s, p, "file_lock") \/ c.from = "other"
  BY <1>2, <1>3, <1>4, <1>5 DEF SeekFile
<1>6. CASE MayTake(s, p, "file_lock") /\ c.from # "other"
  <2>1. PICK pos \in Nat : pos = SeekTo(s, c)
    BY <1>6
  <2>2. PICK t \in States : t = MovedTo(u, c.handle, pos)
    BY <1>1, MovedToOK
  <2>3. Return(t, p) \in States /\ GiveAndReturn(t, p) \in States
    BY ReturnOK
  <2>4. SeekFile(s, p, c) \in {Return(t, p), GiveAndReturn(t, p)}
    BY <1>2, <1>6, <2>1, <2>2 DEF SeekFile, MovedTo
  <2> QED BY <2>3, <2>4
<1> QED BY <1>5, <1>6

-----------------------------------------------------------------------------
(* The steps of a process.                                                 *)

Handler(s, p, c) ==
  CASE c.part = "open" -> OpenFile(s, p, c)
    [] c.part = "truncate" -> OpenTruncate(s, p, c)
    [] c.part = "create" -> OpenCreate(s, p, c)
    [] c.part = "delete" -> DeleteFile(s, p, c)
    [] c.part = "erase" -> DeleteErase(s, p, c)
    [] c.part = "close" -> CloseFile(s, p, c)
    [] c.part = "read" -> ReadFile(s, p, c)
    [] c.part = "reading" -> ReadInode(s, p, c)
    [] c.part = "write" -> WriteFile(s, p, c)
    [] c.part = "writing" -> WriteInode(s, p, c)
    [] c.part = "seek" -> SeekFile(s, p, c)

\* The handlers do not go where the model does not follow.
Follows(s, p, c) ==
  MayTake(s, p, "file_lock") =>
    /\ c.part \in {"read", "write", "seek"} /\ ~(c.part = "seek" /\ c.from = "other")
       => s.files[c.handle].inode # DFS_FAIL
    /\ c.part = "read" => ReadLength(s, c.handle, c.num) >= 0
    /\ c.part = "write" => s.files[c.handle].pos + c.num <= MaxSize
    /\ c.part = "seek" /\ c.from # "other" => SeekTo(s, c) \in 0 .. MaxSize

LEMMA Parts ==
  /\ \A c \in OpenCalls : c.part = "open"
  /\ \A c \in DeleteCalls : c.part = "delete"
  /\ \A c \in CloseCalls : c.part = "close"
  /\ \A c \in MoveCalls : c.part \in {"read", "write"}
  /\ \A c \in SeekCalls : c.part = "seek"
  /\ \A c \in TruncateCalls : c.part = "truncate"
  /\ \A c \in CreateCalls : c.part = "create"
  /\ \A c \in EraseCalls : c.part = "erase"
  /\ \A c \in ReadingCalls : c.part = "reading"
  /\ \A c \in WritingCalls : c.part = "writing"
  /\ NoCall.part = "none"
BY DEF OpenCalls, DeleteCalls, CloseCalls, MoveCalls, SeekCalls, TruncateCalls,
       CreateCalls, EraseCalls, ReadingCalls, WritingCalls, NoCall

LEMMA HandlerTypes ==
  ASSUME NEW s \in States, NEW p \in Proc, NEW c \in FirstCalls \cup InnerCalls,
         Follows(s, p, c)
  PROVE  Handler(s, p, c) \in States
<1>1. CASE c \in OpenCalls
  <2>1. c.part = "open" /\ OpenFile(s, p, c) \in States
    BY <1>1, Parts, OpenTypes
  <2> QED BY <2>1 DEF Handler
<1>2. CASE c \in DeleteCalls
  <2>1. c.part = "delete" /\ DeleteFile(s, p, c) \in States
    BY <1>2, Parts, DeleteTypes
  <2> QED BY <2>1 DEF Handler
<1>3. CASE c \in CloseCalls
  <2>1. c.part = "close" /\ CloseFile(s, p, c) \in States
    BY <1>3, Parts, CloseTypes
  <2> QED BY <2>1 DEF Handler
<1>4. CASE c \in MoveCalls /\ c.part = "read"
  <2>1. ReadFile(s, p, c) \in States
    BY <1>4, ReadTypes DEF Follows
  <2> QED BY <1>4, <2>1 DEF Handler
<1>5. CASE c \in MoveCalls /\ c.part = "write"
  <2>1. WriteFile(s, p, c) \in States
    BY <1>5, WriteTypes DEF Follows
  <2> QED BY <1>5, <2>1 DEF Handler
<1>6. CASE c \in SeekCalls
  <2>1. c.part = "seek"
    BY <1>6, Parts
  <2>2. SeekFile(s, p, c) \in States
    BY <1>6, <2>1, SeekTypes DEF Follows
  <2> QED BY <2>1, <2>2 DEF Handler
<1>7. CASE c \in TruncateCalls
  <2>1. c.part = "truncate" /\ OpenTruncate(s, p, c) \in States
    BY <1>7, Parts, TruncateTypes
  <2> QED BY <2>1 DEF Handler
<1>8. CASE c \in CreateCalls
  <2>1. c.part = "create" /\ OpenCreate(s, p, c) \in States
    BY <1>8, Parts, CreateTypes
  <2> QED BY <2>1 DEF Handler
<1>9. CASE c \in EraseCalls
  <2>1. c.part = "erase" /\ DeleteErase(s, p, c) \in States
    BY <1>9, Parts, EraseTypes
  <2> QED BY <2>1 DEF Handler
<1>10. CASE c \in ReadingCalls
  <2>1. c.part = "reading" /\ ReadInode(s, p, c) \in States
    BY <1>10, Parts, ReadingTypes
  <2> QED BY <2>1 DEF Handler
<1>11. CASE c \in WritingCalls
  <2>1. c.part = "writing" /\ WriteInode(s, p, c) \in States
    BY <1>11, Parts, WritingTypes
  <2> QED BY <2>1 DEF Handler
<1>12. c.part \in {"read", "write"} \/ c \notin MoveCalls
  BY Parts
<1> QED BY <1>1, <1>2, <1>3, <1>4, <1>5, <1>6, <1>7, <1>8, <1>9, <1>10, <1>11, <1>12
        DEF FirstCalls, InnerCalls

\* The processes that sleep for the lock l.
Sleeps(s, p, l) == \E i \in DOMAIN s.locks[l].queue : s.locks[l].queue[i] = p

\* A step runs the handler of a new call, or goes on with that of a process
\* that nobody keeps asleep.
LEMMA StepRuns ==
  ASSUME TypeInv, NEW p \in Proc, Step(p)
  PROVE  \E c \in FirstCalls \cup InnerCalls :
           /\ \/ Now.call[p] = NoCall /\ c \in FirstCalls
                 /\ (c.part \in {"open", "delete"} => c.name \in Uses[p])
              \/ c = Now.call[p] /\ \A l \in Lock : ~Sleeps(Now, p, l)
           /\ Follows(Now, p, c) /\ Now' = Handler(Now, p, c)
<1>1. ASSUME NEW c \in FirstCalls \cup InnerCalls, Run(p, c)
      PROVE  Follows(Now, p, c) /\ Now' = Handler(Now, p, c)
  <2>1. Follows(Now, p, c)
    BY <1>1 DEF Run, Followed, Follows, Now
  <2>2. PICK s : s = Handler(Now, p, c)
    OBVIOUS
  <2>3. s \in States
    BY <2>1, <2>2, HandlerTypes DEF TypeInv
  <2>4. Becomes(s)
    BY <1>1, <2>2 DEF Run, Handler
  <2>5. Now' = s
    BY <2>3, <2>4 DEF Becomes, Now, States
  <2> QED BY <2>1, <2>2, <2>5
<1>2. Uses[p] \subseteq Names
  BY UseAssumption
<1>3. CASE Open(p)
  <2>1. PICK name \in Uses[p], mode \in Modes :
          Run(p, [part |-> "open", name |-> name, mode |-> mode])
    BY <1>3 DEF Open
  <2>2. PICK c : c = [part |-> "open", name |-> name, mode |-> mode]
    OBVIOUS
  <2>3. c \in FirstCalls /\ c.name \in Uses[p]
    BY <1>2, <2>2 DEF FirstCalls, OpenCalls
  <2> QED BY <1>1, <1>3, <2>1, <2>2, <2>3 DEF Open, Idle, Now
<1>4. CASE Delete(p)
  <2>1. PICK name \in Uses[p] : Run(p, [part |-> "delete", name |-> name])
    BY <1>4 DEF Delete
  <2>2. PICK c : c = [part |-> "delete", name |-> name]
    OBVIOUS
  <2>3. c \in FirstCalls /\ c.name \in Uses[p]
    BY <1>2, <2>2 DEF FirstCalls, DeleteCalls
  <2> QED BY <1>1, <1>4, <2>1, <2>2, <2>3 DEF Delete, Idle, Now
<1>5. CASE Close(p)
  <2>1. PICK h \in Owned(p) : Run(p, [part |-> "close", handle |-> h])
    BY <1>5 DEF Close
  <2>2. PICK c : c = [part |-> "close", handle |-> h]
    OBVIOUS
  <2>3. c \in FirstCalls /\ c.part = "close"
    BY <2>2 DEF FirstCalls, CloseCalls, Owned
  <2> QED BY <1>1, <1>5, <2>1, <2>2, <2>3 DEF Close, Idle, Now
<1>6. CASE Read(p)
  <2>1. PICK h \in Owned(p), num \in Lengths :
          Run(p, [part |-> "read", handle |-> h, num |-> num])
    BY <1>6 DEF Read
  <2>2. PICK c : c = [part |-> "read", handle |-> h, num |-> num]
    OBVIOUS
  <2>3. c \in FirstCalls /\ c.part = "read"
    BY <2>2 DEF FirstCalls, MoveCalls, Owned
  <2> QED BY <1>1, <1>6, <2>1, <2>2, <2>3 DEF Read, Idle, Now
<1>7. CASE Write(p)
  <2>1. PICK h \in Owned(p), num \in Lengths :
          Run(p, [part |-> "write", handle |-> h, num |-> num])
    BY <1>7 DEF Write
  <2>2. PICK c : c = [part |-> "write", handle |-> h, num |-> num]
    OBVIOUS
  <2>3. c \in FirstCalls /\ c.part = "write"
    BY <2>2 DEF FirstCalls, MoveCalls, Owned
  <2> QED BY <1>1, <1>7, <2>1, <2>2, <2>3 DEF Write, Idle, Now
<1>8. CASE Seek(p)
  <2>1. PICK h \in Owned(p), to \in Seeks :
          Run(p, [part |-> "seek", handle |-> h, from |-> to[1], num |-> to[2]])
    BY <1>8 DEF Seek
  <2>2. PICK c : c = [part |-> "seek", handle |-> h, from |-> to[1], num |-> to[2]]
    OBVIOUS
  <2>3. to[1] \in {"cur", "set", "end", "other"} /\ to[2] \in Int
    BY LengthAssumption
  <2>4. c \in FirstCalls /\ c.part = "seek"
    BY <2>2, <2>3 DEF FirstCalls, SeekCalls, Owned
  <2> QED BY <1>1, <1>8, <2>1, <2>2, <2>4 DEF Seek, Idle, Now
<1>9. CASE Resume(p)
  <2>1. PICK c : c = Now.call[p]
    OBVIOUS
  <2>2. c # NoCall /\ Run(p, c) /\ \A l \in Lock : ~Sleeps(Now, p, l)
    BY <1>9, <2>1 DEF Resume, Idle, Now, Sleeps
  <2>3. c \in FirstCalls \cup InnerCalls
    BY <2>1, <2>2 DEF TypeInv, States, Calls
  <2> QED BY <1>1, <2>1, <2>2, <2>3
<1> QED BY <1>3, <1>4, <1>5, <1>6, <1>7, <1>8, <1>9 DEF Step

LEMMA InitTypes == Init => TypeInv
<1> SUFFICES ASSUME Init PROVE TypeInv
  OBVIOUS
<1>1. dfs \in DirectDrivers
  <2>1. dfs.used = Meta /\ \A i \in Inode : dfs.inodes[i] = NoInode
    BY DEF Init, Formatted
  <2>2. NoInode.indirect = 0 /\ \A v \in Slot : NoInode.table[v] = 0
    BY NoInodeOK DEF NoInode
  <2>3. OwnedBlocks(dfs) /\ DirectFiles(dfs)
    BY <2>1, <2>2 DEF OwnedBlocks, DirectFiles
  <2> QED BY <2>3, FormattedOK DEF Init, DirectDrivers
<1>2. files \in [Handle -> Files0]
  BY NoFileOK DEF Init
<1>3. locks \in [Lock -> LockRecord]
  BY DEF Init, LockRecord
<1>4. call \in [Proc -> Calls]
  BY DEF Init, Calls
<1> QED BY <1>1, <1>2, <1>3, <1>4 DEF TypeInv, Now, States

LEMMA StepTypes == TypeInv /\ [Next]_vars => TypeInv'
<1> SUFFICES ASSUME TypeInv, [Next]_vars PROVE TypeInv'
  OBVIOUS
<1>1. ASSUME NEW p \in Proc, Step(p) PROVE TypeInv'
  <2>1. PICK c \in FirstCalls \cup InnerCalls :
          Follows(Now, p, c) /\ Now' = Handler(Now, p, c)
    BY <1>1, StepRuns
  <2> QED BY <2>1, HandlerTypes DEF TypeInv
<1>2. CASE UNCHANGED vars
  BY <1>2 DEF TypeInv, Now, vars
<1> QED BY <1>1, <1>2 DEF Next

LEMMA TypeInvHolds == Spec => []TypeInv
BY InitTypes, StepTypes, PTL DEF Spec

\* However the handlers of several processes interleave, and whatever a process
\* finds changed when it goes on: no entry, lock, inode or block leaves its type,
\* and no file gets an indirect block (files.c 95-477).
THEOREM TypeCorrect == Spec => []TypeOK
<1>1. TypeInv => TypeOK
  <2> SUFFICES ASSUME TypeInv PROVE TypeOK
    OBVIOUS
  <2>1. /\ dfs \in DirectDrivers /\ files \in [Handle -> Files0]
        /\ locks \in [Lock -> LockRecord] /\ call \in [Proc -> Calls]
    BY DEF TypeInv, Now, States
  <2>2. dfs.used \subseteq Block
    BY <2>1 DEF DirectDrivers, Drivers
  <2>3. \A i \in Inode : dfs.inodes[i] \in [inuse : BOOLEAN, name : Names \cup {""},
                           size : Nat, table : [Slot -> Block], indirect : {0}]
    BY <2>1 DEF DirectDrivers, DirectFiles, Drivers, InodeRecord
  <2>4. dfs.inodes \in [Inode -> [inuse : BOOLEAN, name : Names \cup {""}, size : Nat,
                               table : [Slot -> Block], indirect : {0}]]
    BY <2>1, <2>3 DEF DirectDrivers, Drivers
  <2>5. \A p \in Proc : call[p] # NoCall => call[p].part # "none"
    BY <2>1, Parts DEF Calls, FirstCalls, InnerCalls
  <2> QED BY <2>1, <2>2, <2>4, <2>5 DEF TypeOK, Files0, LockRecord, Idle
<1> QED BY <1>1, TypeInvHolds, PTL

-----------------------------------------------------------------------------
(* Names, entries and the order of the locks.                              *)

\* No process uses a name that a lookup takes for one of another process, and
\* names that a lookup takes for the same one are taken for each other.
SeparateNames ==
  /\ \A p, q \in Proc : \A m \in Uses[p], n \in Uses[q] : <<m, n>> \in Match => p = q
  /\ \A l, m, n \in Names : <<l, m>> \in Match /\ <<m, n>> \in Match => <<l, n>> \in Match

InnerParts == {"truncate", "create", "erase", "reading", "writing"}

\* The open file f names a file of the driver d, and is one of its owner's.
EntryFits(d, f) ==
  /\ d.inodes[f.inode].inuse
  /\ <<d.inodes[f.inode].name, f.name>> \in Match
  /\ f.owner \in Proc
  /\ f.name \in Uses[f.owner]

Entries(s) ==
  /\ \A h \in Handle : s.files[h].inode # DFS_FAIL => EntryFits(s.dfs, s.files[h])
  /\ \A h, i \in Handle : /\ s.files[h].inode # DFS_FAIL
                          /\ s.files[h].inode = s.files[i].inode
                          => h = i

Apart(d) ==
  \A h, i \in Inode : /\ d.inodes[h].inuse /\ d.inodes[i].inuse
                      /\ <<d.inodes[h].name, d.inodes[i].name>> \in Match
                      => h = i

\* A process asks for its own names.
Named(q, c) == c.part \in {"open", "delete", "truncate", "create"} => c.name \in Uses[q]

\* What a handler has found out before it sleeps is still so: the lock that it
\* holds keeps the others from the files and the table.
Pending(s, c) ==
  /\ c.part = "truncate" =>
       c.inode \in Found(s.dfs, c.name) /\ c.slot = EntryOf(s, c.inode)
  /\ c.part = "create" => Found(s.dfs, c.name) = {} /\ c.slot = DFS_FAIL
  /\ c.part = "erase" =>
       s.dfs.inodes[c.inode].inuse /\ s.files[c.slot].inode = c.inode

\* Whoever is in an inode function has file_lock; whoever sleeps has a call, one
\* in an inode function unless the lock is file_lock; and whoever sleeps for
\* block_lock has inode_lock.
Ordered(s) ==
  /\ \A q \in Proc : s.call[q].part \in InnerParts => s.locks["file_lock"].owner = q
  /\ \A q \in Proc, l \in Lock : Sleeps(s, q, l) => s.call[q] # NoCall
  /\ \A q \in Proc, l \in {"inode_lock", "block_lock"} :
       Sleeps(s, q, l) => s.call[q].part \in InnerParts
  /\ \A q \in Proc : Sleeps(s, q, "block_lock") => s.locks["inode_lock"].owner = q

Good(s) ==
  /\ Ordered(s)
  /\ Entries(s)
  /\ Apart(s.dfs)
  /\ \A q \in Proc : Named(q, s.call[q]) /\ Pending(s, s.call[q])

\* The process p runs a handler in which it has file_lock.
Holds(s, p) ==
  /\ s.locks["file_lock"].owner = p
  /\ ~Sleeps(s, p, "file_lock")
  /\ \A q \in Proc : Sleeps(s, q, "file_lock") => s.call[q] # NoCall
  /\ s.locks["inode_lock"].queue = <<>> /\ s.locks["block_lock"].queue = <<>>
  /\ \A q \in Proc : q # p => s.call[q].part \notin InnerParts /\ Named(q, s.call[q])

Running(s, p) == Holds(s, p) /\ Entries(s) /\ Apart(s.dfs)

LEMMA NobodyOwns ==
  ASSUME NEW s \in States, NEW p \in Proc, NEW l \in Lock
  PROVE  /\ Nobody \notin Proc /\ s.locks[l] \in LockRecord
         /\ s.locks[l].queue \in Seq(Proc)
         /\ s.locks[l].queue # <<>> =>
              \E q \in Proc : q = Head(s.locks[l].queue) /\ Sleeps(s, q, l)
<1>1. s.locks[l] \in LockRecord
  BY DEF States
<1>2. PICK queue \in Seq(Proc) : queue = s.locks[l].queue
  BY <1>1 DEF LockRecord
<1>3. queue # <<>> => 1 \in DOMAIN queue /\ queue[1] \in Proc /\ Head(queue) = queue[1]
  OBVIOUS
<1> QED BY <1>1, <1>2, <1>3, ProcAssumption DEF Sleeps

\* Nobody sleeps in a handler while another process is in an inode function.
LEMMA FreeQueues ==
  ASSUME NEW s \in States, NEW p \in Proc, Ordered(s),
         s.locks["file_lock"].owner \in {p, Nobody}, \A l \in Lock : ~Sleeps(s, p, l)
  PROVE  /\ s.locks["inode_lock"].queue = <<>> /\ s.locks["block_lock"].queue = <<>>
         /\ \A q \in Proc : q # p => s.call[q].part \notin InnerParts
<1>1. \A q \in Proc : q # p => s.call[q].part \notin InnerParts
  BY ProcAssumption DEF Ordered
<1>2. "inode_lock" \in Lock /\ "block_lock" \in Lock
  BY DEF Lock
<1>3. ASSUME NEW l \in {"inode_lock", "block_lock"}, s.locks[l].queue # <<>>
      PROVE  FALSE
  <2>1. PICK q \in Proc : Sleeps(s, q, l)
    BY <1>2, <1>3, NobodyOwns
  <2>2. s.call[q].part \in InnerParts
    BY <2>1 DEF Ordered
  <2> QED BY <1>1, <1>2, <2>1, <2>2
<1> QED BY <1>1, <1>3

\* A process that may take file_lock runs alone.
LEMMA StartRunning ==
  ASSUME NEW s \in States, NEW p \in Proc, Good(s), MayTake(s, p, "file_lock"),
         \A l \in Lock : ~Sleeps(s, p, l)
  PROVE  Running(Take(s, p, "file_lock"), p)
<1>1. "file_lock" \in Lock /\ "inode_lock" \in Lock /\ "block_lock" \in Lock
  BY DEF Lock
<1>2. PICK u \in States : u = Take(s, p, "file_lock")
  BY <1>1, TakeOK
<1>3. /\ u.dfs = s.dfs /\ u.files = s.files /\ u.call = s.call
      /\ u.locks = [s.locks EXCEPT !["file_lock"].owner = p]
  BY <1>1, <1>2, TakeOK
<1>4. s.locks \in [Lock -> LockRecord]
  BY DEF States
<1>5. /\ u.locks["file_lock"].owner = p
      /\ u.locks["file_lock"].queue = s.locks["file_lock"].queue
      /\ u.locks["inode_lock"] = s.locks["inode_lock"]
      /\ u.locks["block_lock"] = s.locks["block_lock"]
  BY <1>1, <1>3, <1>4 DEF LockRecord
<1>6. Ordered(s) /\ Entries(s) /\ Apart(s.dfs) /\ \A q \in Proc : Named(q, s.call[q])
  BY DEF Good
<1>7. /\ s.locks["inode_lock"].queue = <<>> /\ s.locks["block_lock"].queue = <<>>
      /\ \A q \in Proc : q # p => s.call[q].part \notin InnerParts
  BY <1>6, FreeQueues DEF MayTake
<1>8. \A q \in Proc : Sleeps(u, q, "file_lock") <=> Sleeps(s, q, "file_lock")
  BY <1>5 DEF Sleeps
<1>9. Holds(u, p)
  BY <1>1, <1>3, <1>5, <1>6, <1>7, <1>8 DEF Holds, Ordered
<1>10. Entries(u) /\ Apart(u.dfs)
  BY <1>3, <1>6 DEF Entries
<1> QED BY <1>2, <1>9, <1>10 DEF Running

LEMMA StartInner ==
  ASSUME NEW s \in States, NEW p \in Proc, Good(s), s.call[p].part \in InnerParts,
         \A l \in Lock : ~Sleeps(s, p, l)
  PROVE  Running(s, p)
<1>1. "file_lock" \in Lock
  BY DEF Lock
<1>2. Ordered(s) /\ Entries(s) /\ Apart(s.dfs) /\ \A q \in Proc : Named(q, s.call[q])
  BY DEF Good
<1>3. s.locks["file_lock"].owner = p
  BY <1>2 DEF Ordered
<1>4. /\ s.locks["inode_lock"].queue = <<>> /\ s.locks["block_lock"].queue = <<>>
      /\ \A q \in Proc : q # p => s.call[q].part \notin InnerParts
  BY <1>2, <1>3, FreeQueues
<1> QED BY <1>1, <1>2, <1>3, <1>4 DEF Running, Holds, Ordered

\* The end of a handler, with file_lock kept or given to the next process.
LEMMA Finished ==
  ASSUME NEW s \in States, NEW p \in Proc, NEW t \in States,
         t.dfs = s.dfs, t.files = s.files, t.call = [s.call EXCEPT ![p] = NoCall],
         t.locks["inode_lock"] = s.locks["inode_lock"],
         t.locks["block_lock"] = s.locks["block_lock"],
         \A q \in Proc : Sleeps(t, q, "file_lock") => Sleeps(s, q, "file_lock"),
         Running(s, p)
  PROVE  Good(t)
<1>1. s.call \in [Proc -> Calls]
  BY DEF States
<1>2. /\ t.call[p] = NoCall
      /\ \A q \in Proc : q # p => t.call[q] = s.call[q]
  BY <1>1
<1>3. NoCall.part = "none"
  BY Parts
<1>4. \A q \in Proc : t.call[q].part \notin InnerParts /\ Named(q, t.call[q])
  BY <1>2, <1>3 DEF Running, Holds, Named, InnerParts
<1>5. \A q \in Proc : Pending(t, t.call[q])
  BY <1>4 DEF Pending, InnerParts
<1>6. \A q \in Proc : ~Sleeps(t, q, "inode_lock") /\ ~Sleeps(t, q, "block_lock")
  BY DEF Running, Holds, Sleeps
<1>7. \A q \in Proc : Sleeps(t, q, "file_lock") => t.call[q] # NoCall
  BY <1>2 DEF Running, Holds
<1>8. Ordered(t)
  BY <1>4, <1>6, <1>7 DEF Ordered, Lock
<1>9. Entries(t) /\ Apart(t.dfs)
  BY DEF Running, Entries
<1> QED BY <1>4, <1>5, <1>8, <1>9 DEF Good

LEMMA ReturnGood ==
  ASSUME NEW s \in States, NEW p \in Proc, Running(s, p)
  PROVE  Good(Return(s, p))
<1>1. /\ Return(s, p) \in States
      /\ Return(s, p).dfs = s.dfs /\ Return(s, p).files = s.files
      /\ Return(s, p).locks = s.locks
      /\ Return(s, p).call = [s.call EXCEPT ![p] = NoCall]
  BY ReturnOK
<1>2. PICK t \in States : t = Return(s, p)
  BY <1>1
<1>3. \A q \in Proc : Sleeps(t, q, "file_lock") => Sleeps(s, q, "file_lock")
  BY <1>1, <1>2 DEF Sleeps
<1>4. Good(t)
  BY <1>1, <1>2, <1>3, Finished
<1> QED BY <1>2, <1>4

\* Giving a lock wakes nobody but the process that waited first.
LEMMA GiveSleeps ==
  ASSUME NEW s \in States, NEW p \in Proc, NEW l \in Lock, NEW q \in Proc,
         Sleeps(Give(s, p, l), q, l)
  PROVE  Sleeps(s, q, l)
<1>1. PICK lock \in LockRecord : lock = s.locks[l]
  BY DEF States
<1>2. CASE lock.owner # p
  BY <1>1, <1>2 DEF Give
<1>3. CASE lock.owner = p /\ lock.queue = <<>>
  <2>1. Give(s, p, l) = [s EXCEPT !.locks[l].owner = Nobody]
    BY <1>1, <1>3 DEF Give
  <2>2. Give(s, p, l).locks[l].queue = lock.queue
    BY <1>1, <2>1 DEF States, LockRecord
  <2> QED BY <1>1, <2>2 DEF Sleeps
<1>4. CASE lock.owner = p /\ lock.queue # <<>>
  <2>1. Give(s, p, l) = [s EXCEPT !.locks[l] = [owner |-> Head(lock.queue),
                                                queue |-> Tail(lock.queue)]]
    BY <1>1, <1>4 DEF Give
  <2>2. Give(s, p, l).locks[l].queue = Tail(lock.queue)
    BY <2>1 DEF States
  <2>3. PICK queue \in Seq(Proc) : queue = lock.queue
    BY DEF LockRecord
  <2>4. PICK i \in DOMAIN Tail(queue) : Tail(queue)[i] = q
    BY <2>2, <2>3 DEF Sleeps
  <2>5. i + 1 \in DOMAIN queue /\ queue[i + 1] = q
    BY <1>4, <2>3, <2>4
  <2> QED BY <1>1, <2>3, <2>5 DEF Sleeps
<1> QED BY <1>2, <1>3, <1>4

LEMMA GiveAndReturnGood ==
  ASSUME NEW s \in States, NEW p \in Proc, Running(s, p)
  PROVE  Good(GiveAndReturn(s, p))
<1>1. "file_lock" \in Lock /\ "inode_lock" \in Lock /\ "block_lock" \in Lock
  BY DEF Lock
<1>2. /\ Give(s, p, "file_lock") \in States
      /\ Give(s, p, "file_lock").dfs = s.dfs
      /\ Give(s, p, "file_lock").files = s.files
      /\ Give(s, p, "file_lock").call = s.call
      /\ \A k \in Lock : k # "file_lock" => Give(s, p, "file_lock").locks[k] = s.locks[k]
  BY <1>1, GiveOK
<1>3. PICK u \in States : u = Give(s, p, "file_lock")
  BY <1>2
<1>4. PICK t : t = Return(u, p)
  OBVIOUS
<1>5. /\ t \in States /\ t.dfs = u.dfs /\ t.files = u.files /\ t.locks = u.locks
      /\ t.call = [u.call EXCEPT ![p] = NoCall]
  BY <1>4, ReturnOK
<1>6. \A q \in Proc : Sleeps(t, q, "file_lock") => Sleeps(s, q, "file_lock")
  <2>1. \A q \in Proc : Sleeps(u, q, "file_lock") => Sleeps(s, q, "file_lock")
    BY <1>1, <1>3, GiveSleeps
  <2> QED BY <1>5, <2>1 DEF Sleeps
<1>7. /\ t.dfs = s.dfs /\ t.files = s.files /\ t.call = [s.call EXCEPT ![p] = NoCall]
      /\ t.locks["inode_lock"] = s.locks["inode_lock"]
      /\ t.locks["block_lock"] = s.locks["block_lock"]
  BY <1>1, <1>2, <1>3, <1>5
<1>8. Good(t)
  BY <1>5, <1>6, <1>7, Finished
<1> QED BY <1>3, <1>4, <1>8 DEF GiveAndReturn

\* A process that goes to sleep is last in the queue.
LEMMA SleepSleeps ==
  ASSUME NEW s \in States, NEW p \in Proc, NEW l \in Lock, NEW c \in Calls,
         NEW q \in Proc, NEW k \in Lock, Sleeps(Sleep(s, p, l, c), q, k)
  PROVE  (q = p /\ k = l) \/ Sleeps(s, q, k)
<1>1. PICK t : t = Sleep(s, p, l, c)
  OBVIOUS
<1>2. /\ \A j \in Lock : j # l => t.locks[j] = s.locks[j]
      /\ t.locks[l].queue = Append(s.locks[l].queue, p)
  BY <1>1, SleepLocks
<1>3. s.locks \in [Lock -> LockRecord] /\ s.locks[l] \in LockRecord
  BY DEF States
<1>4. CASE k # l
  BY <1>1, <1>2, <1>3, <1>4 DEF Sleeps
<1>5. CASE k = l
  <2>1. PICK queue \in Seq(Proc) : queue = s.locks[l].queue
    BY <1>3 DEF LockRecord
  <2>2. t.locks[l].queue = Append(queue, p)
    BY <1>2, <2>1
  <2>3. PICK i \in DOMAIN Append(queue, p) : Append(queue, p)[i] = q
    BY <1>1, <1>5, <2>2 DEF Sleeps
  <2>4. q = p \/ (i \in DOMAIN queue /\ queue[i] = q)
    BY <2>3
  <2> QED BY <1>5, <2>1, <2>4 DEF Sleeps
<1> QED BY <1>4, <1>5

LEMMA SamePending ==
  ASSUME NEW s, NEW t, t.dfs = s.dfs, t.files = s.files, NEW c, Pending(s, c)
  PROVE  Pending(t, c)
BY DEF Pending, EntryOf

\* A process whose handler begins with a file_lock that another process has.
LEMMA SleepFirstGood ==
  ASSUME NEW s \in States, NEW p \in Proc, NEW c \in FirstCalls, Good(s),
         \A l \in Lock : ~Sleeps(s, p, l), ~MayTake(s, p, "file_lock"), Named(p, c)
  PROVE  Good(Sleep(s, p, "file_lock", c))
<1>1. "file_lock" \in Lock /\ "inode_lock" \in Lock /\ "block_lock" \in Lock
  BY DEF Lock
<1>2. c \in Calls /\ c # NoCall /\ c.part \notin InnerParts
  BY Parts DEF Calls, FirstCalls, InnerParts
<1>3. /\ Sleep(s, p, "file_lock", c) \in States
      /\ Sleep(s, p, "file_lock", c).dfs = s.dfs
      /\ Sleep(s, p, "file_lock", c).files = s.files
      /\ Sleep(s, p, "file_lock", c).call = [s.call EXCEPT ![p] = c]
  BY <1>1, <1>2, SleepOK
<1>4. PICK t \in States : t = Sleep(s, p, "file_lock", c)
  BY <1>3
<1>5. s.call \in [Proc -> Calls]
  BY DEF States
<1>6. t.call[p] = c /\ \A q \in Proc : q # p => t.call[q] = s.call[q]
  BY <1>3, <1>4, <1>5
<1>7. /\ t.locks["file_lock"].owner = s.locks["file_lock"].owner
      /\ t.locks["inode_lock"] = s.locks["inode_lock"]
      /\ t.locks["block_lock"] = s.locks["block_lock"]
  BY <1>1, <1>4, SleepLocks
<1>8. \A q \in Proc, k \in Lock :
        Sleeps(t, q, k) => (q = p /\ k = "file_lock") \/ Sleeps(s, q, k)
  BY <1>1, <1>2, <1>4, SleepSleeps
<1>9. Ordered(s) /\ Entries(s) /\ Apart(s.dfs)
      /\ \A q \in Proc : Named(q, s.call[q]) /\ Pending(s, s.call[q])
  BY DEF Good
<1>10. Ordered(t)
  <2>1. \A q \in Proc : t.call[q].part \in InnerParts => t.locks["file_lock"].owner = q
    BY <1>2, <1>6, <1>7, <1>9 DEF Ordered
  <2>2. \A q \in Proc, k \in Lock : Sleeps(t, q, k) => t.call[q] # NoCall
    BY <1>2, <1>6, <1>8, <1>9 DEF Ordered
  <2>3. \A q \in Proc, k \in {"inode_lock", "block_lock"} :
          Sleeps(t, q, k) => Sleeps(s, q, k) /\ q # p
    BY <1>1, <1>8
  <2> QED BY <1>6, <1>7, <1>9, <2>1, <2>2, <2>3 DEF Ordered
<1>11. Entries(t) /\ Apart(t.dfs)
  BY <1>3, <1>4, <1>9 DEF Entries
<1>12. \A q \in Proc : Named(q, t.call[q])
  BY <1>6, <1>9
<1>13. Pending(s, c)
  BY <1>2 DEF Pending, InnerParts
<1>14. \A q \in Proc : Pending(t, t.call[q])
  <2>1. \A q \in Proc : Pending(s, t.call[q])
    BY <1>6, <1>9, <1>13
  <2>2. t.dfs = s.dfs /\ t.files = s.files
    BY <1>3, <1>4
  <2> QED BY <2>1, <2>2, SamePending
<1> QED BY <1>4, <1>10, <1>11, <1>12, <1>14 DEF Good

\* A process that goes to sleep for a lock of the driver.
LEMMA Slept ==
  ASSUME NEW s \in States, NEW p \in Proc, NEW t \in States, NEW c \in InnerCalls,
         Running(s, p), Named(p, c), Pending(s, c),
         t.dfs = s.dfs, t.files = s.files, t.call = [s.call EXCEPT ![p] = c],
         t.locks["file_lock"] = s.locks["file_lock"],
         \A q \in Proc : Sleeps(t, q, "inode_lock") => q = p,
         \A q \in Proc : Sleeps(t, q, "block_lock") =>
                           q = p /\ t.locks["inode_lock"].owner = p
  PROVE  Good(t)
<1>1. c # NoCall /\ c.part \in InnerParts
  BY Parts DEF InnerCalls, InnerParts
<1>2. s.call \in [Proc -> Calls]
  BY DEF States
<1>3. t.call[p] = c /\ \A q \in Proc : q # p => t.call[q] = s.call[q]
  BY <1>2
<1>4. \A q \in Proc : Sleeps(t, q, "file_lock") => Sleeps(s, q, "file_lock")
  BY DEF Sleeps
<1>5. Ordered(t)
  <2>1. \A q \in Proc : t.call[q].part \in InnerParts => t.locks["file_lock"].owner = q
    BY <1>3 DEF Running, Holds
  <2>2. \A q \in Proc, l \in Lock : Sleeps(t, q, l) => t.call[q] # NoCall
    <3>1. \A q \in Proc : Sleeps(t, q, "file_lock") => t.call[q] # NoCall
      BY <1>1, <1>3, <1>4 DEF Running, Holds
    <3> QED BY <1>1, <1>3, <3>1 DEF Lock
  <2> QED BY <1>1, <1>3, <2>1, <2>2 DEF Ordered
<1>6. Entries(t) /\ Apart(t.dfs)
  BY DEF Running, Entries
<1>7. \A q \in Proc : Named(q, t.call[q])
  BY <1>3 DEF Running, Holds
<1>8. \A q \in Proc : Pending(t, t.call[q])
  <2>1. \A q \in Proc : Pending(s, t.call[q])
    BY <1>3 DEF Running, Holds, Pending, InnerParts
  <2> QED BY <2>1, SamePending
<1> QED BY <1>5, <1>6, <1>7, <1>8 DEF Good

LEMMA SleepInodeGood ==
  ASSUME NEW s \in States, NEW p \in Proc, NEW c \in InnerCalls,
         Running(s, p), Named(p, c), Pending(s, c)
  PROVE  Good(Sleep(s, p, "inode_lock", c))
<1>1. "file_lock" \in Lock /\ "inode_lock" \in Lock /\ "block_lock" \in Lock
  BY DEF Lock
<1>2. c \in Calls
  BY DEF Calls
<1>3. /\ Sleep(s, p, "inode_lock", c) \in States
      /\ Sleep(s, p, "inode_lock", c).dfs = s.dfs
      /\ Sleep(s, p, "inode_lock", c).files = s.files
      /\ Sleep(s, p, "inode_lock", c).call = [s.call EXCEPT ![p] = c]
  BY <1>1, <1>2, SleepOK
<1>4. PICK t \in States : t = Sleep(s, p, "inode_lock", c)
  BY <1>3
<1>6. t.locks["file_lock"] = s.locks["file_lock"]
  BY <1>1, <1>4, SleepLocks
<1>7. \A q \in Proc : ~Sleeps(s, q, "inode_lock") /\ ~Sleeps(s, q, "block_lock")
  BY DEF Running, Holds, Sleeps
<1>8. \A q \in Proc, k \in Lock :
        Sleeps(t, q, k) => (q = p /\ k = "inode_lock") \/ Sleeps(s, q, k)
  BY <1>1, <1>2, <1>4, SleepSleeps
<1>9. /\ \A q \in Proc : Sleeps(t, q, "inode_lock") => q = p
      /\ \A q \in Proc : ~Sleeps(t, q, "block_lock")
  BY <1>1, <1>7, <1>8
<1>10. t.dfs = s.dfs /\ t.files = s.files /\ t.call = [s.call EXCEPT ![p] = c]
  BY <1>3, <1>4
<1>11. Good(t)
  BY <1>6, <1>9, <1>10, Slept
<1> QED BY <1>4, <1>11

LEMMA SleepBlockGood ==
  ASSUME NEW s \in States, NEW p \in Proc, NEW c \in InnerCalls,
         Running(s, p), Named(p, c), Pending(s, c)
  PROVE  Good(Sleep(Take(s, p, "inode_lock"), p, "block_lock", c))
<1>1. "file_lock" \in Lock /\ "inode_lock" \in Lock /\ "block_lock" \in Lock
  BY DEF Lock
<1>2. c \in Calls
  BY DEF Calls
<1>3. /\ Take(s, p, "inode_lock") \in States
      /\ Take(s, p, "inode_lock").dfs = s.dfs
      /\ Take(s, p, "inode_lock").files = s.files
      /\ Take(s, p, "inode_lock").call = s.call
      /\ Take(s, p, "inode_lock").locks = [s.locks EXCEPT !["inode_lock"].owner = p]
  BY <1>1, TakeOK
<1>4. PICK u \in States : u = Take(s, p, "inode_lock")
  BY <1>3
<1>5. /\ Sleep(u, p, "block_lock", c) \in States
      /\ Sleep(u, p, "block_lock", c).dfs = u.dfs
      /\ Sleep(u, p, "block_lock", c).files = u.files
      /\ Sleep(u, p, "block_lock", c).call = [u.call EXCEPT ![p] = c]
  BY <1>1, <1>2, SleepOK
<1>6. PICK t \in States : t = Sleep(u, p, "block_lock", c)
  BY <1>5
<1>7. s.locks \in [Lock -> LockRecord] /\ u.locks \in [Lock -> LockRecord]
  BY DEF States
<1>8. /\ u.locks["file_lock"] = s.locks["file_lock"]
      /\ u.locks["block_lock"] = s.locks["block_lock"]
      /\ u.locks["inode_lock"].owner = p
      /\ u.locks["inode_lock"].queue = s.locks["inode_lock"].queue
  BY <1>1, <1>3, <1>4, <1>7 DEF LockRecord
<1>9. /\ t.locks["file_lock"] = s.locks["file_lock"]
      /\ t.locks["inode_lock"].owner = p
  <2>1. \A k \in Lock : k # "block_lock" => t.locks[k] = u.locks[k]
    BY <1>1, <1>6, SleepLocks
  <2> QED BY <1>1, <1>8, <2>1
<1>10. \A q \in Proc : ~Sleeps(u, q, "inode_lock") /\ ~Sleeps(u, q, "block_lock")
  BY <1>8 DEF Running, Holds, Sleeps
<1>11. \A q \in Proc, k \in Lock :
        Sleeps(t, q, k) => (q = p /\ k = "block_lock") \/ Sleeps(u, q, k)
  BY <1>1, <1>2, <1>6, SleepSleeps
<1>12. /\ \A q \in Proc : Sleeps(t, q, "inode_lock") => q = p
       /\ \A q \in Proc : Sleeps(t, q, "block_lock") =>
                            q = p /\ t.locks["inode_lock"].owner = p
  BY <1>1, <1>9, <1>10, <1>11
<1>13. t.dfs = s.dfs /\ t.files = s.files /\ t.call = [s.call EXCEPT ![p] = c]
  BY <1>3, <1>4, <1>5, <1>6
<1>14. Good(t)
  BY <1>9, <1>12, <1>13, Slept
<1> QED BY <1>4, <1>6, <1>14

-----------------------------------------------------------------------------
(* What a handler does while it has file_lock.                             *)

LEMMA HoldsSame ==
  ASSUME NEW s, NEW p, NEW t, t.locks = s.locks, t.call = s.call, Holds(s, p)
  PROVE  Holds(t, p)
BY DEF Holds, Sleeps

LEMMA AfterHolds ==
  ASSUME NEW s \in States, NEW p \in Proc, NEW a,
         a.dfs \in DirectDrivers, a.takes \in {InodeLock, Both}, Holds(s, p)
  PROVE  Holds(After(s, p, a), p)
<1>1. /\ After(s, p, a) \in States
      /\ After(s, p, a).dfs = a.dfs /\ After(s, p, a).files = s.files
      /\ After(s, p, a).call = s.call
      /\ After(s, p, a).locks["file_lock"] = s.locks["file_lock"]
      /\ \A l \in {"inode_lock", "block_lock"} :
           s.locks[l].queue = <<>> => After(s, p, a).locks[l].queue = <<>>
      /\ a.keeps = {} /\ s.locks["inode_lock"].queue = <<>> =>
           After(s, p, a).locks["inode_lock"].owner = Nobody
  BY AfterOK
<1>2. PICK t : t = After(s, p, a)
  OBVIOUS
<1>3. \A q \in Proc : Sleeps(t, q, "file_lock") <=> Sleeps(s, q, "file_lock")
  BY <1>1, <1>2 DEF Sleeps
<1>4. Holds(t, p)
  BY <1>1, <1>2, <1>3 DEF Holds
<1> QED BY <1>2, <1>4

\* The table of open files, but for the entry h.
EntriesBut(s, h) ==
  /\ \A i \in Handle : i # h /\ s.files[i].inode # DFS_FAIL =>
       EntryFits(s.dfs, s.files[i])
  /\ \A i, j \in Handle : /\ i # h /\ j # h
                          /\ s.files[i].inode # DFS_FAIL
                          /\ s.files[i].inode = s.files[j].inode
                          => i = j

LEMMA NotHandle == DFS_FAIL \notin Handle /\ DFS_FAIL \notin Inode
BY ProcAssumption DEF Handle, Inode, DFS_FAIL

LEMMA EntriesButNone ==
  ASSUME NEW s
  PROVE  EntriesBut(s, DFS_FAIL) <=> Entries(s)
BY NotHandle DEF EntriesBut, Entries

LEMMA EntriesWeaken ==
  ASSUME NEW s, NEW h, Entries(s)
  PROVE  EntriesBut(s, h)
BY DEF EntriesBut, Entries

\* The handler that opens a file ends with a table in which it is one of its
\* owner's and open once.
LEMMA FillGood ==
  ASSUME NEW s \in States, NEW p \in Proc, NEW c,
         c.slot \in Handle \cup {DFS_FAIL}, c.name \in Names, c.mode \in Modes,
         c.inode \in Inode \cup {DFS_FAIL}, c.name \in Uses[p],
         Holds(s, p), Apart(s.dfs), EntriesBut(s, c.slot),
         c.inode # DFS_FAIL =>
           /\ c.inode \in Found(s.dfs, c.name)
           /\ \A i \in Handle : i # c.slot => s.files[i].inode # c.inode
  PROVE  Good(FillEntry(s, p, c))
<1>1. CASE c.slot = DFS_FAIL /\ FillEntry(s, p, c) = GiveAndReturn(s, p)
  <2>1. Running(s, p)
    BY <1>1, EntriesButNone DEF Running
  <2> QED BY <1>1, <2>1, GiveAndReturnGood
<1>2. ASSUME NEW h \in Handle,
             h = c.slot \/ (c.slot = DFS_FAIL /\ s.files[h].inode = DFS_FAIL)
      PROVE  Good(Return([s EXCEPT !.files[h] = Opening(p, c)], p))
  <2>1. PICK f \in Files0 : f = Opening(p, c)
    BY OpeningOK
  <2>2. f.inode = c.inode /\ f.name = c.name /\ f.owner = p
    BY <2>1 DEF Opening
  <2>3. PICK t \in States : t = [s EXCEPT !.files[h] = f]
    BY SetEntryOK
  <2>4. /\ t.files = [s.files EXCEPT ![h] = f] /\ t.dfs = s.dfs
        /\ t.locks = s.locks /\ t.call = s.call
    BY <2>3, SetEntryOK
  <2>5. s.files \in [Handle -> Files0]
    BY DEF States
  <2>6. t.files[h] = f /\ \A i \in Handle : i # h => t.files[i] = s.files[i]
    BY <2>4, <2>5
  <2>7. \A i \in Handle : i # h => i # c.slot \/ t.files[i].inode = DFS_FAIL
    BY <1>2, NotHandle
  <2>8. f.inode # DFS_FAIL => EntryFits(t.dfs, f)
    BY <2>2, <2>4, SymmetryAssumption DEF EntryFits, Found
  <2>9. \A i \in Handle : i # h /\ t.files[i].inode # DFS_FAIL =>
          /\ EntryFits(t.dfs, t.files[i]) /\ t.files[i].inode # f.inode
    BY <2>2, <2>4, <2>6, <2>7 DEF EntriesBut
  <2>10. \A i, j \in Handle : /\ i # h /\ j # h
                              /\ t.files[i].inode # DFS_FAIL
                              /\ t.files[i].inode = t.files[j].inode
                              => i = j
    BY <2>6, <2>7 DEF EntriesBut
  <2>11. Entries(t)
    BY <2>6, <2>8, <2>9, <2>10 DEF Entries
  <2>12. Holds(t, p)
    BY <2>4, HoldsSame
  <2>13. Running(t, p)
    BY <2>4, <2>11, <2>12 DEF Running
  <2> QED BY <2>1, <2>3, <2>13, ReturnGood
<1>3. \/ c.slot = DFS_FAIL /\ FillEntry(s, p, c) = GiveAndReturn(s, p)
      \/ \E h \in Handle :
           /\ h = c.slot \/ (c.slot = DFS_FAIL /\ s.files[h].inode = DFS_FAIL)
           /\ FillEntry(s, p, c)
                = Return([s EXCEPT !.files[h] = Opening(p, c)], p)
  BY FillAnswers
<1> QED BY <1>1, <1>2, <1>3

\* A new file has a name that no other one has, and an inode that no entry has.
LEMMA CreateGood ==
  ASSUME NEW s \in States, NEW p \in Proc, NEW c \in CreateCalls,
         Holds(s, p), Apart(s.dfs), EntriesBut(s, c.slot), Named(p, c),
         Found(s.dfs, c.name) = {},
         c.slot # DFS_FAIL =>
           s.locks["inode_lock"].owner = Nobody /\ IdleInodes(s.dfs) # {}
  PROVE  Good(OpenCreate(s, p, c))
<1>1. /\ c \in InnerCalls /\ c.part = "create" /\ c.name \in Names /\ c.mode \in Modes
      /\ c.slot \in Handle \cup {DFS_FAIL}
  BY DEF InnerCalls, CreateCalls
<1>2. c.name \in Uses[p]
  BY <1>1 DEF Named
<1>3. PICK d \in DirectDrivers : d = s.dfs
  BY DEF States
<1>4. d \in Drivers /\ d.inodes \in [Inode -> InodeRecord]
  BY DEF DirectDrivers, Drivers
<1>5. PICK a : a = InodeCreate(d, c.name)
  OBVIOUS
<1>6. a.dfs \in DirectDrivers /\ a.takes = InodeLock /\ a.ret \in Inode \cup {DFS_FAIL}
  BY <1>1, <1>5, CreateDirect
<1>7. \/ a.ret = DFS_FAIL /\ a.dfs = d /\ IdleInodes(d) = {}
      \/ /\ a.ret \in Inode /\ ~d.inodes[a.ret].inuse
         /\ a.dfs = [inodes |-> [d.inodes EXCEPT ![a.ret] = NewInode(c.name)],
                     used |-> d.used, disk |-> d.disk]
  BY <1>1, <1>4, <1>5, CreateAnswers
<1>8. PICK t \in States : t = After(s, p, a)
  BY <1>6, AfterTypes
<1>9. t.dfs = a.dfs /\ t.files = s.files /\ Holds(t, p)
  BY <1>6, <1>8, AfterOK, AfterHolds
<1>10. OpenCreate(s, p, c) =
         IF ~MayTake(s, p, "inode_lock") THEN Sleep(s, p, "inode_lock", c)
         ELSE IF "block_lock" \in a.takes /\ ~MayTake(s, p, "block_lock")
         THEN Sleep(Take(s, p, "inode_lock"), p, "block_lock", c)
         ELSE IF a.ret = DFS_FAIL THEN GiveAndReturn(t, p)
         ELSE FillEntry(t, p, [c EXCEPT !.inode = a.ret])
  BY <1>3, <1>5, <1>8 DEF OpenCreate, Locked
<1>11. "block_lock" \notin a.takes
  BY <1>6 DEF InodeLock
<1>12. CASE ~MayTake(s, p, "inode_lock")
  <2>1. c.slot = DFS_FAIL
    BY <1>12 DEF MayTake
  <2>2. Running(s, p)
    BY <2>1, EntriesButNone DEF Running
  <2>3. Pending(s, c)
    BY <1>1, <2>1 DEF Pending
  <2>4. Good(Sleep(s, p, "inode_lock", c))
    BY <1>1, <2>2, <2>3, SleepInodeGood
  <2> QED BY <1>10, <1>12, <2>4
<1>13. CASE MayTake(s, p, "inode_lock") /\ a.ret = DFS_FAIL
  <2>1. a.dfs = d /\ IdleInodes(d) = {}
    BY <1>7, <1>13, NotHandle
  <2>2. c.slot = DFS_FAIL
    BY <1>3, <2>1
  <2>3. Entries(s)
    BY <2>2, EntriesButNone
  <2>4. Running(t, p)
    BY <1>3, <1>9, <2>1, <2>3 DEF Running, Entries
  <2>5. Good(GiveAndReturn(t, p))
    BY <2>4, GiveAndReturnGood
  <2> QED BY <1>10, <1>11, <1>13, <2>5
<1>14. CASE MayTake(s, p, "inode_lock") /\ a.ret # DFS_FAIL
  <2>1. PICK i \in Inode : i = a.ret
    BY <1>6, <1>14
  <2>2. /\ ~d.inodes[i].inuse
        /\ t.dfs.inodes = [d.inodes EXCEPT ![i] = NewInode(c.name)]
    BY <1>7, <1>9, <1>14, <2>1
  <2>3. /\ t.dfs.inodes[i].inuse /\ t.dfs.inodes[i].name = c.name
        /\ \A j \in Inode : j # i => t.dfs.inodes[j] = d.inodes[j]
    BY <1>1, <1>4, <2>2, NewInodeOK
  <2>4. \A j \in Inode : d.inodes[j].inuse =>
          /\ <<c.name, d.inodes[j].name>> \notin Match
          /\ <<d.inodes[j].name, c.name>> \notin Match
    BY <1>3, SymmetryAssumption DEF Found
  <2>5. Apart(t.dfs)
    BY <1>3, <2>3, <2>4 DEF Apart
  <2>6. \A h \in Handle : s.files[h].inode \in Inode \cup {DFS_FAIL}
    BY DEF States, Files0
  <2>7. \A h \in Handle : h # c.slot => s.files[h].inode # i
    BY <1>3, <2>1, <2>2, NotHandle DEF EntriesBut, EntryFits
  <2>8. EntriesBut(t, c.slot)
    <3>1. \A h \in Handle : h # c.slot /\ s.files[h].inode # DFS_FAIL =>
            /\ s.files[h].inode \in Inode
            /\ t.dfs.inodes[s.files[h].inode] = s.dfs.inodes[s.files[h].inode]
      BY <1>3, <2>3, <2>6, <2>7
    <3>2. \A h \in Handle : h # c.slot /\ t.files[h].inode # DFS_FAIL =>
            EntryFits(t.dfs, t.files[h])
      BY <1>9, <3>1 DEF EntriesBut, EntryFits
    <3> QED BY <1>9, <3>2 DEF EntriesBut
  <2>9. i \in Found(t.dfs, c.name)
    BY <1>1, <2>3, ReflexivityAssumption DEF Found
  <2>10. PICK e : e = [c EXCEPT !.inode = a.ret]
    OBVIOUS
  <2>11. e.slot = c.slot /\ e.name = c.name /\ e.mode = c.mode /\ e.inode = i
    BY <2>1, <2>10 DEF CreateCalls
  <2>12. Good(FillEntry(t, p, e))
    BY <1>1, <1>2, <1>9, <2>5, <2>7, <2>8, <2>9, <2>11, FillGood
  <2> QED BY <1>10, <1>11, <1>14, <2>10, <2>12
<1> QED BY <1>12, <1>13, <1>14

\* A lookup of a name that no file has creates one.
LEMMA NewGood ==
  ASSUME NEW s \in States, NEW p \in Proc, NEW c,
         [c EXCEPT !.part = "create"] \in CreateCalls,
         [c EXCEPT !.part = "create"].name = c.name,
         [c EXCEPT !.part = "create"].slot = c.slot,
         Holds(s, p), Apart(s.dfs), EntriesBut(s, c.slot), c.name \in Uses[p],
         Found(s.dfs, c.name) = {},
         c.slot # DFS_FAIL =>
           s.locks["inode_lock"].owner = Nobody /\ IdleInodes(s.dfs) # {}
  PROVE  Good(OpenNew(s, p, c))
<1>1. PICK e \in CreateCalls : e = [c EXCEPT !.part = "create"]
  OBVIOUS
<1>2. e.name = c.name /\ e.slot = c.slot
  BY <1>1
<1>3. Named(p, e)
  BY <1>2 DEF Named
<1>4. Good(OpenCreate(s, p, e))
  BY <1>2, <1>3, CreateGood
<1>5. FilenameExists(s.dfs, c.name) = DFS_FAIL
  BY DEF FilenameExists
<1> QED BY <1>1, <1>4, <1>5 DEF OpenNew

\* A delete that succeeds gives back its locks.
LEMMA DeleteFrees ==
  ASSUME NEW d, NEW h, InodeDelete(d, h).ret # DFS_FAIL
  PROVE  InodeDelete(d, h).keeps = {}
BY DEF InodeDelete, Answer

LEMMA EntryInodes ==
  ASSUME NEW s \in States
  PROVE  \A h \in Handle : s.files[h].inode \in Inode \cup {DFS_FAIL}
BY DEF States, Files0

LEMMA SameNames ==
  ASSUME NEW s \in States, NEW t, t.files = s.files,
         \A j \in Inode : /\ t.dfs.inodes[j].inuse = s.dfs.inodes[j].inuse
                          /\ t.dfs.inodes[j].name = s.dfs.inodes[j].name
  PROVE  /\ Entries(s) => Entries(t)
         /\ Apart(s.dfs) => Apart(t.dfs)
<1>1. \A h \in Handle : s.files[h].inode # DFS_FAIL =>
        (EntryFits(s.dfs, s.files[h]) => EntryFits(t.dfs, t.files[h]))
  BY EntryInodes DEF EntryFits
<1> QED BY <1>1 DEF Entries, Apart

\* What a delete does to the names.
LEMMA DeleteNames ==
  ASSUME NEW d \in DirectDrivers, NEW i \in Inode, NEW a, a = InodeDelete(d, i)
  PROVE  /\ \A j \in Inode : j # i => a.dfs.inodes[j] = d.inodes[j]
         /\ a.ret = DFS_FAIL =>
              \A j \in Inode : /\ a.dfs.inodes[j].inuse = d.inodes[j].inuse
                               /\ a.dfs.inodes[j].name = d.inodes[j].name
         /\ a.ret # DFS_FAIL => ~a.dfs.inodes[i].inuse /\ a.keeps = {}
<1>1. d \in Drivers
  BY DEF DirectDrivers
<1>2. /\ \A j \in Inode : j # i => a.dfs.inodes[j] = d.inodes[j]
      /\ \/ /\ a.ret = DFS_FAIL
            /\ a.dfs.inodes[i].inuse = d.inodes[i].inuse
            /\ a.dfs.inodes[i].name = d.inodes[i].name
         \/ a.ret = 1 /\ ~a.dfs.inodes[i].inuse
  BY <1>1, DeleteKeeps
<1>3. a.ret # DFS_FAIL => a.keeps = {}
  BY DeleteFrees
<1>4. a.ret = 1 => a.ret # DFS_FAIL
  BY DEF DFS_FAIL
<1> QED BY <1>2, <1>3, <1>4

\* Truncation deletes the file and creates it anew under the lock that keeps the
\* others out; it may fail only at the delete.
LEMMA TruncateGood ==
  ASSUME SeparateNames,
         NEW s \in States, NEW p \in Proc, NEW c \in TruncateCalls,
         Running(s, p), Named(p, c), Pending(s, c)
  PROVE  Good(OpenTruncate(s, p, c))
<1>1. /\ c \in InnerCalls /\ c.part = "truncate" /\ c.name \in Names /\ c.mode \in Modes
      /\ c.slot \in Handle \cup {DFS_FAIL} /\ c.inode \in Inode
  BY DEF InnerCalls, TruncateCalls
<1>2. /\ c.name \in Uses[p]
      /\ c.inode \in Found(s.dfs, c.name) /\ c.slot = EntryOf(s, c.inode)
  BY <1>1 DEF Named, Pending
<1>3. PICK d \in DirectDrivers : d = s.dfs
  BY DEF States
<1>4. PICK i \in Inode : i = c.inode
  BY <1>1
<1>5. PICK a : a = InodeDelete(d, i)
  OBVIOUS
<1>6. a.dfs \in DirectDrivers /\ a.takes \in {InodeLock, Both}
  BY <1>5, DeleteDirect
<1>7. /\ \A j \in Inode : j # i => a.dfs.inodes[j] = d.inodes[j]
      /\ a.ret = DFS_FAIL =>
           \A j \in Inode : /\ a.dfs.inodes[j].inuse = d.inodes[j].inuse
                            /\ a.dfs.inodes[j].name = d.inodes[j].name
      /\ a.ret # DFS_FAIL => ~a.dfs.inodes[i].inuse /\ a.keeps = {}
  BY <1>5, DeleteNames
<1>8. PICK t \in States : t = After(s, p, a)
  BY <1>6, AfterTypes
<1>9. /\ t.dfs = a.dfs /\ t.files = s.files
      /\ a.keeps = {} /\ s.locks["inode_lock"].queue = <<>> =>
           t.locks["inode_lock"].owner = Nobody
  BY <1>6, <1>8, AfterOK
<1>10. Holds(t, p)
  BY <1>6, <1>8, AfterHolds DEF Running
<1>11. OpenTruncate(s, p, c) =
         IF ~MayTake(s, p, "inode_lock") THEN Sleep(s, p, "inode_lock", c)
         ELSE IF "block_lock" \in a.takes /\ ~MayTake(s, p, "block_lock")
         THEN Sleep(Take(s, p, "inode_lock"), p, "block_lock", c)
         ELSE IF a.ret = DFS_FAIL THEN GiveAndReturn(t, p)
         ELSE OpenNew(t, p, c)
  BY <1>3, <1>4, <1>5, <1>8 DEF OpenTruncate, Locked
<1>12. /\ Good(Sleep(s, p, "inode_lock", c))
       /\ Good(Sleep(Take(s, p, "inode_lock"), p, "block_lock", c))
  BY <1>1, SleepInodeGood, SleepBlockGood
<1>13. a.ret = DFS_FAIL => Good(GiveAndReturn(t, p))
  <2> SUFFICES ASSUME a.ret = DFS_FAIL PROVE Good(GiveAndReturn(t, p))
    OBVIOUS
  <2>1. \A j \in Inode : /\ t.dfs.inodes[j].inuse = s.dfs.inodes[j].inuse
                         /\ t.dfs.inodes[j].name = s.dfs.inodes[j].name
    BY <1>3, <1>7, <1>9
  <2>2. Entries(t) /\ Apart(t.dfs)
    BY <1>9, <2>1, SameNames DEF Running
  <2>3. Running(t, p)
    BY <1>10, <2>2 DEF Running
  <2> QED BY <2>3, GiveAndReturnGood
<1>14. a.ret # DFS_FAIL => Good(OpenNew(t, p, c))
  <2> SUFFICES ASSUME a.ret # DFS_FAIL PROVE Good(OpenNew(t, p, c))
    OBVIOUS
  <2>1. ~t.dfs.inodes[i].inuse /\ \A j \in Inode : j # i => t.dfs.inodes[j] = d.inodes[j]
    BY <1>7, <1>9
  <2>2. Apart(d) /\ Entries(s)
    BY <1>3 DEF Running
  <2>3. Apart(t.dfs)
    BY <2>1, <2>2 DEF Apart
  <2>4. \A h \in Handle : h # c.slot => s.files[h].inode # i
    <3>1. \/ c.slot = DFS_FAIL /\ \A h \in Handle : s.files[h].inode # i
          \/ c.slot \in Handle /\ s.files[c.slot].inode = i
      BY <1>2, <1>4, NotHandle, EntryAnswers
    <3> QED BY <2>2, <3>1, NotHandle DEF Entries
  <2>5. EntriesBut(t, c.slot)
    <3>1. \A k \in Handle : s.files[k].inode \in Inode \cup {DFS_FAIL}
      BY EntryInodes
    <3>2. \A j \in Inode : j # i => t.dfs.inodes[j] = s.dfs.inodes[j]
      BY <1>3, <2>1
    <3>3. \A k \in Handle : k # c.slot /\ t.files[k].inode # DFS_FAIL =>
            EntryFits(t.dfs, t.files[k])
      BY <1>9, <2>2, <2>4, <3>1, <3>2 DEF Entries, EntryFits
    <3> QED BY <1>9, <2>2, <3>3 DEF Entries, EntriesBut
  <2>6. Found(t.dfs, c.name) = {}
    <3> SUFFICES ASSUME NEW j \in Found(t.dfs, c.name) PROVE FALSE
      OBVIOUS
    <3>1. j \in Inode /\ j # i /\ d.inodes[j].inuse /\ <<c.name, d.inodes[j].name>> \in Match
      BY <2>1 DEF Found
    <3>2. d.inodes[i].inuse /\ <<c.name, d.inodes[i].name>> \in Match
      BY <1>2, <1>3, <1>4 DEF Found
    <3>3. PICK m, n : m = d.inodes[j].name /\ n = d.inodes[i].name
      OBVIOUS
    <3>4. <<m, c.name>> \in Match /\ <<c.name, n>> \in Match
      BY <3>1, <3>2, <3>3, SymmetryAssumption
    <3>5. m \in Names /\ n \in Names
      BY <3>4, NameAssumption
    <3>6. <<m, n>> \in Match
      BY <1>1, <3>4, <3>5 DEF SeparateNames
    <3> QED BY <2>2, <3>1, <3>2, <3>3, <3>6 DEF Apart
  <2>7. t.locks["inode_lock"].owner = Nobody
    BY <1>7, <1>9 DEF Running, Holds
  <2>8. IdleInodes(t.dfs) # {}
    BY <2>1 DEF IdleInodes
  <2>9. /\ [c EXCEPT !.part = "create"] \in CreateCalls
        /\ [c EXCEPT !.part = "create"].name = c.name
        /\ [c EXCEPT !.part = "create"].slot = c.slot
    BY DEF TruncateCalls, CreateCalls
  <2> QED BY <1>2, <1>10, <2>3, <2>5, <2>6, <2>7, <2>8, <2>9, NewGood
<1> QED BY <1>11, <1>12, <1>13, <1>14

\* An entry that is emptied names no file.
LEMMA NullifyRunning ==
  ASSUME NEW s \in States, NEW p \in Proc, NEW h \in Handle,
         Holds(s, p), Apart(s.dfs), EntriesBut(s, h)
  PROVE  /\ NullifyFileEntry(s, h) \in States
         /\ Running(NullifyFileEntry(s, h), p)
<1>1. PICK f \in Files0 : f = NoFile
  BY NoFileOK
<1>2. f.inode = DFS_FAIL
  BY <1>1 DEF NoFile
<1>3. PICK t \in States : t = [s EXCEPT !.files[h] = f]
  BY SetEntryOK
<1>4. /\ t.files = [s.files EXCEPT ![h] = f] /\ t.dfs = s.dfs
      /\ t.locks = s.locks /\ t.call = s.call
  BY <1>3, SetEntryOK
<1>5. s.files \in [Handle -> Files0]
  BY DEF States
<1>6. t.files[h] = f /\ \A i \in Handle : i # h => t.files[i] = s.files[i]
  BY <1>4, <1>5
<1>7. Entries(t)
  BY <1>2, <1>4, <1>6 DEF Entries, EntriesBut
<1>8. Holds(t, p)
  BY <1>4, HoldsSame
<1>9. Running(t, p)
  BY <1>4, <1>7, <1>8 DEF Running
<1> QED BY <1>1, <1>3, <1>9 DEF NullifyFileEntry

\* FileDelete empties the one entry that the file has.
LEMMA EraseGood ==
  ASSUME NEW s \in States, NEW p \in Proc, NEW c \in EraseCalls,
         Running(s, p), Pending(s, c)
  PROVE  Good(DeleteErase(s, p, c))
<1>1. /\ c \in InnerCalls /\ c.part = "erase" /\ c.slot \in Handle /\ c.inode \in Inode
  BY DEF InnerCalls, EraseCalls
<1>2. Named(p, c) /\ s.files[c.slot].inode = c.inode
  BY <1>1 DEF Named, Pending
<1>3. PICK d \in DirectDrivers : d = s.dfs
  BY DEF States
<1>4. PICK i \in Inode, h \in Handle : i = c.inode /\ h = c.slot
  BY <1>1
<1>5. PICK a : a = InodeDelete(d, i)
  OBVIOUS
<1>6. a.dfs \in DirectDrivers /\ a.takes \in {InodeLock, Both}
  BY <1>5, DeleteDirect
<1>7. /\ \A j \in Inode : j # i => a.dfs.inodes[j] = d.inodes[j]
      /\ a.ret = DFS_FAIL =>
           \A j \in Inode : /\ a.dfs.inodes[j].inuse = d.inodes[j].inuse
                            /\ a.dfs.inodes[j].name = d.inodes[j].name
      /\ a.ret # DFS_FAIL => ~a.dfs.inodes[i].inuse /\ a.keeps = {}
  BY <1>5, DeleteNames
<1>8. PICK t \in States : t = After(s, p, a)
  BY <1>6, AfterTypes
<1>9. t.dfs = a.dfs /\ t.files = s.files
  BY <1>6, <1>8, AfterOK
<1>10. Holds(t, p)
  BY <1>6, <1>8, AfterHolds DEF Running
<1>11. DeleteErase(s, p, c) =
         IF ~MayTake(s, p, "inode_lock") THEN Sleep(s, p, "inode_lock", c)
         ELSE IF "block_lock" \in a.takes /\ ~MayTake(s, p, "block_lock")
         THEN Sleep(Take(s, p, "inode_lock"), p, "block_lock", c)
         ELSE IF a.ret = DFS_FAIL THEN Return(t, p)
         ELSE GiveAndReturn(NullifyFileEntry(t, h), p)
  BY <1>3, <1>4, <1>5, <1>8 DEF DeleteErase, Locked
<1>12. /\ Good(Sleep(s, p, "inode_lock", c))
       /\ Good(Sleep(Take(s, p, "inode_lock"), p, "block_lock", c))
  BY <1>1, <1>2, SleepInodeGood, SleepBlockGood
<1>13. a.ret = DFS_FAIL => Good(Return(t, p))
  <2> SUFFICES ASSUME a.ret = DFS_FAIL PROVE Good(Return(t, p))
    OBVIOUS
  <2>1. \A j \in Inode : /\ t.dfs.inodes[j].inuse = s.dfs.inodes[j].inuse
                         /\ t.dfs.inodes[j].name = s.dfs.inodes[j].name
    BY <1>3, <1>7, <1>9
  <2>2. Entries(t) /\ Apart(t.dfs)
    BY <1>9, <2>1, SameNames DEF Running
  <2>3. Running(t, p)
    BY <1>10, <2>2 DEF Running
  <2> QED BY <2>3, ReturnGood
<1>14. a.ret # DFS_FAIL => Good(GiveAndReturn(NullifyFileEntry(t, h), p))
  <2> SUFFICES ASSUME a.ret # DFS_FAIL
               PROVE  Good(GiveAndReturn(NullifyFileEntry(t, h), p))
    OBVIOUS
  <2>1. ~t.dfs.inodes[i].inuse /\ \A j \in Inode : j # i => t.dfs.inodes[j] = d.inodes[j]
    BY <1>7, <1>9
  <2>2. Apart(d) /\ Entries(s)
    BY <1>3 DEF Running
  <2>3. Apart(t.dfs)
    BY <2>1, <2>2 DEF Apart
  <2>4. \A k \in Handle : k # h => s.files[k].inode # i
    BY <1>2, <1>4, <2>2, NotHandle DEF Entries
  <2>5. EntriesBut(t, h)
    <3>1. \A k \in Handle : s.files[k].inode \in Inode \cup {DFS_FAIL}
      BY EntryInodes
    <3>2. \A j \in Inode : j # i => t.dfs.inodes[j] = s.dfs.inodes[j]
      BY <1>3, <2>1
    <3>3. \A k \in Handle : k # h /\ t.files[k].inode # DFS_FAIL =>
            EntryFits(t.dfs, t.files[k])
      BY <1>9, <2>2, <2>4, <3>1, <3>2 DEF Entries, EntryFits
    <3> QED BY <1>9, <2>2, <3>3 DEF Entries, EntriesBut
  <2> QED BY <1>10, <2>3, <2>5, NullifyRunning, GiveAndReturnGood
<1> QED BY <1>4, <1>11, <1>12, <1>13, <1>14

\* A read or a write moves the position of one entry.
LEMMA MovedToRunning ==
  ASSUME NEW s \in States, NEW p \in Proc, NEW h \in Handle, NEW pos \in Nat,
         Running(s, p)
  PROVE  MovedTo(s, h, pos) \in States /\ Running(MovedTo(s, h, pos), p)
<1>1. /\ MovedTo(s, h, pos) \in States
      /\ MovedTo(s, h, pos).dfs = s.dfs
      /\ MovedTo(s, h, pos).locks = s.locks
      /\ MovedTo(s, h, pos).call = s.call
      /\ \A i \in Handle :
           /\ MovedTo(s, h, pos).files[i].inode = s.files[i].inode
           /\ MovedTo(s, h, pos).files[i].name = s.files[i].name
           /\ MovedTo(s, h, pos).files[i].owner = s.files[i].owner
  BY MovedToOK
<1>2. PICK t : t = MovedTo(s, h, pos)
  OBVIOUS
<1>3. Holds(t, p)
  BY <1>1, <1>2, HoldsSame DEF Running
<1>4. Entries(t) /\ Apart(t.dfs)
  <2>1. Entries(s) /\ Apart(s.dfs) /\ t.dfs = s.dfs
    BY <1>1, <1>2 DEF Running
  <2>2. \A i \in Handle : EntryFits(s.dfs, s.files[i]) => EntryFits(t.dfs, t.files[i])
    BY <1>1, <1>2, <2>1 DEF EntryFits
  <2>3. \A i \in Handle : t.files[i].inode = s.files[i].inode
    BY <1>1, <1>2
  <2> QED BY <2>1, <2>2, <2>3 DEF Entries
<1>5. Running(t, p)
  BY <1>3, <1>4 DEF Running
<1> QED BY <1>1, <1>2, <1>5

LEMMA MovedGood ==
  ASSUME NEW s \in States, NEW p \in Proc, NEW c, c.handle \in Handle, NEW a,
         a.ret \in Nat \cup {DFS_FAIL}, Running(s, p)
  PROVE  Good(Moved(s, p, c, a))
<1>1. Good(GiveAndReturn(s, p))
  BY GiveAndReturnGood
<1>2. ASSUME NEW pos \in Nat
      PROVE  Good(GiveAndReturn(MovedTo(s, c.handle, pos), p))
  <2>1. MovedTo(s, c.handle, pos) \in States /\ Running(MovedTo(s, c.handle, pos), p)
    BY MovedToRunning
  <2> QED BY <2>1, GiveAndReturnGood
<1>3. \/ Moved(s, p, c, a) = GiveAndReturn(s, p)
      \/ \E pos \in Nat :
           Moved(s, p, c, a) = GiveAndReturn(MovedTo(s, c.handle, pos), p)
  BY MovedAnswers
<1> QED BY <1>1, <1>2, <1>3

LEMMA ReadingGood ==
  ASSUME NEW s \in States, NEW p \in Proc, NEW c \in ReadingCalls, Running(s, p)
  PROVE  Good(ReadInode(s, p, c))
<1>1. /\ c \in InnerCalls /\ c.part = "reading" /\ c.handle \in Handle
      /\ c.inode \in Inode /\ c.start \in Nat /\ c.num \in Nat
  BY DEF InnerCalls, ReadingCalls
<1>2. Named(p, c) /\ Pending(s, c)
  BY <1>1 DEF Named, Pending
<1>3. PICK d \in DirectDrivers : d = s.dfs
  BY DEF States
<1>4. PICK a : a = ReadBytes(d, c.inode, c.start, c.num)
  OBVIOUS
<1>5. /\ a.dfs \in DirectDrivers /\ a.takes \in {InodeLock, Both}
      /\ a.ret \in {DFS_FAIL, c.num}
      /\ \A j \in Inode : /\ a.dfs.inodes[j].inuse = d.inodes[j].inuse
                          /\ a.dfs.inodes[j].name = d.inodes[j].name
  BY <1>1, <1>4, ReadDirect
<1>6. PICK t \in States : t = After(s, p, a)
  BY <1>5, AfterTypes
<1>7. t.dfs = a.dfs /\ t.files = s.files
  BY <1>5, <1>6, AfterOK
<1>8. Holds(t, p)
  BY <1>5, <1>6, AfterHolds DEF Running
<1>9. Entries(t) /\ Apart(t.dfs)
  BY <1>3, <1>5, <1>7, SameNames DEF Running
<1>10. Running(t, p)
  BY <1>8, <1>9 DEF Running
<1>11. Good(Moved(t, p, c, a))
  BY <1>1, <1>5, <1>10, MovedGood
<1>12. /\ Good(Sleep(s, p, "inode_lock", c))
       /\ Good(Sleep(Take(s, p, "inode_lock"), p, "block_lock", c))
  BY <1>1, <1>2, SleepInodeGood, SleepBlockGood
<1>13. ReadInode(s, p, c) \in
         {Sleep(s, p, "inode_lock", c),
          Sleep(Take(s, p, "inode_lock"), p, "block_lock", c), Moved(t, p, c, a)}
  BY <1>3, <1>4, <1>6 DEF ReadInode, Locked
<1> QED BY <1>11, <1>12, <1>13

LEMMA WritingGood ==
  ASSUME NEW s \in States, NEW p \in Proc, NEW c \in WritingCalls, Running(s, p)
  PROVE  Good(WriteInode(s, p, c))
<1>1. /\ c \in InnerCalls /\ c.part = "writing" /\ c.handle \in Handle
      /\ c.inode \in Inode /\ c.start \in Nat /\ c.num \in Nat
      /\ c.start + c.num <= MaxSize
  BY DEF InnerCalls, WritingCalls
<1>2. Named(p, c) /\ Pending(s, c)
  BY <1>1 DEF Named, Pending
<1>3. PICK d \in DirectDrivers : d = s.dfs
  BY DEF States
<1>4. PICK a : a = WriteBytes(d, c.inode, c.start, c.num, 0, [e \in Entry |-> 0])
  OBVIOUS
<1>5. /\ a.dfs \in DirectDrivers /\ a.takes \in {InodeLock, Both}
      /\ a.ret \in {DFS_FAIL, c.num}
      /\ \A j \in Inode : /\ a.dfs.inodes[j].inuse = d.inodes[j].inuse
                          /\ a.dfs.inodes[j].name = d.inodes[j].name
  BY <1>1, <1>4, WriteDirect
<1>6. PICK t \in States : t = After(s, p, a)
  BY <1>5, AfterTypes
<1>7. t.dfs = a.dfs /\ t.files = s.files
  BY <1>5, <1>6, AfterOK
<1>8. Holds(t, p)
  BY <1>5, <1>6, AfterHolds DEF Running
<1>9. Entries(t) /\ Apart(t.dfs)
  BY <1>3, <1>5, <1>7, SameNames DEF Running
<1>10. Running(t, p)
  BY <1>8, <1>9 DEF Running
<1>11. Good(Moved(t, p, c, a))
  BY <1>1, <1>5, <1>10, MovedGood
<1>12. /\ Good(Sleep(s, p, "inode_lock", c))
       /\ Good(Sleep(Take(s, p, "inode_lock"), p, "block_lock", c))
  BY <1>1, <1>2, SleepInodeGood, SleepBlockGood
<1>13. WriteInode(s, p, c) \in
         {Sleep(s, p, "inode_lock", c),
          Sleep(Take(s, p, "inode_lock"), p, "block_lock", c), Moved(t, p, c, a)}
  BY <1>3, <1>4, <1>6 DEF WriteInode, Locked
<1> QED BY <1>11, <1>12, <1>13

-----------------------------------------------------------------------------
(* The handlers from their first part on.                                  *)

\* The entry that a lookup leads to is the caller's own, so that CheckOwner
\* keeps file_lock.
LEMMA OwnEntry ==
  ASSUME SeparateNames,
         NEW s \in States, NEW p \in Proc, Entries(s), NEW name \in Uses[p],
         NEW i, i \in Found(s.dfs, name)
  PROVE  CheckOwner(s, p, EntryOf(s, i)) = s
<1>1. PICK slot : slot = EntryOf(s, i)
  OBVIOUS
<1>2. CASE slot = DFS_FAIL
  BY <1>1, <1>2 DEF CheckOwner
<1>3. CASE slot # DFS_FAIL
  <2>1. slot \in Handle /\ i # DFS_FAIL /\ s.files[slot].inode = i
    BY <1>1, <1>3, EntryAnswers
  <2>2. PICK f : f = s.files[slot]
    OBVIOUS
  <2>3. /\ <<s.dfs.inodes[i].name, f.name>> \in Match
        /\ f.owner \in Proc /\ f.name \in Uses[f.owner]
    BY <2>1, <2>2 DEF Entries, EntryFits
  <2>4. <<name, s.dfs.inodes[i].name>> \in Match
    BY DEF Found
  <2>5. <<name, f.name>> \in Match
    BY <2>3, <2>4, NameAssumption DEF SeparateNames
  <2>6. f.owner = p
    BY <2>3, <2>5 DEF SeparateNames
  <2> QED BY <1>1, <2>2, <2>6 DEF CheckOwner
<1> QED BY <1>2, <1>3

LEMMA OpenGood ==
  ASSUME SeparateNames,
         NEW s \in States, NEW p \in Proc, NEW c \in OpenCalls, Good(s),
         \A l \in Lock : ~Sleeps(s, p, l), c.name \in Uses[p]
  PROVE  Good(OpenFile(s, p, c))
<1>1. c \in FirstCalls /\ c.name \in Names /\ c.mode \in Modes
  BY DEF FirstCalls, OpenCalls
<1>2. CASE ~MayTake(s, p, "file_lock")
  <2>1. Good(Sleep(s, p, "file_lock", c))
    BY <1>1, <1>2, SleepFirstGood DEF Named
  <2> QED BY <1>2, <2>1 DEF OpenFile
<1>3. CASE MayTake(s, p, "file_lock")
  <2>1. PICK u \in States : u = Take(s, p, "file_lock")
    BY TakeOK DEF Lock
  <2>2. Running(u, p)
    BY <1>3, <2>1, StartRunning
  <2>3. u.dfs = s.dfs /\ u.files = s.files
    BY <2>1, TakeOK DEF Lock
  <2>4. PICK found : found = FilenameExists(s.dfs, c.name)
    OBVIOUS
  <2>5. \/ found = DFS_FAIL /\ Found(s.dfs, c.name) = {}
        \/ found \in Found(s.dfs, c.name) /\ found \in Inode
    BY <2>4, LookupAnswers
  <2>6. PICK slot \in Handle \cup {DFS_FAIL} : slot = EntryOf(s, found)
    BY EntryAnswers
  <2>7. slot = EntryOf(u, found)
    BY <2>3, <2>6 DEF EntryOf
  <2>8. CheckOwner(u, p, slot) = u
    <3>1. CASE found = DFS_FAIL
      <4>1. slot = DFS_FAIL
        BY <2>6, <3>1, EntryAnswers
      <4> QED BY <4>1 DEF CheckOwner
    <3>2. CASE found \in Found(s.dfs, c.name)
      <4>1. found \in Found(u.dfs, c.name) /\ Entries(u)
        BY <2>2, <2>3, <3>2 DEF Running
      <4> QED BY <2>7, <4>1, OwnEntry
    <3> QED BY <2>5, <3>1, <3>2
  <2>9. PICK c1 : c1 = [part |-> "truncate", name |-> c.name, mode |-> c.mode,
                        inode |-> found, slot |-> slot]
    OBVIOUS
  <2>10. /\ c1.part = "truncate" /\ c1.name = c.name /\ c1.mode = c.mode
         /\ c1.inode = found /\ c1.slot = slot
    BY <2>9
  <2>11. OpenFile(s, p, c) =
           IF c.mode = "undefined" THEN GiveAndReturn(u, p)
           ELSE IF c.mode # "w" THEN FillEntry(u, p, c1)
           ELSE IF found # DFS_FAIL THEN OpenTruncate(u, p, c1)
           ELSE OpenNew(u, p, c1)
    BY <1>3, <2>1, <2>4, <2>6, <2>8, <2>9 DEF OpenFile
  <2>12. Good(GiveAndReturn(u, p))
    BY <2>2, GiveAndReturnGood
  <2>13. Holds(u, p) /\ Apart(u.dfs) /\ Entries(u) /\ EntriesBut(u, slot)
    BY <2>2, EntriesWeaken DEF Running
  <2>14. Good(FillEntry(u, p, c1))
    <3>1. found # DFS_FAIL => \A i \in Handle : i # slot => u.files[i].inode # found
      <4>1. \/ slot = DFS_FAIL /\ (found # DFS_FAIL => \A h \in Handle : u.files[h].inode # found)
            \/ slot \in Handle /\ u.files[slot].inode = found
        BY <2>7, EntryAnswers
      <4> QED BY <2>13, <4>1 DEF Entries
    <3>2. found # DFS_FAIL => found \in Found(u.dfs, c.name)
      BY <2>3, <2>5
    <3> QED BY <1>1, <2>5, <2>10, <2>13, <3>1, <3>2, FillGood
  <2>15. found # DFS_FAIL => Good(OpenTruncate(u, p, c1))
    <3> SUFFICES ASSUME found # DFS_FAIL PROVE Good(OpenTruncate(u, p, c1))
      OBVIOUS
    <3>1. c1 \in TruncateCalls
      BY <1>1, <2>5, <2>9 DEF TruncateCalls
    <3>2. Named(p, c1)
      BY <2>10 DEF Named
    <3>3. Pending(u, c1)
      BY <2>3, <2>5, <2>7, <2>10 DEF Pending
    <3> QED BY <2>2, <3>1, <3>2, <3>3, TruncateGood
  <2>16. found = DFS_FAIL => Good(OpenNew(u, p, c1))
    <3> SUFFICES ASSUME found = DFS_FAIL PROVE Good(OpenNew(u, p, c1))
      OBVIOUS
    <3>1. slot = DFS_FAIL
      BY <2>6, EntryAnswers
    <3>2. Found(u.dfs, c1.name) = {}
      BY <2>3, <2>5, <2>10, NotHandle
    <3>3. /\ [c1 EXCEPT !.part = "create"] \in CreateCalls
          /\ [c1 EXCEPT !.part = "create"].name = c1.name
          /\ [c1 EXCEPT !.part = "create"].slot = c1.slot
      BY <1>1, <2>9 DEF CreateCalls
    <3> QED BY <2>10, <2>13, <3>1, <3>2, <3>3, NewGood
  <2> QED BY <2>11, <2>12, <2>14, <2>15, <2>16
<1> QED BY <1>2, <1>3

LEMMA DeleteGood ==
  ASSUME SeparateNames,
         NEW s \in States, NEW p \in Proc, NEW c \in DeleteCalls, Good(s),
         \A l \in Lock : ~Sleeps(s, p, l), c.name \in Uses[p]
  PROVE  Good(DeleteFile(s, p, c))
<1>1. c \in FirstCalls /\ c.name \in Names
  BY DEF FirstCalls, DeleteCalls
<1>2. CASE ~MayTake(s, p, "file_lock")
  <2>1. Good(Sleep(s, p, "file_lock", c))
    BY <1>1, <1>2, SleepFirstGood DEF Named
  <2> QED BY <1>2, <2>1 DEF DeleteFile
<1>3. CASE MayTake(s, p, "file_lock")
  <2>1. PICK u \in States : u = Take(s, p, "file_lock")
    BY TakeOK DEF Lock
  <2>2. Running(u, p)
    BY <1>3, <2>1, StartRunning
  <2>3. u.dfs = s.dfs /\ u.files = s.files
    BY <2>1, TakeOK DEF Lock
  <2>4. PICK found : found = FilenameExists(s.dfs, c.name)
    OBVIOUS
  <2>5. \/ found = DFS_FAIL /\ Found(s.dfs, c.name) = {}
        \/ found \in Found(s.dfs, c.name) /\ found \in Inode
    BY <2>4, LookupAnswers
  <2>6. PICK slot \in Handle \cup {DFS_FAIL} : slot = EntryOf(s, found)
    BY EntryAnswers
  <2>7. slot = EntryOf(u, found)
    BY <2>3, <2>6 DEF EntryOf
  <2>8. CheckOwner(u, p, slot) = u
    <3>1. CASE found = DFS_FAIL
      <4>1. slot = DFS_FAIL
        BY <2>6, <3>1, EntryAnswers
      <4> QED BY <4>1 DEF CheckOwner
    <3>2. CASE found \in Found(s.dfs, c.name)
      <4>1. found \in Found(u.dfs, c.name) /\ Entries(u)
        BY <2>2, <2>3, <3>2 DEF Running
      <4> QED BY <2>7, <4>1, OwnEntry
    <3> QED BY <2>5, <3>1, <3>2
  <2>9. PICK c1 : c1 = [part |-> "erase", inode |-> found, slot |-> slot]
    OBVIOUS
  <2>10. c1.part = "erase" /\ c1.inode = found /\ c1.slot = slot
    BY <2>9
  <2>11. DeleteFile(s, p, c) =
           IF found = DFS_FAIL THEN Return(u, p)
           ELSE IF slot = DFS_FAIL THEN GiveAndReturn(u, p)
           ELSE DeleteErase(u, p, c1)
    BY <1>3, <2>1, <2>4, <2>6, <2>8, <2>9 DEF DeleteFile
  <2>12. Good(Return(u, p)) /\ Good(GiveAndReturn(u, p))
    BY <2>2, ReturnGood, GiveAndReturnGood
  <2>13. found # DFS_FAIL /\ slot # DFS_FAIL => Good(DeleteErase(u, p, c1))
    <3> SUFFICES ASSUME found # DFS_FAIL, slot # DFS_FAIL
                 PROVE  Good(DeleteErase(u, p, c1))
      OBVIOUS
    <3>1. c1 \in EraseCalls
      BY <2>5, <2>9 DEF EraseCalls
    <3>2. u.files[slot].inode = found
      BY <2>7, EntryAnswers
    <3>3. u.dfs.inodes[found].inuse
      BY <2>3, <2>5 DEF Found
    <3>4. Pending(u, c1)
      BY <2>10, <3>2, <3>3 DEF Pending
    <3> QED BY <2>2, <3>1, <3>4, EraseGood
  <2> QED BY <2>11, <2>12, <2>13
<1> QED BY <1>2, <1>3

LEMMA CloseGood ==
  ASSUME NEW s \in States, NEW p \in Proc, NEW c \in CloseCalls, Good(s),
         \A l \in Lock : ~Sleeps(s, p, l)
  PROVE  Good(CloseFile(s, p, c))
<1>1. c \in FirstCalls /\ c.handle \in Handle /\ Named(p, c)
  BY Parts DEF FirstCalls, CloseCalls, Named
<1>2. CASE ~MayTake(s, p, "file_lock")
  <2>1. Good(Sleep(s, p, "file_lock", c))
    BY <1>1, <1>2, SleepFirstGood
  <2> QED BY <1>2, <2>1 DEF CloseFile
<1>3. CASE MayTake(s, p, "file_lock")
  <2>1. PICK u \in States : u = Take(s, p, "file_lock")
    BY TakeOK DEF Lock
  <2>2. Running(u, p)
    BY <1>3, <2>1, StartRunning
  <2>3. PICK h \in Handle : h = c.handle
    BY <1>1
  <2>4. Holds(u, p) /\ Apart(u.dfs) /\ EntriesBut(u, h)
    BY <2>2, EntriesWeaken DEF Running
  <2>5. NullifyFileEntry(u, h) \in States /\ Running(NullifyFileEntry(u, h), p)
    BY <2>4, NullifyRunning
  <2>6. Good(GiveAndReturn(NullifyFileEntry(u, h), p))
    BY <2>5, GiveAndReturnGood
  <2> QED BY <1>3, <2>1, <2>3, <2>6 DEF CloseFile
<1> QED BY <1>2, <1>3

LEMMA ReadGood ==
  ASSUME NEW s \in States, NEW p \in Proc, NEW c \in MoveCalls, Good(s),
         \A l \in Lock : ~Sleeps(s, p, l),
         MayTake(s, p, "file_lock") =>
           s.files[c.handle].inode # DFS_FAIL /\ ReadLength(s, c.handle, c.num) >= 0
  PROVE  Good(ReadFile(s, p, c))
<1>1. c \in FirstCalls /\ c.handle \in Handle /\ c.num \in Nat /\ Named(p, c)
  BY LengthAssumption DEF FirstCalls, MoveCalls, Named
<1>2. CASE ~MayTake(s, p, "file_lock")
  <2>1. Good(Sleep(s, p, "file_lock", c))
    BY <1>1, <1>2, SleepFirstGood
  <2> QED BY <1>2, <2>1 DEF ReadFile
<1>3. CASE MayTake(s, p, "file_lock")
  <2>1. PICK u \in States : u = Take(s, p, "file_lock")
    BY TakeOK DEF Lock
  <2>2. Running(u, p)
    BY <1>3, <2>1, StartRunning
  <2>3. PICK c1 : c1 = InodeCall(s, c, "reading", ReadLength(s, c.handle, c.num))
    OBVIOUS
  <2>4. /\ s.files[c.handle].inode \in Inode /\ Size(s, c.handle) \in Nat
        /\ s.files[c.handle].pos \in Nat
    BY <1>1, <1>3, SizeOK
  <2>5. ReadLength(s, c.handle, c.num) \in Nat
    BY <1>1, <1>3, <2>4 DEF ReadLength
  <2>6. c1 \in ReadingCalls
    BY <1>1, <2>3, <2>4, <2>5 DEF InodeCall, ReadingCalls
  <2>7. Good(ReadInode(u, p, c1))
    BY <2>2, <2>6, ReadingGood
  <2> QED BY <1>3, <2>1, <2>3, <2>7 DEF ReadFile
<1> QED BY <1>2, <1>3

LEMMA WriteGood ==
  ASSUME NEW s \in States, NEW p \in Proc, NEW c \in MoveCalls, Good(s),
         \A l \in Lock : ~Sleeps(s, p, l),
         MayTake(s, p, "file_lock") =>
           s.files[c.handle].inode # DFS_FAIL /\ s.files[c.handle].pos + c.num <= MaxSize
  PROVE  Good(WriteFile(s, p, c))
<1>1. c \in FirstCalls /\ c.handle \in Handle /\ c.num \in Nat /\ Named(p, c)
  BY LengthAssumption DEF FirstCalls, MoveCalls, Named
<1>2. CASE ~MayTake(s, p, "file_lock")
  <2>1. Good(Sleep(s, p, "file_lock", c))
    BY <1>1, <1>2, SleepFirstGood
  <2> QED BY <1>2, <2>1 DEF WriteFile
<1>3. CASE MayTake(s, p, "file_lock")
  <2>1. PICK u \in States : u = Take(s, p, "file_lock")
    BY TakeOK DEF Lock
  <2>2. Running(u, p)
    BY <1>3, <2>1, StartRunning
  <2>3. PICK c1 : c1 = InodeCall(s, c, "writing", c.num)
    OBVIOUS
  <2>4. s.files[c.handle].inode \in Inode /\ s.files[c.handle].pos \in Nat
    BY <1>1, <1>3, SizeOK
  <2>5. c1 \in WritingCalls
    BY <1>1, <1>3, <2>3, <2>4 DEF InodeCall, WritingCalls
  <2>6. Good(WriteInode(u, p, c1))
    BY <2>2, <2>5, WritingGood
  <2> QED BY <1>3, <2>1, <2>3, <2>6 DEF WriteFile
<1> QED BY <1>2, <1>3

LEMMA SeekGood ==
  ASSUME NEW s \in States, NEW p \in Proc, NEW c \in SeekCalls, Good(s),
         \A l \in Lock : ~Sleeps(s, p, l),
         MayTake(s, p, "file_lock") /\ c.from # "other" => SeekTo(s, c) \in 0 .. MaxSize
  PROVE  Good(SeekFile(s, p, c))
<1>1. c \in FirstCalls /\ c.handle \in Handle /\ Named(p, c)
  BY Parts DEF FirstCalls, SeekCalls, Named
<1>2. CASE ~MayTake(s, p, "file_lock")
  <2>1. Good(Sleep(s, p, "file_lock", c))
    BY <1>1, <1>2, SleepFirstGood
  <2> QED BY <1>2, <2>1 DEF SeekFile
<1>3. CASE MayTake(s, p, "file_lock")
  <2>1. PICK u \in States : u = Take(s, p, "file_lock")
    BY TakeOK DEF Lock
  <2>2. Running(u, p)
    BY <1>3, <2>1, StartRunning
  <2>3. CASE c.from = "other"
    <3>1. Good(GiveAndReturn(u, p))
      BY <2>2, GiveAndReturnGood
    <3> QED BY <1>3, <2>1, <2>3, <3>1 DEF SeekFile
  <2>4. CASE c.from # "other"
    <3>1. PICK pos \in Nat : pos = SeekTo(s, c)
      BY <1>3, <2>4
    <3>2. PICK t : t = MovedTo(u, c.handle, pos)
      OBVIOUS
    <3>3. t \in States /\ Running(t, p)
      BY <1>1, <2>2, <3>2, MovedToRunning
    <3>4. Good(Return(t, p)) /\ Good(GiveAndReturn(t, p))
      BY <3>3, ReturnGood, GiveAndReturnGood
    <3>5. SeekFile(s, p, c) \in {Return(t, p), GiveAndReturn(t, p)}
      BY <1>3, <2>1, <2>4, <3>1, <3>2 DEF SeekFile, MovedTo
    <3> QED BY <3>4, <3>5
  <2> QED BY <2>3, <2>4
<1> QED BY <1>2, <1>3

-----------------------------------------------------------------------------
(* The specification.                                                      *)

\* A new call and one that goes on, whatever its handler.
LEMMA HandlerGood ==
  ASSUME SeparateNames,
         NEW s \in States, NEW p \in Proc, NEW c \in FirstCalls \cup InnerCalls,
         Good(s), Follows(s, p, c), Named(p, c), \A l \in Lock : ~Sleeps(s, p, l),
         c \in FirstCalls \/ c = s.call[p]
  PROVE  Good(Handler(s, p, c))
<1>1. c.part \in InnerParts => Running(s, p) /\ Pending(s, c)
  <2> SUFFICES ASSUME c.part \in InnerParts PROVE Running(s, p) /\ Pending(s, c)
    OBVIOUS
  <2>1. c = s.call[p]
    BY Parts DEF InnerParts, FirstCalls
  <2> QED BY <2>1, StartInner DEF Good
<1>2. CASE c \in OpenCalls
  <2>1. c.part = "open" /\ c.name \in Uses[p]
    BY <1>2, Parts DEF Named
  <2>2. Good(OpenFile(s, p, c))
    BY <1>2, <2>1, OpenGood
  <2> QED BY <2>1, <2>2 DEF Handler
<1>3. CASE c \in DeleteCalls
  <2>1. c.part = "delete" /\ c.name \in Uses[p]
    BY <1>3, Parts DEF Named
  <2>2. Good(DeleteFile(s, p, c))
    BY <1>3, <2>1, DeleteGood
  <2> QED BY <2>1, <2>2 DEF Handler
<1>4. CASE c \in CloseCalls
  <2>1. c.part = "close" /\ Good(CloseFile(s, p, c))
    BY <1>4, Parts, CloseGood
  <2> QED BY <2>1 DEF Handler
<1>5. CASE c \in MoveCalls /\ c.part = "read"
  <2>1. Good(ReadFile(s, p, c))
    BY <1>5, ReadGood DEF Follows
  <2> QED BY <1>5, <2>1 DEF Handler
<1>6. CASE c \in MoveCalls /\ c.part = "write"
  <2>1. Good(WriteFile(s, p, c))
    BY <1>6, WriteGood DEF Follows
  <2> QED BY <1>6, <2>1 DEF Handler
<1>7. CASE c \in SeekCalls
  <2>1. c.part = "seek"
    BY <1>7, Parts
  <2>2. Good(SeekFile(s, p, c))
    BY <1>7, <2>1, SeekGood DEF Follows
  <2> QED BY <2>1, <2>2 DEF Handler
<1>8. CASE c \in TruncateCalls
  <2>1. c.part = "truncate"
    BY <1>8, Parts
  <2>2. Good(OpenTruncate(s, p, c))
    BY <1>1, <1>8, <2>1, TruncateGood DEF InnerParts
  <2> QED BY <2>1, <2>2 DEF Handler
<1>9. CASE c \in CreateCalls
  <2>1. c.part = "create"
    BY <1>9, Parts
  <2>2. Running(s, p) /\ Found(s.dfs, c.name) = {} /\ c.slot = DFS_FAIL
    BY <1>1, <2>1 DEF InnerParts, Pending
  <2>3. Holds(s, p) /\ Apart(s.dfs) /\ EntriesBut(s, c.slot)
    BY <2>2, EntriesWeaken DEF Running
  <2>4. Good(OpenCreate(s, p, c))
    BY <1>9, <2>2, <2>3, CreateGood
  <2> QED BY <2>1, <2>4 DEF Handler
<1>10. CASE c \in EraseCalls
  <2>1. c.part = "erase"
    BY <1>10, Parts
  <2>2. Good(DeleteErase(s, p, c))
    BY <1>1, <1>10, <2>1, EraseGood DEF InnerParts
  <2> QED BY <2>1, <2>2 DEF Handler
<1>11. CASE c \in ReadingCalls
  <2>1. c.part = "reading"
    BY <1>11, Parts
  <2>2. Good(ReadInode(s, p, c))
    BY <1>1, <1>11, <2>1, ReadingGood DEF InnerParts
  <2> QED BY <2>1, <2>2 DEF Handler
<1>12. CASE c \in WritingCalls
  <2>1. c.part = "writing"
    BY <1>12, Parts
  <2>2. Good(WriteInode(s, p, c))
    BY <1>1, <1>12, <2>1, WritingGood DEF InnerParts
  <2> QED BY <2>1, <2>2 DEF Handler
<1>13. c.part \in {"read", "write"} \/ c \notin MoveCalls
  BY Parts
<1> QED BY <1>2, <1>3, <1>4, <1>5, <1>6, <1>7, <1>8, <1>9, <1>10, <1>11, <1>12, <1>13
        DEF FirstCalls, InnerCalls

LEMMA InitGood == Init => Good(Now)
<1> SUFFICES ASSUME Init PROVE Good(Now)
  OBVIOUS
<1>1. PICK s : s = Now
  OBVIOUS
<1>2. /\ \A h \in Handle : s.files[h] = NoFile
      /\ \A l \in Lock : s.locks[l].queue = <<>>
      /\ \A q \in Proc : s.call[q] = NoCall
      /\ \A i \in Inode : s.dfs.inodes[i] = NoInode
  BY <1>1 DEF Init, Now, Formatted
<1>3. NoFile.inode = DFS_FAIL /\ NoCall.part = "none" /\ ~NoInode.inuse
  BY Parts, NoInodeOK DEF NoFile
<1>4. Ordered(s)
  BY <1>2, <1>3 DEF Ordered, Sleeps, InnerParts, Lock
<1>5. Entries(s) /\ Apart(s.dfs)
  BY <1>2, <1>3 DEF Entries, Apart
<1>6. \A q \in Proc : Named(q, s.call[q]) /\ Pending(s, s.call[q])
  BY <1>2, <1>3 DEF Named, Pending
<1> QED BY <1>1, <1>4, <1>5, <1>6 DEF Good

LEMMA StepGood ==
  SeparateNames /\ TypeInv /\ Good(Now) /\ [Next]_vars => Good(Now)'
<1> SUFFICES ASSUME SeparateNames, TypeInv, Good(Now), [Next]_vars PROVE Good(Now')
  OBVIOUS
<1>1. ASSUME NEW p \in Proc, Step(p) PROVE Good(Now')
  <2>1. PICK c \in FirstCalls \cup InnerCalls :
          /\ \/ Now.call[p] = NoCall /\ c \in FirstCalls
                /\ (c.part \in {"open", "delete"} => c.name \in Uses[p])
             \/ c = Now.call[p] /\ \A l \in Lock : ~Sleeps(Now, p, l)
          /\ Follows(Now, p, c) /\ Now' = Handler(Now, p, c)
    BY <1>1, StepRuns
  <2>2. PICK s \in States : s = Now
    BY DEF TypeInv
  <2>3. Good(s)
    BY <2>2
  <2>4. \A l \in Lock : ~Sleeps(s, p, l)
    BY <2>1, <2>2, <2>3 DEF Good, Ordered
  <2>5. Named(p, c)
    <3>1. CASE c = s.call[p]
      BY <2>3, <3>1 DEF Good
    <3>2. CASE c \in FirstCalls /\ (c.part \in {"open", "delete"} => c.name \in Uses[p])
      BY <3>2, Parts DEF FirstCalls, Named
    <3> QED BY <2>1, <2>2, <3>1, <3>2
  <2>6. c \in FirstCalls \/ c = s.call[p]
    BY <2>1, <2>2
  <2>7. Follows(s, p, c)
    BY <2>1, <2>2
  <2>8. Good(Handler(s, p, c))
    BY <2>3, <2>4, <2>5, <2>6, <2>7, HandlerGood
  <2> QED BY <2>1, <2>2, <2>8
<1>2. CASE UNCHANGED vars
  <2>1. Now' = Now
    BY <1>2 DEF Now, vars
  <2> QED BY <2>1
<1> QED BY <1>1, <1>2 DEF Next

LEMMA GoodHolds == SeparateNames => (Spec => []Good(Now))
<1> SUFFICES ASSUME SeparateNames PROVE Spec => []Good(Now)
  OBVIOUS
<1>1. TypeInv /\ Good(Now) /\ [Next]_vars => Good(Now)'
  BY StepGood
<1> QED BY <1>1, InitGood, TypeInvHolds, PTL DEF Spec

\* As long as processes use separate names, an open file is an inode in use by
\* the name it was opened by, open once: no interleaving of opens, truncations,
\* deletes and closes leaves an entry to a deleted or reused inode (files.c
\* 95-252 and 479-552).
THEOREM EntriesAlwaysNameFiles == SeparateNames => (Spec => []EntriesNameFiles)
<1>1. Good(Now) => EntriesNameFiles
  BY DEF Good, Now, Entries, EntryFits, EntriesNameFiles, Opened
<1> QED BY <1>1, GoodHolds, PTL

-----------------------------------------------------------------------------
(* Who sleeps for block_lock.                                              *)

NoWaiter(s) == s.locks["block_lock"].queue = <<>>

\* w alone sleeps for block_lock, in a call, and has inode_lock.
Waiter(s, w) ==
  /\ s.locks["block_lock"].queue = <<w>>
  /\ s.locks["inode_lock"].owner = w
  /\ s.call[w] # NoCall

\* A part of a handler of p sends nobody to sleep for block_lock, and wakes
\* nobody from it; at most p goes to sleep.
Undisturbed(s, t, p) ==
  /\ NoWaiter(s) => NoWaiter(t)
  /\ \A w \in Proc \ {p} : Waiter(s, w) => Waiter(t, w)
Kept(s, t, p) ==
  /\ NoWaiter(s) => NoWaiter(t) \/ Waiter(t, p)
  /\ \A w \in Proc \ {p} : Waiter(s, w) => Waiter(t, w)

LEMMA Chained ==
  ASSUME NEW s, NEW t, NEW u, NEW p, Undisturbed(s, t, p)
  PROVE  /\ Kept(s, t, p)
         /\ Undisturbed(t, u, p) => Undisturbed(s, u, p)
         /\ Kept(t, u, p) => Kept(s, u, p)
BY DEF Undisturbed, Kept

\* What leaves the two locks of the driver and the calls of others alone.
LEMMA AsideUndisturbed ==
  ASSUME NEW s, NEW t, NEW p,
         t.locks["inode_lock"] = s.locks["inode_lock"],
         t.locks["block_lock"] = s.locks["block_lock"],
         \A q \in Proc \ {p} : t.call[q] = s.call[q]
  PROVE  Undisturbed(s, t, p)
BY DEF Undisturbed, NoWaiter, Waiter

LEMMA FileLockUndisturbed ==
  ASSUME NEW s \in States, NEW p \in Proc
  PROVE  /\ Undisturbed(s, Take(s, p, "file_lock"), p)
         /\ Undisturbed(s, Give(s, p, "file_lock"), p)
<1>1. "file_lock" \in Lock /\ "inode_lock" \in Lock /\ "block_lock" \in Lock
  BY DEF Lock
<1>2. s.locks \in [Lock -> LockRecord]
  BY DEF States
<1>3. Undisturbed(s, Take(s, p, "file_lock"), p)
  <2>1. PICK t : t = Take(s, p, "file_lock")
    OBVIOUS
  <2>2. t.call = s.call /\ t.locks = [s.locks EXCEPT !["file_lock"].owner = p]
    BY <1>1, <2>1, TakeOK
  <2>3. t.locks["inode_lock"] = s.locks["inode_lock"]
        /\ t.locks["block_lock"] = s.locks["block_lock"]
    BY <1>1, <1>2, <2>2
  <2> QED BY <2>1, <2>2, <2>3, AsideUndisturbed
<1>4. Undisturbed(s, Give(s, p, "file_lock"), p)
  <2>1. PICK t : t = Give(s, p, "file_lock")
    OBVIOUS
  <2>2. t.call = s.call /\ \A k \in Lock : k # "file_lock" => t.locks[k] = s.locks[k]
    BY <1>1, <2>1, GiveOK
  <2> QED BY <1>1, <2>1, <2>2, AsideUndisturbed
<1> QED BY <1>3, <1>4

LEMMA ReturnUndisturbed ==
  ASSUME NEW s \in States, NEW p \in Proc
  PROVE  Undisturbed(s, Return(s, p), p) /\ Undisturbed(s, GiveAndReturn(s, p), p)
<1>1. ASSUME NEW t \in States PROVE Undisturbed(t, Return(t, p), p)
  <2>1. PICK u : u = Return(t, p)
    OBVIOUS
  <2>2. u.locks = t.locks /\ u.call = [t.call EXCEPT ![p] = NoCall]
    BY <2>1, ReturnOK
  <2>3. t.call \in [Proc -> Calls]
    BY DEF States
  <2>4. \A q \in Proc \ {p} : u.call[q] = t.call[q]
    BY <2>2, <2>3
  <2> QED BY <2>1, <2>2, <2>4, AsideUndisturbed
<1>2. PICK g \in States : g = Give(s, p, "file_lock")
  BY GiveOK DEF Lock
<1>3. Undisturbed(s, g, p) /\ Undisturbed(g, Return(g, p), p)
  BY <1>1, <1>2, FileLockUndisturbed
<1>4. Undisturbed(s, Return(g, p), p)
  BY <1>3, Chained
<1> QED BY <1>1, <1>2, <1>4 DEF GiveAndReturn

LEMMA CheckOwnerUndisturbed ==
  ASSUME NEW s \in States, NEW p \in Proc, NEW slot
  PROVE  Undisturbed(s, CheckOwner(s, p, slot), p)
<1>1. Undisturbed(s, s, p)
  BY AsideUndisturbed
<1>2. CheckOwner(s, p, slot) \in {s, Give(s, p, "file_lock")}
  BY DEF CheckOwner
<1> QED BY <1>1, <1>2, FileLockUndisturbed

\* An entry changes and the handler returns.
LEMMA FillUndisturbed ==
  ASSUME NEW s \in States, NEW p \in Proc, NEW c, c.slot \in Handle \cup {DFS_FAIL},
         c.name \in Names, c.mode \in Modes, c.inode \in Inode \cup {DFS_FAIL}
  PROVE  Undisturbed(s, FillEntry(s, p, c), p)
<1>1. ASSUME NEW h \in Handle
      PROVE  Undisturbed(s, Return([s EXCEPT !.files[h] = Opening(p, c)], p), p)
  <2>1. Opening(p, c) \in Files0
    BY OpeningOK
  <2>2. PICK t \in States : t = [s EXCEPT !.files[h] = Opening(p, c)]
    BY <2>1, SetEntryOK
  <2>3. t.locks = s.locks /\ t.call = s.call
    BY <2>1, <2>2, SetEntryOK
  <2>4. Undisturbed(s, t, p) /\ Undisturbed(t, Return(t, p), p)
    BY <2>3, AsideUndisturbed, ReturnUndisturbed
  <2>5. Undisturbed(s, Return(t, p), p)
    BY <2>4, Chained
  <2> QED BY <2>2, <2>5
<1>2. Undisturbed(s, GiveAndReturn(s, p), p)
  BY ReturnUndisturbed
<1>3. \/ FillEntry(s, p, c) = GiveAndReturn(s, p)
      \/ \E h \in Handle :
           FillEntry(s, p, c) = Return([s EXCEPT !.files[h] = Opening(p, c)], p)
  BY FillAnswers
<1> QED BY <1>1, <1>2, <1>3

LEMMA NullifyUndisturbed ==
  ASSUME NEW s \in States, NEW p \in Proc, NEW h \in Handle
  PROVE  Undisturbed(s, GiveAndReturn(NullifyFileEntry(s, h), p), p)
<1>1. PICK t \in States : t = NullifyFileEntry(s, h)
  BY NoFileOK, SetEntryOK DEF NullifyFileEntry
<1>2. t.locks = s.locks /\ t.call = s.call
  BY <1>1, NoFileOK, SetEntryOK DEF NullifyFileEntry
<1>3. Undisturbed(s, t, p) /\ Undisturbed(t, GiveAndReturn(t, p), p)
  BY <1>2, AsideUndisturbed, ReturnUndisturbed
<1> QED BY <1>1, <1>3, Chained

LEMMA MovedUndisturbed ==
  ASSUME NEW s \in States, NEW p \in Proc, NEW h \in Handle, NEW pos \in Nat
  PROVE  /\ Undisturbed(s, Return(MovedTo(s, h, pos), p), p)
         /\ Undisturbed(s, GiveAndReturn(MovedTo(s, h, pos), p), p)
<1>1. PICK t \in States : t = MovedTo(s, h, pos)
  BY MovedToOK
<1>2. t.locks = s.locks /\ t.call = s.call
  BY <1>1, MovedToOK
<1>3. /\ Undisturbed(s, t, p) /\ Undisturbed(t, GiveAndReturn(t, p), p)
      /\ Undisturbed(t, Return(t, p), p)
  BY <1>2, AsideUndisturbed, ReturnUndisturbed
<1> QED BY <1>1, <1>3, Chained

\* No lock of the driver is handed to or from a process that sleeps for
\* block_lock: who runs an inode function has found inode_lock free or its own.
LEMMA AfterUndisturbed ==
  ASSUME NEW s \in States, NEW p \in Proc, NEW a,
         a.dfs \in DirectDrivers, a.takes \in {InodeLock, Both},
         MayTake(s, p, "inode_lock")
  PROVE  Undisturbed(s, After(s, p, a), p)
<1>1. NoWaiter(s) => NoWaiter(After(s, p, a))
  BY AfterOK DEF NoWaiter
<1>2. \A w \in Proc \ {p} : ~Waiter(s, w)
  BY ProcAssumption DEF Waiter, MayTake
<1> QED BY <1>1, <1>2 DEF Undisturbed

LEMMA SleepKept ==
  ASSUME NEW s \in States, NEW p \in Proc, NEW c \in Calls, c # NoCall
  PROVE  /\ Undisturbed(s, Sleep(s, p, "file_lock", c), p)
         /\ Undisturbed(s, Sleep(s, p, "inode_lock", c), p)
         /\ MayTake(s, p, "inode_lock") =>
              Kept(s, Sleep(Take(s, p, "inode_lock"), p, "block_lock", c), p)
<1>1. "file_lock" \in Lock /\ "inode_lock" \in Lock /\ "block_lock" \in Lock
  BY DEF Lock
<1>2. s.locks \in [Lock -> LockRecord] /\ s.call \in [Proc -> Calls]
  BY DEF States
<1>3. ASSUME NEW l \in {"file_lock", "inode_lock"}
      PROVE  Undisturbed(s, Sleep(s, p, l, c), p)
  <2>1. PICK t : t = Sleep(s, p, l, c)
    OBVIOUS
  <2>2. t.call = [s.call EXCEPT ![p] = c]
    BY <1>1, <2>1, SleepOK
  <2>3. /\ \A k \in Lock : k # l => t.locks[k] = s.locks[k]
        /\ t.locks[l].owner = s.locks[l].owner
    BY <1>1, <2>1, SleepLocks
  <2>4. /\ t.locks["inode_lock"].owner = s.locks["inode_lock"].owner
        /\ t.locks["block_lock"] = s.locks["block_lock"]
        /\ \A q \in Proc \ {p} : t.call[q] = s.call[q]
    BY <1>1, <1>2, <2>2, <2>3
  <2> QED BY <2>1, <2>4 DEF Undisturbed, NoWaiter, Waiter
<1>4. ASSUME MayTake(s, p, "inode_lock")
      PROVE  Kept(s, Sleep(Take(s, p, "inode_lock"), p, "block_lock", c), p)
  <2>1. PICK u \in States : u = Take(s, p, "inode_lock")
    BY <1>1, TakeOK
  <2>2. u.call = s.call /\ u.locks = [s.locks EXCEPT !["inode_lock"].owner = p]
    BY <1>1, <2>1, TakeOK
  <2>3. u.locks["inode_lock"].owner = p /\ u.locks["block_lock"] = s.locks["block_lock"]
    BY <1>1, <1>2, <2>2 DEF LockRecord
  <2>4. PICK t : t = Sleep(u, p, "block_lock", c)
    OBVIOUS
  <2>5. t.call = [u.call EXCEPT ![p] = c]
    BY <1>1, <2>4, SleepOK
  <2>6. /\ t.locks["inode_lock"] = u.locks["inode_lock"]
        /\ t.locks["block_lock"].queue = Append(u.locks["block_lock"].queue, p)
    BY <1>1, <2>4, SleepLocks
  <2>7. NoWaiter(s) => Waiter(t, p)
    <3>1. t.call[p] = c
      BY <1>2, <2>2, <2>5
    <3>2. Append(<<>>, p) = <<p>>
      OBVIOUS
    <3> QED BY <2>3, <2>6, <3>1, <3>2 DEF NoWaiter, Waiter
  <2>8. \A w \in Proc \ {p} : ~Waiter(s, w)
    BY <1>4, ProcAssumption DEF Waiter, MayTake
  <2> QED BY <2>1, <2>4, <2>7, <2>8 DEF Kept
<1> QED BY <1>3, <1>4

\* An inode function of answer a, and what the handler makes of it.
LEMMA LockedKept ==
  ASSUME NEW s \in States, NEW p \in Proc, NEW c \in Calls, c # NoCall,
         NEW a, a.dfs \in DirectDrivers, a.takes \in {InodeLock, Both},
         NEW r, Kept(After(s, p, a), r, p)
  PROVE  Kept(s, IF ~MayTake(s, p, "inode_lock") THEN Sleep(s, p, "inode_lock", c)
                 ELSE IF "block_lock" \in a.takes /\ ~MayTake(s, p, "block_lock")
                 THEN Sleep(Take(s, p, "inode_lock"), p, "block_lock", c)
                 ELSE r, p)
<1>1. CASE ~MayTake(s, p, "inode_lock")
  <2>1. Kept(s, Sleep(s, p, "inode_lock", c), p)
    BY SleepKept, Chained
  <2> QED BY <1>1, <2>1
<1>2. CASE MayTake(s, p, "inode_lock")
  <2>1. Kept(s, Sleep(Take(s, p, "inode_lock"), p, "block_lock", c), p)
    BY <1>2, SleepKept
  <2>2. Undisturbed(s, After(s, p, a), p)
    BY <1>2, AfterUndisturbed
  <2>3. Kept(s, r, p)
    BY <2>2, Chained
  <2> QED BY <1>2, <2>1, <2>3
<1> QED BY <1>1, <1>2

LEMMA CreateKept ==
  ASSUME NEW s \in States, NEW p \in Proc, NEW c \in CreateCalls
  PROVE  Kept(s, OpenCreate(s, p, c), p)
<1>1. c \in Calls /\ c # NoCall /\ c.name \in Names
  BY Parts DEF Calls, InnerCalls, CreateCalls
<1>2. PICK a : a = InodeCreate(s.dfs, c.name)
  OBVIOUS
<1>3. a.dfs \in DirectDrivers /\ a.takes = InodeLock /\ a.ret \in Inode \cup {DFS_FAIL}
  <2>1. s.dfs \in DirectDrivers
    BY DEF States
  <2> QED BY <1>1, <1>2, <2>1, CreateDirect
<1>4. PICK t \in States : t = After(s, p, a)
  BY <1>3, AfterTypes
<1>5. PICK e \in CreateCalls : e = [c EXCEPT !.inode = a.ret]
  BY <1>3 DEF CreateCalls
<1>6. Undisturbed(t, FillEntry(t, p, e), p) /\ Undisturbed(t, GiveAndReturn(t, p), p)
  <2>1. /\ e.slot \in Handle \cup {DFS_FAIL} /\ e.name \in Names /\ e.mode \in Modes
        /\ e.inode \in Inode \cup {DFS_FAIL}
    BY <1>5 DEF CreateCalls
  <2> QED BY <2>1, FillUndisturbed, ReturnUndisturbed
<1>7. PICK r : r = IF a.ret = DFS_FAIL THEN GiveAndReturn(t, p) ELSE FillEntry(t, p, e)
  OBVIOUS
<1>8. Kept(t, r, p)
  BY <1>6, <1>7, Chained
<1>9. OpenCreate(s, p, c)
        = IF ~MayTake(s, p, "inode_lock") THEN Sleep(s, p, "inode_lock", c)
          ELSE IF "block_lock" \in a.takes /\ ~MayTake(s, p, "block_lock")
          THEN Sleep(Take(s, p, "inode_lock"), p, "block_lock", c)
          ELSE r
  BY <1>2, <1>4, <1>5, <1>7 DEF OpenCreate, Locked
<1>10. a.takes \in {InodeLock, Both}
  BY <1>3
<1> QED BY <1>1, <1>3, <1>4, <1>8, <1>9, <1>10, LockedKept

LEMMA NewKept ==
  ASSUME NEW s \in States, NEW p \in Proc, NEW c,
         c.slot \in Handle \cup {DFS_FAIL}, c.name \in Names, c.mode \in Modes,
         [c EXCEPT !.part = "create"] \in CreateCalls,
         \A i \in Inode \cup {DFS_FAIL} : LET e == [c EXCEPT !.inode = i] IN
            /\ e.slot = c.slot /\ e.name = c.name /\ e.mode = c.mode /\ e.inode = i
  PROVE  Kept(s, OpenNew(s, p, c), p)
<1>1. PICK found \in Inode \cup {DFS_FAIL} : found = FilenameExists(s.dfs, c.name)
  BY LookupAnswers
<1>2. PICK e : e = [c EXCEPT !.inode = found]
  OBVIOUS
<1>3. /\ e.slot \in Handle \cup {DFS_FAIL} /\ e.name \in Names /\ e.mode \in Modes
      /\ e.inode \in Inode \cup {DFS_FAIL}
  BY <1>1, <1>2
<1>4. Kept(s, FillEntry(s, p, e), p)
  BY <1>3, FillUndisturbed, Chained
<1>5. Kept(s, OpenCreate(s, p, [c EXCEPT !.part = "create"]), p)
  BY CreateKept
<1> QED BY <1>1, <1>2, <1>4, <1>5 DEF OpenNew

LEMMA TruncateKept ==
  ASSUME NEW s \in States, NEW p \in Proc, NEW c \in TruncateCalls
  PROVE  Kept(s, OpenTruncate(s, p, c), p)
<1>1. c \in Calls /\ c # NoCall /\ c.inode \in Inode
  BY Parts DEF Calls, InnerCalls, TruncateCalls
<1>2. PICK a : a = InodeDelete(s.dfs, c.inode)
  OBVIOUS
<1>3. a.dfs \in DirectDrivers /\ a.takes \in {InodeLock, Both}
  <2>1. s.dfs \in DirectDrivers
    BY DEF States
  <2> QED BY <1>1, <1>2, <2>1, DeleteDirect
<1>4. PICK t \in States : t = After(s, p, a)
  BY <1>3, AfterTypes
<1>5. Kept(t, OpenNew(t, p, c), p)
  <2>1. /\ c.slot \in Handle \cup {DFS_FAIL} /\ c.name \in Names /\ c.mode \in Modes
        /\ [c EXCEPT !.part = "create"] \in CreateCalls
        /\ \A i \in Inode \cup {DFS_FAIL} : LET e == [c EXCEPT !.inode = i] IN
             /\ e.slot = c.slot /\ e.name = c.name /\ e.mode = c.mode /\ e.inode = i
    BY DEF TruncateCalls, CreateCalls
  <2> QED BY <2>1, NewKept
<1>6. Kept(t, GiveAndReturn(t, p), p)
  BY ReturnUndisturbed, Chained
<1>7. PICK r : r = IF a.ret = DFS_FAIL THEN GiveAndReturn(t, p) ELSE OpenNew(t, p, c)
  OBVIOUS
<1>8. OpenTruncate(s, p, c)
        = IF ~MayTake(s, p, "inode_lock") THEN Sleep(s, p, "inode_lock", c)
          ELSE IF "block_lock" \in a.takes /\ ~MayTake(s, p, "block_lock")
          THEN Sleep(Take(s, p, "inode_lock"), p, "block_lock", c)
          ELSE r
  BY <1>2, <1>4, <1>7 DEF OpenTruncate, Locked
<1>9. Kept(After(s, p, a), r, p)
  BY <1>4, <1>5, <1>6, <1>7
<1> QED BY <1>1, <1>3, <1>8, <1>9, LockedKept

LEMMA EraseKept ==
  ASSUME NEW s \in States, NEW p \in Proc, NEW c \in EraseCalls
  PROVE  Kept(s, DeleteErase(s, p, c), p)
<1>1. c \in Calls /\ c # NoCall /\ c.inode \in Inode /\ c.slot \in Handle
  BY Parts DEF Calls, InnerCalls, EraseCalls
<1>2. PICK a : a = InodeDelete(s.dfs, c.inode)
  OBVIOUS
<1>3. a.dfs \in DirectDrivers /\ a.takes \in {InodeLock, Both}
  <2>1. s.dfs \in DirectDrivers
    BY DEF States
  <2> QED BY <1>1, <1>2, <2>1, DeleteDirect
<1>4. PICK t \in States : t = After(s, p, a)
  BY <1>3, AfterTypes
<1>5. PICK r : r = IF a.ret = DFS_FAIL THEN Return(t, p)
                   ELSE GiveAndReturn(NullifyFileEntry(t, c.slot), p)
  OBVIOUS
<1>6. Kept(After(s, p, a), r, p)
  BY <1>1, <1>4, <1>5, ReturnUndisturbed, NullifyUndisturbed, Chained
<1>7. DeleteErase(s, p, c)
        = IF ~MayTake(s, p, "inode_lock") THEN Sleep(s, p, "inode_lock", c)
          ELSE IF "block_lock" \in a.takes /\ ~MayTake(s, p, "block_lock")
          THEN Sleep(Take(s, p, "inode_lock"), p, "block_lock", c)
          ELSE r
  BY <1>2, <1>4, <1>5 DEF DeleteErase, Locked
<1> QED BY <1>1, <1>3, <1>6, <1>7, LockedKept

LEMMA BytesMovedUndisturbed ==
  ASSUME NEW s \in States, NEW p \in Proc, NEW c, c.handle \in Handle, NEW a,
         a.ret \in Nat \cup {DFS_FAIL}
  PROVE  Kept(s, Moved(s, p, c, a), p)
<1>1. Undisturbed(s, GiveAndReturn(s, p), p)
  BY ReturnUndisturbed
<1>2. \A pos \in Nat : Undisturbed(s, GiveAndReturn(MovedTo(s, c.handle, pos), p), p)
  BY MovedUndisturbed
<1>3. Undisturbed(s, Moved(s, p, c, a), p)
  BY <1>1, <1>2, MovedAnswers
<1> QED BY <1>3, Chained

LEMMA ReadingKept ==
  ASSUME NEW s \in States, NEW p \in Proc, NEW c \in ReadingCalls
  PROVE  Kept(s, ReadInode(s, p, c), p)
<1>1. /\ c \in Calls /\ c # NoCall /\ c.inode \in Inode /\ c.handle \in Handle
      /\ c.start \in Nat /\ c.num \in Nat
  BY Parts DEF Calls, InnerCalls, ReadingCalls
<1>2. PICK a : a = ReadBytes(s.dfs, c.inode, c.start, c.num)
  OBVIOUS
<1>3. a.dfs \in DirectDrivers /\ a.takes \in {InodeLock, Both}
      /\ a.ret \in Nat \cup {DFS_FAIL}
  <2>1. s.dfs \in DirectDrivers
    BY DEF States
  <2> QED BY <1>1, <1>2, <2>1, ReadDirect
<1>4. PICK t \in States : t = After(s, p, a)
  BY <1>3, AfterTypes
<1>5. Kept(After(s, p, a), Moved(t, p, c, a), p)
  BY <1>1, <1>3, <1>4, BytesMovedUndisturbed
<1>6. ReadInode(s, p, c)
        = IF ~MayTake(s, p, "inode_lock") THEN Sleep(s, p, "inode_lock", c)
          ELSE IF "block_lock" \in a.takes /\ ~MayTake(s, p, "block_lock")
          THEN Sleep(Take(s, p, "inode_lock"), p, "block_lock", c)
          ELSE Moved(t, p, c, a)
  BY <1>2, <1>4 DEF ReadInode, Locked
<1> QED BY <1>1, <1>3, <1>5, <1>6, LockedKept

LEMMA WritingKept ==
  ASSUME NEW s \in States, NEW p \in Proc, NEW c \in WritingCalls
  PROVE  Kept(s, WriteInode(s, p, c), p)
<1>1. /\ c \in Calls /\ c # NoCall /\ c.inode \in Inode /\ c.handle \in Handle
      /\ c.start \in Nat /\ c.num \in Nat /\ c.start + c.num <= MaxSize
  BY Parts DEF Calls, InnerCalls, WritingCalls
<1>2. PICK a : a = WriteBytes(s.dfs, c.inode, c.start, c.num, 0, [e \in Entry |-> 0])
  OBVIOUS
<1>3. a.dfs \in DirectDrivers /\ a.takes \in {InodeLock, Both}
      /\ a.ret \in Nat \cup {DFS_FAIL}
  <2>1. s.dfs \in DirectDrivers
    BY DEF States
  <2> QED BY <1>1, <1>2, <2>1, WriteDirect
<1>4. PICK t \in States : t = After(s, p, a)
  BY <1>3, AfterTypes
<1>5. Kept(After(s, p, a), Moved(t, p, c, a), p)
  BY <1>1, <1>3, <1>4, BytesMovedUndisturbed
<1>6. WriteInode(s, p, c)
        = IF ~MayTake(s, p, "inode_lock") THEN Sleep(s, p, "inode_lock", c)
          ELSE IF "block_lock" \in a.takes /\ ~MayTake(s, p, "block_lock")
          THEN Sleep(Take(s, p, "inode_lock"), p, "block_lock", c)
          ELSE Moved(t, p, c, a)
  BY <1>2, <1>4 DEF WriteInode, Locked
<1> QED BY <1>1, <1>3, <1>5, <1>6, LockedKept

LEMMA OpenKept ==
  ASSUME NEW s \in States, NEW p \in Proc, NEW c \in OpenCalls
  PROVE  Kept(s, OpenFile(s, p, c), p)
<1>1. c \in Calls /\ c # NoCall /\ c.name \in Names /\ c.mode \in Modes
  BY Parts DEF Calls, FirstCalls, OpenCalls
<1>2. PICK found \in Inode \cup {DFS_FAIL} : found = FilenameExists(s.dfs, c.name)
  BY LookupAnswers
<1>3. PICK slot \in Handle \cup {DFS_FAIL} : slot = EntryOf(s, found)
  BY EntryAnswers
<1>4. PICK u \in States : u = Take(s, p, "file_lock")
  BY TakeOK DEF Lock
<1>5. PICK t \in States : t = CheckOwner(u, p, slot)
  BY CheckOwnerOK
<1>6. PICK c1 : c1 = [part |-> "truncate", name |-> c.name, mode |-> c.mode,
                      inode |-> found, slot |-> slot]
  OBVIOUS
<1>7. Undisturbed(s, u, p) /\ Undisturbed(s, t, p)
  <2>1. Undisturbed(s, u, p) /\ Undisturbed(u, t, p)
    BY <1>4, <1>5, FileLockUndisturbed, CheckOwnerUndisturbed
  <2> QED BY <2>1, Chained
<1>8. Kept(s, Sleep(s, p, "file_lock", c), p)
  BY <1>1, SleepKept, Chained
<1>9. Kept(s, GiveAndReturn(u, p), p)
  <2>1. Kept(u, GiveAndReturn(u, p), p)
    BY ReturnUndisturbed, Chained
  <2> QED BY <1>7, <2>1, Chained
<1>10. Kept(s, FillEntry(t, p, c1), p)
  <2>1. /\ c1.slot \in Handle \cup {DFS_FAIL} /\ c1.name \in Names /\ c1.mode \in Modes
        /\ c1.inode \in Inode \cup {DFS_FAIL}
    BY <1>1, <1>6
  <2>2. Kept(t, FillEntry(t, p, c1), p)
    BY <2>1, FillUndisturbed, Chained
  <2> QED BY <1>7, <2>2, Chained
<1>11. found # DFS_FAIL => Kept(s, OpenTruncate(t, p, c1), p)
  <2>1. found # DFS_FAIL => c1 \in TruncateCalls
    BY <1>1, <1>6 DEF TruncateCalls
  <2>2. found # DFS_FAIL => Kept(t, OpenTruncate(t, p, c1), p)
    BY <2>1, TruncateKept
  <2> QED BY <1>7, <2>2, Chained
<1>12. Kept(s, OpenNew(t, p, c1), p)
  <2>1. /\ c1.slot \in Handle \cup {DFS_FAIL} /\ c1.name \in Names /\ c1.mode \in Modes
        /\ [c1 EXCEPT !.part = "create"] \in CreateCalls
        /\ \A i \in Inode \cup {DFS_FAIL} : LET e == [c1 EXCEPT !.inode = i] IN
             /\ e.slot = c1.slot /\ e.name = c1.name /\ e.mode = c1.mode /\ e.inode = i
    BY <1>1, <1>6 DEF CreateCalls
  <2>2. Kept(t, OpenNew(t, p, c1), p)
    BY <2>1, NewKept
  <2> QED BY <1>7, <2>2, Chained
<1>13. /\ OpenFile(s, p, c) \in
            {Sleep(s, p, "file_lock", c), GiveAndReturn(u, p), FillEntry(t, p, c1),
             OpenTruncate(t, p, c1), OpenNew(t, p, c1)}
       /\ found = DFS_FAIL => OpenFile(s, p, c) \in
            {Sleep(s, p, "file_lock", c), GiveAndReturn(u, p), FillEntry(t, p, c1),
             OpenNew(t, p, c1)}
  BY <1>2, <1>3, <1>4, <1>5, <1>6 DEF OpenFile
<1> QED BY <1>8, <1>9, <1>10, <1>11, <1>12, <1>13

LEMMA DeleteKept ==
  ASSUME NEW s \in States, NEW p \in Proc, NEW c \in DeleteCalls
  PROVE  Kept(s, DeleteFile(s, p, c), p)
<1>1. c \in Calls /\ c # NoCall
  BY Parts DEF Calls, FirstCalls
<1>2. PICK found \in Inode \cup {DFS_FAIL} : found = FilenameExists(s.dfs, c.name)
  BY LookupAnswers
<1>3. PICK slot \in Handle \cup {DFS_FAIL} : slot = EntryOf(s, found)
  BY EntryAnswers
<1>4. PICK u \in States : u = Take(s, p, "file_lock")
  BY TakeOK DEF Lock
<1>5. PICK t \in States : t = CheckOwner(u, p, slot)
  BY CheckOwnerOK
<1>6. PICK c1 : c1 = [part |-> "erase", inode |-> found, slot |-> slot]
  OBVIOUS
<1>7. Undisturbed(s, t, p)
  <2>1. Undisturbed(s, u, p) /\ Undisturbed(u, t, p)
    BY <1>4, <1>5, FileLockUndisturbed, CheckOwnerUndisturbed
  <2> QED BY <2>1, Chained
<1>8. Kept(s, Sleep(s, p, "file_lock", c), p)
  BY <1>1, SleepKept, Chained
<1>9. Kept(s, Return(t, p), p) /\ Kept(s, GiveAndReturn(t, p), p)
  <2>1. Kept(t, Return(t, p), p) /\ Kept(t, GiveAndReturn(t, p), p)
    BY ReturnUndisturbed, Chained
  <2> QED BY <1>7, <2>1, Chained
<1>10. found # DFS_FAIL /\ slot # DFS_FAIL => Kept(s, DeleteErase(t, p, c1), p)
  <2>1. found # DFS_FAIL /\ slot # DFS_FAIL => c1 \in EraseCalls
    BY <1>6 DEF EraseCalls
  <2>2. found # DFS_FAIL /\ slot # DFS_FAIL => Kept(t, DeleteErase(t, p, c1), p)
    BY <2>1, EraseKept
  <2> QED BY <1>7, <2>2, Chained
<1>11. DeleteFile(s, p, c) =
         IF ~MayTake(s, p, "file_lock") THEN Sleep(s, p, "file_lock", c)
         ELSE IF found = DFS_FAIL THEN Return(t, p)
         ELSE IF slot = DFS_FAIL THEN GiveAndReturn(t, p)
         ELSE DeleteErase(t, p, c1)
  BY <1>2, <1>3, <1>4, <1>5, <1>6 DEF DeleteFile
<1> QED BY <1>8, <1>9, <1>10, <1>11

LEMMA CloseKept ==
  ASSUME NEW s \in States, NEW p \in Proc, NEW c \in CloseCalls
  PROVE  Kept(s, CloseFile(s, p, c), p)
<1>1. c \in Calls /\ c # NoCall /\ c.handle \in Handle
  BY Parts DEF Calls, FirstCalls, CloseCalls
<1>2. PICK u \in States : u = Take(s, p, "file_lock")
  BY TakeOK DEF Lock
<1>3. Undisturbed(s, u, p)
  BY <1>2, FileLockUndisturbed
<1>4. Kept(u, GiveAndReturn(NullifyFileEntry(u, c.handle), p), p)
  BY <1>1, NullifyUndisturbed, Chained
<1>5. Kept(s, GiveAndReturn(NullifyFileEntry(u, c.handle), p), p)
  BY <1>3, <1>4, Chained
<1>6. Kept(s, Sleep(s, p, "file_lock", c), p)
  BY <1>1, SleepKept, Chained
<1> QED BY <1>2, <1>5, <1>6 DEF CloseFile

LEMMA ReadKept ==
  ASSUME NEW s \in States, NEW p \in Proc, NEW c \in MoveCalls,
         MayTake(s, p, "file_lock") =>
           s.files[c.handle].inode # DFS_FAIL /\ ReadLength(s, c.handle, c.num) >= 0
  PROVE  Kept(s, ReadFile(s, p, c), p)
<1>1. c \in Calls /\ c # NoCall /\ c.handle \in Handle /\ c.num \in Nat
  BY LengthAssumption, Parts DEF Calls, FirstCalls, MoveCalls
<1>2. PICK u \in States : u = Take(s, p, "file_lock")
  BY TakeOK DEF Lock
<1>3. CASE ~MayTake(s, p, "file_lock")
  <2>1. Kept(s, Sleep(s, p, "file_lock", c), p)
    BY <1>1, SleepKept, Chained
  <2> QED BY <1>3, <2>1 DEF ReadFile
<1>4. CASE MayTake(s, p, "file_lock")
  <2>1. PICK c1 : c1 = InodeCall(s, c, "reading", ReadLength(s, c.handle, c.num))
    OBVIOUS
  <2>2. /\ s.files[c.handle].inode \in Inode /\ Size(s, c.handle) \in Nat
        /\ s.files[c.handle].pos \in Nat
    BY <1>1, <1>4, SizeOK
  <2>3. ReadLength(s, c.handle, c.num) \in Nat
    BY <1>1, <1>4, <2>2 DEF ReadLength
  <2>4. c1 \in ReadingCalls
    BY <1>1, <2>1, <2>2, <2>3 DEF InodeCall, ReadingCalls
  <2>5. Undisturbed(s, u, p) /\ Kept(u, ReadInode(u, p, c1), p)
    BY <1>2, <2>4, FileLockUndisturbed, ReadingKept
  <2>6. Kept(s, ReadInode(u, p, c1), p)
    BY <2>5, Chained
  <2> QED BY <1>2, <1>4, <2>1, <2>6 DEF ReadFile
<1> QED BY <1>3, <1>4

LEMMA WriteKept ==
  ASSUME NEW s \in States, NEW p \in Proc, NEW c \in MoveCalls,
         MayTake(s, p, "file_lock") =>
           s.files[c.handle].inode # DFS_FAIL /\ s.files[c.handle].pos + c.num <= MaxSize
  PROVE  Kept(s, WriteFile(s, p, c), p)
<1>1. c \in Calls /\ c # NoCall /\ c.handle \in Handle /\ c.num \in Nat
  BY LengthAssumption, Parts DEF Calls, FirstCalls, MoveCalls
<1>2. PICK u \in States : u = Take(s, p, "file_lock")
  BY TakeOK DEF Lock
<1>3. CASE ~MayTake(s, p, "file_lock")
  <2>1. Kept(s, Sleep(s, p, "file_lock", c), p)
    BY <1>1, SleepKept, Chained
  <2> QED BY <1>3, <2>1 DEF WriteFile
<1>4. CASE MayTake(s, p, "file_lock")
  <2>1. PICK c1 : c1 = InodeCall(s, c, "writing", c.num)
    OBVIOUS
  <2>2. s.files[c.handle].inode \in Inode /\ s.files[c.handle].pos \in Nat
    BY <1>1, <1>4, SizeOK
  <2>3. c1 \in WritingCalls
    BY <1>1, <1>4, <2>1, <2>2 DEF InodeCall, WritingCalls
  <2>4. Undisturbed(s, u, p) /\ Kept(u, WriteInode(u, p, c1), p)
    BY <1>2, <2>3, FileLockUndisturbed, WritingKept
  <2>5. Kept(s, WriteInode(u, p, c1), p)
    BY <2>4, Chained
  <2> QED BY <1>2, <1>4, <2>1, <2>5 DEF WriteFile
<1> QED BY <1>3, <1>4

LEMMA SeekKept ==
  ASSUME NEW s \in States, NEW p \in Proc, NEW c \in SeekCalls,
         MayTake(s, p, "file_lock") /\ c.from # "other" => SeekTo(s, c) \in 0 .. MaxSize
  PROVE  Kept(s, SeekFile(s, p, c), p)
<1>1. c \in Calls /\ c # NoCall /\ c.handle \in Handle
  BY Parts DEF Calls, FirstCalls, SeekCalls
<1>2. PICK u \in States : u = Take(s, p, "file_lock")
  BY TakeOK DEF Lock
<1>3. Undisturbed(s, u, p)
  BY <1>2, FileLockUndisturbed
<1>4. Kept(s, Sleep(s, p, "file_lock", c), p)
  BY <1>1, SleepKept, Chained
<1>5. Kept(s, GiveAndReturn(u, p), p)
  <2>1. Kept(u, GiveAndReturn(u, p), p)
    BY ReturnUndisturbed, Chained
  <2> QED BY <1>3, <2>1, Chained
<1>6. CASE ~MayTake(s, p, "file_lock") \/ c.from = "other"
  BY <1>2, <1>4, <1>5, <1>6 DEF SeekFile
<1>7. CASE MayTake(s, p, "file_lock") /\ c.from # "other"
  <2>1. PICK pos \in Nat : pos = SeekTo(s, c)
    BY <1>7
  <2>2. PICK t : t = MovedTo(u, c.handle, pos)
    OBVIOUS
  <2>3. Undisturbed(u, Return(t, p), p) /\ Undisturbed(u, GiveAndReturn(t, p), p)
    BY <1>1, <2>2, MovedUndisturbed
  <2>4. Kept(s, Return(t, p), p) /\ Kept(s, GiveAndReturn(t, p), p)
    BY <1>3, <2>3, Chained
  <2>5. SeekFile(s, p, c) \in {Return(t, p), GiveAndReturn(t, p)}
    BY <1>2, <1>7, <2>1, <2>2 DEF SeekFile, MovedTo
  <2> QED BY <2>4, <2>5
<1> QED BY <1>6, <1>7

LEMMA HandlerKept ==
  ASSUME NEW s \in States, NEW p \in Proc, NEW c \in FirstCalls \cup InnerCalls,
         Follows(s, p, c)
  PROVE  Kept(s, Handler(s, p, c), p)
<1>1. CASE c \in OpenCalls
  <2>1. c.part = "open" /\ Kept(s, OpenFile(s, p, c), p)
    BY <1>1, Parts, OpenKept
  <2> QED BY <2>1 DEF Handler
<1>2. CASE c \in DeleteCalls
  <2>1. c.part = "delete" /\ Kept(s, DeleteFile(s, p, c), p)
    BY <1>2, Parts, DeleteKept
  <2> QED BY <2>1 DEF Handler
<1>3. CASE c \in CloseCalls
  <2>1. c.part = "close" /\ Kept(s, CloseFile(s, p, c), p)
    BY <1>3, Parts, CloseKept
  <2> QED BY <2>1 DEF Handler
<1>4. CASE c \in MoveCalls /\ c.part = "read"
  <2>1. Kept(s, ReadFile(s, p, c), p)
    BY <1>4, ReadKept DEF Follows
  <2> QED BY <1>4, <2>1 DEF Handler
<1>5. CASE c \in MoveCalls /\ c.part = "write"
  <2>1. Kept(s, WriteFile(s, p, c), p)
    BY <1>5, WriteKept DEF Follows
  <2> QED BY <1>5, <2>1 DEF Handler
<1>6. CASE c \in SeekCalls
  <2>1. c.part = "seek"
    BY <1>6, Parts
  <2>2. Kept(s, SeekFile(s, p, c), p)
    BY <1>6, <2>1, SeekKept DEF Follows
  <2> QED BY <2>1, <2>2 DEF Handler
<1>7. CASE c \in TruncateCalls
  <2>1. c.part = "truncate" /\ Kept(s, OpenTruncate(s, p, c), p)
    BY <1>7, Parts, TruncateKept
  <2> QED BY <2>1 DEF Handler
<1>8. CASE c \in CreateCalls
  <2>1. c.part = "create" /\ Kept(s, OpenCreate(s, p, c), p)
    BY <1>8, Parts, CreateKept
  <2> QED BY <2>1 DEF Handler
<1>9. CASE c \in EraseCalls
  <2>1. c.part = "erase" /\ Kept(s, DeleteErase(s, p, c), p)
    BY <1>9, Parts, EraseKept
  <2> QED BY <2>1 DEF Handler
<1>10. CASE c \in ReadingCalls
  <2>1. c.part = "reading" /\ Kept(s, ReadInode(s, p, c), p)
    BY <1>10, Parts, ReadingKept
  <2> QED BY <2>1 DEF Handler
<1>11. CASE c \in WritingCalls
  <2>1. c.part = "writing" /\ Kept(s, WriteInode(s, p, c), p)
    BY <1>11, Parts, WritingKept
  <2> QED BY <2>1 DEF Handler
<1>12. c.part \in {"read", "write"} \/ c \notin MoveCalls
  BY Parts
<1> QED BY <1>1, <1>2, <1>3, <1>4, <1>5, <1>6, <1>7, <1>8, <1>9, <1>10, <1>11, <1>12
        DEF FirstCalls, InnerCalls

OneWaiter == NoWaiter(Now) \/ \E w \in Proc : Waiter(Now, w)

\* A process that sleeps for block_lock takes no step, and no step of another
\* one wakes it.
LEMMA StepWaiter ==
  ASSUME TypeInv, OneWaiter, NEW p \in Proc, Step(p)
  PROVE  /\ OneWaiter'
         /\ \A w \in Proc : Waiter(Now, w) => w # p /\ Waiter(Now', w)
<1>1. PICK c \in FirstCalls \cup InnerCalls :
        /\ \/ Now.call[p] = NoCall /\ c \in FirstCalls
              /\ (c.part \in {"open", "delete"} => c.name \in Uses[p])
           \/ c = Now.call[p] /\ \A l \in Lock : ~Sleeps(Now, p, l)
        /\ Follows(Now, p, c) /\ Now' = Handler(Now, p, c)
  BY StepRuns
<1>2. Kept(Now, Now', p)
  <2>1. Now \in States /\ Follows(Now, p, c)
    BY <1>1 DEF TypeInv
  <2>2. Kept(Now, Handler(Now, p, c), p)
    BY <2>1, HandlerKept
  <2> QED BY <1>1, <2>2
<1>3. ~Waiter(Now, p)
  <2>1. Waiter(Now, p) => Sleeps(Now, p, "block_lock")
    <3>1. 1 \in DOMAIN <<p>> /\ <<p>>[1] = p
      OBVIOUS
    <3> QED BY <3>1 DEF Waiter, Sleeps
  <2> QED BY <1>1, <2>1 DEF Waiter, Lock
<1>4. \A w \in Proc : Waiter(Now, w) => w # p /\ Waiter(Now', w)
  BY <1>2, <1>3 DEF Kept
<1>5. NoWaiter(Now') \/ \E w \in Proc : Waiter(Now', w)
  <2>1. NoWaiter(Now) => NoWaiter(Now') \/ Waiter(Now', p)
    BY <1>2 DEF Kept
  <2> QED BY <1>4, <2>1 DEF OneWaiter
<1>6. OneWaiter'
  BY <1>5 DEF OneWaiter, NoWaiter, Waiter
<1> QED BY <1>4, <1>6

LEMMA OneWaiterHolds == Spec => []OneWaiter
<1>1. Init => OneWaiter
  BY DEF Init, OneWaiter, NoWaiter, Now, Lock
<1>2. TypeInv /\ OneWaiter /\ [Next]_vars => OneWaiter'
  <2> SUFFICES ASSUME TypeInv, OneWaiter, [Next]_vars PROVE OneWaiter'
    OBVIOUS
  <2>1. CASE UNCHANGED vars
    BY <2>1 DEF OneWaiter, NoWaiter, Waiter, Now, vars
  <2>2. ASSUME NEW p \in Proc, Step(p) PROVE OneWaiter'
    BY <2>2, StepWaiter
  <2> QED BY <2>1, <2>2 DEF Next
<1> QED BY <1>1, <1>2, TypeInvHolds, PTL DEF Spec

\* Whoever goes to sleep for block_lock sleeps for ever, whatever the processes
\* call and whether or not they share names: it is the only one in the queue and
\* has inode_lock, which the owner of block_lock would need to give it back.  So
\* no read or write of a block goes on with what it found before its sleep
\* (dfs.c 506-557 and 568-623).
THEOREM BlockWaitersAlwaysStay == Spec => BlockWaitersStay
<1> DEFINE Stay == \A p \in Proc :
                     Asleep(p, "block_lock") => Asleep(p, "block_lock")' /\ ~Step(p)
<1>1. TypeInv /\ OneWaiter /\ [Next]_vars => [Stay]_vars
  <2> SUFFICES ASSUME TypeInv, OneWaiter, Next PROVE Stay
    OBVIOUS
  <2>1. PICK q \in Proc : Step(q)
    BY DEF Next
  <2>2. \A w \in Proc : Asleep(w, "block_lock") => Waiter(Now, w)
    <3>1. ASSUME NEW w \in Proc, Asleep(w, "block_lock") PROVE Waiter(Now, w)
      <4>1. \A v \in Proc : /\ DOMAIN <<v>> = {1} /\ <<v>>[1] = v
        OBVIOUS
      <4>2. DOMAIN <<>> = {}
        OBVIOUS
      <4> QED BY <3>1, <4>1, <4>2 DEF OneWaiter, NoWaiter, Waiter, Asleep, Now
    <3> QED BY <3>1
  <2>3. \A w \in Proc : Waiter(Now, w) => ~Step(w) /\ Waiter(Now', w)
    BY <2>1, StepWaiter
  <2>4. \A w \in Proc : Waiter(Now', w) => Asleep(w, "block_lock")'
    <3>1. \A v \in Proc : 1 \in DOMAIN <<v>> /\ <<v>>[1] = v
      OBVIOUS
    <3> QED BY <3>1 DEF Waiter, Asleep, Now
  <2> QED BY <2>2, <2>3, <2>4
<1>2. BlockWaitersStay <=> [][Stay]_vars
  BY DEF BlockWaitersStay
<1> QED BY <1>1, <1>2, TypeInvHolds, OneWaiterHolds, PTL DEF Spec
=============================================================================

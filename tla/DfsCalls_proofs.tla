---------------------------- MODULE DfsCalls_proofs ----------------------------
(***************************************************************************)
(* Proofs about the inode functions called one after another, for every    *)
(* number of blocks, cells, inodes and direct blocks, every set of ranges  *)
(* and whatever the stack holds: types, names and, as long as no range     *)
(* leaves the direct blocks, blocks with one owner and reads that give     *)
(* what was written.                                                       *)
(***************************************************************************)
EXTENDS DfsCalls, DfsInode_proofs

TypeInv == dfs \in Drivers /\ kept \subseteq Both /\ ret \in Int

\* No range that the caller uses leaves the direct blocks of a file.
DirectExtents == \A e \in Extents : (e[1] + e[2]) \div B < TableSize

BlocksInv == OwnedBlocks(dfs) /\ DirectFiles(dfs)

-----------------------------------------------------------------------------
(* What each call does.                                                    *)

LEMMA StackOK ==
  /\ \A stack \in [Entry -> Garbage] : stack \in [Entry -> Content]
  /\ Values \subseteq Content
BY CellAssumption DEF Content

LEMMA ExtentOK ==
  ASSUME NEW e \in Extents
  PROVE  e[1] \in Nat /\ e[2] \in Nat
BY ExtentAssumption

\* An answer of the four functions keeps the types.
LEMMA CallKeepsTypes ==
  ASSUME TypeInv, NEW a, Call(a), a.dfs \in Drivers, a.ret \in Int,
         a.keeps \subseteq Both
  PROVE  TypeInv'
BY DEF TypeInv, Call

LEMMA OpenStep ==
  ASSUME TypeInv, NEW name \in Names, Open(name)
  PROVE  /\ TypeInv'
         /\ BlocksInv => BlocksInv'
         /\ \/ dfs' = dfs
            \/ /\ FilenameExists(dfs, name) = DFS_FAIL
               /\ \E i \in Inode :
                    /\ ~dfs.inodes[i].inuse
                    /\ dfs' = [inodes |-> [dfs.inodes EXCEPT ![i] = NewInode(name)],
                               used |-> dfs.used, disk |-> dfs.disk]
<1>1. PICK d \in Drivers : d = dfs
  BY DEF TypeInv
<1>2. PICK a : a = InodeOpen(d, name)
  OBVIOUS
<1>3. Call(a)
  BY <1>1, <1>2 DEF Open
<1>4. CASE FilenameExists(d, name) # DFS_FAIL
  <2>1. a = Answer(d, FilenameExists(d, name), {}, {})
    BY <1>2, <1>4 DEF InodeOpen
  <2>2. FilenameExists(d, name) \in Int
    BY <1>4, LookupAnswers, BlockAssumption DEF Inode
  <2>3. a.dfs = d /\ a.ret \in Int /\ a.keeps = {}
    BY <2>1, <2>2 DEF Answer
  <2>4. TypeInv'
    BY <1>3, <2>3, CallKeepsTypes
  <2>5. BlocksInv => BlocksInv'
    BY <1>1, <1>3, <2>3 DEF Call, BlocksInv
  <2> QED BY <1>1, <1>3, <2>3, <2>4, <2>5 DEF Call
<1>5. CASE FilenameExists(d, name) = DFS_FAIL
  <2>1. a = InodeCreate(d, name)
    BY <1>2, <1>5 DEF InodeOpen
  <2>2. /\ a.keeps = {}
        /\ \/ a.ret = DFS_FAIL /\ a.dfs = d
           \/ /\ a.ret \in Inode /\ ~d.inodes[a.ret].inuse
              /\ a.dfs = [inodes |-> [d.inodes EXCEPT ![a.ret] = NewInode(name)],
                          used |-> d.used, disk |-> d.disk]
    BY <2>1, CreateAnswers
  <2>3. a.dfs \in Drivers
    BY <2>1, CreateKeeps
  <2>4. a.ret \in Int
    BY <2>2, BlockAssumption DEF Inode, DFS_FAIL
  <2>5. TypeInv'
    BY <1>3, <2>2, <2>3, <2>4, CallKeepsTypes
  <2>6. dfs' = a.dfs
    BY <1>3 DEF Call
  <2>7. BlocksInv => BlocksInv'
    <3>1. OwnedBlocks(d) /\ DirectFiles(d) => OwnedBlocks(a.dfs) /\ DirectFiles(a.dfs)
      BY <2>1, CreateOwned
    <3> QED BY <1>1, <2>6, <3>1 DEF BlocksInv
  <2> QED BY <1>1, <1>5, <2>2, <2>5, <2>6, <2>7
<1> QED BY <1>4, <1>5

LEMMA DeleteStep ==
  ASSUME TypeInv, NEW h \in Inode, Delete(h)
  PROVE  /\ TypeInv'
         /\ \A i \in Inode : i # h => dfs'.inodes[i] = dfs.inodes[i]
         /\ dfs'.inodes[h].inuse =>
              dfs.inodes[h].inuse /\ dfs'.inodes[h].name = dfs.inodes[h].name
         /\ BlocksInv => BlocksInv'
<1>1. PICK d \in Drivers : d = dfs
  BY DEF TypeInv
<1>2. PICK a : a = InodeDelete(d, h)
  OBVIOUS
<1>3. Call(a)
  BY <1>1, <1>2 DEF Delete
<1>4. /\ a.dfs \in Drivers
      /\ \A i \in Inode : i # h => a.dfs.inodes[i] = d.inodes[i]
      /\ \/ /\ a.ret = DFS_FAIL
            /\ a.dfs.inodes[h].inuse = d.inodes[h].inuse
            /\ a.dfs.inodes[h].name = d.inodes[h].name
         \/ a.ret = 1 /\ ~a.dfs.inodes[h].inuse
      /\ a.keeps \in {{}, InodeLock, Both}
  BY <1>2, DeleteKeeps
<1>5. TypeInv'
  <2>1. a.ret \in Int /\ a.keeps \subseteq Both
    BY <1>4 DEF DFS_FAIL, InodeLock, Both
  <2> QED BY <1>3, <1>4, <2>1, CallKeepsTypes
<1>6. dfs' = a.dfs
  BY <1>3 DEF Call
<1>7. BlocksInv => BlocksInv'
  <2>1. OwnedBlocks(d) /\ DirectFiles(d) => OwnedBlocks(a.dfs) /\ DirectFiles(a.dfs)
    BY <1>2, DeleteOwned
  <2> QED BY <1>1, <1>6, <2>1 DEF BlocksInv
<1> QED BY <1>1, <1>4, <1>5, <1>6, <1>7

LEMMA WriteStep ==
  ASSUME TypeInv, NEW h \in Inode, NEW e \in Extents, NEW value \in Values,
         Write(h, e, value)
  PROVE  /\ TypeInv'
         /\ \A i \in Inode : /\ dfs'.inodes[i].inuse = dfs.inodes[i].inuse
                             /\ dfs'.inodes[i].name = dfs.inodes[i].name
         /\ DirectExtents /\ BlocksInv => BlocksInv'
<1>1. PICK d \in Drivers : d = dfs
  BY DEF TypeInv
<1>2. PICK stack \in [Entry -> Garbage] : Call(WriteBytes(d, h, e[1], e[2], value, stack))
  BY <1>1 DEF Write
<1>3. PICK start \in Nat, num \in Nat : start = e[1] /\ num = e[2]
  BY ExtentOK
<1>4. PICK a : a = WriteBytes(d, h, start, num, value, stack)
  OBVIOUS
<1>5. Call(a)
  BY <1>2, <1>3, <1>4
<1>6. value \in Content /\ stack \in [Entry -> Content]
  BY StackOK
<1>7. /\ a.dfs \in Drivers
      /\ \A i \in Inode : /\ a.dfs.inodes[i].inuse = d.inodes[i].inuse
                          /\ a.dfs.inodes[i].name = d.inodes[i].name
      /\ a.ret \in {DFS_FAIL, num}
      /\ a.takes \in {InodeLock, Both} /\ a.keeps \in {{}, InodeLock, Both}
      /\ (/\ (start + num) \div B < TableSize
          /\ OwnedBlocks(d) /\ DirectFiles(d))
         => OwnedBlocks(a.dfs) /\ DirectFiles(a.dfs)
  BY <1>4, <1>6, WriteKeeps
<1>8. TypeInv'
  <2>1. a.ret \in Int /\ a.keeps \subseteq Both
    BY <1>7 DEF DFS_FAIL, InodeLock, Both
  <2> QED BY <1>5, <1>7, <2>1, CallKeepsTypes
<1>9. dfs' = a.dfs
  BY <1>5 DEF Call
<1>10. DirectExtents /\ BlocksInv => BlocksInv'
  BY <1>1, <1>3, <1>7, <1>9 DEF DirectExtents, BlocksInv
<1> QED BY <1>1, <1>7, <1>8, <1>9, <1>10

LEMMA ReadStep ==
  ASSUME TypeInv, NEW h \in Inode, NEW e \in Extents, Read(h, e)
  PROVE  /\ TypeInv'
         /\ \A i \in Inode : /\ dfs'.inodes[i].inuse = dfs.inodes[i].inuse
                             /\ dfs'.inodes[i].name = dfs.inodes[i].name
         /\ BlocksInv => BlocksInv'
<1>1. PICK d \in Drivers : d = dfs
  BY DEF TypeInv
<1>2. PICK start \in Nat, num \in Nat : start = e[1] /\ num = e[2]
  BY ExtentOK
<1>3. PICK a : a = ReadBytes(d, h, start, num)
  OBVIOUS
<1>4. Call(a)
  BY <1>1, <1>2, <1>3 DEF Read
<1>5. /\ a.dfs \in Drivers
      /\ \A i \in Inode : /\ a.dfs.inodes[i].inuse = d.inodes[i].inuse
                          /\ a.dfs.inodes[i].name = d.inodes[i].name
      /\ a.ret \in {DFS_FAIL, num}
      /\ a.takes \in {InodeLock, Both} /\ a.keeps \in {{}, InodeLock, Both}
      /\ OwnedBlocks(d) => OwnedBlocks(a.dfs)
      /\ DirectFiles(d) => DirectFiles(a.dfs)
  BY <1>3, ReadKeeps
<1>6. TypeInv'
  <2>1. a.ret \in Int /\ a.keeps \subseteq Both
    BY <1>5 DEF DFS_FAIL, InodeLock, Both
  <2> QED BY <1>4, <1>5, <2>1, CallKeepsTypes
<1>7. dfs' = a.dfs
  BY <1>4 DEF Call
<1>8. BlocksInv => BlocksInv'
  BY <1>1, <1>5, <1>7 DEF BlocksInv
<1> QED BY <1>1, <1>5, <1>6, <1>7, <1>8

LEMMA OpenKeepsNames ==
  ASSUME TypeInv, NEW name \in Names, Open(name), NamesApart
  PROVE  NamesApart'
<1>1. CASE dfs' = dfs
  BY <1>1 DEF NamesApart
<1>2. ASSUME FilenameExists(dfs, name) = DFS_FAIL, NEW i \in Inode,
             dfs' = [inodes |-> [dfs.inodes EXCEPT ![i] = NewInode(name)],
                     used |-> dfs.used, disk |-> dfs.disk]
      PROVE  NamesApart'
  <2>1. dfs.inodes \in [Inode -> InodeRecord]
    BY DEF TypeInv, Drivers
  <2>2. /\ dfs'.inodes[i].name = name
        /\ \A j \in Inode : j # i => dfs'.inodes[j] = dfs.inodes[j]
    BY <1>2, <2>1, NewInodeOK
  <2>3. Found(dfs, name) = {}
    <3>1. DFS_FAIL \notin Inode
      BY DEF DFS_FAIL, Inode
    <3> QED BY <1>2, <3>1, LookupAnswers
  <2>4. \A j \in Inode : dfs.inodes[j].inuse =>
          /\ <<name, dfs.inodes[j].name>> \notin Match
          /\ <<dfs.inodes[j].name, name>> \notin Match
    BY <2>3, SymmetryAssumption DEF Found
  <2> QED BY <2>2, <2>4 DEF NamesApart
<1> QED BY <1>1, <1>2, OpenStep

-----------------------------------------------------------------------------
(* The specification.                                                      *)

LEMMA InitInv == Init => TypeInv /\ NamesApart /\ BlocksInv
<1> SUFFICES ASSUME Init PROVE TypeInv /\ NamesApart /\ BlocksInv
  OBVIOUS
<1>1. TypeInv
  BY FormattedOK DEF Init, TypeInv
<1>2. dfs.used = Meta /\ \A i \in Inode : dfs.inodes[i] = NoInode
  BY DEF Init, Formatted
<1>3. ~NoInode.inuse /\ NoInode.indirect = 0 /\ \A v \in Slot : NoInode.table[v] = 0
  BY NoInodeOK DEF NoInode
<1>4. NamesApart
  BY <1>2, <1>3 DEF NamesApart
<1>5. BlocksInv
  BY <1>2, <1>3 DEF BlocksInv, OwnedBlocks, DirectFiles
<1> QED BY <1>1, <1>4, <1>5

LEMMA StepTypes == TypeInv /\ [Next]_vars => TypeInv'
<1> SUFFICES ASSUME TypeInv, [Next]_vars PROVE TypeInv'
  OBVIOUS
<1>1. ASSUME NEW name \in Names, Open(name) PROVE TypeInv'
  BY <1>1, OpenStep
<1>2. ASSUME NEW h \in Inode, Delete(h) PROVE TypeInv'
  BY <1>2, DeleteStep
<1>3. ASSUME NEW h \in Inode, NEW e \in Extents, NEW value \in Values,
             Write(h, e, value)
      PROVE  TypeInv'
  BY <1>3, WriteStep
<1>4. ASSUME NEW h \in Inode, NEW e \in Extents, Read(h, e) PROVE TypeInv'
  BY <1>4, ReadStep
<1>5. CASE UNCHANGED vars
  BY <1>5 DEF TypeInv, vars
<1> QED BY <1>1, <1>2, <1>3, <1>4, <1>5 DEF Next

LEMMA StepNames == TypeInv /\ NamesApart /\ [Next]_vars => NamesApart'
<1> SUFFICES ASSUME TypeInv, NamesApart, [Next]_vars PROVE NamesApart'
  OBVIOUS
<1>1. ASSUME NEW name \in Names, Open(name) PROVE NamesApart'
  BY <1>1, OpenKeepsNames
<1>2. ASSUME NEW h \in Inode, Delete(h) PROVE NamesApart'
  <2>1. \A i \in Inode : dfs'.inodes[i].inuse =>
          dfs.inodes[i].inuse /\ dfs'.inodes[i].name = dfs.inodes[i].name
    BY <1>2, DeleteStep
  <2> QED BY <2>1 DEF NamesApart
<1>3. ASSUME NEW h \in Inode, NEW e \in Extents, NEW value \in Values,
             Write(h, e, value)
      PROVE  NamesApart'
  <2>1. \A i \in Inode : /\ dfs'.inodes[i].inuse = dfs.inodes[i].inuse
                         /\ dfs'.inodes[i].name = dfs.inodes[i].name
    BY <1>3, WriteStep
  <2> QED BY <2>1 DEF NamesApart
<1>4. ASSUME NEW h \in Inode, NEW e \in Extents, Read(h, e) PROVE NamesApart'
  <2>1. \A i \in Inode : /\ dfs'.inodes[i].inuse = dfs.inodes[i].inuse
                         /\ dfs'.inodes[i].name = dfs.inodes[i].name
    BY <1>4, ReadStep
  <2> QED BY <2>1 DEF NamesApart
<1>5. CASE UNCHANGED vars
  BY <1>5 DEF NamesApart, vars
<1> QED BY <1>1, <1>2, <1>3, <1>4, <1>5 DEF Next

LEMMA StepBlocks == TypeInv /\ BlocksInv /\ DirectExtents /\ [Next]_vars => BlocksInv'
<1> SUFFICES ASSUME TypeInv, BlocksInv, DirectExtents, [Next]_vars PROVE BlocksInv'
  OBVIOUS
<1>1. ASSUME NEW name \in Names, Open(name) PROVE BlocksInv'
  BY <1>1, OpenStep
<1>2. ASSUME NEW h \in Inode, Delete(h) PROVE BlocksInv'
  BY <1>2, DeleteStep
<1>3. ASSUME NEW h \in Inode, NEW e \in Extents, NEW value \in Values,
             Write(h, e, value)
      PROVE  BlocksInv'
  BY <1>3, WriteStep
<1>4. ASSUME NEW h \in Inode, NEW e \in Extents, Read(h, e) PROVE BlocksInv'
  BY <1>4, ReadStep
<1>5. CASE UNCHANGED vars
  BY <1>5 DEF BlocksInv, vars
<1> QED BY <1>1, <1>2, <1>3, <1>4, <1>5 DEF Next

LEMMA TypeInvHolds == Spec => []TypeInv
BY InitInv, StepTypes, PTL DEF Spec

LEMMA BlocksInvHolds == DirectExtents => (Spec => []BlocksInv)
<1> SUFFICES ASSUME DirectExtents PROVE Spec => []BlocksInv
  OBVIOUS
<1>1. TypeInv /\ BlocksInv /\ [Next]_vars => BlocksInv'
  BY StepBlocks
<1> QED BY <1>1, InitInv, TypeInvHolds, PTL DEF Spec

\* The driver keeps its types, whatever the stack holds and however long files
\* get, and a call keeps no other lock than its own two (dfs.c 506-1400).
THEOREM TypeCorrect == Spec => []TypeOK
<1>1. TypeInv => TypeOK
  BY DEF TypeInv, TypeOK, Drivers, InodeRecord, Content, Cell
<1> QED BY <1>1, TypeInvHolds, PTL

\* No two files in use have names that a lookup takes for each other, however
\* creations, deletes and failing calls follow each other (dfs.c 653-664).
THEOREM NamesAlwaysApart == Spec => []NamesApart
BY InitInv, StepNames, TypeInvHolds, PTL DEF Spec

\* No block serves two files or a file and the metadata, as long as the ranges
\* do not leave the direct blocks; with an indirect block it may, since a
\* delete frees what an uninitialized vector names (dfs.c 807-870, 1250-1290).
THEOREM BlocksAlwaysOwned == DirectExtents => (Spec => []BlocksAreOwned)
<1>1. BlocksInv => BlocksAreOwned
  BY DEF BlocksInv, OwnedBlocks, BlocksAreOwned, TableOf
<1> QED BY <1>1, BlocksInvHolds, PTL

\* One write and one read of the same file.
LEMMA WriteReadsBack ==
  ASSUME NEW d \in Drivers, NEW h \in Inode, NEW e \in Extents, NEW f \in Extents,
         NEW value \in Content, NEW stack \in [Entry -> Content],
         DirectExtents, DirectFiles(d),
         WriteBytes(d, h, e[1], e[2], value, stack).ret = e[2],
         f = e \/ ~(OneBlock(e[1], e[2]) \/ OneBlock(f[1], f[2]))
  PROVE  ReadGivesWritten(d, WriteBytes(d, h, e[1], e[2], value, stack).dfs,
                          h, e, value, f)
<1>1. PICK start \in Nat, num \in Nat, from \in Nat, n \in Nat :
        start = e[1] /\ num = e[2] /\ from = f[1] /\ n = f[2]
  BY ExtentOK
<1>2. PICK r : r = WriteBytes(d, h, start, num, value, stack).dfs
  OBVIOUS
<1>3. r \in Drivers
  BY <1>2, WriteKeeps
<1>4. (start + num) \div B < TableSize
  BY <1>1 DEF DirectExtents
<1>5. WriteBytes(d, h, start, num, value, stack).ret = num
  BY <1>1
<1>6. \A b \in Block, o \in Entry :
        r.disk[b][o] = IF \E j \in Bytes(num) : <<b, o>> = Place(start, num, j)
                       THEN value ELSE d.disk[b][o]
  BY <1>2, <1>4, <1>5, WriteStoresRange
<1>7. ASSUME ReadBytes(r, h, from, n).ret = n, NEW k \in Bytes(n)
      PROVE  BytesRead(r, from, n)[k] = IF from + k \in start .. start + num - 1
                                        THEN value ELSE BytesRead(d, from, n)[k]
  <2>1. Place(from, n, k) \in Block \X Entry
    BY <1>3, <1>7, ReadFindsBlocks
  <2>2. PICK b \in Block, o \in Entry : Place(from, n, k) = <<b, o>>
    BY <2>1
  <2>3. BytesRead(r, from, n)[k] = r.disk[b][o] /\ BytesRead(d, from, n)[k] = d.disk[b][o]
    BY <2>2 DEF BytesRead
  <2>4. (\E j \in Bytes(num) : <<b, o>> = Place(start, num, j))
        <=> from + k \in start .. start + num - 1
    <3>1. CASE f = e
      <4>1. from = start /\ n = num
        BY <1>1, <3>1
      <4> QED BY <2>2, <4>1 DEF Bytes
    <3>2. CASE ~OneBlock(start, num) /\ ~OneBlock(from, n)
      BY <2>2, <3>2, PartsMeet
    <3> QED BY <1>1, <3>1, <3>2
  <2> QED BY <1>6, <2>3, <2>4
<1> QED BY <1>1, <1>2, <1>7 DEF ReadGivesWritten

\* What a write puts into a file is what a read finds there, for every size of a
\* block, every number of blocks and all ranges in the direct blocks, in every
\* state that calls lead to (dfs.c 916-1050 and 1074-1230).
THEOREM WritesReadBack == DirectExtents => (Spec => ReadsBack)
<1> SUFFICES ASSUME DirectExtents PROVE Spec => ReadsBack
  OBVIOUS
<1> DEFINE Agree == \A h \in Inode, e \in Extents, value \in Values :
                      Written(h, e, value)
                      => \A f \in Extents :
                           f = e \/ ~(OneBlock(e[1], e[2]) \/ OneBlock(f[1], f[2]))
                           => ReadGivesWritten(dfs, dfs', h, e, value, f)
<1>1. TypeInv /\ BlocksInv => Agree
  <2> SUFFICES ASSUME TypeInv, BlocksInv,
                      NEW h \in Inode, NEW e \in Extents, NEW value \in Values,
                      Written(h, e, value), NEW f \in Extents,
                      f = e \/ ~(OneBlock(e[1], e[2]) \/ OneBlock(f[1], f[2]))
               PROVE  ReadGivesWritten(dfs, dfs', h, e, value, f)
    OBVIOUS
  <2>1. PICK d \in Drivers : d = dfs
    BY DEF TypeInv
  <2>2. PICK r : r = dfs'
    OBVIOUS
  <2>3. PICK stack \in [Entry -> Garbage] :
          Call(WriteBytes(d, h, e[1], e[2], value, stack))
    BY <2>1 DEF Written, Write
  <2>4. /\ WriteBytes(d, h, e[1], e[2], value, stack).ret = e[2]
        /\ WriteBytes(d, h, e[1], e[2], value, stack).dfs = r
    BY <2>1, <2>2, <2>3 DEF Written, Call
  <2>5. DirectFiles(d) /\ value \in Content /\ stack \in [Entry -> Content]
    BY <2>1, StackOK DEF BlocksInv
  <2>6. ReadGivesWritten(d, r, h, e, value, f)
    BY <2>4, <2>5, WriteReadsBack
  <2> QED BY <2>1, <2>2, <2>6
<1>2. ReadsBack <=> [][Agree]_vars
  BY DEF ReadsBack
<1> QED BY <1>1, <1>2, TypeInvHolds, BlocksInvHolds, PTL DEF Spec
=============================================================================

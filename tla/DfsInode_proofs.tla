---------------------------- MODULE DfsInode_proofs ----------------------------
(***************************************************************************)
(* Lemmas about the functions of the inode layer, for every number of      *)
(* blocks, of cells in a block, of inodes and of direct blocks: what they  *)
(* keep well-formed, what they do to names and to blocks, and where the    *)
(* bytes of a range are.  DfsCalls_proofs and Files_proofs rest on them.   *)
(***************************************************************************)
EXTENDS DfsInode, FiniteSetTheorems, WellFoundedInduction, TLAPS

\* What a cell of the disk may hold: a byte of data or the number of a block.
Content == (0 .. NumBlocks - 1) \cup Values

InodeRecord == [inuse : BOOLEAN, name : Names \cup {""}, size : Nat,
                table : [Slot -> Block], indirect : Block]

Drivers == [inodes : [Inode -> InodeRecord], used : SUBSET Block,
            disk : [Block -> [Entry -> Content]]]

\* The order of the naturals, as a set of pairs.
LessThan == {p \in Nat \X Nat : p[1] < p[2]}

-----------------------------------------------------------------------------
(* Least and n-th numbers of a set.                                        *)

\* A set of natural numbers that is not empty has a least one.
LEMMA LeastOf ==
  ASSUME NEW S \in SUBSET Nat, S # {}
  PROVE  Lowest(S) \in S /\ \A n \in S : Lowest(S) <= n
<1>1. IsWellFoundedOn(LessThan, Nat)
  BY NatLessThanWellFounded DEF OpToRel, LessThan
<1>2. PICK m \in S : \A n \in S : ~ (<<n, m>> \in LessThan)
  BY <1>1, WFMin
<1>3. ASSUME NEW n \in S, n < m PROVE FALSE
  <2>1. <<n, m>> \in LessThan
    BY <1>3 DEF LessThan
  <2> QED BY <1>2, <2>1
<1>4. m \in S /\ \A n \in S : m <= n
  BY <1>3
<1> QED BY <1>4 DEF Lowest

\* As many numbers of S are below its n-th element as n says, and it has an
\* n-th element for every n below its size: the least n without one would be
\* that of the next number behind the element before.
LEMMA NthExists ==
  ASSUME NEW S \in SUBSET Nat, IsFiniteSet(S), NEW n \in Nat, n < Cardinality(S)
  PROVE  \E b \in S : Cardinality({c \in S : c < b}) = n
<1> DEFINE Below(b) == {c \in S : c < b}
           Bad == {m \in Nat : m < Cardinality(S)
                                /\ ~ \E b \in S : Cardinality(Below(b)) = m}
<1>1. SUFFICES Bad = {}
  OBVIOUS
<1>2. SUFFICES ASSUME Bad # {} PROVE FALSE
  OBVIOUS
<1>3. PICK m \in Bad : \A k \in Bad : m <= k
  BY <1>2, LeastOf
<1>4. m \in Nat /\ m < Cardinality(S) /\ \A b \in S : Cardinality(Below(b)) # m
  BY <1>3
<1>5. Cardinality(S) \in Nat /\ \A b \in S : IsFiniteSet(Below(b))
  <2>1. \A b \in S : Below(b) \in SUBSET S
    OBVIOUS
  <2> QED BY <2>1, FS_CardinalityType, FS_Subset
<1>6. CASE m = 0
  <2>1. S # {}
    BY <1>4, <1>6, FS_EmptySet
  <2>2. PICK b \in S : \A c \in S : b <= c
    BY <2>1, LeastOf
  <2>3. \A c \in S : ~(c < b)
    BY <2>2
  <2>4. Below(b) = {}
    BY <2>3
  <2> QED BY <1>4, <1>6, <2>4, FS_EmptySet
<1>7. CASE m # 0
  <2>1. m - 1 \in Nat /\ m - 1 < Cardinality(S) /\ m - 1 \notin Bad
    BY <1>3, <1>4, <1>5, <1>7
  <2>2. PICK b \in S : Cardinality(Below(b)) = m - 1
    BY <2>1
  <2>3. Cardinality(Below(b) \cup {b}) = m
    <3>1. b \notin Below(b) /\ IsFiniteSet(Below(b))
      BY <1>5
    <3> HIDE DEF Below
    <3>2. Cardinality(Below(b) \cup {b}) = Cardinality(Below(b)) + 1
      BY <3>1, FS_AddElement
    <3> QED BY <1>4, <2>2, <3>2
  <2> DEFINE Above == {c \in S : b < c}
  <2>4. Above # {}
    <3>1. CASE Above = {}
      <4>1. \A c \in S : c < b \/ c = b
        BY <3>1
      <4>2. S = Below(b) \cup {b}
        BY <4>1
      <4> QED BY <1>4, <2>3, <4>2
    <3> QED BY <3>1
  <2>5. PICK c \in Above : \A k \in Above : c <= k
    BY <2>4, LeastOf
  <2>6. \A k \in S : k < c <=> k < b \/ k = b
    BY <2>5
  <2>7. Below(c) = Below(b) \cup {b}
    BY <2>6
  <2> QED BY <1>4, <2>3, <2>5, <2>7
<1> QED BY <1>6, <1>7

-----------------------------------------------------------------------------
(* Blocks that are given out.                                              *)

LEMMA FreeFinite ==
  ASSUME NEW d
  PROVE  /\ Free(d) \in SUBSET Nat /\ Free(d) \subseteq Block
         /\ IsFiniteSet(Free(d)) /\ Cardinality(Free(d)) \in Nat
<1>1. IsFiniteSet(Block)
  BY FS_Interval, BlockAssumption DEF Block
<1>2. Free(d) \in SUBSET Block /\ Block \subseteq Nat
  BY BlockAssumption DEF Free, Block
<1> QED BY <1>1, <1>2, FS_Subset, FS_CardinalityType

\* The n-th call of a row is answered with a block that was free.
LEMMA FreshIsFree ==
  ASSUME NEW d, NEW n \in Nat, HasFresh(d, n)
  PROVE  /\ Fresh(d, n) \in Free(d)
         /\ Cardinality({c \in Free(d) : c < Fresh(d, n)}) = n
<1> DEFINE IsNth(b) == Cardinality({c \in Free(d) : c < b}) = n
<1>1. \E b \in Free(d) : IsNth(b)
  BY FreeFinite, NthExists DEF HasFresh
<1>2. Fresh(d, n) = CHOOSE b \in Free(d) : IsNth(b)
  BY DEF Fresh
<1> HIDE DEF IsNth
<1>3. Fresh(d, n) \in Free(d) /\ IsNth(Fresh(d, n))
  BY <1>1, <1>2
<1> QED BY <1>3 DEF IsNth

\* No two calls of a row are answered with the same block.
LEMMA FreshDistinct ==
  ASSUME NEW d, NEW n \in Nat, NEW m \in Nat, HasFresh(d, n), HasFresh(d, m),
         Fresh(d, n) = Fresh(d, m)
  PROVE  n = m
BY FreshIsFree

-----------------------------------------------------------------------------
(* Allocation of the blocks of a file (dfs.c 1250-1330).                   *)

\* The blocks that the calls for the virtual blocks 0 .. last are answered with.
Taken(d, last) == {Fresh(d, n) : n \in {m \in 0 .. last : HasFresh(d, m)}}

LEMMA TakenAreFree ==
  ASSUME NEW d, NEW last \in Nat
  PROVE  Taken(d, last) \subseteq Free(d) /\ Taken(d, last) \subseteq Block
<1>1. \A n \in 0 .. last : n \in Nat
  OBVIOUS
<1>2. \A n \in 0 .. last : HasFresh(d, n) => Fresh(d, n) \in Free(d)
  BY <1>1, FreshIsFree
<1> QED BY <1>2, FreeFinite DEF Taken

\* Whatever the stack holds, the driver keeps its types, the other files are
\* untouched, and the file keeps its name.
LEMMA AllocateKeeps ==
  ASSUME NEW d \in Drivers, NEW h \in Inode, NEW last \in Nat,
         NEW stack \in [Entry -> Content]
  PROVE  /\ AllocateBlocks(d, h, last, stack) \in Drivers
         /\ d.used \subseteq AllocateBlocks(d, h, last, stack).used
         /\ \A i \in Inode : i # h =>
              AllocateBlocks(d, h, last, stack).inodes[i] = d.inodes[i]
         /\ AllocateBlocks(d, h, last, stack).inodes[h].inuse = d.inodes[h].inuse
         /\ AllocateBlocks(d, h, last, stack).inodes[h].name = d.inodes[h].name
         /\ AllocateBlocks(d, h, last, stack).inodes[h].size = d.inodes[h].size
<1> DEFINE f == d.inodes[h]
           taken(v) == {Fresh(d, n) : n \in {m \in 0 .. v : HasFresh(d, m)}}
           ind == IF f.indirect # 0 THEN f.indirect
                  ELSE IF last >= TableSize /\ HasFresh(d, TableSize)
                  THEN Fresh(d, TableSize) ELSE 0
           base == IF f.indirect = 0 THEN stack ELSE d.disk[ind]
           stored(e) == /\ TableSize + e <= last
                        /\ HasFresh(d, TableSize + e)
                        /\ ind \in d.used \cup taken(TableSize + e)
           vector == [e \in Entry |-> IF stored(e) THEN Fresh(d, TableSize + e)
                                      ELSE base[e]]
           table == [v \in Slot |-> IF v <= last /\ HasFresh(d, v)
                                    THEN Fresh(d, v) ELSE f.table[v]]
           disk == IF \E e \in Entry : stored(e)
                   THEN [d.disk EXCEPT ![ind] = vector] ELSE d.disk
           r == AllocateBlocks(d, h, last, stack)
<1>1. /\ f \in InodeRecord /\ d.inodes \in [Inode -> InodeRecord]
      /\ d.used \subseteq Block /\ d.disk \in [Block -> [Entry -> Content]]
      /\ d = [inodes |-> d.inodes, used |-> d.used, disk |-> d.disk]
  BY DEF Drivers
<1>2. \A n \in Nat : HasFresh(d, n) => Fresh(d, n) \in Block
  BY FreshIsFree, FreeFinite
<1>3. /\ TableSize \in Nat /\ Slot \subseteq Nat /\ Entry \subseteq Nat /\ 0 \in Block
      /\ Block \subseteq Content
  BY BlockAssumption DEF Slot, Entry, Block, Content
<1>4. ind \in Block
  BY <1>1, <1>2, <1>3 DEF InodeRecord
<1>5. base \in [Entry -> Content]
  BY <1>1, <1>3, <1>4
<1>6. vector \in [Entry -> Content]
  <2>1. \A e \in Entry : TableSize + e \in Nat
    BY <1>3
  <2> HIDE DEF base
  <2> QED BY <1>2, <1>3, <1>5, <2>1
<1>7. table \in [Slot -> Block]
  BY <1>1, <1>2, <1>3 DEF InodeRecord
<1>8. disk \in [Block -> [Entry -> Content]]
  <2> HIDE DEF vector, ind, stored
  <2> QED BY <1>1, <1>4, <1>6
<1>9. d.used \cup taken(last) \subseteq Block
  BY <1>1, TakenAreFree DEF Taken
<1>10. r = [d EXCEPT !.used = d.used \cup taken(last),
                     !.inodes[h].table = table,
                     !.inodes[h].indirect = ind,
                     !.disk = disk]
  BY DEF AllocateBlocks
<1> HIDE DEF r, disk, table, vector, stored, base, ind, taken
<1>11. r = [inodes |-> [d.inodes EXCEPT ![h] =
                          [f EXCEPT !.table = table, !.indirect = ind]],
            used |-> d.used \cup taken(last), disk |-> disk]
  BY <1>1, <1>10
<1>12. [f EXCEPT !.table = table, !.indirect = ind] \in InodeRecord
  BY <1>1, <1>4, <1>7 DEF InodeRecord
<1>13. r \in Drivers
  BY <1>1, <1>8, <1>9, <1>11, <1>12 DEF Drivers
<1>14. /\ d.used \subseteq r.used
       /\ \A i \in Inode : i # h => r.inodes[i] = d.inodes[i]
       /\ r.inodes[h] = [f EXCEPT !.table = table, !.indirect = ind]
  BY <1>1, <1>11
<1>15. /\ r.inodes[h].inuse = f.inuse
       /\ r.inodes[h].name = f.name
       /\ r.inodes[h].size = f.size
  BY <1>1, <1>14 DEF InodeRecord
<1> QED BY <1>13, <1>14, <1>15 DEF r

\* A file that fits its direct blocks: only its table and the blocks in use
\* change.
LEMMA AllocateDirect ==
  ASSUME NEW d \in Drivers, NEW h \in Inode, NEW last \in Nat,
         NEW stack \in [Entry -> Content],
         last < TableSize, d.inodes[h].indirect = 0
  PROVE  /\ AllocateBlocks(d, h, last, stack).used = d.used \cup Taken(d, last)
         /\ AllocateBlocks(d, h, last, stack).inodes[h].table =
              [v \in Slot |-> IF v <= last /\ HasFresh(d, v) THEN Fresh(d, v)
                              ELSE d.inodes[h].table[v]]
         /\ AllocateBlocks(d, h, last, stack).inodes[h].indirect = 0
         /\ AllocateBlocks(d, h, last, stack).disk = d.disk
<1> DEFINE f == d.inodes[h]
           taken(v) == {Fresh(d, n) : n \in {m \in 0 .. v : HasFresh(d, m)}}
           ind == IF f.indirect # 0 THEN f.indirect
                  ELSE IF last >= TableSize /\ HasFresh(d, TableSize)
                  THEN Fresh(d, TableSize) ELSE 0
           base == IF f.indirect = 0 THEN stack ELSE d.disk[ind]
           stored(e) == /\ TableSize + e <= last
                        /\ HasFresh(d, TableSize + e)
                        /\ ind \in d.used \cup taken(TableSize + e)
           vector == [e \in Entry |-> IF stored(e) THEN Fresh(d, TableSize + e)
                                      ELSE base[e]]
           table == [v \in Slot |-> IF v <= last /\ HasFresh(d, v)
                                    THEN Fresh(d, v) ELSE f.table[v]]
           disk == IF \E e \in Entry : stored(e)
                   THEN [d.disk EXCEPT ![ind] = vector] ELSE d.disk
           r == AllocateBlocks(d, h, last, stack)
<1>1. /\ f \in InodeRecord /\ d.inodes \in [Inode -> InodeRecord]
      /\ d = [inodes |-> d.inodes, used |-> d.used, disk |-> d.disk]
  BY DEF Drivers
<1>2. TableSize \in Nat /\ \A e \in Entry : e \in Nat
  BY BlockAssumption DEF Entry
<1>3. ind = 0
  BY <1>2
<1>4. disk = d.disk
  <2>1. \A e \in Entry : ~(TableSize + e <= last)
    BY <1>2
  <2> QED BY <2>1
<1>5. r = [d EXCEPT !.used = d.used \cup taken(last),
                    !.inodes[h].table = table,
                    !.inodes[h].indirect = ind,
                    !.disk = disk]
  BY DEF AllocateBlocks
<1> HIDE DEF r, disk, table, vector, stored, base, ind, taken
<1>6. r = [inodes |-> [d.inodes EXCEPT ![h] =
                         [f EXCEPT !.table = table, !.indirect = ind]],
           used |-> d.used \cup taken(last), disk |-> disk]
  BY <1>1, <1>5
<1>7. /\ r.used = d.used \cup taken(last) /\ r.disk = d.disk
      /\ r.inodes[h] = [f EXCEPT !.table = table, !.indirect = ind]
  BY <1>1, <1>4, <1>6
<1>8. r.inodes[h].table = table /\ r.inodes[h].indirect = 0
  BY <1>1, <1>3, <1>7 DEF InodeRecord
<1>9. taken(last) = Taken(d, last)
  BY DEF taken, Taken
<1> QED BY <1>7, <1>8, <1>9 DEF r, table

LEMMA DirectAllocationKeepsDisk ==
  ASSUME NEW d \in Drivers, NEW h \in Inode, NEW last \in Nat,
         NEW stack \in [Entry -> Content],
         last < TableSize, d.inodes[h].indirect = 0
  PROVE  AllocateBlocks(d, h, last, stack).disk = d.disk
<1>1. PICK r : r = AllocateBlocks(d, h, last, stack)
  OBVIOUS
<1>2. /\ r.used = d.used \cup Taken(d, last)
      /\ r.inodes[h].table = [v \in Slot |-> IF v <= last /\ HasFresh(d, v)
                                             THEN Fresh(d, v) ELSE d.inodes[h].table[v]]
      /\ r.inodes[h].indirect = 0
      /\ r.disk = d.disk
  BY <1>1, AllocateDirect
<1> QED BY <1>1, <1>2

-----------------------------------------------------------------------------
(* Ranges of bytes (dfs.c 1074-1077, 1128-1180).                           *)

\* Quotient and remainder by the size of a block.
LEMMA Quotient ==
  ASSUME NEW n \in Nat
  PROVE  /\ n \div B \in Nat /\ n % B \in Entry
         /\ n = B * (n \div B) + (n % B)
<1>1. B \in Nat /\ B > 0 /\ n \div B \in Int /\ n % B \in Entry
  BY BlockAssumption DEF Entry
<1>2. n = B * (n \div B) + (n % B)
  BY <1>1
<1>3. n \div B >= 0
  BY <1>1
<1> QED BY <1>1, <1>2, <1>3

LEMMA QuotientUnique ==
  ASSUME NEW q \in Int, NEW r \in Entry
  PROVE  (B * q + r) \div B = q /\ (B * q + r) % B = r
BY BlockAssumption DEF Entry

\* B times a sum or a difference.
LEMMA BlockSums ==
  ASSUME NEW p \in Int, NEW q \in Int
  PROVE  /\ B * p \in Int /\ B * q \in Int
         /\ B * (p + q) = B * p + B * q
         /\ B * (p - q) = B * p - B * q
         /\ B * (p + 1) = B * p + B
         /\ q * B = B * q
         /\ B * p < B * (q + 1) => p <= q
BY BlockAssumption

\* The first part, the whole blocks and the last part of a range that does not
\* lie inside one block meet: byte k of the range is at its own offset.
LEMMA PlaceOfByte ==
  ASSUME NEW start \in Nat, NEW num \in Nat, ~OneBlock(start, num),
         NEW k \in Bytes(num)
  PROVE  Place(start, num, k) = <<(start + k) \div B, (start + k) % B>>
<1> DEFINE s == StartingBytes(start)
           e == EndingBytes(start, num)
           first == start \div B
           next == NextBlock(start)
           m == MidBlocks(start, num)
           last == (start + num) \div B
           r == start % B
<1>1. /\ B \in Nat /\ B > 0 /\ k \in Nat /\ k < num
      /\ first \in Nat /\ r \in Nat /\ r < B /\ start = B * first + r
      /\ last \in Nat /\ e \in Nat /\ e < B /\ start + num = B * last + e
  BY BlockAssumption, Quotient DEF Bytes, Entry, EndingBytes
<1>2. B * first \in Int /\ B * last \in Int
  BY <1>1, BlockSums
<1>3. s = (IF r = 0 THEN 0 ELSE B - r) /\ s \in Nat /\ s < B
  <2>1. B - start = B * (0 - first) + (B - r) /\ B - start = B * (1 - first) + (0 - r)
    BY <1>1, <1>2, BlockSums
  <2>2. CASE r = 0
    <3>1. B - start = B * (1 - first) + 0 /\ 0 \in Entry /\ 1 - first \in Int
      BY <1>1, <2>1, <2>2 DEF Entry
    <3>2. (B - start) % B = 0
      BY <3>1, QuotientUnique
    <3> QED BY <1>1, <2>2, <3>2 DEF StartingBytes
  <2>3. CASE r # 0
    <3>1. B - r \in Entry /\ 0 - first \in Int
      BY <1>1, <2>3 DEF Entry
    <3>2. (B - start) % B = B - r
      BY <2>1, <3>1, QuotientUnique
    <3> QED BY <1>1, <2>3, <3>2 DEF StartingBytes
  <2> QED BY <2>2, <2>3
<1>4. next \in Nat /\ B * next = start + s /\ next = (IF s = 0 THEN first ELSE first + 1)
  BY <1>1, <1>2, <1>3, BlockSums DEF NextBlock
<1>5. s + e <= num
  BY <1>1, <1>3 DEF OneBlock
<1>6. m = last - next /\ m \in Int /\ m * B = num - s - e
  <2>1. num - s - e = B * (last - next) + 0
    <3> HIDE DEF s, e, last, next, first, r
    <3>1. B * (last - next) = B * last - B * next
      BY <1>1, <1>4, BlockSums
    <3> QED BY <1>1, <1>2, <1>3, <1>4, <3>1
  <2>2. m = (num - s - e) \div B
    BY DEF MidBlocks
  <2> HIDE DEF m, s, e, last, next
  <2>3. last - next \in Int /\ 0 \in Entry
    BY <1>1, <1>4 DEF Entry
  <2>4. m = last - next
    BY <2>1, <2>2, <2>3, QuotientUnique
  <2> QED BY <1>1, <1>3, <2>1, <2>3, <2>4, BlockSums
<1>7. \A b \in Int, o \in Entry :
        B * b + o = start + k => <<b, o>> = <<(start + k) \div B, (start + k) % B>>
  BY QuotientUnique
<1>8. Place(start, num, k) = IF k < s THEN <<first, B - s + k>>
                             ELSE IF k < s + m * B
                             THEN <<next + (k - s) \div B, (k - s) % B>>
                             ELSE <<next + m, k - s - m * B>>
  BY DEF Place
<1> HIDE DEF s, e, first, next, m, last, r
<1>9. CASE k < s
  <2>1. B - s + k \in Entry /\ B * first + (B - s + k) = start + k
    BY <1>1, <1>2, <1>3, <1>9 DEF Entry
  <2>2. first \in Int
    BY <1>1
  <2> QED BY <1>7, <1>8, <1>9, <2>1, <2>2
<1>10. CASE ~(k < s) /\ k < s + m * B
  <2>1. k - s \in Nat
    BY <1>1, <1>3, <1>10
  <2> DEFINE q == (k - s) \div B
             t == (k - s) % B
  <2>2. q \in Nat /\ t \in Entry /\ k - s = B * q + t
    BY <2>1, Quotient
  <2> HIDE DEF q, t
  <2>3. B * (next + q) + t = start + k
    BY <1>1, <1>3, <1>4, <2>2, BlockSums DEF Entry
  <2>4. next + q \in Int
    BY <1>4, <2>2
  <2> QED BY <1>7, <1>8, <1>10, <2>2, <2>3, <2>4 DEF q, t
<1>11. CASE ~(k < s) /\ ~(k < s + m * B)
  <2>1. k - s - m * B \in Entry
    BY <1>1, <1>3, <1>6, <1>11 DEF Entry
  <2>2. B * (next + m) + (k - s - m * B) = start + k
    BY <1>1, <1>3, <1>4, <1>6, BlockSums
  <2>3. next + m \in Int
    BY <1>4, <1>6
  <2> QED BY <1>7, <1>8, <1>11, <2>1, <2>2, <2>3
<1> QED BY <1>9, <1>10, <1>11

-----------------------------------------------------------------------------
(* What each function does to the driver.                                  *)

IdleInodes(d) == {i \in Inode : ~d.inodes[i].inuse}
NewInode(name) == [NoInode EXCEPT !.inuse = TRUE, !.name = name]

LEMMA FormattedOK == Formatted \in Drivers
BY BlockAssumption
   DEF Formatted, Drivers, InodeRecord, NoInode, Content, Meta, Block, Slot, Entry, Inode

\* A lookup answers a file in use whose name is equal, or that there is none.
LEMMA LookupAnswers ==
  ASSUME NEW d, NEW name
  PROVE  LET found == FilenameExists(d, name)
         IN  \/ found = DFS_FAIL /\ Found(d, name) = {}
             \/ found \in Found(d, name) /\ found \in Inode
<1>1. Found(d, name) \in SUBSET Nat /\ Found(d, name) \subseteq Inode
  BY BlockAssumption DEF Found, Inode
<1>2. Found(d, name) # {} => Lowest(Found(d, name)) \in Found(d, name)
  BY <1>1, LeastOf
<1> QED BY <1>1, <1>2 DEF FilenameExists

\* A creation takes an inode that is not in use, and empties it.
LEMMA CreateAnswers ==
  ASSUME NEW d \in Drivers, NEW name \in Names
  PROVE  LET a == InodeCreate(d, name)
         IN  /\ a.takes = InodeLock /\ a.keeps = {}
             /\ \/ a.ret = DFS_FAIL /\ a.dfs = d /\ IdleInodes(d) = {}
                \/ /\ a.ret \in Inode /\ ~d.inodes[a.ret].inuse
                   /\ a.dfs = [inodes |-> [d.inodes EXCEPT ![a.ret] = NewInode(name)],
                               used |-> d.used, disk |-> d.disk]
<1> DEFINE i == Lowest(IdleInodes(d))
           a == InodeCreate(d, name)
<1>1. IdleInodes(d) # {} => i \in Inode /\ ~d.inodes[i].inuse
  <2>1. IdleInodes(d) \in SUBSET Nat
    BY BlockAssumption DEF IdleInodes, Inode
  <2>2. IdleInodes(d) # {} => i \in IdleInodes(d)
    BY <2>1, LeastOf
  <2> QED BY <2>2 DEF IdleInodes
<1>2. d = [inodes |-> d.inodes, used |-> d.used, disk |-> d.disk]
  BY DEF Drivers
<1>3. a = IF IdleInodes(d) = {} THEN Answer(d, DFS_FAIL, InodeLock, {})
          ELSE Answer([d EXCEPT !.inodes[i] = NewInode(name)], i, InodeLock, {})
  BY DEF InodeCreate, IdleInodes, NewInode
<1> HIDE DEF a, i
<1>4. CASE IdleInodes(d) = {}
  BY <1>3, <1>4 DEF Answer, a
<1>5. CASE IdleInodes(d) # {}
  <2>1. [d EXCEPT !.inodes[i] = NewInode(name)]
          = [inodes |-> [d.inodes EXCEPT ![i] = NewInode(name)],
             used |-> d.used, disk |-> d.disk]
    BY <1>2
  <2>2. a = Answer([d EXCEPT !.inodes[i] = NewInode(name)], i, InodeLock, {})
    BY <1>3, <1>5
  <2>3. a.takes = InodeLock /\ a.keeps = {} /\ a.ret = i
        /\ a.dfs = [d EXCEPT !.inodes[i] = NewInode(name)]
    BY <2>2 DEF Answer
  <2> QED BY <1>1, <1>5, <2>1, <2>3 DEF a
<1> QED BY <1>4, <1>5

LEMMA NewInodeOK ==
  ASSUME NEW name \in Names
  PROVE  /\ NewInode(name) \in InodeRecord
         /\ NewInode(name).inuse /\ NewInode(name).name = name
         /\ NewInode(name).indirect = 0
         /\ \A v \in Slot : NewInode(name).table[v] = 0
<1>1. PICK t : t = [v \in Slot |-> 0]
  OBVIOUS
<1>2. NoInode = [inuse |-> FALSE, name |-> "", size |-> 0, table |-> t, indirect |-> 0]
  BY <1>1 DEF NoInode
<1>3. 0 \in Block /\ 0 \in Nat
  BY BlockAssumption DEF Block
<1>4. t \in [Slot -> Block] /\ \A v \in Slot : t[v] = 0
  BY <1>1, <1>3
<1>5. NoInode \in InodeRecord
  BY <1>2, <1>3, <1>4 DEF InodeRecord
<1>6. NewInode(name) \in InodeRecord
  BY <1>5 DEF InodeRecord, NewInode
<1>7. /\ NewInode(name).inuse /\ NewInode(name).name = name
      /\ NewInode(name).indirect = NoInode.indirect
      /\ NewInode(name).table = NoInode.table
  BY <1>5 DEF InodeRecord, NewInode
<1>8. NoInode.indirect = 0 /\ NoInode.table = t
  BY <1>2
<1> QED BY <1>4, <1>6, <1>7, <1>8

LEMMA CreateKeeps ==
  ASSUME NEW d \in Drivers, NEW name \in Names
  PROVE  InodeCreate(d, name).dfs \in Drivers
<1>1. PICK a : a = InodeCreate(d, name)
  OBVIOUS
<1>2. \/ a.dfs = d
      \/ /\ a.ret \in Inode
         /\ a.dfs = [inodes |-> [d.inodes EXCEPT ![a.ret] = NewInode(name)],
                     used |-> d.used, disk |-> d.disk]
  BY <1>1, CreateAnswers
<1>3. a.dfs \in Drivers
  BY <1>2, NewInodeOK DEF Drivers
<1> QED BY <1>1, <1>3

\* DfsFreeBlock is called for a number of entries, up to the first refusal.
LEMMA FreedBounds ==
  ASSUME NEW d, NEW list, NEW n \in Nat
  PROVE  FreedBefore(d, list, n) \in 0 .. n
<1> DEFINE bad == {i \in 0 .. n - 1 :
                     list[i] # 0 /\ (\/ list[i] \notin d.used
                                     \/ \E j \in 0 .. i - 1 : list[j] = list[i])}
<1>1. bad \in SUBSET Nat /\ \A i \in bad : i \in 0 .. n
  OBVIOUS
<1>2. FreedBefore(d, list, n) = IF bad = {} THEN n ELSE Lowest(bad)
  BY DEF FreedBefore
<1> HIDE DEF bad
<1>3. CASE bad = {}
  BY <1>2, <1>3
<1>4. CASE bad # {}
  <2>1. Lowest(bad) \in bad
    BY <1>1, <1>4, LeastOf
  <2> QED BY <1>1, <1>2, <1>4, <2>1
<1> QED BY <1>3, <1>4

\* It is not refused for distinct blocks in use.
LEMMA AllFreed ==
  ASSUME NEW d, NEW list, NEW n \in Nat,
         \A i \in 0 .. n - 1 : list[i] \in d.used,
         \A i, j \in 0 .. n - 1 : list[i] = list[j] => i = j
  PROVE  FreedBefore(d, list, n) = n
<1>1. \A i \in 0 .. n - 1 : \A j \in 0 .. i - 1 : list[j] # list[i]
  <2>1. \A i \in 0 .. n - 1 : \A j \in 0 .. i - 1 : j \in 0 .. n - 1 /\ j # i
    OBVIOUS
  <2> QED BY <2>1
<1>2. {i \in 0 .. n - 1 :
         list[i] # 0 /\ (\/ list[i] \notin d.used
                         \/ \E j \in 0 .. i - 1 : list[j] = list[i])} = {}
  BY <1>1
<1> QED BY <1>2 DEF FreedBefore

\* A driver whose inode h is replaced.
LEMMA ReplaceInode ==
  ASSUME NEW d \in Drivers, NEW h \in Inode, NEW f \in InodeRecord
  PROVE  /\ [d EXCEPT !.inodes[h] = f] \in Drivers
         /\ [d EXCEPT !.inodes[h] = f].inodes[h] = f
         /\ \A i \in Inode : i # h => [d EXCEPT !.inodes[h] = f].inodes[i] = d.inodes[i]
         /\ [d EXCEPT !.inodes[h] = f].used = d.used
         /\ [d EXCEPT !.inodes[h] = f].disk = d.disk
BY DEF Drivers

LEMMA NoInodeOK ==
  /\ NoInode \in InodeRecord /\ ~NoInode.inuse /\ NoInode.size = 0
  /\ NoInode.indirect = 0 /\ NoInode.name = ""
<1>1. PICK t : t = [v \in Slot |-> 0]
  OBVIOUS
<1>2. NoInode = [inuse |-> FALSE, name |-> "", size |-> 0, table |-> t, indirect |-> 0]
  BY <1>1 DEF NoInode
<1>3. 0 \in Block /\ 0 \in Nat
  BY BlockAssumption DEF Block
<1>4. t \in [Slot -> Block]
  BY <1>1, <1>3
<1> QED BY <1>2, <1>3, <1>4 DEF InodeRecord

LEMMA ClearedKeeps ==
  ASSUME NEW d \in Drivers, NEW h \in Inode
  PROVE  /\ Cleared(d, h) \in Drivers
         /\ Cleared(d, h).used = d.used /\ Cleared(d, h).disk = d.disk
         /\ \A i \in Inode : i # h => Cleared(d, h).inodes[i] = d.inodes[i]
         /\ ~Cleared(d, h).inodes[h].inuse
         /\ Cleared(d, h).inodes[h].indirect = 0
         /\ Cleared(d, h).inodes[h].table = d.inodes[h].table
<1>1. PICK f : f = [NoInode EXCEPT !.table = d.inodes[h].table]
  OBVIOUS
<1>2. d.inodes[h].table \in [Slot -> Block]
  BY DEF Drivers, InodeRecord
<1>3. /\ f \in InodeRecord /\ ~f.inuse /\ f.indirect = 0
      /\ f.table = d.inodes[h].table
  BY <1>1, <1>2, NoInodeOK DEF InodeRecord
<1>4. Cleared(d, h) = [d EXCEPT !.inodes[h] = f]
  BY <1>1 DEF Cleared
<1> QED BY <1>3, <1>4, ReplaceInode

\* The first step of a delete gives the blocks of the table back.
DirectBlocks(f) == LET empty == {v \in Slot : f.table[v] = 0}
                   IN IF empty = {} THEN TableSize ELSE Lowest(empty)
WithoutTable(d, h) ==
  LET f == d.inodes[h]
      n == FreedBefore(d, f.table, DirectBlocks(f))
  IN [d EXCEPT !.used = @ \ {f.table[v] : v \in 0 .. n - 1},
               !.inodes[h].table = Emptied(f, n)]

LEMMA DirectBlocksLemma ==
  ASSUME NEW f
  PROVE  /\ DirectBlocks(f) \in 0 .. TableSize
         /\ \A v \in 0 .. DirectBlocks(f) - 1 : v \in Slot /\ f.table[v] # 0
<1> DEFINE empty == {v \in Slot : f.table[v] = 0}
<1>1. TableSize \in Nat /\ Slot = 0 .. TableSize - 1
  BY BlockAssumption DEF Slot
<1>2. CASE empty = {}
  BY <1>1, <1>2 DEF DirectBlocks
<1>3. CASE empty # {}
  <2>1. PICK x : x = Lowest(empty)
    OBVIOUS
  <2>2. x \in empty /\ \A v \in empty : x <= v
    <3>1. empty \in SUBSET Nat
      BY <1>1
    <3> HIDE DEF empty
    <3> QED BY <1>3, <2>1, <3>1, LeastOf
  <2>3. DirectBlocks(f) = x
    BY <1>3, <2>1 DEF DirectBlocks
  <2> QED BY <1>1, <2>2, <2>3
<1> QED BY <1>2, <1>3

\* The table without its blocks.
LEMMA WithoutTableShape ==
  ASSUME NEW d \in Drivers, NEW h \in Inode
  PROVE  LET f == d.inodes[h]
             n == FreedBefore(d, f.table, DirectBlocks(f))
         IN  /\ WithoutTable(d, h) \in Drivers
             /\ WithoutTable(d, h).used = d.used \ {f.table[v] : v \in 0 .. n - 1}
             /\ WithoutTable(d, h).disk = d.disk
             /\ \A i \in Inode : i # h => WithoutTable(d, h).inodes[i] = d.inodes[i]
             /\ WithoutTable(d, h).inodes[h].inuse = f.inuse
             /\ WithoutTable(d, h).inodes[h].name = f.name
             /\ WithoutTable(d, h).inodes[h].size = f.size
             /\ WithoutTable(d, h).inodes[h].indirect = f.indirect
             /\ WithoutTable(d, h).inodes[h].table = Emptied(f, n)
<1> DEFINE f == d.inodes[h]
           r == WithoutTable(d, h)
<1>1. PICK n : n = FreedBefore(d, f.table, DirectBlocks(f))
  OBVIOUS
<1>2. PICK gone : gone = {f.table[v] : v \in 0 .. n - 1}
  OBVIOUS
<1>3. PICK table : table = Emptied(f, n)
  OBVIOUS
<1>4. f \in InodeRecord /\ d.inodes \in [Inode -> InodeRecord] /\ d.used \subseteq Block
      /\ d = [inodes |-> d.inodes, used |-> d.used, disk |-> d.disk]
  BY DEF Drivers
<1>5. table \in [Slot -> Block]
  <2>1. 0 \in Block
    BY BlockAssumption DEF Block
  <2> QED BY <1>3, <1>4, <2>1 DEF InodeRecord, Emptied
<1>6. r = [d EXCEPT !.used = @ \ gone, !.inodes[h].table = table]
  BY <1>1, <1>2, <1>3 DEF WithoutTable
<1>7. r = [inodes |-> [d.inodes EXCEPT ![h] = [f EXCEPT !.table = table]],
           used |-> d.used \ gone, disk |-> d.disk]
  <2> HIDE DEF r
  <2> QED BY <1>4, <1>6
<1>8. PICK g : g = [f EXCEPT !.table = table]
  OBVIOUS
<1>9. /\ g \in InodeRecord /\ g.inuse = f.inuse /\ g.name = f.name /\ g.size = f.size
      /\ g.indirect = f.indirect /\ g.table = table
  BY <1>4, <1>5, <1>8 DEF InodeRecord
<1> HIDE DEF r
<1>10. r.inodes[h] = g /\ \A i \in Inode : i # h => r.inodes[i] = d.inodes[i]
  BY <1>4, <1>7, <1>8
<1>11. r \in Drivers
  BY <1>4, <1>7, <1>8, <1>9 DEF Drivers
<1>12. r.used = d.used \ gone /\ r.disk = d.disk
  BY <1>7
<1> QED BY <1>1, <1>2, <1>3, <1>9, <1>10, <1>11, <1>12 DEF r

\* A delete that succeeds leaves an inode that is not in use; one that fails
\* leaves its name.  Blocks are only given back, and no other file changes.
LEMMA DeleteKeeps ==
  ASSUME NEW d \in Drivers, NEW h \in Inode
  PROVE  LET a == InodeDelete(d, h)
         IN  /\ a.dfs \in Drivers
             /\ a.dfs.used \subseteq d.used
             /\ \A i \in Inode : i # h => a.dfs.inodes[i] = d.inodes[i]
             /\ \/ /\ a.ret = DFS_FAIL
                   /\ a.dfs.inodes[h].inuse = d.inodes[h].inuse
                   /\ a.dfs.inodes[h].name = d.inodes[h].name
                   /\ a.dfs.inodes[h].size = d.inodes[h].size
                \/ a.ret = 1 /\ d.inodes[h].inuse /\ ~a.dfs.inodes[h].inuse
             /\ a.takes \in {InodeLock, Both} /\ a.keeps \in {{}, InodeLock, Both}
             /\ a.keeps \subseteq a.takes
<1> DEFINE f == d.inodes[h]
           empty  == {v \in Slot : f.table[v] = 0}
           direct == IF empty = {} THEN TableSize ELSE Lowest(empty)
           n      == FreedBefore(d, f.table, direct)
           d1     == [d EXCEPT !.used = @ \ {f.table[v] : v \in 0 .. n - 1},
                               !.inodes[h].table = Emptied(f, n)]
           vector == d.disk[f.indirect]
           m      == FreedBefore(d1, vector, B)
           d2     == [d1 EXCEPT !.used = @ \ ({vector[e] : e \in 0 .. m - 1} \ {0})]
           d3     == [d2 EXCEPT !.disk[f.indirect] = [e \in Entry |-> 0]]
           a      == InodeDelete(d, h)
<1>1. a = IF ~f.inuse THEN Answer(d, DFS_FAIL, InodeLock, {})
          ELSE IF n < direct THEN Answer(d1, DFS_FAIL, InodeLock, InodeLock)
          ELSE IF f.indirect = 0 THEN Answer(Cleared(d1, h), 1, InodeLock, {})
          ELSE IF f.indirect \notin d1.used THEN Answer(d1, DFS_FAIL, Both, Both)
          ELSE IF m < B THEN Answer(d2, DFS_FAIL, Both, InodeLock)
          ELSE IF f.indirect \notin d2.used THEN Answer(d2, DFS_FAIL, Both, Both)
          ELSE Answer(Cleared(d3, h), 1, Both, {})
  BY DEF InodeDelete
<1>2. d1 = WithoutTable(d, h)
  BY DEF WithoutTable, DirectBlocks
<1>3. /\ d1 \in Drivers /\ d1.used \subseteq d.used /\ d1.disk = d.disk
      /\ \A i \in Inode : i # h => d1.inodes[i] = d.inodes[i]
      /\ d1.inodes[h].inuse = f.inuse /\ d1.inodes[h].name = f.name
      /\ d1.inodes[h].size = f.size /\ d1.inodes[h].indirect = f.indirect
  <2> HIDE DEF d1
  <2> QED BY <1>2, WithoutTableShape
<1> HIDE DEF d1, n, direct, empty
<1>4. d2 \in Drivers /\ d2.used \subseteq d1.used /\ d2.inodes = d1.inodes
  BY <1>3 DEF Drivers
<1>5. d3 \in Drivers /\ d3.used = d2.used /\ d3.inodes = d2.inodes
  <2> DEFINE zero == [e \in Entry |-> 0]
  <2>1. zero \in [Entry -> Content]
    BY BlockAssumption DEF Content
  <2> HIDE DEF d2, zero
  <2>2. /\ [d2 EXCEPT !.disk[f.indirect] = zero] \in Drivers
        /\ [d2 EXCEPT !.disk[f.indirect] = zero].used = d2.used
        /\ [d2 EXCEPT !.disk[f.indirect] = zero].inodes = d2.inodes
    BY <1>4, <2>1 DEF Drivers
  <2> QED BY <2>2 DEF zero
<1> HIDE DEF a, d2, d3, m, vector
<1>7. \/ a.dfs = d /\ a.ret = DFS_FAIL
      \/ a.dfs = d1 /\ a.ret = DFS_FAIL
      \/ a.dfs = d2 /\ a.ret = DFS_FAIL
      \/ a.dfs = Cleared(d1, h) /\ a.ret = 1 /\ f.inuse
      \/ a.dfs = Cleared(d3, h) /\ a.ret = 1 /\ f.inuse
  BY <1>1 DEF Answer
<1>8. /\ a.takes \in {InodeLock, Both} /\ a.keeps \in {{}, InodeLock, Both}
      /\ a.keeps \subseteq a.takes
  BY <1>1 DEF Answer, InodeLock, Both
<1>9. /\ a.dfs \in Drivers
      /\ a.dfs.used \subseteq d.used
      /\ \A i \in Inode : i # h => a.dfs.inodes[i] = d.inodes[i]
      /\ \/ /\ a.ret = DFS_FAIL
            /\ a.dfs.inodes[h].inuse = f.inuse
            /\ a.dfs.inodes[h].name = f.name
            /\ a.dfs.inodes[h].size = f.size
         \/ a.ret = 1 /\ f.inuse /\ ~a.dfs.inodes[h].inuse
  <2>1. CASE a.dfs = d /\ a.ret = DFS_FAIL
    BY <2>1
  <2>2. CASE a.dfs = d1 /\ a.ret = DFS_FAIL
    BY <1>3, <2>2
  <2>3. CASE a.dfs = d2 /\ a.ret = DFS_FAIL
    BY <1>3, <1>4, <2>3
  <2>4. CASE a.dfs = Cleared(d1, h) /\ a.ret = 1 /\ f.inuse
    <3>1. PICK x : x = Cleared(d1, h)
      OBVIOUS
    <3>2. /\ x \in Drivers /\ x.used = d1.used /\ ~x.inodes[h].inuse
          /\ \A i \in Inode : i # h => x.inodes[i] = d1.inodes[i]
      BY <1>3, <3>1, ClearedKeeps
    <3>3. \A i \in Inode : i # h => x.inodes[i] = d.inodes[i]
      BY <1>3, <3>2
    <3> QED BY <1>3, <2>4, <3>1, <3>2, <3>3
  <2>5. CASE a.dfs = Cleared(d3, h) /\ a.ret = 1 /\ f.inuse
    <3>1. PICK x : x = Cleared(d3, h)
      OBVIOUS
    <3>2. /\ x \in Drivers /\ x.used = d3.used /\ ~x.inodes[h].inuse
          /\ \A i \in Inode : i # h => x.inodes[i] = d3.inodes[i]
      BY <1>5, <3>1, ClearedKeeps
    <3>3. \A i \in Inode : i # h => x.inodes[i] = d.inodes[i]
      BY <1>3, <1>4, <1>5, <3>2
    <3>4. x.used \subseteq d.used
      BY <1>3, <1>4, <1>5, <3>2
    <3> QED BY <2>5, <3>1, <3>2, <3>3, <3>4
  <2> QED BY <1>7, <2>1, <2>2, <2>3, <2>4, <2>5
<1> QED BY <1>8, <1>9 DEF a

-----------------------------------------------------------------------------
(* No block serves two purposes, while files fit their direct blocks.      *)

\* The metadata is in use; the table of a file names blocks in use that hold no
\* metadata, each of them in one place of one file.
OwnedBlocks(d) ==
  /\ Meta \subseteq d.used
  /\ \A h \in Inode, v \in Slot :
       d.inodes[h].table[v] # 0 => d.inodes[h].table[v] \in d.used \ Meta
  /\ \A h, i \in Inode, v, w \in Slot :
       /\ d.inodes[h].table[v] # 0
       /\ d.inodes[h].table[v] = d.inodes[i].table[w]
       => h = i /\ v = w

DirectFiles(d) == \A h \in Inode : d.inodes[h].indirect = 0

LEMMA AllocateOwned ==
  ASSUME NEW d \in Drivers, NEW h \in Inode, NEW last \in Nat,
         NEW stack \in [Entry -> Content],
         last < TableSize, OwnedBlocks(d), DirectFiles(d)
  PROVE  /\ OwnedBlocks(AllocateBlocks(d, h, last, stack))
         /\ DirectFiles(AllocateBlocks(d, h, last, stack))
<1> DEFINE f == d.inodes[h]
<1>1. PICK r : r = AllocateBlocks(d, h, last, stack)
  OBVIOUS
<1>2. /\ r \in Drivers /\ \A i \in Inode : i # h => r.inodes[i] = d.inodes[i]
  BY <1>1, AllocateKeeps
<1>3. /\ r.used = d.used \cup Taken(d, last)
      /\ r.inodes[h].table = [v \in Slot |-> IF v <= last /\ HasFresh(d, v)
                                             THEN Fresh(d, v) ELSE f.table[v]]
      /\ r.inodes[h].indirect = 0
  BY <1>1, AllocateDirect DEF DirectFiles
<1>4. \A v \in Slot : v \in Nat /\ (v <= last => v \in 0 .. last)
  BY BlockAssumption DEF Slot
<1>5. \A v \in Slot : v <= last /\ HasFresh(d, v) =>
        /\ r.inodes[h].table[v] = Fresh(d, v)
        /\ Fresh(d, v) \in Taken(d, last)
        /\ Fresh(d, v) \in Free(d)
  BY <1>3, <1>4, FreshIsFree DEF Taken
<1>6. \A v \in Slot : ~(v <= last /\ HasFresh(d, v)) =>
        r.inodes[h].table[v] = f.table[v]
  BY <1>3
<1>7. \A b \in Free(d) : b \notin d.used /\ b \notin Meta
  BY DEF Free, OwnedBlocks
<1>8. Meta \subseteq r.used
  BY <1>3 DEF OwnedBlocks
<1>9. ASSUME NEW i \in Inode, NEW v \in Slot, r.inodes[i].table[v] # 0
      PROVE  r.inodes[i].table[v] \in r.used \ Meta
  <2>1. d.inodes[i].table[v] # 0 => d.inodes[i].table[v] \in d.used \ Meta
    BY DEF OwnedBlocks
  <2> QED BY <1>2, <1>3, <1>5, <1>6, <1>7, <1>9, <2>1
<1>10. ASSUME NEW i \in Inode, NEW j \in Inode, NEW v \in Slot, NEW w \in Slot,
              r.inodes[i].table[v] # 0, r.inodes[i].table[v] = r.inodes[j].table[w]
       PROVE  i = j /\ v = w
  <2> DEFINE New(k, u) == k = h /\ u <= last /\ HasFresh(d, u)
  <2>1. \A k \in Inode : \A u \in Slot : ~New(k, u) =>
          r.inodes[k].table[u] = d.inodes[k].table[u]
    BY <1>2, <1>6
  <2>2. \A k \in Inode : \A u \in Slot : New(k, u) =>
          r.inodes[k].table[u] = Fresh(d, u) /\ r.inodes[k].table[u] \notin d.used
    BY <1>5, <1>7
  <2>3. \A k \in Inode : \A u \in Slot :
          ~New(k, u) /\ r.inodes[k].table[u] # 0 => r.inodes[k].table[u] \in d.used
    BY <2>1 DEF OwnedBlocks
  <2>4. CASE New(i, v) /\ New(j, w)
    <3>1. Fresh(d, v) = Fresh(d, w)
      BY <1>10, <2>2, <2>4
    <3> QED BY <1>4, <2>4, <3>1, FreshDistinct
  <2>5. CASE ~New(i, v) /\ ~New(j, w)
    <3>1. d.inodes[i].table[v] # 0 /\ d.inodes[i].table[v] = d.inodes[j].table[w]
      BY <1>10, <2>1, <2>5
    <3> QED BY <3>1 DEF OwnedBlocks
  <2> HIDE DEF New
  <2>6. New(i, v) <=> New(j, w)
    BY <1>10, <2>2, <2>3
  <2> QED BY <2>4, <2>5, <2>6
<1>11. OwnedBlocks(r)
  BY <1>8, <1>9, <1>10 DEF OwnedBlocks
<1>12. DirectFiles(r)
  BY <1>2, <1>3 DEF DirectFiles
<1> QED BY <1>1, <1>11, <1>12

\* A new file has no block, so the others keep theirs.
LEMMA CreateOwned ==
  ASSUME NEW d \in Drivers, NEW name \in Names, OwnedBlocks(d), DirectFiles(d)
  PROVE  /\ OwnedBlocks(InodeCreate(d, name).dfs)
         /\ DirectFiles(InodeCreate(d, name).dfs)
<1>1. PICK a : a = InodeCreate(d, name)
  OBVIOUS
<1>2. \/ a.dfs = d
      \/ /\ a.ret \in Inode
         /\ a.dfs = [inodes |-> [d.inodes EXCEPT ![a.ret] = NewInode(name)],
                     used |-> d.used, disk |-> d.disk]
  BY <1>1, CreateAnswers
<1>3. ASSUME NEW i \in Inode, NEW r,
             r = [inodes |-> [d.inodes EXCEPT ![i] = NewInode(name)],
                  used |-> d.used, disk |-> d.disk]
      PROVE  OwnedBlocks(r) /\ DirectFiles(r)
  <2>1. d.inodes \in [Inode -> InodeRecord]
    BY DEF Drivers
  <2>2. /\ r.used = d.used /\ r.inodes[i] = NewInode(name)
        /\ \A j \in Inode : j # i => r.inodes[j] = d.inodes[j]
    BY <1>3, <2>1
  <2>3. /\ r.inodes[i].indirect = 0
        /\ \A v \in Slot : r.inodes[i].table[v] = 0
    BY <2>2, NewInodeOK
  <2>4. \A j \in Inode, v \in Slot : r.inodes[j].table[v] # 0 =>
          j # i /\ r.inodes[j].table[v] = d.inodes[j].table[v]
    BY <2>2, <2>3
  <2>5. /\ Meta \subseteq r.used
        /\ \A j \in Inode, v \in Slot : r.inodes[j].table[v] # 0 =>
             r.inodes[j].table[v] \in r.used \ Meta
    BY <2>2, <2>4 DEF OwnedBlocks
  <2>6. \A j, k \in Inode, v, w \in Slot :
          /\ r.inodes[j].table[v] # 0
          /\ r.inodes[j].table[v] = r.inodes[k].table[w]
          => j = k /\ v = w
    BY <2>4 DEF OwnedBlocks
  <2>7. DirectFiles(r)
    BY <2>2, <2>3 DEF DirectFiles
  <2> QED BY <2>5, <2>6, <2>7 DEF OwnedBlocks
<1> QED BY <1>1, <1>2, <1>3

\* A delete meets no block that is not in use, so it goes through, and it takes
\* none from another file.
LEMMA DeleteOwned ==
  ASSUME NEW d \in Drivers, NEW h \in Inode, OwnedBlocks(d), DirectFiles(d)
  PROVE  /\ OwnedBlocks(InodeDelete(d, h).dfs)
         /\ DirectFiles(InodeDelete(d, h).dfs)
<1> DEFINE f == d.inodes[h]
           direct == DirectBlocks(f)
           n == FreedBefore(d, f.table, direct)
           gone == {f.table[v] : v \in 0 .. n - 1}
<1>1. /\ direct \in Nat
      /\ \A v \in 0 .. direct - 1 : v \in Slot /\ f.table[v] # 0
  BY DirectBlocksLemma, BlockAssumption
<1>2. n = direct
  <2>1. \A i \in 0 .. direct - 1 : f.table[i] \in d.used
    BY <1>1 DEF OwnedBlocks
  <2>2. \A i, j \in 0 .. direct - 1 : f.table[i] = f.table[j] => i = j
    BY <1>1 DEF OwnedBlocks
  <2> HIDE DEF direct
  <2> QED BY <1>1, <2>1, <2>2, AllFreed
<1>3. PICK d1 : d1 = WithoutTable(d, h)
  OBVIOUS
<1>4. /\ d1 \in Drivers /\ d1.used = d.used \ gone
      /\ \A i \in Inode : i # h => d1.inodes[i] = d.inodes[i]
      /\ d1.inodes[h].table = Emptied(f, n) /\ d1.inodes[h].indirect = f.indirect
  BY <1>3, WithoutTableShape
<1>5. InodeDelete(d, h).dfs = d \/ InodeDelete(d, h).dfs = Cleared(d1, h)
  <2>1. InodeDelete(d, h) =
          IF ~f.inuse THEN Answer(d, DFS_FAIL, InodeLock, {})
          ELSE Answer(Cleared(WithoutTable(d, h), h), 1, InodeLock, {})
    <3>1. f.indirect = 0
      BY DEF DirectFiles
    <3>2. ~(n < direct)
      BY <1>1, <1>2
    <3> QED BY <3>1, <3>2 DEF InodeDelete, WithoutTable, DirectBlocks
  <2> QED BY <1>3, <2>1 DEF Answer
<1> HIDE DEF n, direct, gone
<1>6. PICK x : x = Cleared(d1, h)
  OBVIOUS
<1>7. /\ x.used = d.used \ gone
      /\ \A i \in Inode : i # h => x.inodes[i] = d.inodes[i]
      /\ x.inodes[h].table = Emptied(f, n) /\ x.inodes[h].indirect = 0
  BY <1>4, <1>6, ClearedKeeps
<1>8. \A b \in gone : \E v \in 0 .. n - 1 : v \in Slot /\ b = f.table[v] /\ b # 0
  BY <1>1, <1>2 DEF gone
<1>9. \A i \in Inode : \A v \in Slot : x.inodes[i].table[v] # 0 =>
        /\ x.inodes[i].table[v] = d.inodes[i].table[v]
        /\ i = h => v \notin 0 .. n - 1
  <2>1. \A v \in Slot : v < n <=> v \in 0 .. n - 1
    BY <1>1, <1>2, BlockAssumption DEF Slot
  <2> QED BY <1>7, <2>1 DEF Emptied
<1>10. \A i \in Inode : \A v \in Slot :
         x.inodes[i].table[v] # 0 => x.inodes[i].table[v] \in x.used \ Meta
  <2>1. \A i \in Inode : \A v \in Slot :
          x.inodes[i].table[v] # 0 => d.inodes[i].table[v] \notin gone
    BY <1>8, <1>9 DEF OwnedBlocks
  <2> QED BY <1>7, <1>9, <2>1 DEF OwnedBlocks
<1>11. Meta \subseteq x.used
  <2>1. \A b \in gone : b \notin Meta
    BY <1>8 DEF OwnedBlocks
  <2> QED BY <1>7, <2>1 DEF OwnedBlocks
<1>12. \A i, j \in Inode, v, w \in Slot :
         x.inodes[i].table[v] # 0 /\ x.inodes[i].table[v] = x.inodes[j].table[w]
         => i = j /\ v = w
  BY <1>9 DEF OwnedBlocks
<1>13. OwnedBlocks(x)
  BY <1>10, <1>11, <1>12 DEF OwnedBlocks
<1>14. DirectFiles(x)
  BY <1>7 DEF DirectFiles
<1> QED BY <1>5, <1>6, <1>13, <1>14

-----------------------------------------------------------------------------
(* Writes and reads.                                                       *)

LEMMA LongerKeeps ==
  ASSUME NEW d \in Drivers, NEW h \in Inode, NEW end \in Nat
  PROVE  /\ Longer(d, h, end) \in Drivers
         /\ Longer(d, h, end).used = d.used /\ Longer(d, h, end).disk = d.disk
         /\ \A i \in Inode :
              /\ Longer(d, h, end).inodes[i].inuse = d.inodes[i].inuse
              /\ Longer(d, h, end).inodes[i].name = d.inodes[i].name
              /\ Longer(d, h, end).inodes[i].table = d.inodes[i].table
              /\ Longer(d, h, end).inodes[i].indirect = d.inodes[i].indirect
<1> DEFINE f == d.inodes[h]
<1>1. f \in InodeRecord /\ d.inodes \in [Inode -> InodeRecord]
  BY DEF Drivers
<1>2. PICK size : size = IF end > f.size THEN end ELSE f.size
  OBVIOUS
<1>3. PICK g : g = [f EXCEPT !.size = size]
  OBVIOUS
<1>4. /\ g \in InodeRecord /\ g.inuse = f.inuse /\ g.name = f.name
      /\ g.table = f.table /\ g.indirect = f.indirect
  BY <1>1, <1>2, <1>3 DEF InodeRecord
<1>5. Longer(d, h, end) = [d EXCEPT !.inodes[h] = g]
  BY <1>1, <1>2, <1>3 DEF Longer, Drivers
<1>6. PICK x : x = [d EXCEPT !.inodes[h] = g]
  OBVIOUS
<1>7. /\ x \in Drivers /\ x.inodes[h] = g /\ x.used = d.used /\ x.disk = d.disk
      /\ \A i \in Inode : i # h => x.inodes[i] = d.inodes[i]
  BY <1>4, <1>6, ReplaceInode
<1> QED BY <1>4, <1>5, <1>6, <1>7

\* The disk after the bytes of a range are written.
Stored(d, at, value) ==
  [d EXCEPT !.disk = [b \in Block |-> [o \in Entry |->
                        IF <<b, o>> \in at THEN value ELSE d.disk[b][o]]]]

LEMMA StoredKeeps ==
  ASSUME NEW d \in Drivers, NEW at, NEW value \in Content
  PROVE  /\ Stored(d, at, value) \in Drivers
         /\ Stored(d, at, value).used = d.used
         /\ Stored(d, at, value).inodes = d.inodes
         /\ \A b \in Block, o \in Entry :
              Stored(d, at, value).disk[b][o]
                = IF <<b, o>> \in at THEN value ELSE d.disk[b][o]
<1> DEFINE disk == [b \in Block |-> [o \in Entry |->
                      IF <<b, o>> \in at THEN value ELSE d.disk[b][o]]]
<1>1. disk \in [Block -> [Entry -> Content]]
  BY DEF Drivers
<1>2. \A b \in Block, o \in Entry :
        disk[b][o] = IF <<b, o>> \in at THEN value ELSE d.disk[b][o]
  OBVIOUS
<1>3. Stored(d, at, value) = [d EXCEPT !.disk = disk]
  BY DEF Stored
<1> HIDE DEF disk
<1>4. /\ [d EXCEPT !.disk = disk] \in Drivers
      /\ [d EXCEPT !.disk = disk].used = d.used
      /\ [d EXCEPT !.disk = disk].inodes = d.inodes
      /\ [d EXCEPT !.disk = disk].disk = disk
  BY <1>1 DEF Drivers
<1> QED BY <1>2, <1>3, <1>4

\* A driver with the same blocks in the same files.
LEMMA SameBlocks ==
  ASSUME NEW d, NEW r, r.used = d.used,
         \A i \in Inode : /\ r.inodes[i].table = d.inodes[i].table
                          /\ r.inodes[i].indirect = d.inodes[i].indirect
  PROVE  /\ OwnedBlocks(d) => OwnedBlocks(r)
         /\ DirectFiles(d) => DirectFiles(r)
<1>1. ASSUME OwnedBlocks(d) PROVE OwnedBlocks(r)
  BY <1>1 DEF OwnedBlocks
<1>2. ASSUME DirectFiles(d) PROVE DirectFiles(r)
  BY <1>2 DEF DirectFiles
<1> QED BY <1>1, <1>2

\* A write allocates, stores what it can and, when it gets to its end and lies
\* in more than one block, makes the file longer.
Reached(d, start, num) ==
  {Place(start, num, k) :
     k \in {j \in Bytes(num) :
              \A b \in Refused(d, start, num) : Place(start, num, j)[1] < b}}

LEMMA WriteAnswers ==
  ASSUME NEW d, NEW h, NEW start, NEW num, NEW value, NEW stack
  PROVE  LET a  == WriteBytes(d, h, start, num, value, stack)
             d1 == AllocateBlocks(d, h, (start + num) \div B, stack)
             d2 == Stored(d1, Reached(d1, start, num), value)
             takes == IF num = 0 THEN InodeLock ELSE Both
         IN  a = IF Refused(d1, start, num) # {} THEN Answer(d2, DFS_FAIL, takes, Both)
                 ELSE IF OneBlock(start, num) THEN Answer(d2, num, takes, InodeLock)
                 ELSE Answer(Longer(d2, h, start + num), num, takes, {})
BY DEF WriteBytes, Stored, Reached

\* A write keeps the types, changes the content of one file only, and leaves
\* every name as it is.
LEMMA WriteKeeps ==
  ASSUME NEW d \in Drivers, NEW h \in Inode, NEW start \in Nat, NEW num \in Nat,
         NEW value \in Content, NEW stack \in [Entry -> Content]
  PROVE  LET a == WriteBytes(d, h, start, num, value, stack)
         IN  /\ a.dfs \in Drivers
             /\ \A i \in Inode : /\ a.dfs.inodes[i].inuse = d.inodes[i].inuse
                                 /\ a.dfs.inodes[i].name = d.inodes[i].name
             /\ a.ret \in {DFS_FAIL, num}
             /\ a.takes \in {InodeLock, Both} /\ a.keeps \in {{}, InodeLock, Both}
             /\ (/\ (start + num) \div B < TableSize
                 /\ OwnedBlocks(d) /\ DirectFiles(d))
                => OwnedBlocks(a.dfs) /\ DirectFiles(a.dfs)
<1> DEFINE last == (start + num) \div B
<1>1. PICK a : a = WriteBytes(d, h, start, num, value, stack)
  OBVIOUS
<1>2. PICK d1 : d1 = AllocateBlocks(d, h, last, stack)
  OBVIOUS
<1>3. last \in Nat /\ start + num \in Nat
  BY Quotient
<1>4. /\ d1 \in Drivers
      /\ \A i \in Inode : /\ d1.inodes[i].inuse = d.inodes[i].inuse
                          /\ d1.inodes[i].name = d.inodes[i].name
  <2> HIDE DEF last
  <2>1. /\ AllocateBlocks(d, h, last, stack) \in Drivers
        /\ \A i \in Inode : i # h =>
             AllocateBlocks(d, h, last, stack).inodes[i] = d.inodes[i]
        /\ AllocateBlocks(d, h, last, stack).inodes[h].inuse = d.inodes[h].inuse
        /\ AllocateBlocks(d, h, last, stack).inodes[h].name = d.inodes[h].name
    BY <1>3, AllocateKeeps
  <2>2. /\ d1 \in Drivers /\ \A i \in Inode : i # h => d1.inodes[i] = d.inodes[i]
        /\ d1.inodes[h].inuse = d.inodes[h].inuse
        /\ d1.inodes[h].name = d.inodes[h].name
    BY <1>2, <2>1
  <2> QED BY <2>2
<1>5. last < TableSize /\ OwnedBlocks(d) /\ DirectFiles(d)
      => OwnedBlocks(d1) /\ DirectFiles(d1)
  <2> HIDE DEF last
  <2> QED BY <1>2, <1>3, AllocateOwned
<1>6. PICK d2 : d2 = Stored(d1, Reached(d1, start, num), value)
  OBVIOUS
<1>7. d2 \in Drivers /\ d2.used = d1.used /\ d2.inodes = d1.inodes
  BY <1>4, <1>6, StoredKeeps
<1>8. PICK d3 : d3 = Longer(d2, h, start + num)
  OBVIOUS
<1>9. /\ d3 \in Drivers /\ d3.used = d2.used
      /\ \A i \in Inode : /\ d3.inodes[i].inuse = d2.inodes[i].inuse
                          /\ d3.inodes[i].name = d2.inodes[i].name
                          /\ d3.inodes[i].table = d2.inodes[i].table
                          /\ d3.inodes[i].indirect = d2.inodes[i].indirect
  <2>1. PICK end \in Nat : end = start + num
    BY <1>3
  <2>2. d3 = Longer(d2, h, end)
    BY <1>8, <2>1
  <2>3. /\ d3 \in Drivers /\ d3.used = d2.used
    BY <1>7, <2>2, LongerKeeps
  <2>4. \A i \in Inode : /\ d3.inodes[i].inuse = d2.inodes[i].inuse
                          /\ d3.inodes[i].name = d2.inodes[i].name
                          /\ d3.inodes[i].table = d2.inodes[i].table
                          /\ d3.inodes[i].indirect = d2.inodes[i].indirect
    BY <1>7, <2>2, LongerKeeps
  <2> QED BY <2>3, <2>4
<1>10. LET takes == IF num = 0 THEN InodeLock ELSE Both
       IN  a = IF Refused(d1, start, num) # {} THEN Answer(d2, DFS_FAIL, takes, Both)
               ELSE IF OneBlock(start, num) THEN Answer(d2, num, takes, InodeLock)
               ELSE Answer(d3, num, takes, {})
  BY <1>1, <1>2, <1>6, <1>8, WriteAnswers
<1>11. /\ a.dfs \in {d2, d3} /\ a.ret \in {DFS_FAIL, num}
       /\ a.takes \in {InodeLock, Both} /\ a.keeps \in {{}, InodeLock, Both}
  BY <1>10 DEF Answer
<1>12. a.dfs \in Drivers /\ \A i \in Inode : /\ a.dfs.inodes[i].inuse = d.inodes[i].inuse
                                             /\ a.dfs.inodes[i].name = d.inodes[i].name
  BY <1>4, <1>7, <1>9, <1>11
<1>13. ASSUME last < TableSize, OwnedBlocks(d), DirectFiles(d)
       PROVE  OwnedBlocks(a.dfs) /\ DirectFiles(a.dfs)
  <2>1. OwnedBlocks(d2) /\ DirectFiles(d2)
    BY <1>5, <1>7, <1>13, SameBlocks
  <2>2. OwnedBlocks(d3) /\ DirectFiles(d3)
    BY <1>9, <2>1, SameBlocks
  <2> QED BY <1>11, <2>1, <2>2
<1> QED BY <1>1, <1>11, <1>12, <1>13

\* A read may make the file longer, and changes nothing else.
LEMMA ReadKeeps ==
  ASSUME NEW d \in Drivers, NEW h \in Inode, NEW start \in Nat, NEW num \in Nat
  PROVE  LET a == ReadBytes(d, h, start, num)
         IN  /\ a.dfs \in Drivers
             /\ \A i \in Inode : /\ a.dfs.inodes[i].inuse = d.inodes[i].inuse
                                 /\ a.dfs.inodes[i].name = d.inodes[i].name
             /\ a.ret \in {DFS_FAIL, num}
             /\ a.takes \in {InodeLock, Both} /\ a.keeps \in {{}, InodeLock, Both}
             /\ OwnedBlocks(d) => OwnedBlocks(a.dfs)
             /\ DirectFiles(d) => DirectFiles(a.dfs)
<1>1. PICK a : a = ReadBytes(d, h, start, num)
  OBVIOUS
<1>2. PICK d3 : d3 = Longer(d, h, start + num)
  OBVIOUS
<1>3. /\ d3 \in Drivers /\ d3.used = d.used
      /\ \A i \in Inode : /\ d3.inodes[i].inuse = d.inodes[i].inuse
                          /\ d3.inodes[i].name = d.inodes[i].name
                          /\ d3.inodes[i].table = d.inodes[i].table
                          /\ d3.inodes[i].indirect = d.inodes[i].indirect
  <2>1. start + num \in Nat
    OBVIOUS
  <2> QED BY <1>2, <2>1, LongerKeeps
<1>4. /\ a.dfs \in {d, d3} /\ a.ret \in {DFS_FAIL, num}
      /\ a.takes \in {InodeLock, Both} /\ a.keeps \in {{}, InodeLock, Both}
  <2> DEFINE missing == {v \in 0 .. (start + num) \div B : Translate(d, h, v) = 0}
             direct  == missing # {} /\ Lowest(missing) < TableSize
             takes   == IF num = 0 \/ direct THEN InodeLock ELSE Both
  <2>1. a = IF missing # {} THEN Answer(d, DFS_FAIL, takes, InodeLock)
            ELSE IF Refused(d, start, num) # {} THEN Answer(d, DFS_FAIL, takes, Both)
            ELSE IF OneBlock(start, num) THEN Answer(d, num, takes, InodeLock)
            ELSE Answer(d3, num, takes, {})
    BY <1>1, <1>2 DEF ReadBytes
  <2>2. takes \in {InodeLock, Both}
    OBVIOUS
  <2> HIDE DEF takes, missing
  <2> QED BY <2>1, <2>2 DEF Answer
<1>5. a.dfs \in Drivers /\ \A i \in Inode : /\ a.dfs.inodes[i].inuse = d.inodes[i].inuse
                                            /\ a.dfs.inodes[i].name = d.inodes[i].name
  BY <1>3, <1>4
<1>6. /\ OwnedBlocks(d) => OwnedBlocks(d3)
      /\ DirectFiles(d) => DirectFiles(d3)
  BY <1>3, SameBlocks
<1> QED BY <1>1, <1>4, <1>5, <1>6

\* Every byte of a range is in some cell of some block: a range inside one block
\* is shorter than a block.
LEMMA PlaceIsCell ==
  ASSUME NEW start \in Nat, NEW num \in Nat, NEW k \in Bytes(num)
  PROVE  Place(start, num, k) \in Nat \X Entry
<1>1. CASE ~OneBlock(start, num)
  <2>1. start + k \in Nat
    BY DEF Bytes
  <2>2. (start + k) \div B \in Nat /\ (start + k) % B \in Entry
    BY <2>1, Quotient
  <2> QED BY <1>1, <2>2, PlaceOfByte
<1>2. CASE OneBlock(start, num)
  <2> DEFINE s == StartingBytes(start)
             e == EndingBytes(start, num)
             first == start \div B
             last == (start + num) \div B
             r == start % B
  <2>1. /\ B \in Nat /\ B > 0
        /\ first \in Nat /\ r \in Nat /\ r < B /\ start = B * first + r
        /\ last \in Nat /\ e \in Nat /\ e < B /\ start + num = B * last + e
    BY BlockAssumption, Quotient DEF Entry, EndingBytes
  <2>2. s <= B - r
    <3>1. B - start = B * (0 - first) + (B - r) /\ B - start = B * (1 - first) + (0 - r)
      BY <2>1, BlockSums
    <3>2. CASE r = 0
      <4>1. s \in Nat /\ s < B
        BY <2>1 DEF StartingBytes
      <4> QED BY <2>1, <3>2, <4>1
    <3>3. CASE r # 0
      <4>1. B - r \in Entry /\ 0 - first \in Int
        BY <2>1, <3>3 DEF Entry
      <4>2. (B - start) % B = B - r
        BY <3>1, <4>1, QuotientUnique
      <4> QED BY <2>1, <4>2 DEF StartingBytes
    <3> QED BY <3>2, <3>3
  <2>3. s \in Nat /\ s + e > num
    BY <1>2, <2>1 DEF OneBlock, StartingBytes
  <2> HIDE DEF s, e, first, last, r
  <2>4. B * last \in Int /\ B * first \in Int
    BY <2>1, BlockSums
  <2>5. B * last < B * (first + 1)
    <3>1. B * (first + 1) = B * first + B
      BY <2>1, BlockSums
    <3> QED BY <2>1, <2>2, <2>3, <2>4, <3>1
  <2>6. last <= first
    BY <2>1, <2>5, BlockSums
  <2>7. B * last <= B * first
    <3>1. CASE last = first
      BY <2>4, <3>1
    <3>2. CASE last < first
      <4>1. last + 1 <= first /\ first - last - 1 \in Nat
        BY <2>1, <3>2
      <4>2. B * (first - last) = B * first - B * last /\ B * (first - last) >= 0
        BY <2>1, <4>1, BlockSums
      <4> QED BY <2>4, <4>2
    <3> QED BY <2>1, <2>6, <3>1, <3>2
  <2>8. num < B
    BY <2>1, <2>4, <2>7
  <2>9. B - num + k \in Entry
    BY <2>1, <2>8 DEF Bytes, Entry
  <2>10. Place(start, num, k) = <<first, B - num + k>>
    BY <1>2 DEF Place, first
  <2> QED BY <2>1, <2>9, <2>10
<1> QED BY <1>1, <1>2

\* When no block of a range is refused, all of its blocks are in use: the blocks
\* that are not would have a lowest one.
LEMMA NoneRefused ==
  ASSUME NEW d \in Drivers, NEW start \in Nat, NEW num \in Nat,
         Refused(d, start, num) = {}, NEW k \in Bytes(num)
  PROVE  Place(start, num, k) \in d.used \X Entry
<1> DEFINE S == Touched(start, num) \ d.used
<1>1. S \in SUBSET Nat
  <2>1. \A j \in Bytes(num) : Place(start, num, j)[1] \in Nat
    BY PlaceIsCell
  <2> QED BY <2>1 DEF Touched
<1>2. S = {}
  <2> SUFFICES ASSUME S # {} PROVE FALSE
    OBVIOUS
  <2>1. Lowest(S) \in S /\ \A n \in S : Lowest(S) <= n
    BY <1>1, LeastOf
  <2> QED BY <2>1 DEF Refused
<1>3. Place(start, num, k)[1] \in d.used
  BY <1>2 DEF Touched
<1> QED BY <1>3, PlaceIsCell

\* A write that answers the number of its bytes has stored them, and nothing
\* else, while the file fits its direct blocks.
LEMMA WriteStoresRange ==
  ASSUME NEW d \in Drivers, NEW h \in Inode, NEW start \in Nat, NEW num \in Nat,
         NEW value \in Content, NEW stack \in [Entry -> Content],
         (start + num) \div B < TableSize, DirectFiles(d),
         WriteBytes(d, h, start, num, value, stack).ret = num,
         NEW b \in Block, NEW o \in Entry
  PROVE  WriteBytes(d, h, start, num, value, stack).dfs.disk[b][o]
           = IF \E k \in Bytes(num) : <<b, o>> = Place(start, num, k)
             THEN value ELSE d.disk[b][o]
<1> DEFINE last == (start + num) \div B
<1>1. PICK a : a = WriteBytes(d, h, start, num, value, stack)
  OBVIOUS
<1>2. PICK d1 : d1 = AllocateBlocks(d, h, last, stack)
  OBVIOUS
<1>3. PICK at : at = Reached(d1, start, num)
  OBVIOUS
<1>4. PICK d2 : d2 = Stored(d1, at, value)
  OBVIOUS
<1>5. last \in Nat /\ start + num \in Nat
  BY Quotient
<1>6. d1 \in Drivers /\ d1.disk = d.disk
  <2>1. PICK l \in Nat : l = last
    BY <1>5
  <2>2. d.inodes[h].indirect = 0 /\ l < TableSize
    BY <2>1 DEF DirectFiles
  <2>3. AllocateBlocks(d, h, l, stack) \in Drivers
    BY AllocateKeeps
  <2>4. AllocateBlocks(d, h, l, stack).disk = d.disk
    BY <2>2, DirectAllocationKeepsDisk
  <2> QED BY <1>2, <2>1, <2>3, <2>4
<1>7. d2 \in Drivers /\ d2.disk[b][o] = IF <<b, o>> \in at THEN value ELSE d1.disk[b][o]
  BY <1>4, <1>6, StoredKeeps
<1>8. Refused(d1, start, num) = {} /\ a.dfs \in {d2, Longer(d2, h, start + num)}
  <2>1. LET takes == IF num = 0 THEN InodeLock ELSE Both
        IN  a = IF Refused(d1, start, num) # {} THEN Answer(d2, DFS_FAIL, takes, Both)
                ELSE IF OneBlock(start, num) THEN Answer(d2, num, takes, InodeLock)
                ELSE Answer(Longer(d2, h, start + num), num, takes, {})
    BY <1>1, <1>2, <1>3, <1>4, WriteAnswers
  <2>2. a.ret = num /\ num # DFS_FAIL
    BY <1>1 DEF DFS_FAIL
  <2> QED BY <2>1, <2>2 DEF Answer
<1>9. a.dfs.disk = d2.disk
  BY <1>5, <1>7, <1>8, LongerKeeps
<1>10. at = {Place(start, num, k) : k \in Bytes(num)}
  BY <1>3, <1>8 DEF Reached
<1> QED BY <1>1, <1>6, <1>7, <1>9, <1>10

\* A read that answers the number of its bytes has taken them from blocks in use.
LEMMA ReadFindsBlocks ==
  ASSUME NEW d \in Drivers, NEW h \in Inode, NEW start \in Nat, NEW num \in Nat,
         ReadBytes(d, h, start, num).ret = num, NEW k \in Bytes(num)
  PROVE  Place(start, num, k) \in Block \X Entry
<1>1. Refused(d, start, num) = {}
  <2> SUFFICES ASSUME Refused(d, start, num) # {}
               PROVE  ReadBytes(d, h, start, num).ret = DFS_FAIL
    BY DEF DFS_FAIL
  <2> QED BY DEF ReadBytes, Answer
<1>2. Place(start, num, k) \in d.used \X Entry
  BY <1>1, NoneRefused
<1> QED BY <1>2 DEF Drivers

\* Two ranges that are read and written in parts have a cell in common exactly
\* where they have a byte of the file in common.
LEMMA PartsMeet ==
  ASSUME NEW start \in Nat, NEW num \in Nat, ~OneBlock(start, num),
         NEW from \in Nat, NEW n \in Nat, ~OneBlock(from, n), NEW k \in Bytes(n)
  PROVE  (\E j \in Bytes(num) : Place(from, n, k) = Place(start, num, j))
         <=> from + k \in start .. start + num - 1
<1>1. from + k \in Nat /\ Place(from, n, k) = <<(from + k) \div B, (from + k) % B>>
  BY PlaceOfByte DEF Bytes
<1>2. \A j \in Bytes(num) :
        start + j \in Nat /\ Place(start, num, j) = <<(start + j) \div B, (start + j) % B>>
  BY PlaceOfByte DEF Bytes
<1>3. ASSUME NEW j \in Bytes(num), Place(from, n, k) = Place(start, num, j)
      PROVE  from + k \in start .. start + num - 1
  <2>1. (from + k) \div B = (start + j) \div B /\ (from + k) % B = (start + j) % B
    BY <1>1, <1>2, <1>3
  <2>2. PICK x \in Nat, y \in Nat : x = from + k /\ y = start + j
    BY <1>1, <1>2
  <2>3. x = B * (x \div B) + (x % B) /\ y = B * (y \div B) + (y % B)
    BY Quotient
  <2>4. x = y
    BY <2>1, <2>2, <2>3
  <2> QED BY <2>2, <2>4 DEF Bytes
<1>4. ASSUME from + k \in start .. start + num - 1
      PROVE  \E j \in Bytes(num) : Place(from, n, k) = Place(start, num, j)
  <2>1. from + k - start \in Bytes(num) /\ start + (from + k - start) = from + k
    BY <1>1, <1>4 DEF Bytes
  <2> QED BY <1>1, <1>2, <2>1
<1> QED BY <1>3, <1>4
=============================================================================

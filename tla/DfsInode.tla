------------------------------- MODULE DfsInode -------------------------------
(***************************************************************************)
(* The inode layer of the DFS driver (flat/os/dfs.c 506-1400): files with  *)
(* a table of blocks, an indirect block, and reads and writes of a range   *)
(* of bytes, on a mounted file system whose disk does not fail.            *)
(*                                                                         *)
(* The module DfsCalls calls the functions one after another, as           *)
(* RunOSTests does, and Files calls them from several processes.  Each is  *)
(* a function from the state of the driver to its answer: the next state,  *)
(* the return value and the locks that are still held when it returns.     *)
(* The free block vector is the set of blocks in use (module BlockPool);   *)
(* the lowest free block is the one that is given out.                     *)
(***************************************************************************)
EXTENDS Integers, FiniteSets

CONSTANTS B,          \* cells of a block: a cell is a byte of data or a pointer
          NumBlocks,  \* sb.num_blocks
          NumMeta,    \* the blocks 0 .. NumMeta - 1 hold the file system itself
          NumInodes,  \* sb.size_inodes_array (192)
          TableSize,  \* DFS_VB_TRANSLATION_TABLE_SIZE (10)
          Names,      \* file names
          Match,      \* the pairs of names that dstrncmp calls equal
          Values,     \* what programs write
          Garbage     \* what an uninitialized word of the kernel's stack may hold

ASSUME BlockAssumption ==
  /\ B \in Nat \ {0} /\ NumInodes \in Nat \ {0} /\ TableSize \in Nat \ {0}
  /\ NumMeta \in Nat \ {0} /\ NumBlocks \in Nat /\ NumMeta <= NumBlocks
ASSUME NameAssumption == Match \subseteq Names \X Names
\* dstrncmp looks at as many characters as the name looked for has (dfs.c 659) and
\* stops where the other ends (misc.c 68-71): two names are equal when either is
\* the beginning of the other, which makes every prefix equal to its extensions
\* in both orders, and "ab" and "ac" unequal though both equal "a".
ASSUME ReflexivityAssumption == \A n \in Names : <<n, n>> \in Match
ASSUME SymmetryAssumption == \A m \in Match : <<m[2], m[1]>> \in Match
ASSUME CellAssumption ==
  Values \subseteq Nat /\ Garbage \subseteq 0 .. NumBlocks - 1

DFS_FAIL == -1
Block == 0 .. NumBlocks - 1
Meta  == 0 .. NumMeta - 1
Inode == 0 .. NumInodes - 1
Slot  == 0 .. TableSize - 1
Entry == 0 .. B - 1 \* the words of indirect_block_vector, the cells of a block

NoInode == [inuse |-> FALSE, name |-> "", size |-> 0,
            table |-> [v \in Slot |-> 0], indirect |-> 0]

\* A driver is a record: the inodes, the blocks in use and the disk.
Formatted == [inodes |-> [i \in Inode |-> NoInode],
              used   |-> Meta,
              disk   |-> [b \in Block |-> [o \in Entry |-> 0]]]

Lowest(S) == CHOOSE x \in S : \A y \in S : x <= y

-----------------------------------------------------------------------------
(* The blocks of a file.                                                   *)

FreeOneTooMany(d) == (0 .. NumBlocks) \ d.used \* mutant: a loop bound is one too high
Free(d) == Block \ d.used

\* The block that the n-th of a row of calls of DfsAllocateBlock answers.
Fresh(d, n) == CHOOSE b \in Free(d) : Cardinality({c \in Free(d) : c < b}) = n
HasFresh(d, n) == n < Cardinality(Free(d))

\* DfsInodeAllocateVirtualBlock for the virtual blocks 0 .. last.  Each gets a
\* new block, also one that had a block before.  The vector of a new indirect
\* block is whatever the stack held, but for its first word: the block itself.
AllocateBlocks(d, h, last, stack) ==
  LET f == d.inodes[h]
      taken(v) == {Fresh(d, n) : n \in {m \in 0 .. v : HasFresh(d, m)}}
      ind == IF f.indirect # 0 THEN f.indirect
             ELSE IF last >= TableSize /\ HasFresh(d, TableSize)
             THEN Fresh(d, TableSize) ELSE 0
      base == IF f.indirect = 0 THEN stack ELSE d.disk[ind]
      stored(e) == /\ TableSize + e <= last
                   /\ HasFresh(d, TableSize + e)
                   /\ ind \in d.used \cup taken(TableSize + e)
      vector == [e \in Entry |-> IF stored(e) THEN Fresh(d, TableSize + e)
                                 ELSE base[e]]
  IN [d EXCEPT !.used = @ \cup taken(last),
               !.inodes[h].table =
                  [v \in Slot |-> IF v <= last /\ HasFresh(d, v)
                                  THEN Fresh(d, v) ELSE f.table[v]],
               !.inodes[h].indirect = ind,
               !.disk = IF \E e \in Entry : stored(e)
                        THEN [@ EXCEPT ![ind] = vector] ELSE @]

\* DfsInodeTranslateVirtualToFilesys; DFS_FAIL without an indirect block, or
\* with one that is not in use.
Translate(d, h, v) ==
  LET f == d.inodes[h] IN
  IF v < TableSize THEN f.table[v]
  ELSE IF f.indirect \notin d.used \ {0} THEN DFS_FAIL
  ELSE d.disk[f.indirect][v - TableSize]

-----------------------------------------------------------------------------
(* Where the bytes of a range are: start_byte and num_bytes of a file.     *)

StartingBytes(start) == (B - start) % B
EndingBytes(start, num) == (start + num) % B
OneBlock(start, num) == StartingBytes(start) + EndingBytes(start, num) > num
MidBlocks(start, num) ==
  IF OneBlock(start, num) THEN 0
  ELSE (num - StartingBytes(start) - EndingBytes(start, num)) \div B

NextBlockKept(start) == start \div B \* mutant: current_block is not incremented

\* current_block after the first part.
NextBlock(start) ==
  IF StartingBytes(start) = 0 THEN start \div B ELSE start \div B + 1

\* The block and the offset of byte k of the range: the first part, the whole
\* blocks and the last part.  The number of a virtual block is taken for the
\* number of a file system block.
Place(start, num, k) ==
  LET s     == StartingBytes(start)
      first == start \div B
      next  == NextBlock(start)
      m     == MidBlocks(start, num)
  IN IF OneBlock(start, num) THEN <<first, B - num + k>>
     ELSE IF k < s THEN <<first, B - s + k>>
     ELSE IF k < s + m * B THEN <<next + (k - s) \div B, (k - s) % B>>
     ELSE <<next + m, k - s - m * B>>

Bytes(num) == 0 .. num - 1
Touched(start, num) == {Place(start, num, k)[1] : k \in Bytes(num)}

\* The bytes that DfsReadBlock and bcopy put into the caller's buffer, when no
\* block of the range is refused.
BytesRead(d, start, num) ==
  [k \in Bytes(num) |-> LET at == Place(start, num, k) IN d.disk[at[1]][at[2]]]

\* The first block of the range that DfsReadBlock refuses, if there is one.
Refused(d, start, num) ==
  {b \in Touched(start, num) \ d.used :
     \A c \in Touched(start, num) \ d.used : b <= c}

-----------------------------------------------------------------------------
(* The functions.  An answer names the locks that a call takes and those   *)
(* of them that it does not give back.                                     *)

Answer(d, value, takes, keeps) ==
  [dfs |-> d, ret |-> value, takes |-> takes, keeps |-> keeps]

InodeLock == {"inode_lock"}
Both == {"inode_lock", "block_lock"} \* block_lock in DfsReadBlock, DfsWriteBlock

FoundButLast(d, name) == \* mutant: the last inode is not looked at
  {i \in Inode \ {NumInodes - 1} : d.inodes[i].inuse
                                   /\ <<name, d.inodes[i].name>> \in Match}

\* Names are equal when one is the beginning of the other (misc.c 61-82).
Found(d, name) ==
  {i \in Inode : d.inodes[i].inuse /\ <<name, d.inodes[i].name>> \in Match}

FilenameExists(d, name) ==
  LET found == Found(d, name)
  IN IF found = {} THEN DFS_FAIL ELSE Lowest(found)

\* The part of DfsInodeOpen under the lock, for a name that was not found.
InodeCreate(d, name) ==
  LET idle == {i \in Inode : ~d.inodes[i].inuse}
      i    == Lowest(idle)
  IN IF idle = {} THEN Answer(d, DFS_FAIL, InodeLock, {})
     ELSE Answer([d EXCEPT !.inodes[i] = [NoInode EXCEPT !.inuse = TRUE,
                                                         !.name = name]],
                 i, InodeLock, {})

InodeOpen(d, name) ==
  IF FilenameExists(d, name) # DFS_FAIL
  THEN Answer(d, FilenameExists(d, name), {}, {})
  ELSE InodeCreate(d, name)

\* DfsFreeBlock of list[0], list[1] .. up to the first that is not in use,
\* which is one that never was or that an earlier entry has freed.
FreedBefore(d, list, n) ==
  LET bad == {i \in 0 .. n - 1 :
                list[i] # 0 /\ (\/ list[i] \notin d.used
                                \/ \E j \in 0 .. i - 1 : list[j] = list[i])}
  IN IF bad = {} THEN n ELSE Lowest(bad)

TableKept(f, n) == f.table \* mutant: a freed entry is not set to zero
Emptied(f, n) == [v \in Slot |-> IF v < n THEN 0 ELSE f.table[v]]

Cleared(d, h) ==
  [d EXCEPT !.inodes[h] = [NoInode EXCEPT !.table = d.inodes[h].table]]

\* The blocks of the table up to the first zero, then those of the indirect
\* block, and never the indirect block itself unless it is in its own vector.
InodeDelete(d, h) ==
  LET f      == d.inodes[h]
      empty  == {v \in Slot : f.table[v] = 0}
      direct == IF empty = {} THEN TableSize ELSE Lowest(empty)
      n      == FreedBefore(d, f.table, direct)
      d1     == [d EXCEPT !.used = @ \ {f.table[v] : v \in 0 .. n - 1},
                          !.inodes[h].table = Emptied(f, n)]
      vector == d.disk[f.indirect]
      m      == FreedBefore(d1, vector, B)
      d2     == [d1 EXCEPT !.used = @ \ ({vector[e] : e \in 0 .. m - 1} \ {0})]
  IN IF ~f.inuse THEN Answer(d, DFS_FAIL, InodeLock, {})
     ELSE IF n < direct THEN Answer(d1, DFS_FAIL, InodeLock, InodeLock)
     ELSE IF f.indirect = 0 THEN Answer(Cleared(d1, h), 1, InodeLock, {})
     ELSE IF f.indirect \notin d1.used THEN Answer(d1, DFS_FAIL, Both, Both)
     ELSE IF m < B THEN Answer(d2, DFS_FAIL, Both, InodeLock)
     ELSE IF f.indirect \notin d2.used THEN Answer(d2, DFS_FAIL, Both, Both)
     ELSE Answer(Cleared([d2 EXCEPT !.disk[f.indirect] = [e \in Entry |-> 0]], h),
                 1, Both, {})

Longer(d, h, end) ==
  [d EXCEPT !.inodes[h].size = IF end > @ THEN end ELSE @]

\* Validating the arguments refuses nothing: !DFS_FAIL is false.  The answer of
\* the allocation is compared with 0, which it never is.
WriteBytes(d, h, start, num, value, stack) ==
  LET d1      == AllocateBlocks(d, h, (start + num) \div B, stack)
      refused == Refused(d1, start, num)
      done    == {k \in Bytes(num) : \A b \in refused : Place(start, num, k)[1] < b}
      at      == {Place(start, num, k) : k \in done}
      d2      == [d1 EXCEPT !.disk = [b \in Block |-> [o \in Entry |->
                    IF <<b, o>> \in at THEN value ELSE d1.disk[b][o]]]]
      takes   == IF num = 0 THEN InodeLock ELSE Both
  IN IF refused # {} THEN Answer(d2, DFS_FAIL, takes, Both)
     ELSE IF OneBlock(start, num) THEN Answer(d2, num, takes, InodeLock)
     ELSE Answer(Longer(d2, h, start + num), num, takes, {})

\* The bytes that are read are those of the disk at Place; a read past the end
\* of the file makes the file longer.
ReadBytes(d, h, start, num) ==
  LET missing == {v \in 0 .. (start + num) \div B : Translate(d, h, v) = 0}
      direct  == missing # {} /\ Lowest(missing) < TableSize
      takes   == IF num = 0 \/ direct THEN InodeLock ELSE Both
  IN IF missing # {} THEN Answer(d, DFS_FAIL, takes, InodeLock)
     ELSE IF Refused(d, start, num) # {} THEN Answer(d, DFS_FAIL, takes, Both)
     ELSE IF OneBlock(start, num) THEN Answer(d, num, takes, InodeLock)
     ELSE Answer(Longer(d, h, start + num), num, takes, {})
=============================================================================

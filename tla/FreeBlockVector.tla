--------------------------- MODULE FreeBlockVector ---------------------------
(***************************************************************************)
(* The free block vector (fbv) of the DFS driver: DfsAllocateBlock,        *)
(* DfsFreeBlock, block_allocated and the bit search under them             *)
(* (flat/os/dfs.c 348-496), with the clients that hold blocks.             *)
(*                                                                         *)
(* The vector is an array of words; a bit is '1' for a block in use, and   *)
(* block k is bit k % W of word k \div W counted from the most significant *)
(* end.  Both operations take fbv_lock and never sleep inside it, and a    *)
(* trap handler is not preempted, so each operation is one step.           *)
(***************************************************************************)
EXTENDS Integers

CONSTANTS W,          \* bits of a word (32)
          NumWords,   \* sb.num_blocks / 32
          MetaBlocks, \* the blocks fdisk marks in use: superblock, inodes, fbv
          NoBlock     \* DFS_FAIL as the answer of DfsAllocateBlock

ASSUME WordAssumption == W \in Nat \ {0} /\ NumWords \in Nat \ {0}
ASSUME MetaAssumption == MetaBlocks \subseteq 0 .. W * NumWords - 1
ASSUME NoBlockAssumption == NoBlock \notin 0 .. W * NumWords - 1

VARIABLES fbv,    \* fbv[i][j]: bit j of word i, from the most significant end
          valid,  \* sb.valid
          fsOpen, \* fs_open
          held,   \* the blocks a caller got from DfsAllocateBlock and not freed
          answer  \* what the last call returned

vars == <<fbv, valid, fsOpen, held, answer>>

Word  == 0 .. NumWords - 1
Bit   == 0 .. W - 1
Block == 0 .. W * NumWords - 1
Answers == [call : {"boot", "switch"}]
           \cup [call : {"alloc"}, block : Block \cup {NoBlock}]
           \cup [call : {"free"}, block : Block, ok : BOOLEAN]

-----------------------------------------------------------------------------
(* The bit operations.                                                     *)

WordOf(k) == k \div W
BitOf(k)  == k % W

\* 0x1 << (W-1 - k): the processor shifts by the amount modulo W, and the bit
\* it sets is s positions from the least significant end.
WrongEndBit(k) == (W - 1 - k) % W \* mutant: counts from the other end
ShiftedBit(k) == LET s == (W - 1 - k) % W IN W - 1 - s

FullWord(word) == \A j \in Bit : word[j]

\* The first clear bit from the most significant end; 0 when there is none.
FindOpenBit(word) ==
  IF FullWord(word) THEN 0
  ELSE CHOOSE j \in Bit : ~word[j] /\ \A i \in 0 .. j - 1 : word[i]

FindOpenBlockNextWord(i) == W * (i + 1) + FindOpenBit(fbv[i]) \* mutant: 1-based index
FindOpenBlock(i) == W * i + FindOpenBit(fbv[i])

BlockAllocated(k) == fbv[WordOf(k)][ShiftedBit(BitOf(k))]

\* fbv[i] ^ mask: the exclusive or turns one bit over.
Toggle(i, j) == [fbv EXCEPT ![i][j] = ~@]

CheckSystem == valid /\ fsOpen

-----------------------------------------------------------------------------
Init ==
  /\ fbv = [i \in Word |-> [j \in Bit |-> W * i + j \in MetaBlocks]]
  /\ valid = TRUE
  /\ fsOpen = TRUE
  /\ held = {}
  /\ answer = [call |-> "boot"]

AnyWord == Word \* mutant: the test fbv[i] != negativeone is dropped

\* The words that are not all ones; the loop stops at the first one.
OpenWords == {i \in Word : ~FullWord(fbv[i])}

Refuse ==
  /\ answer' = [call |-> "alloc", block |-> NoBlock]
  /\ UNCHANGED <<fbv, held>>

AllocateBlock ==
  /\ UNCHANGED <<valid, fsOpen>>
  /\ \/ /\ ~CheckSystem \/ OpenWords = {}
        /\ Refuse
     \/ /\ CheckSystem
        /\ \E i \in OpenWords :
             LET k == FindOpenBlock(i) IN
             /\ \A h \in OpenWords : i <= h
             /\ fbv' = Toggle(i, ShiftedBit(k))
             /\ answer' = [call |-> "alloc", block |-> k]
             /\ held' = held \cup {k}

\* Mutant: the test of the bit is dropped and the bit is turned over.
FreeBlockUnchecked(k) ==
  /\ fbv' = Toggle(WordOf(k), ShiftedBit(BitOf(k)))
  /\ answer' = [call |-> "free", block |-> k, ok |-> TRUE]
  /\ held' = held \ {k}
  /\ UNCHANGED <<valid, fsOpen>>

\* DfsFreeBlock never asks DfsCheckSystem.  The callers free what they hold,
\* and the second free of ostests.c, so any block outside the metadata.
FreeBlock(k) ==
  /\ fbv' = IF BlockAllocated(k)
            THEN Toggle(WordOf(k), ShiftedBit(BitOf(k)))
            ELSE fbv
  /\ answer' = [call |-> "free", block |-> k, ok |-> BlockAllocated(k)]
  /\ held' = held \ {k}
  /\ UNCHANGED <<valid, fsOpen>>

\* dfs_invalidate, and the close at the end of GracefulExit.
Invalidate ==
  /\ valid' = FALSE
  /\ answer' = [call |-> "switch"]
  /\ UNCHANGED <<fbv, fsOpen, held>>

CloseFileSystem ==
  /\ CheckSystem
  /\ valid' = FALSE
  /\ fsOpen' = FALSE
  /\ answer' = [call |-> "switch"]
  /\ UNCHANGED <<fbv, held>>

\* A close writes the vector out and the next open reads it back.
OpenFileSystem ==
  /\ ~fsOpen
  /\ valid' = TRUE
  /\ fsOpen' = TRUE
  /\ answer' = [call |-> "switch"]
  /\ UNCHANGED <<fbv, held>>

Next ==
  \/ AllocateBlock
  \/ \E k \in Block \ MetaBlocks : FreeBlock(k)
  \/ Invalidate
  \/ CloseFileSystem
  \/ OpenFileSystem

Spec == Init /\ [][Next]_vars

-----------------------------------------------------------------------------
(* Properties.                                                             *)

TypeOK ==
  /\ fbv \in [Word -> [Bit -> BOOLEAN]]
  /\ valid \in BOOLEAN
  /\ fsOpen \in BOOLEAN
  /\ held \subseteq Block
  /\ answer \in Answers

InUse == {k \in Block : fbv[k \div W][k % W]}

\* The bits that are set are exactly the metadata blocks and the blocks that
\* callers hold: no allocation loses a bit of another word, no free clears a
\* neighbour's, and a double free does not set the bit again.
BitsMatchHolders == InUse = MetaBlocks \cup held

\* A block that DfsAllocateBlock answers was free: no caller held it and it is
\* not one of the blocks that hold the file system itself (dfs.c 399-413).
FreshBlock ==
  [][ AllocateBlock /\ answer'.block # NoBlock
      => answer'.block \in Block \ (held \cup MetaBlocks) ]_vars

\* With words and masks hidden, the vector is a set of blocks.
Pool == INSTANCE BlockPool WITH used <- InUse, up <- CheckSystem

\* The word and mask arithmetic implements the set.
ImplementsPool == Pool!Spec
=============================================================================

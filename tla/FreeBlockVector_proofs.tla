------------------------ MODULE FreeBlockVector_proofs ------------------------
(***************************************************************************)
(* Proofs about the free block vector, for every word size, every number   *)
(* of words and every set of metadata blocks.                              *)
(***************************************************************************)
EXTENDS FreeBlockVector, WellFoundedInduction, TLAPS

\* The blocks whose bit is set in the vector f.
UsedIn(f) == {k \in Block : f[k \div W][k % W]}

\* The order of the naturals, as a set of pairs.
NatLess == {p \in Nat \X Nat : p[1] < p[2]}

-----------------------------------------------------------------------------
(* Arithmetic of words and bits.                                           *)

\* A block number is a word index and a bit position, and nothing else is:
\* this is the division that dfs.c 443, 444 and 469-473 compute.
LEMMA BlockSplit ==
  ASSUME NEW k \in Block
  PROVE  /\ k \div W \in Word
         /\ k % W \in Bit
         /\ k = W * (k \div W) + (k % W)
BY WordAssumption DEF Block, Word, Bit

\* Bit j of word i is bit j of the block 32 * i + j (dfs.c 369).
LEMMA BlockJoin ==
  ASSUME NEW i \in Word, NEW j \in Bit
  PROVE  /\ W * i + j \in Block
         /\ (W * i + j) \div W = i
         /\ (W * i + j) % W = j
BY WordAssumption DEF Block, Word, Bit

\* Quotient and remainder by W, for numbers on both sides of zero.
LEMMA Remainder ==
  ASSUME NEW q \in Int, NEW r \in Bit
  PROVE  (W * q + r) % W = r
BY WordAssumption DEF Bit

\* The mask 0x1 << (31 - k) meets bit k % W although the shift amount is
\* negative for every word after the first (dfs.c 404).
LEMMA ShiftLemma ==
  ASSUME NEW k \in Nat
  PROVE  ShiftedBit(k) = k % W
<1>1. PICK q \in Int, r \in Bit : k = W * q + r /\ r = k % W
  <2>1. k \div W \in Int /\ k % W \in Bit /\ k = W * (k \div W) + (k % W)
    BY WordAssumption DEF Bit
  <2>2. QED BY <2>1
<1>2. W - 1 - r \in Bit /\ -q \in Int
  BY WordAssumption DEF Bit
<1>3. W - 1 - k = W * (-q) + (W - 1 - r)
  <2>1. W * (-q) = -(W * q)
    BY WordAssumption
  <2>2. W * q \in Int
    BY WordAssumption
  <2>3. QED BY <1>1, <2>1, <2>2, WordAssumption DEF Bit
<1>4. (W - 1 - k) % W = W - 1 - r
  BY <1>2, <1>3, Remainder
<1>5. QED
  BY <1>1, <1>4, WordAssumption DEF ShiftedBit, Bit

-----------------------------------------------------------------------------
(* The first clear bit.                                                    *)

\* A set of natural numbers that is not empty has a least one.
LEMMA LeastNatural ==
  ASSUME NEW S \in SUBSET Nat, S # {}
  PROVE  \E m \in S : \A n \in S : m <= n
<1>1. IsWellFoundedOn(NatLess, Nat)
  BY NatLessThanWellFounded DEF OpToRel, NatLess
<1>2. PICK m \in S : \A n \in S : ~ (<<n, m>> \in NatLess)
  BY <1>1, WFMin
<1>3. ASSUME NEW n \in S, n < m PROVE FALSE
  <2>1. <<n, m>> \in NatLess
    BY <1>3 DEF NatLess
  <2>2. QED BY <1>2, <2>1
<1>4. QED BY <1>3

\* A word that is not all ones has a first clear bit, and find_Open_Bit
\* answers it (dfs.c 348-365).
LEMMA FindOpenBitLemma ==
  ASSUME NEW word \in [Bit -> BOOLEAN], ~FullWord(word)
  PROVE  FindOpenBit(word) \in Bit /\ ~word[FindOpenBit(word)]
<1> DEFINE Clear == {j \in Bit : ~word[j]}
<1>1. Clear \in SUBSET Nat /\ Clear # {}
  BY WordAssumption DEF FullWord, Bit
<1>2. PICK j \in Clear : \A i \in Clear : j <= i
  BY <1>1, LeastNatural
<1>3. j \in Bit /\ ~word[j] /\ \A i \in 0 .. j - 1 : word[i]
  BY <1>2, WordAssumption DEF Bit
<1>4. QED
  BY <1>3 DEF FindOpenBit

\* The word that the search stops at exists when some word is not full.
LEMMA FirstOpenWord ==
  ASSUME OpenWords # {}
  PROVE  \E i \in OpenWords : \A h \in OpenWords : i <= h
<1>1. OpenWords \in SUBSET Nat
  BY WordAssumption DEF OpenWords, Word
<1>2. QED BY <1>1, LeastNatural

-----------------------------------------------------------------------------
(* One bit, one block.                                                     *)

\* Turning over the bit of block k adds k to the used blocks or removes it,
\* and disturbs no other block.
LEMMA ToggleLemma ==
  ASSUME NEW f \in [Word -> [Bit -> BOOLEAN]], NEW k \in Block,
         NEW g, g = [f EXCEPT ![k \div W][k % W] = ~@]
  PROVE  /\ g \in [Word -> [Bit -> BOOLEAN]]
         /\ k \in UsedIn(f) => UsedIn(g) = UsedIn(f) \ {k}
         /\ k \notin UsedIn(f) => UsedIn(g) = UsedIn(f) \cup {k}
<1>1. k \div W \in Word /\ k % W \in Bit
  BY BlockSplit
<1>2. g \in [Word -> [Bit -> BOOLEAN]]
  BY <1>1
<1>3. g[k \div W][k % W] = ~f[k \div W][k % W]
  BY <1>1
<1>4. ASSUME NEW n \in Block, n # k
      PROVE  g[n \div W][n % W] = f[n \div W][n % W]
  <2>1. n \div W \in Word /\ n % W \in Bit
    BY BlockSplit
  <2>2. n \div W # k \div W \/ n % W # k % W
    BY <1>4, BlockSplit
  <2>3. QED BY <1>1, <2>1, <2>2
<1>5. QED
  BY <1>2, <1>3, <1>4 DEF UsedIn

\* What a successful DfsAllocateBlock does to the vector (dfs.c 400-413).
LEMMA AllocateLemma ==
  ASSUME TypeOK, NEW i \in OpenWords
  PROVE  LET k == FindOpenBlock(i) IN
         /\ k \in Block
         /\ k \notin UsedIn(fbv)
         /\ Toggle(i, ShiftedBit(k)) \in [Word -> [Bit -> BOOLEAN]]
         /\ UsedIn(Toggle(i, ShiftedBit(k))) = UsedIn(fbv) \cup {k}
<1> DEFINE j == FindOpenBit(fbv[i])
           k == FindOpenBlock(i)
<1>1. i \in Word /\ fbv[i] \in [Bit -> BOOLEAN] /\ ~FullWord(fbv[i])
  BY DEF OpenWords, TypeOK
<1>2. j \in Bit /\ ~fbv[i][j]
  BY <1>1, FindOpenBitLemma
<1>3. k \in Block /\ k \div W = i /\ k % W = j
  BY <1>1, <1>2, BlockJoin DEF FindOpenBlock
<1>4. k \in Nat
  BY <1>3, WordAssumption DEF Block
<1>5. ShiftedBit(k) = j
  BY <1>3, <1>4, ShiftLemma
<1>6. k \notin UsedIn(fbv)
  BY <1>2, <1>3 DEF UsedIn
<1>7. Toggle(i, ShiftedBit(k))
        = [fbv EXCEPT ![k \div W][k % W] = ~@]
  BY <1>3, <1>5 DEF Toggle
<1>8. fbv \in [Word -> [Bit -> BOOLEAN]]
  BY DEF TypeOK
<1> HIDE DEF k
<1>9. QED
  BY <1>3, <1>6, <1>7, <1>8, ToggleLemma DEF k

\* The bit that block_allocated and DfsFreeBlock address (dfs.c 443-447).
LEMMA AllocatedLemma ==
  ASSUME TypeOK, NEW k \in Block
  PROVE  /\ BlockAllocated(k) <=> k \in UsedIn(fbv)
         /\ BlockAllocated(k) \in BOOLEAN
         /\ ShiftedBit(BitOf(k)) = k % W
<1>1. k \div W \in Word /\ k % W \in Bit
  BY BlockSplit
<1>2. k % W \in Nat /\ (k % W) % W = k % W
  BY <1>1, WordAssumption DEF Bit
<1>3. ShiftedBit(BitOf(k)) = k % W
  BY <1>2, ShiftLemma DEF BitOf
<1>4. QED
  BY <1>1, <1>3 DEF BlockAllocated, WordOf, UsedIn, TypeOK

\* What DfsFreeBlock does to the vector (dfs.c 475-495).
LEMMA FreeLemma ==
  ASSUME TypeOK, NEW k \in Block, FreeBlock(k)
  PROVE  /\ fbv' \in [Word -> [Bit -> BOOLEAN]]
         /\ UsedIn(fbv') = UsedIn(fbv) \ {k}
<1>1. fbv \in [Word -> [Bit -> BOOLEAN]]
  BY DEF TypeOK
<1>2. CASE BlockAllocated(k)
  <2>1. fbv' = [fbv EXCEPT ![k \div W][k % W] = ~@]
    BY <1>2, AllocatedLemma DEF FreeBlock, Toggle, WordOf
  <2>2. k \in UsedIn(fbv)
    BY <1>2, AllocatedLemma
  <2>3. QED BY <1>1, <2>1, <2>2, ToggleLemma
<1>3. CASE ~BlockAllocated(k)
  BY <1>1, <1>3, AllocatedLemma DEF FreeBlock
<1>4. QED BY <1>2, <1>3

\* The blocks in use are read off the vector, before and after a step.
LEMMA InUseIsUsed == InUse = UsedIn(fbv) /\ InUse' = UsedIn(fbv')
BY DEF InUse, UsedIn

\* Only blocks of the disk are in use.
LEMMA InUseTyped == InUse \subseteq Block
BY DEF InUse

-----------------------------------------------------------------------------
(* The invariants.                                                         *)

\* Every variable keeps its type, whatever the callers allocate and free.
THEOREM TypeCorrect == Spec => []TypeOK
<1>1. Init => TypeOK
  BY WordAssumption DEF Init, TypeOK, Answers
<1>2. TypeOK /\ [Next]_vars => TypeOK'
  <2> SUFFICES ASSUME TypeOK, [Next]_vars PROVE TypeOK'
    OBVIOUS
  <2>1. CASE AllocateBlock
    <3>1. CASE Refuse /\ UNCHANGED <<valid, fsOpen>>
      BY <3>1 DEF Refuse, TypeOK, Answers
    <3>2. ASSUME NEW i \in OpenWords,
                 UNCHANGED <<valid, fsOpen>>,
                 fbv' = Toggle(i, ShiftedBit(FindOpenBlock(i))),
                 answer' = [call |-> "alloc", block |-> FindOpenBlock(i)],
                 held' = held \cup {FindOpenBlock(i)}
          PROVE  TypeOK'
      <4>1. /\ FindOpenBlock(i) \in Block
            /\ fbv' \in [Word -> [Bit -> BOOLEAN]]
        BY <3>2, AllocateLemma
      <4>2. QED BY <3>2, <4>1 DEF TypeOK, Answers
    <3>3. QED BY <2>1, <3>1, <3>2 DEF AllocateBlock
  <2>2. ASSUME NEW k \in Block \ MetaBlocks, FreeBlock(k) PROVE TypeOK'
    <3>1. fbv' \in [Word -> [Bit -> BOOLEAN]] /\ BlockAllocated(k) \in BOOLEAN
      BY <2>2, FreeLemma, AllocatedLemma
    <3>2. QED BY <2>2, <3>1 DEF FreeBlock, TypeOK, Answers
  <2>3. CASE Invalidate
    BY <2>3 DEF Invalidate, TypeOK, Answers
  <2>4. CASE CloseFileSystem
    BY <2>4 DEF CloseFileSystem, TypeOK, Answers
  <2>5. CASE OpenFileSystem
    BY <2>5 DEF OpenFileSystem, TypeOK, Answers
  <2>6. CASE UNCHANGED vars
    BY <2>6 DEF vars, TypeOK
  <2>7. QED BY <2>1, <2>2, <2>3, <2>4, <2>5, <2>6 DEF Next
<1>3. QED BY <1>1, <1>2, PTL DEF Spec

\* How each step changes the set of used blocks and the set of held blocks.
LEMMA StepLemma ==
  ASSUME TypeOK, [Next]_vars
  PROVE  \/ InUse' = InUse /\ held' = held
         \/ \E k \in Block \ InUse :
              /\ AllocateBlock /\ CheckSystem
              /\ answer' = [call |-> "alloc", block |-> k]
              /\ InUse' = InUse \cup {k} /\ held' = held \cup {k}
         \/ \E k \in Block \ MetaBlocks :
              /\ FreeBlock(k)
              /\ answer' = [call |-> "free", block |-> k, ok |-> k \in InUse]
              /\ InUse' = InUse \ {k} /\ held' = held \ {k}
<1>1. CASE AllocateBlock
  <2>1. CASE Refuse
    BY <2>1, InUseIsUsed DEF Refuse
  <2>2. ASSUME NEW i \in OpenWords, CheckSystem,
               fbv' = Toggle(i, ShiftedBit(FindOpenBlock(i))),
               answer' = [call |-> "alloc", block |-> FindOpenBlock(i)],
               held' = held \cup {FindOpenBlock(i)}
        PROVE  \E k \in Block \ InUse :
                 /\ AllocateBlock /\ CheckSystem
                 /\ answer' = [call |-> "alloc", block |-> k]
                 /\ InUse' = InUse \cup {k} /\ held' = held \cup {k}
    BY <1>1, <2>2, AllocateLemma, InUseIsUsed
  <2>3. QED BY <1>1, <2>1, <2>2 DEF AllocateBlock
<1>2. ASSUME NEW k \in Block \ MetaBlocks, FreeBlock(k)
      PROVE  /\ answer' = [call |-> "free", block |-> k, ok |-> k \in InUse]
             /\ InUse' = InUse \ {k} /\ held' = held \ {k}
  <2>1. BlockAllocated(k) = (k \in InUse)
    BY AllocatedLemma, InUseIsUsed
  <2>2. InUse' = InUse \ {k}
    BY <1>2, FreeLemma, InUseIsUsed
  <2>3. QED BY <1>2, <2>1, <2>2 DEF FreeBlock
<1>3. CASE Invalidate \/ CloseFileSystem \/ OpenFileSystem \/ UNCHANGED vars
  BY <1>3, InUseIsUsed
     DEF Invalidate, CloseFileSystem, OpenFileSystem, vars
<1>4. QED BY <1>1, <1>2, <1>3 DEF Next

\* A set bit is a metadata block or a block some caller holds, and the other
\* way round: nothing is lost and nothing is handed out behind the vector.
THEOREM BitsMatchHoldersHolds == Spec => []BitsMatchHolders
<1>1. Init => BitsMatchHolders
  <2> SUFFICES ASSUME Init PROVE InUse = MetaBlocks
    BY DEF Init, BitsMatchHolders
  <2>1. ASSUME NEW k \in Block PROVE k \in InUse <=> k \in MetaBlocks
    <3>1. k \div W \in Word /\ k % W \in Bit /\ k = W * (k \div W) + (k % W)
      BY BlockSplit
    <3>2. fbv[k \div W][k % W] = (W * (k \div W) + (k % W) \in MetaBlocks)
      BY <3>1 DEF Init
    <3>3. QED BY <3>1, <3>2 DEF InUse
  <2>2. QED BY <2>1, MetaAssumption DEF InUse, Block
<1>2. TypeOK /\ BitsMatchHolders /\ [Next]_vars => BitsMatchHolders'
  <2> SUFFICES ASSUME TypeOK, BitsMatchHolders, [Next]_vars
               PROVE  InUse' = MetaBlocks \cup held'
    BY DEF BitsMatchHolders
  <2>1. QED BY StepLemma DEF BitsMatchHolders
<1>3. QED BY <1>1, <1>2, TypeCorrect, PTL DEF Spec

\* No block is handed out twice, and none of the metadata blocks ever is.
THEOREM FreshBlockHolds == Spec => FreshBlock
<1>1. TypeOK /\ BitsMatchHolders /\ [Next]_vars
        => [AllocateBlock /\ answer'.block # NoBlock
            => answer'.block \in Block \ (held \cup MetaBlocks)]_vars
  <2> SUFFICES ASSUME TypeOK, BitsMatchHolders, AllocateBlock,
                      answer'.block # NoBlock
               PROVE  answer'.block \in Block \ (held \cup MetaBlocks)
    OBVIOUS
  <2>1. PICK i \in OpenWords :
          answer' = [call |-> "alloc", block |-> FindOpenBlock(i)]
    BY DEF AllocateBlock, Refuse
  <2>2. FindOpenBlock(i) \in Block \ InUse
    BY AllocateLemma, InUseIsUsed
  <2>3. QED BY <2>1, <2>2 DEF BitsMatchHolders
<1>2. QED BY <1>1, TypeCorrect, BitsMatchHoldersHolds, PTL DEF Spec, FreshBlock

\* When no word has a clear bit, the search is refused with every block in use.
LEMMA FullMeansAllUsed ==
  ASSUME TypeOK, OpenWords = {}
  PROVE  InUse = Block
<1>1. ASSUME NEW k \in Block PROVE fbv[k \div W][k % W]
  <2>1. k \div W \in Word /\ k % W \in Bit
    BY BlockSplit
  <2>2. FullWord(fbv[k \div W])
    BY <2>1 DEF OpenWords
  <2>3. QED BY <2>1, <2>2 DEF FullWord
<1>2. QED BY <1>1 DEF InUse

\* The vector, its words, masks and search, implements the set of blocks of
\* module BlockPool: initial states map to initial states and every step maps
\* to an allocation of any unused block, a free, a switch, or a stutter.
THEOREM ImplementsPoolHolds == Spec => ImplementsPool
<1> USE DEF Pool!Init, Pool!Next, Pool!vars
<1>1. Init => Pool!Init
  BY InUseTyped DEF Init, CheckSystem
<1>2. TypeOK /\ [Next]_vars => [Pool!Next]_Pool!vars
  <2> SUFFICES ASSUME TypeOK, [Next]_vars PROVE [Pool!Next]_Pool!vars
    OBVIOUS
  <2> USE DEF TypeOK
  <2>1. CASE AllocateBlock
    <3>1. CheckSystem' = CheckSystem
      BY <2>1 DEF AllocateBlock, CheckSystem
    <3>2. CASE Refuse /\ (~CheckSystem \/ OpenWords = {})
      <4>1. InUse' = InUse /\ (~CheckSystem \/ InUse = Block)
        BY <3>2, InUseIsUsed, FullMeansAllUsed DEF Refuse
      <4>2. QED BY <3>1, <3>2, <4>1 DEF Refuse, Pool!Allocate, Block
    <3>3. ASSUME CheckSystem, NEW i \in OpenWords,
                 fbv' = Toggle(i, ShiftedBit(FindOpenBlock(i))),
                 answer' = [call |-> "alloc", block |-> FindOpenBlock(i)]
          PROVE  Pool!Allocate
      <4>1. /\ FindOpenBlock(i) \in Block \ InUse
            /\ InUse' = InUse \cup {FindOpenBlock(i)}
        BY <3>3, AllocateLemma, InUseIsUsed
      <4>2. QED BY <3>1, <3>3, <4>1 DEF Pool!Allocate, Block
    <3>4. QED BY <2>1, <3>2, <3>3 DEF AllocateBlock
  <2>2. ASSUME NEW k \in Block \ MetaBlocks, FreeBlock(k) PROVE Pool!Free(k)
    <3>1. InUse' = InUse \ {k} /\ BlockAllocated(k) = (k \in InUse)
      BY <2>2, FreeLemma, AllocatedLemma, InUseIsUsed
    <3>2. CheckSystem' = CheckSystem
      BY <2>2 DEF FreeBlock, CheckSystem
    <3>3. QED BY <2>2, <3>1, <3>2 DEF FreeBlock, Pool!Free
  <2>3. CASE Invalidate \/ CloseFileSystem \/ OpenFileSystem
    <3>1. InUse' = InUse /\ CheckSystem' \in BOOLEAN
      BY <2>3, InUseIsUsed
         DEF Invalidate, CloseFileSystem, OpenFileSystem, CheckSystem
    <3>2. answer' = [call |-> "switch"]
      BY <2>3 DEF Invalidate, CloseFileSystem, OpenFileSystem
    <3>3. QED BY <3>1, <3>2 DEF Pool!Switch
  <2>4. CASE UNCHANGED vars
    BY <2>4, InUseIsUsed DEF vars, CheckSystem
  <2>5. QED BY <2>1, <2>2, <2>3, <2>4 DEF Next, Block
<1>3. QED BY <1>1, <1>2, TypeCorrect, PTL DEF Spec, ImplementsPool, Pool!Spec
=============================================================================

---------------------------- MODULE Resources_proofs ----------------------------
(***************************************************************************)
(* Proofs about the pages and descriptors that processes come to own, for  *)
(* any number of PCBs, pages and slots, any executables and any order of   *)
(* creations, failures and exits: no page is lost or owned twice, the      *)
(* search for a page ends, and the only descriptors that stay taken are    *)
(* those that the code is known to lose.                                   *)
(*                                                                         *)
(* The argument: the words and bits of the map represent a set of pages    *)
(* (MapIs), the table of descriptors a set of slots; the routines are then *)
(* about sets.  What happens to the process table is taken from the lemmas *)
(* of Synch_proofs.                                                        *)
(***************************************************************************)
EXTENDS Resources, Synch_proofs, FiniteSetTheorems, WellFoundedInduction

-----------------------------------------------------------------------------
(* The map of free pages.                                                  *)

UserPages == PageStart .. MaxPage - 1
Bits      == 0 .. WordBits - 1

\* The one bits of the map are the pages of F, and the count is theirs.
MapIs(m, F) ==
  /\ m = [freepages |-> m.freepages, nfreepages |-> m.nfreepages,
          mapnum |-> m.mapnum, stuck |-> FALSE, cells |-> m.cells]
  /\ m.freepages \in [Word -> SUBSET Bits]
  /\ m.mapnum \in Word
  /\ F \subseteq UserPages
  /\ m.nfreepages = Cardinality(F)
  /\ \A w \in Word, b \in Bits : b \in m.freepages[w] <=> w * WordBits + b \in F

\* A page is a word and a bit, and nothing else is (memory.c 57-67).
LEMMA PageSplit ==
  ASSUME NEW p \in Page
  PROVE  /\ p \div WordBits \in Word /\ p % WordBits \in Bits
         /\ (p \div WordBits) * WordBits + (p % WordBits) = p
<1> DEFINE q == p \div WordBits
           r == p % WordBits
           n == (MaxPage + WordBits - 1) \div WordBits
           k == (MaxPage + WordBits - 1) % WordBits
<1>1. WordBits \in Nat \ {0} /\ MaxPage \in Nat /\ p \in Nat /\ p <= MaxPage - 1
  BY WordAssumption, PageAssumption DEF Page
<1>2. q \in Nat /\ r \in 0 .. WordBits - 1 /\ p = WordBits * q + r
  BY <1>1
<1>3. n \in Nat /\ k \in 0 .. WordBits - 1 /\ MaxPage + WordBits - 1 = WordBits * n + k
  <2>1. MaxPage + WordBits - 1 \in Nat
    BY <1>1
  <2> QED BY <1>1, <2>1
<1> HIDE DEF q, r, n, k
<1>4. q < n
  <2>1. SUFFICES ASSUME q >= n PROVE FALSE
    BY <1>2, <1>3
  <2>2. PICK d \in Nat : q = n + d
    <3>1. q - n \in Nat /\ q = n + (q - n)
      BY <1>2, <1>3, <2>1
    <3> QED BY <3>1
  <2>3. WordBits * q = WordBits * n + WordBits * d
    BY <1>1, <1>3, <2>2
  <2>4. WordBits * d >= 0 /\ WordBits * d \in Nat /\ WordBits * n \in Nat
    BY <1>1, <1>3, <2>2
  <2> QED BY <1>1, <1>2, <1>3, <2>3, <2>4
<1>5. q \in 0 .. n - 1 /\ q * WordBits + r = p
  BY <1>1, <1>2, <1>3, <1>4
<1> QED BY <1>2, <1>5 DEF q, r, n, Word, FreemapMax, Bits

LEMMA PageJoin ==
  ASSUME NEW w \in Word, NEW b \in Bits
  PROVE  /\ (w * WordBits + b) \div WordBits = w
         /\ (w * WordBits + b) % WordBits = b
         /\ w * WordBits + b \in Nat
<1>1. WordBits \in Nat \ {0} /\ w \in Nat /\ b \in 0 .. WordBits - 1
  <2>1. WordBits \in Nat \ {0} /\ MaxPage + WordBits - 1 \in Nat
    BY WordAssumption, PageAssumption
  <2>2. FreemapMax \in Nat
    BY <2>1 DEF FreemapMax
  <2> QED BY <2>1, <2>2 DEF Word, Bits
<1> QED BY <1>1

LEMMA WordFacts ==
  /\ WordBits \in Nat \ {0} /\ PageStart \in Nat \ {0} /\ MaxPage \in Nat
  /\ PageStart <= MaxPage /\ PageSize \in Nat \ {0}
  /\ Word \subseteq Nat /\ 0 \in Word
  /\ UserPages \subseteq Nat /\ 0 \notin UserPages /\ UserPages \subseteq Page
  /\ IsFiniteSet(UserPages) /\ Cardinality(UserPages) = MaxPage - PageStart
<1>1. /\ WordBits \in Nat \ {0} /\ PageStart \in Nat \ {0} /\ MaxPage \in Nat
      /\ PageStart <= MaxPage /\ PageSize \in Nat \ {0}
  BY WordAssumption, PageAssumption, SpaceAssumption
<1>2. UserPages \subseteq Nat /\ 0 \notin UserPages /\ UserPages \subseteq Page
  BY <1>1 DEF UserPages, Page
<1>3. Word \subseteq Nat /\ 0 \in Word
  <2> DEFINE n == (MaxPage + WordBits - 1) \div WordBits
  <2>1. n \in Nat /\ n > 0
    BY <1>1
  <2> HIDE DEF n
  <2> QED BY <2>1 DEF Word, FreemapMax, n
<1>4. IsFiniteSet(UserPages) /\ Cardinality(UserPages) = MaxPage - PageStart
  <2> DEFINE a == PageStart
             z == MaxPage - 1
  <2>1. a \in Int /\ z \in Int
    BY <1>1
  <2> HIDE DEF a, z
  <2>2. IsFiniteSet(a .. z) /\ Cardinality(a .. z) = IF a > z THEN 0 ELSE z - a + 1
    BY <2>1, FS_Interval, Zenon
  <2>3. (IF a > z THEN 0 ELSE z - a + 1) = MaxPage - PageStart
    BY <1>1 DEF a, z
  <2> QED BY <2>2, <2>3 DEF UserPages, a, z
<1> QED BY <1>1, <1>2, <1>3, <1>4

\* The order of the naturals, as a set of pairs.
NatLess == {p \in Nat \X Nat : p[1] < p[2]}

\* A set of natural numbers that is not empty has a least one, Min's.
LEMMA MinLemma ==
  ASSUME NEW S \in SUBSET Nat, S # {}
  PROVE  Min(S) \in S /\ \A n \in S : Min(S) <= n
<1>1. IsWellFoundedOn(NatLess, Nat)
  BY NatLessThanWellFounded DEF OpToRel, NatLess
<1>2. PICK m \in S : \A n \in S : ~ (<<n, m>> \in NatLess)
  BY <1>1, WFMin
<1>3. \A n \in S : m <= n
  <2>1. ASSUME NEW n \in S, n < m PROVE FALSE
    <3>1. <<n, m>> \in NatLess
      BY <2>1 DEF NatLess
    <3> QED BY <1>2, <3>1
  <2> QED BY <2>1
<1>4. \E x \in S : \A y \in S : x <= y
  BY <1>3
<1> QED BY <1>4 DEF Min

\* The pages of F are finitely many, and those of the map.
LEMMA MapFacts ==
  ASSUME NEW m, NEW F, MapIs(m, F)
  PROVE  /\ IsFiniteSet(F) /\ Cardinality(F) \in Nat /\ Cardinality(F) <= MaxPage - PageStart
         /\ FreePages(m) = F /\ MapIsCounted(m) /\ ~m.stuck
         /\ Cardinality(F) = 0 <=> F = {}
<1>1. F \subseteq UserPages /\ m.nfreepages = Cardinality(F) /\ ~m.stuck
  BY DEF MapIs
<1>2. /\ IsFiniteSet(F) /\ Cardinality(F) \in Nat /\ Cardinality(F) <= MaxPage - PageStart
      /\ Cardinality(F) = 0 <=> F = {}
  <2>1. IsFiniteSet(F) /\ Cardinality(F) <= Cardinality(UserPages)
    BY <1>1, WordFacts, FS_Subset
  <2>2. Cardinality(F) \in Nat
    BY <2>1, FS_CardinalityType
  <2>3. Cardinality(F) = 0 <=> F = {}
    BY <2>1, FS_EmptySet
  <2> QED BY <2>1, <2>2, <2>3, WordFacts
<1>3. \A p \in Page : IsFree(m, p) <=> p \in F
  <2>1. ASSUME NEW p \in Page
        PROVE  IsFree(m, p) <=> p \in F
    <3>1. p \div WordBits \in Word /\ p % WordBits \in Bits
          /\ (p \div WordBits) * WordBits + (p % WordBits) = p
      BY PageSplit
    <3> QED BY <3>1 DEF IsFree, MapIs
  <2> QED BY <2>1
<1>4. FreePages(m) = F
  BY <1>1, <1>3, WordFacts DEF FreePages
<1>5. MapIsCounted(m)
  BY <1>1, <1>4 DEF MapIsCounted, Quantify, FreePages
<1> QED BY <1>1, <1>2, <1>4, <1>5

\* A map is one whatever the cells hold.
LEMMA CellsLemma ==
  ASSUME NEW m, NEW F, MapIs(m, F), NEW u, NEW cells, u = [m EXCEPT !.cells = cells]
  PROVE  MapIs(u, F)
<1>1. /\ m = [freepages |-> m.freepages, nfreepages |-> m.nfreepages,
              mapnum |-> m.mapnum, stuck |-> FALSE, cells |-> m.cells]
  BY DEF MapIs
<1>2. /\ u.freepages = m.freepages /\ u.nfreepages = m.nfreepages /\ u.mapnum = m.mapnum
      /\ u = [freepages |-> u.freepages, nfreepages |-> u.nfreepages,
              mapnum |-> u.mapnum, stuck |-> FALSE, cells |-> u.cells]
  <2>1. u = [[freepages |-> m.freepages, nfreepages |-> m.nfreepages,
              mapnum |-> m.mapnum, stuck |-> FALSE, cells |-> m.cells]
             EXCEPT !.cells = cells]
    BY <1>1
  <2>2. u = [freepages |-> m.freepages, nfreepages |-> m.nfreepages,
             mapnum |-> m.mapnum, stuck |-> FALSE, cells |-> cells]
    BY <2>1
  <2> QED BY <2>2
<1> QED BY <1>2 DEF MapIs

LEMMA CopyLemma ==
  ASSUME NEW m, NEW F, MapIs(m, F), NEW pcb, NEW data, NEW u, NEW n
  PROVE  MapIs(MemoryCopySystemToUser(m, pcb, data, u, n), F)
BY CellsLemma DEF MemoryCopySystemToUser

\* At boot all pages behind the operating system are free (memory.c 77-100).
LEMMA MapAtBoot == MapIs(MemoryModuleInit, UserPages)
<1> DEFINE m == MemoryModuleInit
<1>1. /\ m.freepages = [w \in Word |-> {b \in 0 .. WordBits - 1 :
                                     w * WordBits + b \in PageStart .. MaxPage - 1}]
      /\ m.nfreepages = MaxPage - PageStart /\ m.mapnum = 0
      /\ m = [freepages |-> m.freepages, nfreepages |-> m.nfreepages,
              mapnum |-> m.mapnum, stuck |-> FALSE, cells |-> m.cells]
  BY DEF MemoryModuleInit
<1> HIDE DEF m
<1>2. m.freepages \in [Word -> SUBSET Bits]
  BY <1>1 DEF Bits
<1>3. \A w \in Word, b \in Bits : b \in m.freepages[w] <=> w * WordBits + b \in UserPages
  BY <1>1 DEF Bits, UserPages
<1> QED BY <1>1, <1>2, <1>3, WordFacts DEF MapIs, m

\* The word and bit that an allocation takes: it answers a free page, which is
\* free no more, or page 0 when there is none (memory.c 109-136).
LEMMA AllocPageLemma ==
  ASSUME NEW m, NEW F, MapIs(m, F)
  PROVE  LET a == MemoryAllocPage(m) IN
         IF F = {} THEN a.page = 0 /\ a.mem = m
         ELSE a.page \in F /\ MapIs(a.mem, F \ {a.page})
<1> DEFINE a == MemoryAllocPage(m)
<1>1. /\ m = [freepages |-> m.freepages, nfreepages |-> m.nfreepages,
              mapnum |-> m.mapnum, stuck |-> FALSE, cells |-> m.cells]
      /\ m.freepages \in [Word -> SUBSET Bits] /\ m.mapnum \in Word
      /\ F \subseteq UserPages /\ m.nfreepages = Cardinality(F)
      /\ \A w \in Word, b \in Bits : b \in m.freepages[w] <=> w * WordBits + b \in F
  BY DEF MapIs
<1>2. /\ IsFiniteSet(F) /\ Cardinality(F) \in Nat
      /\ Cardinality(F) = 0 <=> F = {}
  BY MapFacts
<1>3. CASE F = {}
  BY <1>1, <1>2, <1>3 DEF MemoryAllocPage
<1>4. CASE F # {}
  <2> DEFINE w == NextWord(m)
             b == Min(m.freepages[w])
             p == w * WordBits + b
  <2>1. WordsWithFree(m) # {} /\ WordsWithFree(m) \subseteq Word
    <3>1. PICK q \in F : TRUE
      BY <1>4
    <3>2. q \in Page
      BY <1>1, <3>1, WordFacts
    <3>3. /\ q \div WordBits \in Word /\ q % WordBits \in Bits
          /\ (q \div WordBits) * WordBits + (q % WordBits) = q
      BY <3>2, PageSplit
    <3>4. q % WordBits \in m.freepages[q \div WordBits]
      BY <1>1, <3>1, <3>3
    <3> QED BY <3>3, <3>4 DEF WordsWithFree
  <2>2. w \in WordsWithFree(m)
    <3> DEFINE from == {x \in WordsWithFree(m) : x >= m.mapnum}
    <3>1. from \in SUBSET Nat /\ WordsWithFree(m) \in SUBSET Nat
      BY <2>1, WordFacts
    <3>2. from # {} => Min(from) \in from
      BY <3>1, MinLemma
    <3>3. Min(WordsWithFree(m)) \in WordsWithFree(m)
      BY <2>1, <3>1, MinLemma
    <3> QED BY <3>2, <3>3 DEF NextWord
  <2> HIDE DEF w
  <2>3. w \in Word /\ m.freepages[w] # {} /\ m.freepages[w] \subseteq Bits
    BY <1>1, <2>2 DEF WordsWithFree
  <2>4. b \in m.freepages[w] /\ b \in Bits
    <3>1. m.freepages[w] \in SUBSET Nat
      BY <2>3, WordFacts DEF Bits
    <3> QED BY <2>3, <3>1, MinLemma
  <2>5. a = [mem |-> [m EXCEPT !.mapnum = w, !.freepages[w] = @ \ {b},
                               !.nfreepages = @ - 1],
             page |-> p]
    BY <1>1, <1>2, <1>4, <2>1 DEF MemoryAllocPage, w
  <2> HIDE DEF b, a
  <2> DEFINE u == a.mem
  <2>6. /\ u = [freepages |-> u.freepages, nfreepages |-> u.nfreepages,
                mapnum |-> u.mapnum, stuck |-> FALSE, cells |-> u.cells]
        /\ u.freepages = [m.freepages EXCEPT ![w] = @ \ {b}]
        /\ u.nfreepages = m.nfreepages - 1 /\ u.mapnum = w
    <3>1. u = [[freepages |-> m.freepages, nfreepages |-> m.nfreepages,
                mapnum |-> m.mapnum, stuck |-> FALSE, cells |-> m.cells]
               EXCEPT !.mapnum = w, !.freepages[w] = @ \ {b}, !.nfreepages = @ - 1]
      BY <1>1, <2>5
    <3>2. u = [freepages |-> [m.freepages EXCEPT ![w] = @ \ {b}],
               nfreepages |-> m.nfreepages - 1,
               mapnum |-> w, stuck |-> FALSE, cells |-> m.cells]
      BY <3>1
    <3> QED BY <3>2
  <2>7. a.page = p /\ p \in F
    BY <1>1, <2>3, <2>4, <2>5
  <2> HIDE DEF u
  <2>8. u.freepages \in [Word -> SUBSET Bits]
    BY <1>1, <2>3, <2>6
  <2>9. Cardinality(F \ {p}) = u.nfreepages
    <3>1. Cardinality(F \ {p}) = Cardinality(F) - 1
      BY <1>2, <2>7, FS_RemoveElement
    <3> QED BY <1>1, <2>6, <3>1
  <2>10. \A x \in Word, y \in Bits :
           y \in u.freepages[x] <=> x * WordBits + y \in F \ {p}
    <3>1. ASSUME NEW x \in Word, NEW y \in Bits
          PROVE  x * WordBits + y = p <=> x = w /\ y = b
      <4>1. /\ (x * WordBits + y) \div WordBits = x /\ (x * WordBits + y) % WordBits = y
            /\ (w * WordBits + b) \div WordBits = w /\ (w * WordBits + b) % WordBits = b
        BY <2>3, <2>4, PageJoin
      <4> QED BY <4>1
    <3> HIDE DEF p
    <3>2. ASSUME NEW x \in Word, NEW y \in Bits
          PROVE  y \in u.freepages[x] <=> y \in m.freepages[x] /\ ~(x = w /\ y = b)
      BY <1>1, <2>6
    <3> QED BY <1>1, <3>1, <3>2
  <2> HIDE DEF p
  <2>11. MapIs(u, F \ {p})
    BY <1>1, <2>3, <2>6, <2>8, <2>9, <2>10 DEF MapIs
  <2> QED BY <1>4, <2>7, <2>11 DEF u, a
<1> QED BY <1>3, <1>4

\* What is given back is free again (memory.c 145-151).
LEMMA FreePageLemma ==
  ASSUME NEW m, NEW F, MapIs(m, F), NEW p \in UserPages \ F
  PROVE  MapIs(MemoryFreePage(m, p), F \cup {p})
<1> DEFINE u == MemoryFreePage(m, p)
           w == p \div WordBits
           b == p % WordBits
<1>1. /\ m = [freepages |-> m.freepages, nfreepages |-> m.nfreepages,
              mapnum |-> m.mapnum, stuck |-> FALSE, cells |-> m.cells]
      /\ m.freepages \in [Word -> SUBSET Bits] /\ m.mapnum \in Word
      /\ F \subseteq UserPages /\ m.nfreepages = Cardinality(F)
      /\ \A x \in Word, y \in Bits : y \in m.freepages[x] <=> x * WordBits + y \in F
  BY DEF MapIs
<1>2. IsFiniteSet(F) /\ Cardinality(F) \in Nat
  BY MapFacts
<1>3. w \in Word /\ b \in Bits /\ w * WordBits + b = p
  BY PageSplit, WordFacts
<1>4. u = [[m EXCEPT !.freepages[w] = @ \cup {b}] EXCEPT !.nfreepages = @ + 1]
  BY DEF MemoryFreePage, MemorySetFreemap
<1> HIDE DEF u, w, b
<1>5. u = [freepages |-> [m.freepages EXCEPT ![w] = @ \cup {b}],
           nfreepages |-> m.nfreepages + 1,
           mapnum |-> m.mapnum, stuck |-> FALSE, cells |-> m.cells]
  <2>1. u = [[[freepages |-> m.freepages, nfreepages |-> m.nfreepages,
               mapnum |-> m.mapnum, stuck |-> FALSE, cells |-> m.cells]
              EXCEPT !.freepages[w] = @ \cup {b}] EXCEPT !.nfreepages = @ + 1]
    BY <1>1, <1>4
  <2> QED BY <2>1
<1>6. /\ u = [freepages |-> u.freepages, nfreepages |-> u.nfreepages,
              mapnum |-> u.mapnum, stuck |-> FALSE, cells |-> u.cells]
      /\ u.freepages = [m.freepages EXCEPT ![w] = @ \cup {b}]
      /\ u.nfreepages = m.nfreepages + 1 /\ u.mapnum = m.mapnum
  BY <1>5
<1>7. u.freepages \in [Word -> SUBSET Bits]
  BY <1>1, <1>3, <1>6
<1>8. Cardinality(F \cup {p}) = u.nfreepages
  <2>1. Cardinality(F \cup {p}) = Cardinality(F) + 1
    BY <1>2, FS_AddElement
  <2> QED BY <1>1, <1>6, <2>1
<1>9. ASSUME NEW x \in Word, NEW y \in Bits
      PROVE  y \in u.freepages[x] <=> x * WordBits + y \in F \cup {p}
  <2>1. x * WordBits + y = p <=> x = w /\ y = b
    <3>1. (x * WordBits + y) \div WordBits = x /\ (x * WordBits + y) % WordBits = y
      BY PageJoin
    <3> QED BY <1>3, <3>1 DEF w, b
  <2>2. y \in u.freepages[x] <=> y \in m.freepages[x] \/ (x = w /\ y = b)
    BY <1>1, <1>6
  <2> QED BY <1>1, <2>1, <2>2
<1>10. F \cup {p} \subseteq UserPages
  BY <1>1
<1> QED BY <1>1, <1>6, <1>7, <1>8, <1>9, <1>10 DEF MapIs, u

\* An entry of a page table names its page (memory.c 260-277).
LEMMA PteLemma ==
  ASSUME NEW p \in UserPages
  PROVE  MemorySetupPte(p) \div PageSize = p /\ MemorySetupPte(p) \in Nat
<1>1. p \in Nat /\ PageSize \in Nat \ {0}
  BY WordFacts
<1> QED BY <1>1 DEF MemorySetupPte

\* The two pages that a PCB names.
UserPage(pcb)  == pcb.pagetable[0] \div PageSize

\* ProcessFreeResources gives both pages back (process.c 131-137).
LEMMA FreeResourcesLemma ==
  ASSUME NEW m, NEW F, MapIs(m, F), NEW pcb,
         UserPage(pcb) \in UserPages \ F, pcb.sysStack \in UserPages \ F,
         UserPage(pcb) # pcb.sysStack
  PROVE  MapIs(FreeResources(m, pcb), F \cup {UserPage(pcb), pcb.sysStack})
<1> DEFINE u == UserPage(pcb)
           s == pcb.sysStack
           v == MemoryFreePage(m, u)
<1>1. FreeResources(m, pcb) = MemoryFreePage(v, s)
  BY DEF FreeResources, MemoryFreePte, UserPage
<1>2. MapIs(v, F \cup {u})
  BY FreePageLemma
<1> HIDE DEF v, u, s
<1>3. s \in UserPages \ (F \cup {u})
  BY DEF u, s
<1>4. MapIs(MemoryFreePage(v, s), (F \cup {u}) \cup {s})
  BY <1>2, <1>3, FreePageLemma
<1>5. (F \cup {u}) \cup {s} = F \cup {u, s}
  OBVIOUS
<1> QED BY <1>1, <1>4, <1>5 DEF u, s

-----------------------------------------------------------------------------
(* The descriptors.                                                        *)

Descs == [Slot -> [flags : 0 .. ReadWrite, name : Names \cup {NoName}, pos : Nat]]
Modes == 1 .. ReadWrite

\* Slot fd of t has been given to an open file.
Taking(t, fd, mode, name, pos) ==
  [t EXCEPT ![fd] = [flags |-> mode, name |-> name, pos |-> pos]]

LEMMA SlotFacts ==
  ASSUME NEW t
  PROVE  /\ MaxOpen \in Nat \ {0} /\ 0 \in Slot /\ Slot \subseteq Nat
         /\ OpenSlots(t) \subseteq Slot /\ IsFiniteSet(OpenSlots(t))
         /\ Cardinality(OpenSlots(t)) \in 0 .. MaxOpen
         /\ Cardinality(OpenSlots(t)) = MaxOpen <=> OpenSlots(t) = Slot
<1>1. MaxOpen \in Nat \ {0} /\ 0 \in Slot /\ Slot \subseteq Nat
  BY MaxOpenAssumption DEF Slot
<1>2. IsFiniteSet(Slot) /\ Cardinality(Slot) = MaxOpen
  <2> DEFINE z == MaxOpen - 1
  <2>1. z \in Int /\ 0 \in Int
    BY <1>1
  <2> HIDE DEF z
  <2>2. IsFiniteSet(0 .. z) /\ Cardinality(0 .. z) = IF 0 > z THEN 0 ELSE z - 0 + 1
    BY <2>1, FS_Interval, Zenon
  <2>3. (IF 0 > z THEN 0 ELSE z - 0 + 1) = MaxOpen
    BY <1>1 DEF z
  <2> QED BY <2>2, <2>3 DEF Slot, z
<1>3. OpenSlots(t) \subseteq Slot
  BY DEF OpenSlots
<1>4. /\ IsFiniteSet(OpenSlots(t)) /\ Cardinality(OpenSlots(t)) <= Cardinality(Slot)
      /\ Cardinality(OpenSlots(t)) = Cardinality(Slot) => OpenSlots(t) = Slot
  BY <1>2, <1>3, FS_Subset
<1>5. Cardinality(OpenSlots(t)) \in Nat
  BY <1>4, FS_CardinalityType
<1> QED BY <1>1, <1>2, <1>3, <1>4, <1>5

LEMMA PairLemma ==
  ASSUME NEW a \in Int, NEW b \in Int
  PROVE  /\ Min({a, b}) = IF a <= b THEN a ELSE b
         /\ Max({a, b}) = IF a <= b THEN b ELSE a
BY DEF Min, Max

\* What the routines see of a slot that has been taken.
LEMMA TakingLemma ==
  ASSUME NEW t \in Descs, NEW fd \in Slot \ OpenSlots(t), NEW mode \in Modes,
         NEW name \in Names, NEW pos, NEW u, u = Taking(t, fd, mode, name, pos)
  PROVE  /\ u[fd].name = name /\ u[fd].pos = pos
         /\ pos \in Nat => u \in Descs
         /\ OpenSlots(u) = OpenSlots(t) \cup {fd}
         /\ FdValid(u, fd) <=> fd > 0
         /\ fd > 0 => /\ FsClose(u, fd) \in Descs
                      /\ OpenSlots(FsClose(u, fd)) = OpenSlots(t)
         /\ ~(fd > 0) => FsClose(u, fd) = u
<1> DEFINE e == [flags |-> mode, name |-> name, pos |-> pos]
<1>0. u = [t EXCEPT ![fd] = e]
  BY DEF Taking
<1>1. DOMAIN t = Slot /\ fd \in Slot /\ mode # 0 /\ mode \in 0 .. ReadWrite
  BY DEF Descs, Modes, ReadWrite
<1>2. u[fd] = e /\ DOMAIN u = Slot /\ \A s \in Slot : s # fd => u[s] = t[s]
  BY <1>0, <1>1
<1>3. pos \in Nat => u \in Descs
  BY <1>0, <1>1 DEF Descs
<1>4. OpenSlots(u) = OpenSlots(t) \cup {fd}
  BY <1>1, <1>2 DEF OpenSlots
<1>5. FdValid(u, fd) <=> fd > 0
  <2>1. fd < MaxOpen /\ u[fd].flags # 0
    BY <1>1, <1>2, MaxOpenAssumption DEF Slot
  <2> QED BY <2>1 DEF FdValid
<1>6. ASSUME fd > 0
      PROVE  FsClose(u, fd) \in Descs /\ OpenSlots(FsClose(u, fd)) = OpenSlots(t)
  <2>1. FsClose(u, fd) = [u EXCEPT ![fd] = FreeSlot]
    BY <1>5, <1>6 DEF FsClose
  <2>2. FsClose(u, fd) = [t EXCEPT ![fd] = FreeSlot]
    BY <1>0, <2>1
  <2>3. FreeSlot \in [flags : 0 .. ReadWrite, name : Names \cup {NoName}, pos : Nat]
        /\ FreeSlot.flags = 0
    BY DEF FreeSlot, ReadWrite
  <2>4. [t EXCEPT ![fd] = FreeSlot] \in Descs
    BY <2>3 DEF Descs
  <2>5. OpenSlots([t EXCEPT ![fd] = FreeSlot]) = OpenSlots(t)
    BY <1>1, <2>3 DEF OpenSlots
  <2> QED BY <2>2, <2>4, <2>5
<1>7. ~(fd > 0) => FsClose(u, fd) = u
  BY <1>5 DEF FsClose
<1>8. u[fd].name = name /\ u[fd].pos = pos
  BY <1>2
<1> HIDE DEF e
<1> QED BY <1>3, <1>4, <1>5, <1>6, <1>7, <1>8

\* A new position changes that and nothing else.
LEMMA PositionLemma ==
  ASSUME NEW t \in Descs, NEW fd \in Slot \ OpenSlots(t), NEW mode \in Modes,
         NEW name \in Names, NEW pos, NEW x
  PROVE  [Taking(t, fd, mode, name, pos) EXCEPT ![fd].pos = x]
           = Taking(t, fd, mode, name, x)
<1> DEFINE e == [flags |-> mode, name |-> name, pos |-> pos]
           u == [t EXCEPT ![fd] = e]
<1>1. DOMAIN t = Slot /\ fd \in Slot
  BY DEF Descs
<1>2. u[fd] = e
  BY <1>1
<1>3. [u EXCEPT ![fd].pos = x] = [u EXCEPT ![fd] = [e EXCEPT !.pos = x]]
  BY <1>2
<1>4. [e EXCEPT !.pos = x] = [flags |-> mode, name |-> name, pos |-> x]
  OBVIOUS
<1>5. Taking(t, fd, mode, name, pos) = u
  BY DEF Taking
<1> QED BY <1>3, <1>4, <1>5 DEF Taking

\* FsOpen takes the first free slot when the host has the file.
LEMMA FsOpenLemma ==
  ASSUME NEW t \in Descs, NEW name \in Names, NEW mode \in Modes
  PROVE  LET o == FsOpen(t, name, mode) IN
         IF OpenSlots(t) # Slot /\ Exists(name)
         THEN /\ o.fd \in Slot \ OpenSlots(t)
              /\ 0 \notin OpenSlots(t) => o.fd = 0
              /\ o.table = Taking(t, o.fd, mode, name, 0)
         ELSE o.fd = -1 /\ o.table = t
<1> DEFINE free == {s \in Slot : t[s].flags = 0}
           o == FsOpen(t, name, mode)
<1>1. free = Slot \ OpenSlots(t) /\ free \subseteq Nat
  BY SlotFacts DEF OpenSlots
<1>2. free # {} => Min(free) \in free /\ \A s \in free : Min(free) <= s
  BY <1>1, MinLemma
<1>3. (~Host[name].dlx /\ Host[name].size < 0) <=> ~Exists(name)
  BY HostAssumption DEF Exists
<1>4. mode # 0
  BY DEF Modes
<1>5. CASE free = {} \/ ~Exists(name)
  <2>1. o = [fd |-> -1, table |-> t]
    BY <1>3, <1>5 DEF FsOpen
  <2>2. ~(OpenSlots(t) # Slot /\ Exists(name))
    BY <1>1, <1>5 DEF OpenSlots
  <2> HIDE DEF o
  <2> QED BY <2>1, <2>2 DEF o
<1>6. CASE free # {} /\ Exists(name)
  <2>1. o = [fd |-> Min(free), table |-> Taking(t, Min(free), mode, name, 0)]
    BY <1>3, <1>4, <1>6 DEF FsOpen, Taking
  <2>2. 0 \notin OpenSlots(t) => Min(free) = 0
    <3>1. ASSUME 0 \notin OpenSlots(t) PROVE Min(free) = 0
      <4>1. 0 \in free
        BY <1>1, <3>1, SlotFacts
      <4>2. Min(free) \in Nat /\ Min(free) <= 0
        BY <1>1, <1>2, <4>1
      <4> QED BY <4>2
    <3> QED BY <3>1
  <2>3. Min(free) \in Slot \ OpenSlots(t)
    BY <1>1, <1>2, <1>6
  <2> HIDE DEF o, free
  <2> QED BY <1>1, <1>6, <2>1, <2>2, <2>3 DEF o, free
<1> QED BY <1>5, <1>6

\* A read of an open file moves its position only; at the beginning it gets
\* all that is asked for if the file of the host has it.
LEMMA FsReadLemma ==
  ASSUME NEW t \in Descs, NEW fd \in Slot \ OpenSlots(t), NEW mode \in Modes,
         NEW name \in Names, NEW n \in Nat
  PROVE  LET r == FsRead(Taking(t, fd, mode, name, 0), fd, n)
             got == IF Host[name].dlx THEN 1
                    ELSE IF Host[name].size >= n THEN n
                    ELSE IF Host[name].size < 0 THEN 0 ELSE Host[name].size
         IN  IF fd > 0
             THEN /\ r.got = got
                  /\ \E y \in Nat : r.table = Taking(t, fd, mode, name, y)
             ELSE r.got = -1 /\ r.table = Taking(t, fd, mode, name, 0)
<1> DEFINE u == Taking(t, fd, mode, name, 0)
           got == IF Host[name].dlx THEN 1
                  ELSE IF Host[name].size >= n THEN n
                  ELSE IF Host[name].size < 0 THEN 0 ELSE Host[name].size
           r == FsRead(u, fd, n)
<1>1. /\ u[fd].name = name /\ u[fd].pos = 0
      /\ FdValid(u, fd) <=> fd > 0
      /\ \A x : [u EXCEPT ![fd].pos = x] = Taking(t, fd, mode, name, x)
  BY TakingLemma, PositionLemma
<1>2. Host[name].size \in Int /\ Host[name].dlx \in BOOLEAN /\ got \in Nat
  BY HostAssumption
<1> HIDE DEF u
<1>3. Got(u, fd, n) = got
  <2> DEFINE size == Host[name].size
  <2>1. u[fd].name = name /\ u[fd].pos = 0 /\ size \in Int
    BY <1>1, <1>2
  <2>2. Got(u, fd, n) = IF Host[name].dlx THEN 1 ELSE Min({n, Max({0, size - 0})})
    BY <2>1 DEF Got
  <2> HIDE DEF size
  <2>3. size - 0 = size
    BY <2>1
  <2>4. Max({0, size}) = IF 0 <= size THEN size ELSE 0
    <3>1. 0 \in Int /\ size \in Int
      BY <2>1
    <3> QED BY <3>1, PairLemma, Zenon
  <2>5. Max({0, size}) \in Int
    BY <2>1, <2>4
  <2>6. Min({n, Max({0, size})}) = IF n <= Max({0, size}) THEN n ELSE Max({0, size})
    BY <2>5, PairLemma
  <2>7. Min({n, Max({0, size})}) = IF size >= n THEN n ELSE IF size < 0 THEN 0 ELSE size
    BY <2>1, <2>4, <2>6
  <2> QED BY <2>2, <2>3, <2>7 DEF size
<1> HIDE DEF got
<1>4. CASE fd > 0
  <2>1. r = [got |-> got,
             table |-> IF Host[name].dlx THEN u ELSE [u EXCEPT ![fd].pos = @ + got]]
    <3>1. u[fd].name = name
      BY <1>1
    <3> QED BY <1>1, <1>3, <1>4, <3>1 DEF FsRead
  <2>2. [u EXCEPT ![fd].pos = @ + got] = [u EXCEPT ![fd].pos = 0 + got]
    BY <1>1
  <2>3. [u EXCEPT ![fd].pos = 0 + got] = Taking(t, fd, mode, name, 0 + got)
    BY <1>1
  <2>4. 0 + got \in Nat
    BY <1>2
  <2>5. r.got = got
    BY <2>1
  <2>6. r.table = IF Host[name].dlx THEN u ELSE [u EXCEPT ![fd].pos = @ + got]
    BY <2>1
  <2> HIDE DEF r
  <2>7. \E y \in Nat : r.table = Taking(t, fd, mode, name, y)
    BY <2>2, <2>3, <2>4, <2>6 DEF u
  <2> QED BY <1>4, <2>5, <2>7 DEF u, r, got
<1>5. CASE ~(fd > 0)
  <2>1. r = [got |-> -1, table |-> u]
    BY <1>1, <1>5 DEF FsRead
  <2>2. r.got = -1 /\ r.table = u
    BY <2>1
  <2> HIDE DEF r
  <2> QED BY <1>5, <2>2 DEF u, r, got
<1> QED BY <1>4, <1>5

\* A sum over no more than one line is the width of that line.
LEMMA OffsetLemma ==
  ASSUME NEW name \in Executable
  PROVE  Offset(name, 2) \in Nat
<1> DEFINE lines == Lines[name]
           w == [k \in 1 .. Len(lines) |-> lines[k].width]
           P(g) == g = [s \in SUBSET (1 .. 2 - 1) |->
                          IF s = {} THEN 0
                          ELSE w[CHOOSE x \in s : TRUE] + g[s \ {CHOOSE x \in s : TRUE}]]
           iter == [s \in SUBSET (1 .. 2 - 1) |-> IF s = {} THEN 0 ELSE w[1] + 0]
<1>1. 1 .. 2 - 1 = {1}
  OBVIOUS
<1>2. w[1] \in Nat
  <2>1. lines \in Seq([width : Nat, addr : Nat \cup {NoAddr}, bytes : Seq(Nat)])
        /\ lines # <<>>
    BY LineAssumption, ExecutableAssumption
  <2> DEFINE L == [width : Nat, addr : Nat \cup {NoAddr}, bytes : Seq(Nat)]
  <2>2. ASSUME NEW S, NEW q \in Seq(S), q # <<>>
        PROVE  Len(q) \in Nat /\ Len(q) >= 1 /\ q[1] \in S
    BY <2>2
  <2> HIDE DEF L, lines
  <2>3. Len(lines) \in Nat /\ Len(lines) >= 1 /\ lines[1] \in L
    BY <2>1, <2>2, Zenon DEF L
  <2>4. lines[1].width \in Nat
    BY <2>3 DEF L
  <2>5. 1 \in 1 .. Len(lines)
    BY <2>3
  <2> QED BY <2>4, <2>5 DEF lines
<1> HIDE DEF w, lines
<1>3. ASSUME NEW s \in SUBSET {1}, s # {}
      PROVE  (CHOOSE x \in s : TRUE) = 1 /\ s \ {CHOOSE x \in s : TRUE} = {}
  <2>1. s = {1}
    BY <1>3
  <2> QED BY <2>1
<1>4. P(iter)
  <2>1. {} \in SUBSET {1}
    OBVIOUS
  <2>2. ASSUME NEW s \in SUBSET {1}
        PROVE  iter[s] = (IF s = {} THEN 0
                          ELSE w[CHOOSE x \in s : TRUE] + iter[s \ {CHOOSE x \in s : TRUE}])
    BY <1>1, <1>3, <2>1, Zenon
  <2> QED BY <1>1, <2>2, Zenon
<1>5. ASSUME NEW g, P(g) PROVE g[1 .. 2 - 1] = w[1] + 0
  <2>1. {} \in SUBSET {1} /\ {1} \in SUBSET {1} /\ {1} # {}
    OBVIOUS
  <2>2. g[{}] = 0
    BY <1>1, <1>5, <2>1
  <2>3. (CHOOSE x \in {1} : TRUE) = 1 /\ {1} \ {CHOOSE x \in {1} : TRUE} = {}
    BY <1>3, <2>1
  <2>4. g[{1}] = w[CHOOSE x \in {1} : TRUE] + g[{1} \ {CHOOSE x \in {1} : TRUE}]
    BY <1>1, <1>5, <2>1
  <2> QED BY <1>1, <2>2, <2>3, <2>4
<1> HIDE DEF iter
<1>6. (CHOOSE g : P(g))[1 .. 2 - 1] \in Nat
  <2> HIDE DEF P
  <2> QED BY <1>2, <1>4, <1>5
<1> QED BY <1>6 DEF Offset, Width, FoldFunctionOnSet, MapThenFoldSet, w, lines

\* What is left open when an executable is looked at: its own slot, which a
\* text keeps, and which also slot 0 keeps (process.c 592-632).
LEMMA CodeInfoLemma ==
  ASSUME NEW t \in Descs, NEW name \in Names
  PROVE  LET i == ProcessGetCodeInfo(t, name) IN
         IF OpenSlots(t) # Slot /\ Exists(name)
         THEN \E fd \in Slot \ OpenSlots(t) :
                /\ 0 \notin OpenSlots(t) => fd = 0
                /\ IF fd > 0 /\ name \in Executable
                   THEN /\ i.fd = fd
                        /\ \E pos \in Nat : i.table = Taking(t, fd, ReadMode, name, pos)
                   ELSE /\ i.fd = -1 /\ i.table \in Descs
                        /\ OpenSlots(i.table) = IF fd = 0 \/ IsText(name)
                                                THEN OpenSlots(t) \cup {fd} ELSE OpenSlots(t)
         ELSE i.fd = -1 /\ i.table = t
<1> DEFINE i == ProcessGetCodeInfo(t, name)
           o == FsOpen(t, name, ReadMode)
<1>1. ReadMode \in Modes
  BY DEF ReadMode, Modes, ReadWrite
<1>2. IF OpenSlots(t) # Slot /\ Exists(name)
      THEN /\ o.fd \in Slot \ OpenSlots(t)
           /\ 0 \notin OpenSlots(t) => o.fd = 0
           /\ o.table = Taking(t, o.fd, ReadMode, name, 0)
      ELSE o.fd = -1 /\ o.table = t
  BY <1>1, FsOpenLemma
<1> DEFINE r == FsRead(o.table, o.fd, InfoChars)
<1>3. i = IF o.fd < 0 THEN o
          ELSE IF r.got # InfoChars THEN [fd |-> -1, table |-> FsClose(r.table, o.fd)]
          ELSE IF name \notin Executable THEN [fd |-> -1, table |-> r.table]
          ELSE [fd |-> o.fd, table |-> FsSeekSet(r.table, o.fd, Offset(name, 2))]
  BY DEF ProcessGetCodeInfo
<1> HIDE DEF i
<1>4. CASE ~(OpenSlots(t) # Slot /\ Exists(name))
  <2>1. o.fd < 0 /\ o.fd = -1 /\ o.table = t
    BY <1>2, <1>4
  <2>2. i = o
    BY <1>3, <2>1
  <2> QED BY <1>4, <2>1, <2>2 DEF i
<1>5. CASE OpenSlots(t) # Slot /\ Exists(name)
  <2> DEFINE fd == o.fd
             u(p) == Taking(t, fd, ReadMode, name, p)
  <2>1. /\ fd \in Slot \ OpenSlots(t) /\ fd \in Nat
        /\ 0 \notin OpenSlots(t) => fd = 0
        /\ o.table = u(0)
    BY <1>2, <1>5, SlotFacts
  <2>2. InfoChars \in Nat /\ InfoChars > 1 /\ Host[name].size \in Nat \cup {-1}
        /\ Host[name].dlx \in BOOLEAN
    BY InfoAssumption, HostAssumption
  <2>3. IF fd > 0
        THEN /\ r.got = IF Host[name].dlx THEN 1
                        ELSE IF Host[name].size >= InfoChars THEN InfoChars
                        ELSE IF Host[name].size < 0 THEN 0 ELSE Host[name].size
             /\ \E y \in Nat : r.table = u(y)
        ELSE r.got = -1 /\ r.table = u(0)
    BY <1>1, <2>1, <2>2, FsReadLemma
  <2>4. PICK y \in Nat : r.table = u(y)
    BY <2>3
  <2>5. ASSUME NEW p \in Nat
        PROVE  /\ u(p) \in Descs /\ OpenSlots(u(p)) = OpenSlots(t) \cup {fd}
               /\ u(p)[fd].name = name
               /\ FdValid(u(p), fd) <=> fd > 0
               /\ fd > 0 => /\ FsClose(u(p), fd) \in Descs
                            /\ OpenSlots(FsClose(u(p), fd)) = OpenSlots(t)
               /\ ~(fd > 0) => FsClose(u(p), fd) = u(p)
               /\ \A x : [u(p) EXCEPT ![fd].pos = x] = u(x)
    <3> HIDE DEF fd
    <3>1. fd \in Slot \ OpenSlots(t) /\ ReadMode \in Modes
      BY <1>1, <2>1
    <3>2. /\ u(p)[fd].name = name
          /\ p \in Nat => u(p) \in Descs
          /\ OpenSlots(u(p)) = OpenSlots(t) \cup {fd}
          /\ FdValid(u(p), fd) <=> fd > 0
          /\ fd > 0 => /\ FsClose(u(p), fd) \in Descs
                       /\ OpenSlots(FsClose(u(p), fd)) = OpenSlots(t)
          /\ ~(fd > 0) => FsClose(u(p), fd) = u(p)
      BY <3>1, TakingLemma
    <3>3. \A x : [u(p) EXCEPT ![fd].pos = x] = u(x)
      BY <3>1, PositionLemma
    <3> QED BY <3>2, <3>3
  <2>6. name \in Executable => ~Host[name].dlx /\ Host[name].size >= InfoChars
    BY ExecutableAssumption
  <2>7. r.got = InfoChars <=> fd > 0 /\ ~Host[name].dlx /\ Host[name].size >= InfoChars
    BY <2>2, <2>3
  <2>8. \/ ~(fd > 0) /\ fd = 0
        \/ fd > 0 /\ fd # 0
    BY <2>1
  <2>9. ~(fd < 0)
    BY <2>1
  <2>10. CASE fd > 0 /\ name \in Executable
    <3>1. i = [fd |-> fd, table |-> FsSeekSet(u(y), fd, Offset(name, 2))]
      BY <1>3, <2>4, <2>6, <2>7, <2>9, <2>10
    <3>2. FsSeekSet(u(y), fd, Offset(name, 2)) = u(Offset(name, 2))
      <4>1. u(y)[fd].name = name /\ FdValid(u(y), fd)
            /\ [u(y) EXCEPT ![fd].pos = Offset(name, 2)] = u(Offset(name, 2))
        BY <2>5, <2>10
      <4> HIDE DEF u, fd
      <4> QED BY <2>6, <2>10, <4>1 DEF FsSeekSet
    <3>3. Offset(name, 2) \in Nat
      BY <2>10, OffsetLemma
    <3>4. i.fd = fd /\ i.table = u(Offset(name, 2))
      BY <3>1, <3>2
    <3> HIDE DEF fd
    <3> QED BY <1>5, <2>1, <2>10, <3>3, <3>4 DEF i
  <2>11. CASE ~(fd > 0 /\ name \in Executable)
    <3>1. /\ i.fd = -1 /\ i.table \in Descs
          /\ OpenSlots(i.table) = IF fd = 0 \/ IsText(name)
                                  THEN OpenSlots(t) \cup {fd} ELSE OpenSlots(t)
      <4> HIDE DEF fd, u
      <4>1. CASE r.got # InfoChars
        <5>1. i = [fd |-> -1, table |-> FsClose(u(y), fd)]
          BY <1>3, <2>4, <2>9, <4>1 DEF fd
        <5>2. i.fd = -1 /\ i.table = FsClose(u(y), fd)
          BY <5>1
        <5>3. fd > 0 => ~IsText(name)
          BY <2>7, <4>1 DEF IsText
        <5> QED BY <2>5, <2>8, <5>2, <5>3
      <4>2. CASE r.got = InfoChars
        <5>1. fd > 0 /\ name \notin Executable /\ IsText(name)
          BY <2>7, <2>11, <4>2 DEF IsText
        <5>2. i = [fd |-> -1, table |-> u(y)]
          BY <1>3, <2>4, <2>9, <4>2, <5>1 DEF fd
        <5>3. i.fd = -1 /\ i.table = u(y)
          BY <5>2
        <5> QED BY <2>5, <5>1, <5>3
      <4> QED BY <4>1, <4>2
    <3> HIDE DEF fd
    <3> QED BY <1>5, <2>1, <2>11, <3>1 DEF i
  <2> QED BY <2>10, <2>11
<1> QED BY <1>4, <1>5

\* A write moves the position only.
LEMMA FsWriteLemma ==
  ASSUME NEW t \in Descs, NEW fd \in Slot \ OpenSlots(t), NEW mode \in Modes,
         NEW name \in Names, NEW n \in Nat
  PROVE  LET r == FsWrite(Taking(t, fd, mode, name, 0), fd, n) IN
         IF fd > 0
         THEN r.got = n /\ \E y \in Nat : r.table = Taking(t, fd, mode, name, y)
         ELSE r.got = -1 /\ r.table = Taking(t, fd, mode, name, 0)
<1> DEFINE u == Taking(t, fd, mode, name, 0)
           r == FsWrite(u, fd, n)
<1>1. /\ u[fd].pos = 0
      /\ FdValid(u, fd) <=> fd > 0
      /\ \A x : [u EXCEPT ![fd].pos = x] = Taking(t, fd, mode, name, x)
  BY TakingLemma, PositionLemma
<1> HIDE DEF u
<1>2. CASE fd > 0
  <2>1. r = [got |-> n, table |-> [u EXCEPT ![fd].pos = @ + n]]
    BY <1>1, <1>2 DEF FsWrite
  <2>2. [u EXCEPT ![fd].pos = @ + n] = [u EXCEPT ![fd].pos = 0 + n]
    BY <1>1
  <2>3. [u EXCEPT ![fd].pos = 0 + n] = Taking(t, fd, mode, name, 0 + n)
    BY <1>1
  <2>4. r.got = n /\ r.table = [u EXCEPT ![fd].pos = @ + n]
    BY <2>1
  <2>5. 0 + n \in Nat
    OBVIOUS
  <2> HIDE DEF r
  <2> QED BY <1>2, <2>2, <2>3, <2>4, <2>5 DEF u, r
<1>3. CASE ~(fd > 0)
  <2>1. r = [got |-> -1, table |-> u]
    BY <1>1, <1>3 DEF FsWrite
  <2>2. r.got = -1 /\ r.table = u
    BY <2>1
  <2> HIDE DEF r
  <2> QED BY <1>3, <2>2 DEF u, r
<1> QED BY <1>2, <1>3

\* A file is opened, read or written from its beginning, and closed.
Visit(t, name, mode, n, transfers) ==
  LET open == FsOpen(t, name, mode)
      at   == FsSeekSet(open.table, open.fd, 0)
      done == IF transfers = "reads" THEN FsRead(at, open.fd, n)
              ELSE FsWrite(at, open.fd, n)
  IN  [table |-> FsClose(done.table, open.fd), got |-> done.got]

\* It leaves no slot taken, except slot 0, which is not closed, and it gets
\* what it asks for when there is another slot.
LEMMA VisitLemma ==
  ASSUME NEW t \in Descs, NEW name \in Names, NEW mode \in Modes, NEW n \in Nat,
         NEW transfers
  PROVE  LET v == Visit(t, name, mode, n, transfers) IN
         IF OpenSlots(t) # Slot /\ Exists(name)
         THEN /\ v.table \in Descs
              /\ OpenSlots(v.table) = OpenSlots(t) \cup {0} \/ OpenSlots(v.table) = OpenSlots(t)
              /\ 0 \notin OpenSlots(t) => 0 \in OpenSlots(v.table)
              /\ 0 \in OpenSlots(t) /\ ~Host[name].dlx /\ Host[name].size >= n
                   => v.got = n
         ELSE v.table = t /\ v.got = -1
<1> DEFINE v == Visit(t, name, mode, n, transfers)
           o == FsOpen(t, name, mode)
           at == FsSeekSet(o.table, o.fd, 0)
           r == IF transfers = "reads" THEN FsRead(at, o.fd, n) ELSE FsWrite(at, o.fd, n)
<1>1. v.table = FsClose(r.table, o.fd) /\ v.got = r.got
  BY DEF Visit
<1>2. IF OpenSlots(t) # Slot /\ Exists(name)
      THEN /\ o.fd \in Slot \ OpenSlots(t)
           /\ 0 \notin OpenSlots(t) => o.fd = 0
           /\ o.table = Taking(t, o.fd, mode, name, 0)
      ELSE o.fd = -1 /\ o.table = t
  BY FsOpenLemma
<1> HIDE DEF v, o
<1>3. CASE ~(OpenSlots(t) # Slot /\ Exists(name))
  <2>1. o.fd = -1 /\ o.table = t
    BY <1>2, <1>3
  <2>2. \A x : ~FdValid(x, -1)
    BY DEF FdValid
  <2>3. at = t
    BY <2>1, <2>2 DEF FsSeekSet
  <2>4. FsRead(t, -1, n).table = t /\ FsRead(t, -1, n).got = -1
    BY <2>2 DEF FsRead
  <2>5. FsWrite(t, -1, n).table = t /\ FsWrite(t, -1, n).got = -1
    BY <2>2 DEF FsWrite
  <2> HIDE DEF at
  <2>6. r.table = t /\ r.got = -1
    BY <2>1, <2>3, <2>4, <2>5
  <2> HIDE DEF r
  <2>7. FsClose(t, -1) = t
    BY <2>2 DEF FsClose
  <2> QED BY <1>1, <1>3, <2>1, <2>6, <2>7 DEF v
<1>4. CASE OpenSlots(t) # Slot /\ Exists(name)
  <2> DEFINE fd == o.fd
             u(p) == Taking(t, fd, mode, name, p)
  <2>1. /\ fd \in Slot \ OpenSlots(t) /\ fd \in Nat
        /\ 0 \notin OpenSlots(t) => fd = 0
        /\ o.table = u(0)
    BY <1>2, <1>4, SlotFacts
  <2> HIDE DEF fd
  <2>2. ASSUME NEW p \in Nat
        PROVE  /\ u(p) \in Descs /\ OpenSlots(u(p)) = OpenSlots(t) \cup {fd}
               /\ fd > 0 => /\ FsClose(u(p), fd) \in Descs
                            /\ OpenSlots(FsClose(u(p), fd)) = OpenSlots(t)
               /\ ~(fd > 0) => FsClose(u(p), fd) = u(p)
    BY <2>1, TakingLemma
  <2>3. [u(0) EXCEPT ![fd].pos = 0] = u(0)
    BY <2>1, PositionLemma
  <2>4. at = u(0)
    <3>1. FsSeekSet(u(0), fd, 0) = u(0)
      <4> HIDE DEF u
      <4> QED BY <2>3 DEF FsSeekSet
    <3> QED BY <2>1, <3>1 DEF fd
  <2> HIDE DEF at
  <2>5. r = IF transfers = "reads" THEN FsRead(u(0), fd, n) ELSE FsWrite(u(0), fd, n)
    BY <2>4 DEF fd
  <2> DEFINE got == IF Host[name].dlx THEN 1
                    ELSE IF Host[name].size >= n THEN n
                    ELSE IF Host[name].size < 0 THEN 0 ELSE Host[name].size
             x == FsRead(u(0), fd, n)
             y == FsWrite(u(0), fd, n)
  <2>6. IF fd > 0 THEN x.got = got /\ \E p \in Nat : x.table = u(p)
        ELSE x.got = -1 /\ x.table = u(0)
    BY <2>1, FsReadLemma
  <2>7. IF fd > 0 THEN y.got = n /\ \E p \in Nat : y.table = u(p)
        ELSE y.got = -1 /\ y.table = u(0)
    BY <2>1, FsWriteLemma
  <2>8. fd > 0 /\ ~Host[name].dlx /\ Host[name].size >= n => got = n
    OBVIOUS
  <2> HIDE DEF u, got, x, y, r
  <2>9. /\ \E p \in Nat : r.table = u(p)
        /\ fd > 0 /\ ~Host[name].dlx /\ Host[name].size >= n => r.got = n
    <3>1. r = x \/ r = y
      BY <2>5 DEF x, y
    <3> QED BY <2>6, <2>7, <2>8, <3>1
  <2>10. PICK p \in Nat : r.table = u(p)
    BY <2>9
  <2>11. v.table = FsClose(u(p), fd)
    BY <1>1, <2>10 DEF fd
  <2>12. CASE fd > 0
    <3>1. v.table \in Descs /\ OpenSlots(v.table) = OpenSlots(t)
      BY <2>2, <2>11, <2>12
    <3>2. 0 \in OpenSlots(t)
      BY <2>1, <2>12
    <3> QED BY <1>1, <1>4, <2>9, <2>12, <3>1, <3>2 DEF v
  <2>13. CASE ~(fd > 0)
    <3>1. fd = 0
      BY <2>1, <2>13
    <3>2. v.table \in Descs /\ OpenSlots(v.table) = OpenSlots(t) \cup {0}
      BY <2>2, <2>11, <2>13, <3>1
    <3>3. 0 \notin OpenSlots(t)
      BY <2>1, <3>1
    <3> QED BY <1>4, <3>2, <3>3 DEF v
  <2> QED BY <2>12, <2>13
<1> QED BY <1>3, <1>4

\* The disk is read and written whenever a slot is left (disk.c 70-151).
LEMMA DiskLemma ==
  ASSUME NEW t \in Descs, NEW transfers \in {"reads", "writes"}
  PROVE  LET d == DiskBlock(t, transfers) IN
         /\ d.table \in Descs
         /\ OpenSlots(d.table) = OpenSlots(t) \cup {0} \/ OpenSlots(d.table) = OpenSlots(t)
         /\ OpenSlots(t) # Slot => 0 \in OpenSlots(d.table)
         /\ 0 \in OpenSlots(t) /\ OpenSlots(t) # Slot => d.ok
<1> DEFINE mode == IF transfers = "reads" THEN ReadMode ELSE ReadWrite
           v == Visit(t, Disk, mode, BlockSize, transfers)
           d == DiskBlock(t, transfers)
<1>1. d.table = v.table /\ d.ok = (v.got = BlockSize)
  <2>1. d = [table |-> v.table, ok |-> v.got = BlockSize]
    BY DEF DiskBlock, Visit
  <2> QED BY <2>1
<1>2. /\ Disk \in Names /\ BlockSize \in Nat /\ ~Host[Disk].dlx
      /\ Host[Disk].size >= BlockSize /\ Host[Disk].size >= 0 /\ Exists(Disk)
      /\ mode \in Modes
  <2>1. Disk \in Names /\ BlockSize \in Nat /\ ~Host[Disk].dlx /\ Host[Disk].size >= BlockSize
    BY NameAssumption, DiskAssumption
  <2>2. Host[Disk].size \in Nat \cup {-1}
    BY <2>1, HostAssumption
  <2> QED BY <2>1, <2>2 DEF Exists, Modes, ReadMode, ReadWrite
<1> HIDE DEF mode
<1>3. IF OpenSlots(t) # Slot /\ Exists(Disk)
      THEN /\ v.table \in Descs
           /\ OpenSlots(v.table) = OpenSlots(t) \cup {0} \/ OpenSlots(v.table) = OpenSlots(t)
           /\ 0 \notin OpenSlots(t) => 0 \in OpenSlots(v.table)
           /\ 0 \in OpenSlots(t) /\ ~Host[Disk].dlx /\ Host[Disk].size >= BlockSize
                => v.got = BlockSize
      ELSE v.table = t /\ v.got = -1
  BY <1>2, VisitLemma
<1> HIDE DEF v, d
<1> QED BY <1>1, <1>2, <1>3 DEF d

-----------------------------------------------------------------------------
(* Loading a program.                                                      *)

\* A set with 0 that has the next of each of its numbers has all up to n: the
\* least number it lacks would be the next of one that it has.
LEMMA CountUp ==
  ASSUME NEW n \in Nat, NEW S, 0 \in S, \A i \in 0 .. n : i \in S /\ i # n => i + 1 \in S
  PROVE  \A i \in 0 .. n : i \in S
<1> DEFINE B == {i \in 0 .. n : i \notin S}
<1>1. SUFFICES ASSUME B # {} PROVE FALSE
  OBVIOUS
<1>2. B \in SUBSET Nat
  OBVIOUS
<1> DEFINE m == Min(B)
<1>3. m \in B /\ \A i \in B : m <= i
  BY <1>1, <1>2, MinLemma
<1> HIDE DEF m
<1>4. m \in 0 .. n /\ m \notin S /\ m # 0
  BY <1>3
<1>5. m - 1 \in 0 .. n /\ m - 1 # n /\ (m - 1) + 1 = m /\ ~(m <= m - 1)
  BY <1>4
<1>6. m - 1 \notin B
  BY <1>3, <1>5
<1> QED BY <1>4, <1>5, <1>6

\* The slot fd of t has been given to file name; where it is read is open.
Reading(t, fd, name, u) == \E p : u = Taking(t, fd, ReadMode, name, p)

LEMMA ReadingLemma ==
  ASSUME NEW t \in Descs, NEW fd \in Slot \ OpenSlots(t), NEW name \in Names,
         NEW u, Reading(t, fd, name, u)
  PROVE  /\ \A n : Reading(t, fd, name, FsRead(u, fd, n).table)
         /\ \A x : Reading(t, fd, name, FsSeekSet(u, fd, x))
         /\ u[fd].name = name
         /\ fd > 0 => /\ FsClose(u, fd) \in Descs
                      /\ OpenSlots(FsClose(u, fd)) = OpenSlots(t)
<1>1. PICK p : u = Taking(t, fd, ReadMode, name, p)
  BY DEF Reading
<1>2. ReadMode \in Modes
  BY DEF ReadMode, Modes, ReadWrite
<1>3. \A x : [u EXCEPT ![fd].pos = x] = Taking(t, fd, ReadMode, name, x)
  BY <1>1, <1>2, PositionLemma
<1>4. \A x : Reading(t, fd, name, [u EXCEPT ![fd].pos = x])
  BY <1>3 DEF Reading
<1>5. ASSUME NEW n
      PROVE  Reading(t, fd, name, FsRead(u, fd, n).table)
  <2> DEFINE r == FsRead(u, fd, n)
  <2>1. r.table = u \/ r.table = [u EXCEPT ![fd].pos = @ + Got(u, fd, n)]
    BY DEF FsRead
  <2>2. [u EXCEPT ![fd].pos = @ + Got(u, fd, n)]
          = [u EXCEPT ![fd].pos = u[fd].pos + Got(u, fd, n)]
    OBVIOUS
  <2> HIDE DEF r
  <2>3. Reading(t, fd, name, r.table)
    BY <1>4, <2>1, <2>2
  <2> QED BY <2>3 DEF r
<1>6. ASSUME NEW x
      PROVE  Reading(t, fd, name, FsSeekSet(u, fd, x))
  BY <1>4 DEF FsSeekSet
<1>7. /\ u[fd].name = name
      /\ fd > 0 => /\ FsClose(u, fd) \in Descs
                   /\ OpenSlots(FsClose(u, fd)) = OpenSlots(t)
  BY <1>1, <1>2, TakingLemma
<1> QED BY <1>5, <1>6, <1>7

\* What the calls have come to: the map and the other slots are as before.
Loading(c, F, t, fd, name) == MapIs(c.mem, F) /\ Reading(t, fd, name, c.table)

NextCall(c, pcb, fd) ==
  IF c.done THEN c ELSE Place(c, pcb, ProcessGetFromFile(c.table, fd, c.addr))

LEMMA NextCallLemma ==
  ASSUME NEW t \in Descs, NEW fd \in Slot \ OpenSlots(t), NEW name \in Names, NEW F,
         NEW pcb, NEW c, Loading(c, F, t, fd, name)
  PROVE  Loading(NextCall(c, pcb, fd), F, t, fd, name)
<1> DEFINE new == ProcessGetFromFile(c.table, fd, c.addr)
           read == FsRead(c.table, fd, PieceChars)
<1>1. MapIs(c.mem, F) /\ Reading(t, fd, name, c.table)
  BY DEF Loading
<1>2. Reading(t, fd, name, read.table)
  BY <1>1, ReadingLemma
<1>3. new.table = read.table \/ \E x : new.table = FsSeekSet(read.table, fd, x)
  <2> HIDE DEF read
  <2>1. new = IF read.got <= 0
              THEN [bytes |-> <<>>, addr |-> c.addr, table |-> read.table]
              ELSE LET pos == FsTell(c.table, fd)
                       got == Collected(c.table[fd].name,
                                Taken(c.table[fd].name, pos, pos + read.got), c.addr)
                   IN  [bytes |-> got.bytes, addr |-> got.addr,
                        table |-> FsSeekSet(read.table, fd, got.end)]
    BY DEF ProcessGetFromFile, read
  <2> HIDE DEF new
  <2> QED BY <2>1
<1> HIDE DEF read, new
<1>4. Reading(t, fd, name, new.table)
  BY <1>2, <1>3, ReadingLemma
<1> DEFINE size == Len(new.bytes)
           data == [i \in 0 .. size - 1 |-> new.bytes[i + 1]]
           p == Place(c, pcb, new)
<1>5. /\ p.mem = MemoryCopySystemToUser(c.mem, pcb, data, new.addr - size, size)
      /\ p.table = new.table
  BY DEF Place
<1> HIDE DEF size, data
<1>6. MapIs(p.mem, F)
  <2> HIDE DEF p
  <2> QED BY <1>1, <1>5, CopyLemma
<1>7. Loading(p, F, t, fd, name)
  <2> HIDE DEF p
  <2> QED BY <1>4, <1>5, <1>6 DEF Loading
<1> HIDE DEF p
<1> QED BY <1>7 DEF NextCall, p, new

\* Loading a program changes cells and the position in its file only
\* (process.c 473-478).
LEMMA LoadLemma ==
  ASSUME NEW t \in Descs, NEW fd \in Slot \ OpenSlots(t), NEW name \in Names,
         NEW m, NEW F, MapIs(m, F), NEW pcb, NEW u, Reading(t, fd, name, u)
  PROVE  Loading(LoadProgram(m, pcb, u, fd), F, t, fd, name)
<1> DEFINE N == Len(Lines[name])
           c0 == [mem |-> m, table |-> u, addr |-> 0, done |-> FALSE]
           Step(c) == NextCall(c, pcb, fd)
           Loop(g) == [i \in 0 .. N |-> IF i = 0 THEN c0 ELSE Step(g[i - 1])]
           f == CHOOSE g : g = Loop(g)
           T == {n \in 0 .. N : \E g : \A i \in 0 .. n : g[i] = IF i = 0 THEN c0
                                                                ELSE Step(g[i - 1])}
<1>1. LoadProgram(m, pcb, u, fd) = f[N]
  <2>1. u[fd].name = name
    BY ReadingLemma
  <2> QED BY <2>1 DEF LoadProgram, NextCall
<1>2. N \in Nat
  <2> DEFINE S == [width : Nat, addr : Nat \cup {NoAddr}, bytes : Seq(Nat)]
  <2>1. Lines[name] \in Seq(S)
    BY LineAssumption
  <2> HIDE DEF S
  <2> QED BY <2>1
<1>3. Loading(c0, F, t, fd, name)
  <2>1. c0.mem = m /\ c0.table = u
    OBVIOUS
  <2> HIDE DEF c0
  <2> QED BY <2>1 DEF Loading
<1> HIDE DEF N, Step, c0
<1>4. N \in T
  <2>1. 0 \in T
    <3> DEFINE g == [i \in 0 .. 0 |-> c0]
    <3>1. \A i \in 0 .. 0 : g[i] = IF i = 0 THEN c0 ELSE Step(g[i - 1])
      OBVIOUS
    <3>2. 0 \in 0 .. N
      BY <1>2
    <3> HIDE DEF g
    <3> QED BY <3>1, <3>2
  <2>2. ASSUME NEW n \in 0 .. N, n \in T, n # N
        PROVE  n + 1 \in T
    <3>1. PICK g : \A i \in 0 .. n : g[i] = IF i = 0 THEN c0 ELSE Step(g[i - 1])
      BY <2>2
    <3> DEFINE e == [i \in 0 .. n + 1 |-> IF i = n + 1 THEN Step(g[n]) ELSE g[i]]
    <3>2. ASSUME NEW i \in 0 .. n + 1
          PROVE  e[i] = IF i = 0 THEN c0 ELSE Step(e[i - 1])
      <4>1. CASE i = n + 1
        <5>1. i - 1 = n /\ n \in 0 .. n + 1 /\ n # n + 1 /\ i # 0
          BY <1>2, <4>1
        <5>2. e[i] = Step(g[n]) /\ e[i - 1] = g[n]
          BY <4>1, <5>1
        <5> QED BY <5>1, <5>2
      <4>2. CASE i # n + 1
        <5>1. i \in 0 .. n /\ e[i] = g[i]
          BY <1>2, <4>2
        <5>2. i # 0 => i - 1 \in 0 .. n + 1 /\ i - 1 # n + 1
          BY <1>2, <4>2
        <5>3. i # 0 => e[i - 1] = g[i - 1]
          BY <5>2
        <5> HIDE DEF e
        <5> QED BY <3>1, <5>1, <5>3
      <4> QED BY <4>1, <4>2
    <3> HIDE DEF e
    <3>3. n + 1 \in 0 .. N
      BY <1>2, <2>2
    <3> QED BY <3>2, <3>3
  <2> HIDE DEF T
  <2>3. \A i \in 0 .. N : i \in T
    BY <1>2, <2>1, <2>2, CountUp
  <2> QED BY <1>2, <2>3
<1>5. f = Loop(f)
  <2>1. PICK g : \A i \in 0 .. N : g[i] = IF i = 0 THEN c0 ELSE Step(g[i - 1])
    BY <1>4
  <2> DEFINE e == [i \in 0 .. N |-> g[i]]
  <2>2. ASSUME NEW i \in 0 .. N
        PROVE  Loop(e)[i] = g[i]
    <3>1. i # 0 => i - 1 \in 0 .. N
      BY <1>2
    <3>2. i # 0 => e[i - 1] = g[i - 1]
      BY <3>1
    <3> HIDE DEF e
    <3> QED BY <2>1, <3>2
  <2>3. e = Loop(e)
    BY <2>2
  <2> HIDE DEF Loop
  <2> QED BY <2>3
<1> HIDE DEF f, T
<1> DEFINE S == {i \in 0 .. N : Loading(f[i], F, t, fd, name)}
<1>6. 0 \in S
  <2>1. 0 \in 0 .. N
    BY <1>2
  <2>2. f[0] = c0
    BY <1>5, <2>1
  <2> QED BY <1>3, <2>1, <2>2
<1>7. ASSUME NEW i \in 0 .. N, i \in S, i # N
      PROVE  i + 1 \in S
  <2>1. i + 1 \in 0 .. N /\ i + 1 # 0 /\ (i + 1) - 1 = i
    BY <1>2, <1>7
  <2>2. f[i + 1] = Step(f[i])
    BY <1>5, <2>1
  <2>3. Loading(Step(f[i]), F, t, fd, name)
    BY <1>7, NextCallLemma DEF Step
  <2> QED BY <2>1, <2>2, <2>3
<1> HIDE DEF S
<1>8. \A i \in 0 .. N : i \in S
  BY <1>2, <1>6, <1>7, CountUp
<1>9. N \in S
  BY <1>2, <1>8
<1> QED BY <1>1, <1>9 DEF S

-----------------------------------------------------------------------------
(* The start of the system: main.                                          *)

LEMMA ExistsLemma ==
  ASSUME NEW name, name \in Executable \/ (name \in Names /\ IsText(name))
  PROVE  Exists(name)
<1>1. InfoChars \in Nat /\ Host[name].size >= InfoChars /\ name \in Names
  BY InfoAssumption, ExecutableAssumption DEF IsText
<1>2. Host[name].size \in Nat \cup {-1}
  BY <1>1, HostAssumption
<1> QED BY <1>1, <1>2 DEF Exists

\* A file that is listed changes the table as follows.
LEMMA DumpLemma ==
  ASSUME NEW t \in Descs, NEW name \in Names, OpenSlots(t) # Slot
  PROVE  LET u == DumpProgram(t, name) IN
         /\ u \in Descs
         /\ ~Exists(name) => u = t
         /\ Exists(name) /\ 0 \notin OpenSlots(t) => OpenSlots(u) = OpenSlots(t) \cup {0}
         /\ Exists(name) /\ 0 \in OpenSlots(t) =>
              IF name \in Executable \/ IsText(name)
              THEN \E fd \in Slot \ OpenSlots(t) : OpenSlots(u) = OpenSlots(t) \cup {fd}
              ELSE OpenSlots(u) = OpenSlots(t)
<1> DEFINE i == ProcessGetCodeInfo(t, name)
           u == DumpProgram(t, name)
<1>1. u = i.table
  BY DEF DumpProgram
<1>2. IF OpenSlots(t) # Slot /\ Exists(name)
      THEN \E fd \in Slot \ OpenSlots(t) :
             /\ 0 \notin OpenSlots(t) => fd = 0
             /\ IF fd > 0 /\ name \in Executable
                THEN /\ i.fd = fd
                     /\ \E pos \in Nat : i.table = Taking(t, fd, ReadMode, name, pos)
                ELSE /\ i.fd = -1 /\ i.table \in Descs
                     /\ OpenSlots(i.table) = IF fd = 0 \/ IsText(name)
                                             THEN OpenSlots(t) \cup {fd} ELSE OpenSlots(t)
      ELSE i.fd = -1 /\ i.table = t
  BY CodeInfoLemma
<1> HIDE DEF i, u
<1>3. CASE ~Exists(name)
  BY <1>1, <1>2, <1>3 DEF u
<1>4. CASE Exists(name)
  <2>1. PICK fd \in Slot \ OpenSlots(t) :
          /\ 0 \notin OpenSlots(t) => fd = 0
          /\ IF fd > 0 /\ name \in Executable
             THEN /\ i.fd = fd
                  /\ \E pos \in Nat : i.table = Taking(t, fd, ReadMode, name, pos)
             ELSE /\ i.fd = -1 /\ i.table \in Descs
                  /\ OpenSlots(i.table) = IF fd = 0 \/ IsText(name)
                                          THEN OpenSlots(t) \cup {fd} ELSE OpenSlots(t)
    BY <1>2, <1>4
  <2>2. fd \in Nat /\ (~(fd > 0) <=> fd = 0)
    BY SlotFacts
  <2>3. CASE fd > 0 /\ name \in Executable
    <3>1. PICK pos \in Nat : u = Taking(t, fd, ReadMode, name, pos)
      BY <1>1, <2>1, <2>3
    <3>2. ReadMode \in Modes
      BY DEF ReadMode, Modes, ReadWrite
    <3>3. u \in Descs /\ OpenSlots(u) = OpenSlots(t) \cup {fd}
      BY <3>1, <3>2, TakingLemma
    <3>4. 0 \in OpenSlots(t)
      BY <2>1, <2>2, <2>3
    <3> QED BY <1>4, <2>3, <3>3, <3>4 DEF u
  <2>4. CASE ~(fd > 0 /\ name \in Executable)
    <3>1. /\ u \in Descs
          /\ OpenSlots(u) = IF fd = 0 \/ IsText(name)
                            THEN OpenSlots(t) \cup {fd} ELSE OpenSlots(t)
      BY <1>1, <2>1, <2>4
    <3>2. CASE fd = 0
      <4>1. 0 \notin OpenSlots(t) /\ OpenSlots(u) = OpenSlots(t) \cup {0}
        BY <2>1, <3>1, <3>2
      <4> QED BY <1>4, <3>1, <4>1 DEF u
    <3>3. CASE fd # 0
      <4>1. 0 \in OpenSlots(t) /\ name \notin Executable
        BY <2>1, <2>2, <2>4, <3>3
      <4> QED BY <1>4, <3>1, <3>3, <4>1 DEF u
    <3> QED BY <3>2, <3>3
  <2> QED BY <2>3, <2>4
<1> QED BY <1>3, <1>4

\* The first i options, and those of them that lose a slot.
Opened(dumps, i)  == \E j \in 1 .. i : Exists(dumps[j])
LostBy(dumps, i) == {j \in 1 .. i : /\ dumps[j] \in Executable \/ IsText(dumps[j])
                                    /\ \E h \in 1 .. j - 1 : Exists(dumps[h])}

Dumping(t, dumps, i) ==
  /\ t \in Descs
  /\ IF Opened(dumps, i)
     THEN 0 \in OpenSlots(t) /\ Cardinality(OpenSlots(t)) = 1 + Cardinality(LostBy(dumps, i))
     ELSE OpenSlots(t) = {}

LEMMA LostByLemma ==
  ASSUME NEW dumps \in Seq(Names), NEW i \in 0 .. Len(dumps)
  PROVE  /\ IsFiniteSet(LostBy(dumps, i)) /\ Cardinality(LostBy(dumps, i)) \in Nat
         /\ Opened(dumps, i) => Cardinality(LostBy(dumps, i)) < i
         /\ ~Opened(dumps, i) => LostBy(dumps, i) = {}
<1>1. i \in Nat
  OBVIOUS
<1>2. LostBy(dumps, i) \subseteq 2 .. i
  <2>1. ASSUME NEW j \in 1 .. i, NEW h \in 1 .. j - 1 PROVE j \in 2 .. i
    OBVIOUS
  <2> QED BY <2>1 DEF LostBy
<1>3. IsFiniteSet(2 .. i) /\ Cardinality(2 .. i) = IF 2 > i THEN 0 ELSE i - 2 + 1
  <2>1. 2 \in Int /\ i \in Int
    BY <1>1
  <2> QED BY <2>1, FS_Interval, Zenon
<1>4. /\ IsFiniteSet(LostBy(dumps, i))
      /\ Cardinality(LostBy(dumps, i)) <= Cardinality(2 .. i)
  BY <1>2, <1>3, FS_Subset
<1>5. Cardinality(LostBy(dumps, i)) \in Nat
  BY <1>4, FS_CardinalityType
<1>6. ASSUME Opened(dumps, i) PROVE Cardinality(LostBy(dumps, i)) < i
  <2>1. i > 0
    BY <1>1, <1>6 DEF Opened
  <2> QED BY <1>1, <1>3, <1>4, <1>5, <2>1
<1>7. ASSUME ~Opened(dumps, i) PROVE LostBy(dumps, i) = {}
  <2>1. ASSUME NEW j \in 1 .. i, NEW h \in 1 .. j - 1 PROVE ~Exists(dumps[h])
    <3>1. h \in 1 .. i
      BY <1>1
    <3> QED BY <1>7, <3>1 DEF Opened
  <2> QED BY <2>1 DEF LostBy
<1> QED BY <1>4, <1>5, <1>6, <1>7

\* One option more.
LEMMA DumpingLemma ==
  ASSUME NEW dumps \in DumpLists, NEW i \in 0 .. Len(dumps), i # Len(dumps),
         NEW t, Dumping(t, dumps, i)
  PROVE  Dumping(DumpProgram(t, dumps[i + 1]), dumps, i + 1)
<1> DEFINE name == dumps[i + 1]
           u == DumpProgram(t, name)
           O == OpenSlots(t)
           L == LostBy(dumps, i)
           M == LostBy(dumps, i + 1)
           loses == name \in Executable \/ IsText(name)
<1>1. /\ dumps \in Seq(Names) /\ Len(dumps) < MaxOpen /\ Len(dumps) \in Nat
      /\ i \in Nat /\ i < Len(dumps) /\ i + 1 \in 0 .. Len(dumps) /\ i + 1 \in 1 .. Len(dumps)
  <2>1. dumps \in Seq(Names) /\ Len(dumps) < MaxOpen
    BY DumpAssumption
  <2>2. Len(dumps) \in Nat
    BY <2>1
  <2> QED BY <2>1, <2>2
<1>2. name \in Names
  BY <1>1
<1>3. t \in Descs /\ IsFiniteSet(O) /\ Cardinality(O) \in Nat /\ MaxOpen \in Nat \ {0}
  BY SlotFacts DEF Dumping
<1>4. /\ IsFiniteSet(L) /\ Cardinality(L) \in Nat
      /\ Opened(dumps, i) => Cardinality(L) < i
      /\ ~Opened(dumps, i) => L = {}
  BY <1>1, LostByLemma
<1>5. /\ Opened(dumps, i) => 0 \in O /\ Cardinality(O) = 1 + Cardinality(L)
      /\ ~Opened(dumps, i) => O = {}
  BY DEF Dumping
<1>6. Cardinality({}) = 0
  BY FS_EmptySet
<1>7. O # Slot
  <2>1. Cardinality(O) < MaxOpen
    <3> HIDE DEF O, L
    <3>1. CASE Opened(dumps, i)
      <4>1. Cardinality(O) = 1 + Cardinality(L) /\ Cardinality(L) < i
        BY <1>4, <1>5, <3>1
      <4> QED BY <1>1, <1>3, <1>4, <4>1
    <3>2. CASE ~Opened(dumps, i)
      <4>1. Cardinality(O) = 0
        BY <1>5, <1>6, <3>2
      <4> QED BY <1>3, <4>1
    <3> QED BY <3>1, <3>2
  <2>2. Cardinality(O) = MaxOpen <=> O = Slot
    BY SlotFacts
  <2> QED BY <1>3, <2>1, <2>2
<1>8. /\ u \in Descs
      /\ ~Exists(name) => u = t
      /\ Exists(name) /\ 0 \notin O => OpenSlots(u) = O \cup {0}
      /\ Exists(name) /\ 0 \in O =>
           IF loses THEN \E fd \in Slot \ O : OpenSlots(u) = O \cup {fd}
           ELSE OpenSlots(u) = O
  BY <1>2, <1>3, <1>7, DumpLemma
<1>9. loses => Exists(name)
  BY <1>2, ExistsLemma
<1>10. Opened(dumps, i + 1) <=> Opened(dumps, i) \/ Exists(name)
  <2>1. 1 .. i + 1 = (1 .. i) \cup {i + 1}
    BY <1>1
  <2> QED BY <2>1 DEF Opened
<1>11. M = IF loses /\ Opened(dumps, i) THEN L \cup {i + 1} ELSE L
  <2>1. 1 .. i + 1 = (1 .. i) \cup {i + 1} /\ (i + 1) - 1 = i
    BY <1>1
  <2> QED BY <2>1 DEF LostBy, Opened
<1>12. i + 1 \notin L
  BY <1>1 DEF LostBy
<1> HIDE DEF name, u, O, L, M, loses
<1>13. CASE ~Exists(name)
  <2>1. M = L /\ u = t
    BY <1>8, <1>9, <1>11, <1>13
  <2> QED BY <1>3, <1>5, <1>10, <1>13, <2>1 DEF Dumping, u, name, O, L, M
<1>14. CASE Exists(name) /\ ~Opened(dumps, i)
  <2>1. OpenSlots(u) = {0} /\ M = {}
    BY <1>4, <1>5, <1>8, <1>11, <1>14
  <2>2. Cardinality({0}) = 1
    BY FS_Singleton
  <2>3. Cardinality(OpenSlots(u)) = 1 + Cardinality(M) /\ 0 \in OpenSlots(u)
    BY <1>6, <2>1, <2>2
  <2> QED BY <1>8, <1>10, <1>14, <2>3 DEF Dumping, u, name, M
<1>15. CASE Exists(name) /\ Opened(dumps, i) /\ loses
  <2>1. PICK fd \in Slot \ O : OpenSlots(u) = O \cup {fd}
    BY <1>5, <1>8, <1>15
  <2>2. Cardinality(O \cup {fd}) = Cardinality(O) + 1
    BY <1>3, <2>1, FS_AddElement
  <2>3. Cardinality(L \cup {i + 1}) = Cardinality(L) + 1
    BY <1>4, <1>12, FS_AddElement
  <2>4. Cardinality(OpenSlots(u)) = 1 + Cardinality(M) /\ 0 \in OpenSlots(u)
    BY <1>4, <1>5, <1>11, <1>15, <2>1, <2>2, <2>3
  <2> QED BY <1>8, <1>10, <1>15, <2>4 DEF Dumping, u, name, M
<1>16. CASE Exists(name) /\ Opened(dumps, i) /\ ~loses
  <2>1. OpenSlots(u) = O /\ M = L
    BY <1>5, <1>8, <1>11, <1>16
  <2> QED BY <1>5, <1>8, <1>10, <1>16, <2>1 DEF Dumping, u, name, M
<1> QED BY <1>13, <1>14, <1>15, <1>16

LEMMA DumpedLemma ==
  ASSUME NEW dumps \in DumpLists
  PROVE  LET Dumped[i \in 0 .. Len(dumps)] ==
               IF i = 0 THEN FsModuleInit ELSE DumpProgram(Dumped[i - 1], dumps[i])
         IN  Dumping(Dumped[Len(dumps)], dumps, Len(dumps))
<1> DEFINE N == Len(dumps)
           c0 == FsModuleInit
           Step(c, i) == DumpProgram(c, dumps[i])
           Loop(g) == [i \in 0 .. N |-> IF i = 0 THEN c0 ELSE Step(g[i - 1], i)]
           f == CHOOSE g : g = Loop(g)
           T == {n \in 0 .. N : \E g : \A i \in 0 .. n : g[i] = IF i = 0 THEN c0
                                                                ELSE Step(g[i - 1], i)}
<1>1. SUFFICES Dumping(f[N], dumps, N)
  OBVIOUS
<1>2. N \in Nat
  BY DumpAssumption
<1>3. Dumping(c0, dumps, 0)
  <2>1. FreeSlot \in [flags : 0 .. ReadWrite, name : Names \cup {NoName}, pos : Nat]
        /\ FreeSlot.flags = 0
    BY DEF FreeSlot, ReadWrite
  <2>2. c0 \in Descs /\ OpenSlots(c0) = {}
    BY <2>1 DEF FsModuleInit, Descs, OpenSlots
  <2>3. ~Opened(dumps, 0)
    BY DEF Opened
  <2> QED BY <2>2, <2>3 DEF Dumping
<1> HIDE DEF N, Step, c0
<1>4. N \in T
  <2>1. 0 \in T
    <3> DEFINE g == [i \in 0 .. 0 |-> c0]
    <3>1. \A i \in 0 .. 0 : g[i] = IF i = 0 THEN c0 ELSE Step(g[i - 1], i)
      OBVIOUS
    <3>2. 0 \in 0 .. N
      BY <1>2
    <3> HIDE DEF g
    <3> QED BY <3>1, <3>2
  <2>2. ASSUME NEW n \in 0 .. N, n \in T, n # N
        PROVE  n + 1 \in T
    <3>1. PICK g : \A i \in 0 .. n : g[i] = IF i = 0 THEN c0 ELSE Step(g[i - 1], i)
      BY <2>2
    <3> DEFINE e == [i \in 0 .. n + 1 |-> IF i = n + 1 THEN Step(g[n], i) ELSE g[i]]
    <3>2. ASSUME NEW i \in 0 .. n + 1
          PROVE  e[i] = IF i = 0 THEN c0 ELSE Step(e[i - 1], i)
      <4>1. CASE i = n + 1
        <5>1. i - 1 = n /\ n \in 0 .. n + 1 /\ n # n + 1 /\ i # 0
          BY <1>2, <4>1
        <5>2. e[i] = Step(g[n], i) /\ e[i - 1] = g[n]
          BY <4>1, <5>1
        <5> QED BY <5>1, <5>2
      <4>2. CASE i # n + 1
        <5>1. i \in 0 .. n /\ e[i] = g[i]
          BY <1>2, <4>2
        <5>2. i # 0 => i - 1 \in 0 .. n + 1 /\ i - 1 # n + 1
          BY <1>2, <4>2
        <5>3. i # 0 => e[i - 1] = g[i - 1]
          BY <5>2
        <5> HIDE DEF e
        <5> QED BY <3>1, <5>1, <5>3
      <4> QED BY <4>1, <4>2
    <3> HIDE DEF e
    <3>3. n + 1 \in 0 .. N
      BY <1>2, <2>2
    <3> QED BY <3>2, <3>3
  <2> HIDE DEF T
  <2>3. \A i \in 0 .. N : i \in T
    BY <1>2, <2>1, <2>2, CountUp
  <2> QED BY <1>2, <2>3
<1>5. f = Loop(f)
  <2>1. PICK g : \A i \in 0 .. N : g[i] = IF i = 0 THEN c0 ELSE Step(g[i - 1], i)
    BY <1>4
  <2> DEFINE e == [i \in 0 .. N |-> g[i]]
  <2>2. ASSUME NEW i \in 0 .. N
        PROVE  Loop(e)[i] = g[i]
    <3>1. i # 0 => i - 1 \in 0 .. N
      BY <1>2
    <3>2. i # 0 => e[i - 1] = g[i - 1]
      BY <3>1
    <3> HIDE DEF e
    <3> QED BY <2>1, <3>2
  <2>3. e = Loop(e)
    BY <2>2
  <2> HIDE DEF Loop
  <2> QED BY <2>3
<1> HIDE DEF f, T
<1> DEFINE S == {i \in 0 .. N : Dumping(f[i], dumps, i)}
<1>6. 0 \in S
  <2>1. 0 \in 0 .. N
    BY <1>2
  <2>2. f[0] = c0
    BY <1>5, <2>1
  <2> QED BY <1>3, <2>1, <2>2
<1>7. ASSUME NEW i \in 0 .. N, i \in S, i # N
      PROVE  i + 1 \in S
  <2>1. i + 1 \in 0 .. N /\ i + 1 # 0 /\ (i + 1) - 1 = i
    BY <1>2, <1>7
  <2>2. f[i + 1] = Step(f[i], i + 1)
    BY <1>5, <2>1
  <2>3. Dumping(Step(f[i], i + 1), dumps, i + 1)
    BY <1>7, DumpingLemma DEF Step, N
  <2> QED BY <2>1, <2>2, <2>3
<1> HIDE DEF S
<1>8. \A i \in 0 .. N : i \in S
  BY <1>2, <1>6, <1>7, CountUp
<1>9. N \in S
  BY <1>2, <1>8
<1> QED BY <1>9 DEF S

\* When main has come to the mount, slot 0 is taken and so are the slots that
\* the options -f lost, and no other.
LEMMA BootedLemma ==
  ASSUME NEW dumps \in DumpLists, NEW vm \in VmNames
  PROVE  LET t == Booted(dumps, vm) IN
         /\ t \in Descs /\ 0 \in OpenSlots(t)
         /\ Cardinality(OpenSlots(t)) = LostAtBoot(dumps)
<1> DEFINE Loop(g) == [i \in 0 .. Len(dumps) |->
                         IF i = 0 THEN FsModuleInit ELSE DumpProgram(g[i - 1], dumps[i])]
           d == (CHOOSE g : g = Loop(g))[Len(dumps)]
           v == Visit(d, vm, WriteMode, 1, "writes")
           w == WriteVm(d, vm)
           b == DiskBlock(w, "reads")
           t == Booted(dumps, vm)
           L == LostBy(dumps, Len(dumps))
<1>1. Dumping(d, dumps, Len(dumps))
  BY DumpedLemma
<1>2. t = b.table
  BY DEF Booted
<1> HIDE DEF d
<1>3. w = v.table
  BY DEF WriteVm, Visit
<1> HIDE DEF v, w, b, t, L
<1>4. dumps \in Seq(Names) /\ Len(dumps) < MaxOpen /\ Len(dumps) \in Nat
  BY DumpAssumption
<1>5. LostAtBoot(dumps) = 1 + Cardinality(L)
  <2>1. DOMAIN dumps = 1 .. Len(dumps)
    BY <1>4
  <2> QED BY <2>1 DEF LostAtBoot, L, LostBy
<1>6. /\ IsFiniteSet(L) /\ Cardinality(L) \in Nat
      /\ Opened(dumps, Len(dumps)) => Cardinality(L) < Len(dumps)
      /\ ~Opened(dumps, Len(dumps)) => L = {}
  <2>1. Len(dumps) \in 0 .. Len(dumps)
    BY <1>4
  <2> QED BY <1>4, <2>1, LostByLemma DEF L
<1>7. Cardinality({}) = 0 /\ Cardinality({0}) = 1
  BY FS_EmptySet, FS_Singleton
<1>8. /\ d \in Descs
      /\ Opened(dumps, Len(dumps)) =>
           0 \in OpenSlots(d) /\ Cardinality(OpenSlots(d)) = 1 + Cardinality(L)
      /\ ~Opened(dumps, Len(dumps)) => OpenSlots(d) = {}
  BY <1>1 DEF Dumping, L
\* The first file that is opened takes slot 0.
<1> DEFINE C(x) == /\ x \in Descs
                   /\ 0 \in OpenSlots(x) => Cardinality(OpenSlots(x)) = 1 + Cardinality(L)
                   /\ 0 \notin OpenSlots(x) => OpenSlots(x) = {} /\ L = {}
<1>9. C(d)
  BY <1>6, <1>8
<1>10. ASSUME NEW x, C(x), NEW y \in Descs,
              OpenSlots(y) = OpenSlots(x) \cup {0} \/ OpenSlots(y) = OpenSlots(x)
       PROVE  C(y)
  <2>1. CASE 0 \in OpenSlots(x)
    <3>1. OpenSlots(y) = OpenSlots(x)
      BY <1>10, <2>1
    <3> QED BY <1>10, <2>1, <3>1
  <2>2. CASE 0 \notin OpenSlots(x)
    <3>1. OpenSlots(y) = {0} \/ OpenSlots(y) = {}
      BY <1>10, <2>2
    <3>2. L = {}
      BY <1>10, <2>2
    <3> QED BY <1>7, <3>1, <3>2
  <2> QED BY <2>1, <2>2
<1>11. C(w)
  <2>1. vm \in Names /\ WriteMode \in Modes /\ 1 \in Nat
    BY NameAssumption DEF WriteMode, Modes, ReadWrite
  <2>2. IF OpenSlots(d) # Slot /\ Exists(vm)
        THEN /\ v.table \in Descs
             /\ OpenSlots(v.table) = OpenSlots(d) \cup {0} \/ OpenSlots(v.table) = OpenSlots(d)
             /\ 0 \notin OpenSlots(d) => 0 \in OpenSlots(v.table)
             /\ 0 \in OpenSlots(d) /\ ~Host[vm].dlx /\ Host[vm].size >= 1 => v.got = 1
        ELSE v.table = d /\ v.got = -1
    BY <1>8, <2>1, VisitLemma DEF v
  <2>3. \/ w = d
        \/ /\ w \in Descs
           /\ OpenSlots(w) = OpenSlots(d) \cup {0} \/ OpenSlots(w) = OpenSlots(d)
    BY <1>3, <2>2
  <2> HIDE DEF C
  <2>4. CASE w = d
    BY <1>9, <2>4
  <2>5. CASE /\ w \in Descs
             /\ OpenSlots(w) = OpenSlots(d) \cup {0} \/ OpenSlots(w) = OpenSlots(d)
    BY <1>9, <1>10, <2>5
  <2> QED BY <2>3, <2>4, <2>5
<1>12. /\ t \in Descs
       /\ OpenSlots(t) = OpenSlots(w) \cup {0} \/ OpenSlots(t) = OpenSlots(w)
       /\ 0 \in OpenSlots(t)
  <2>1. /\ b.table \in Descs
        /\ OpenSlots(b.table) = OpenSlots(w) \cup {0} \/ OpenSlots(b.table) = OpenSlots(w)
        /\ OpenSlots(w) # Slot => 0 \in OpenSlots(b.table)
    BY <1>11, DiskLemma DEF b
  <2>2. 0 \in Slot
    BY SlotFacts
  <2> QED BY <1>2, <2>1, <2>2
<1>13. C(t)
  <2> HIDE DEF C
  <2> QED BY <1>10, <1>11, <1>12
<1> QED BY <1>5, <1>12, <1>13 DEF t

-----------------------------------------------------------------------------
(* Who owns the pages.                                                     *)

PagesIn(pcb) == {UserPage(pcb), pcb.sysStack}

\* The processes of L have two pages each, no page has two owners, and the
\* pages of F are the ones without.
Owned(pb, L, F) ==
  /\ \A p \in L : PagesIn(pb[p]) \subseteq UserPages /\ UserPage(pb[p]) # pb[p].sysStack
  /\ \A p, q \in L : p # q => PagesIn(pb[p]) \cap PagesIn(pb[q]) = {}
  /\ F = UserPages \ UNION {PagesIn(pb[p]) : p \in L}

\* A PCB that is filled in.
FilledIn(pb, p, pcb) == [pb EXCEPT ![p] = pcb]

LEMMA FilledInLemma ==
  ASSUME NEW pb, pb = [q \in Proc |-> pb[q]], NEW p \in Proc, NEW pcb
  PROVE  /\ FilledIn(pb, p, pcb)[p] = pcb
         /\ \A q \in Proc : q # p => FilledIn(pb, p, pcb)[q] = pb[q]
         /\ FilledIn(pb, p, pcb) = [q \in Proc |-> FilledIn(pb, p, pcb)[q]]
BY DEF FilledIn

\* A process gets two free pages.
LEMMA GrantLemma ==
  ASSUME NEW pb, pb = [q \in Proc |-> pb[q]], NEW L \in SUBSET Proc, NEW F,
         Owned(pb, L, F), NEW p \in Proc \ L, NEW pcb,
         PagesIn(pcb) \subseteq F, UserPage(pcb) # pcb.sysStack
  PROVE  Owned(FilledIn(pb, p, pcb), L \cup {p}, F \ PagesIn(pcb))
<1> DEFINE n == FilledIn(pb, p, pcb)
           M == L \cup {p}
<1>1. n[p] = pcb /\ \A q \in L : n[q] = pb[q] /\ q # p
  BY FilledInLemma
<1>2. /\ \A q \in L : PagesIn(pb[q]) \subseteq UserPages /\ UserPage(pb[q]) # pb[q].sysStack
      /\ \A q, r \in L : q # r => PagesIn(pb[q]) \cap PagesIn(pb[r]) = {}
      /\ F = UserPages \ UNION {PagesIn(pb[q]) : q \in L}
  BY DEF Owned
<1> HIDE DEF n
<1>3. ASSUME NEW q \in M
      PROVE  PagesIn(n[q]) \subseteq UserPages /\ UserPage(n[q]) # n[q].sysStack
  BY <1>1, <1>2
<1>4. ASSUME NEW q \in L
      PROVE  PagesIn(pb[q]) \cap PagesIn(pcb) = {}
  BY <1>2
<1>5. ASSUME NEW q \in M, NEW r \in M, q # r
      PROVE  PagesIn(n[q]) \cap PagesIn(n[r]) = {}
  <2>1. CASE q \in L /\ r \in L
    BY <1>1, <1>2, <1>5, <2>1
  <2>2. CASE q = p
    BY <1>1, <1>4, <1>5, <2>2
  <2>3. CASE r = p
    BY <1>1, <1>4, <1>5, <2>3
  <2> QED BY <2>1, <2>2, <2>3
<1>6. F \ PagesIn(pcb) \subseteq UserPages
  BY <1>2
<1>7. ASSUME NEW x \in UserPages
      PROVE  x \in F \ PagesIn(pcb) <=> \A q \in M : x \notin PagesIn(n[q])
  <2>1. x \in F <=> \A q \in L : x \notin PagesIn(pb[q])
    BY <1>2
  <2>2. (\A q \in M : x \notin PagesIn(n[q]))
          <=> (\A q \in L : x \notin PagesIn(pb[q])) /\ x \notin PagesIn(pcb)
    BY <1>1
  <2> QED BY <2>1, <2>2
<1>8. F \ PagesIn(pcb) = UserPages \ UNION {PagesIn(n[q]) : q \in M}
  <2> DEFINE G == F \ PagesIn(pcb)
             P(q) == PagesIn(n[q])
  <2> HIDE DEF G, P
  <2>1. G \subseteq UserPages /\ \A x \in UserPages : x \in G <=> \A q \in M : x \notin P(q)
    BY <1>6, <1>7 DEF G, P
  <2>2. G = UserPages \ UNION {P(q) : q \in M}
    BY <2>1
  <2> QED BY <2>2 DEF G, P
<1> QED BY <1>3, <1>5, <1>8 DEF Owned, n

\* A PCB that stays free may be filled in.
LEMMA FreePcbLemma ==
  ASSUME NEW pb, pb = [q \in Proc |-> pb[q]], NEW L \in SUBSET Proc, NEW F,
         Owned(pb, L, F), NEW p \in Proc \ L, NEW pcb
  PROVE  Owned(FilledIn(pb, p, pcb), L, F)
<1> DEFINE n == FilledIn(pb, p, pcb)
<1>1. \A q \in L : n[q] = pb[q]
  BY FilledInLemma
<1> HIDE DEF n
<1>2. {PagesIn(n[q]) : q \in L} = {PagesIn(pb[q]) : q \in L}
  BY <1>1
<1> QED BY <1>1, <1>2 DEF Owned, n

\* A process gives its pages back.
LEMMA ReclaimLemma ==
  ASSUME NEW pb, NEW L \in SUBSET Proc, NEW F, Owned(pb, L, F), NEW c \in L
  PROVE  /\ UserPage(pb[c]) \in UserPages \ F /\ pb[c].sysStack \in UserPages \ F
         /\ UserPage(pb[c]) # pb[c].sysStack
         /\ Owned(pb, L \ {c}, F \cup PagesIn(pb[c]))
<1> DEFINE P(q) == PagesIn(pb[q])
<1>1. /\ \A q \in L : P(q) \subseteq UserPages /\ UserPage(pb[q]) # pb[q].sysStack
      /\ \A q, r \in L : q # r => P(q) \cap P(r) = {}
      /\ F = UserPages \ UNION {P(q) : q \in L}
  BY DEF Owned
<1>2. UserPage(pb[c]) \in P(c) /\ pb[c].sysStack \in P(c)
  BY DEF PagesIn
<1> HIDE DEF P
<1>3. P(c) \subseteq UserPages /\ P(c) \cap F = {}
  BY <1>1
<1>4. F \cup P(c) = UserPages \ UNION {P(q) : q \in L \ {c}}
  <2>1. ASSUME NEW x \in UserPages
        PROVE  x \in F \cup P(c) <=> \A q \in L \ {c} : x \notin P(q)
    <3>1. x \in F <=> \A q \in L : x \notin P(q)
      BY <1>1
    <3>2. x \in P(c) => \A q \in L \ {c} : x \notin P(q)
      BY <1>1
    <3> QED BY <3>1, <3>2
  <2>2. F \cup P(c) \subseteq UserPages
    BY <1>1, <1>3
  <2> QED BY <2>1, <2>2
<1>5. Owned(pb, L \ {c}, F \cup P(c))
  <2>1. UNION {P(q) : q \in L \ {c}} = UNION {PagesIn(pb[q]) : q \in L \ {c}}
    BY DEF P
  <2> QED BY <1>1, <1>4, <2>1 DEF Owned, P
<1> QED BY <1>1, <1>2, <1>3, <1>5 DEF P

-----------------------------------------------------------------------------
(* Who is alive after the routines of process.c.                           *)

LiveIn(t) == {p \in Proc : t.status[p] # "free"}

\* Between two traps nobody is a zombie.
LEMMA NoZombies ==
  ASSUME NEW t, TableInv(t), t.zombies = <<>>
  PROVE  With(t, "zombie") = {}
<1>1. Elements(t.zombies) = With(t, "zombie")
  BY DEF TableInv, QueuesMatch, Holds
<1>2. Elements(<<>>) = {}
  BY DEF Elements
<1> QED BY <1>1, <1>2

LEMMA HaltLive ==
  ASSUME NEW t, TableInv(t)
  PROVE  Halt(t).halted /\ Halt(t).status = t.status /\ LiveIn(Halt(t)) = LiveIn(t)
<1>1. Halt(t).halted /\ Halt(t).status = t.status
  BY DEF TableInv, Tables, Halt
<1> QED BY <1>1 DEF LiveIn

\* The first free PCB becomes alive, or goes to the end of its queue.
LEMMA ForkLive ==
  ASSUME NEW t, TableInv(t), t.free # <<>>
  PROVE  /\ Head(t.free) \in Proc \ LiveIn(t) /\ t.status[Head(t.free)] = "free"
         /\ LiveIn(Fork(t)) = LiveIn(t) \cup {Head(t.free)} /\ Fork(t).halted = t.halted
         /\ ForkNoCode(t).status = t.status /\ LiveIn(ForkNoCode(t)) = LiveIn(t)
         /\ ForkNoCode(t).halted = t.halted
<1>1. t \in Tables /\ t.free \in Seq(Proc)
  BY DEF TableInv, Tables
<1>2. Head(t.free) \in With(t, "free")
  BY <1>1, TailLemma DEF TableInv, QueuesMatch
<1>3. /\ Fork(t).status = [t.status EXCEPT ![Head(t.free)] = "runnable"]
      /\ Fork(t).halted = t.halted
      /\ ForkNoCode(t).status = t.status /\ ForkNoCode(t).halted = t.halted
  BY <1>1 DEF Fork, ForkNoCode, Tables
<1> QED BY <1>1, <1>2, <1>3 DEF With, Tables, LiveIn

\* The scheduler frees the zombies, unless nobody can run.
LEMMA ScheduleLive ==
  ASSUME NEW t, TableInv(t)
  PROVE  IF t.run = <<>>
         THEN Schedule(t).status = t.status /\ Schedule(t).halted
         ELSE LiveIn(Schedule(t)) = LiveIn(t) \ With(t, "zombie")
<1>1. t \in Tables /\ Elements(t.zombies) = With(t, "zombie")
  BY DEF TableInv, QueuesMatch, Holds
<1>2. CASE t.run = <<>>
  BY <1>2, HaltLive DEF Schedule
<1>3. CASE t.run # <<>>
  <2> DEFINE turned == MoveFrontToEnd(t.run)
             u == [t EXCEPT !.run = turned, !.current = Head(turned)]
  <2>1. Schedule(t) = FreeZombies(u)
    BY <1>3 DEF Schedule
  <2>2. u.status = t.status /\ u.zombies = t.zombies
    BY <1>1 DEF Tables
  <2>3. FreeZombies(u).status = [p \in Proc |-> IF p \in Elements(u.zombies)
                                                THEN "free" ELSE u.status[p]]
    <3>1. u \in [status : [Proc -> Status], free : Seq(Proc), run : {turned},
                 waiting : SUBSET Proc, zombies : Seq(Proc),
                 current : {Head(turned)}, halted : BOOLEAN]
      BY <1>1 DEF Tables
    <3> HIDE DEF u
    <3> QED BY <3>1 DEF FreeZombies
  <2> HIDE DEF u
  <2> QED BY <1>1, <1>3, <2>1, <2>2, <2>3 DEF LiveIn
<1> QED BY <1>2, <1>3

-----------------------------------------------------------------------------
(* Creating a process.                                                     *)

\* What creating a process does to the descriptors once slot 0 is taken: a
\* text takes another slot for good.
Loses(t, name) == IsText(name) /\ OpenSlots(t) # Slot

LEMMA NoCodeLemma ==
  ASSUME NEW t \in Descs, 0 \in OpenSlots(t), NEW name \in Names,
         ProcessGetCodeInfo(t, name).fd < 0
  PROVE  LET u == ProcessGetCodeInfo(t, name).table IN
         /\ u \in Descs /\ 0 \in OpenSlots(u)
         /\ Cardinality(OpenSlots(u)) = Cardinality(OpenSlots(t)) + (IF Loses(t, name) THEN 1 ELSE 0)
<1> DEFINE i == ProcessGetCodeInfo(t, name)
           O == OpenSlots(t)
<1>1. IF O # Slot /\ Exists(name)
      THEN \E fd \in Slot \ O :
             /\ 0 \notin O => fd = 0
             /\ IF fd > 0 /\ name \in Executable
                THEN /\ i.fd = fd
                     /\ \E pos \in Nat : i.table = Taking(t, fd, ReadMode, name, pos)
                ELSE /\ i.fd = -1 /\ i.table \in Descs
                     /\ OpenSlots(i.table) = IF fd = 0 \/ IsText(name)
                                             THEN O \cup {fd} ELSE O
      ELSE i.fd = -1 /\ i.table = t
  BY CodeInfoLemma
<1>2. i.fd < 0 /\ 0 \in O
  OBVIOUS
<1>3. IsFiniteSet(O) /\ Cardinality(O) \in Nat
  BY SlotFacts
<1>4. IsText(name) => Exists(name)
  BY ExistsLemma
<1> HIDE DEF i
<1>5. CASE ~(O # Slot /\ Exists(name))
  <2>1. ~Loses(t, name) /\ i.table = t
    BY <1>1, <1>4, <1>5 DEF Loses
  <2>2. Cardinality(O) = Cardinality(O) + 0
    BY <1>3
  <2> QED BY <1>2, <2>1, <2>2 DEF i
<1>6. CASE O # Slot /\ Exists(name)
  <2> HIDE DEF O
  <2>1. PICK fd \in Slot \ O :
          IF fd > 0 /\ name \in Executable
          THEN i.fd = fd
          ELSE /\ i.table \in Descs
               /\ OpenSlots(i.table) = IF fd = 0 \/ IsText(name) THEN O \cup {fd} ELSE O
    BY <1>1, <1>6
  <2>2. fd \in Nat /\ fd # 0
    BY <1>2, SlotFacts
  <2>3. /\ i.table \in Descs
        /\ OpenSlots(i.table) = IF IsText(name) THEN O \cup {fd} ELSE O
    BY <1>2, <2>1, <2>2
  <2>4. Loses(t, name) <=> IsText(name)
    BY <1>6 DEF Loses, O
  <2>5. Cardinality(O \cup {fd}) = Cardinality(O) + 1 /\ Cardinality(O) = Cardinality(O) + 0
    <3>1. Cardinality(O \cup {fd}) = Cardinality(O) + 1
      BY <1>3, FS_AddElement
    <3> QED BY <1>3, <3>1
  <2>6. 0 \in OpenSlots(i.table)
    BY <1>2, <2>3
  <2>7. Cardinality(OpenSlots(i.table)) = Cardinality(O) + (IF Loses(t, name) THEN 1 ELSE 0)
    BY <2>3, <2>4, <2>5
  <2> QED BY <2>3, <2>6, <2>7 DEF i, O
<1> QED BY <1>5, <1>6

LEMMA NewPcbLemma ==
  ASSUME NEW page \in UserPages, NEW stack, NEW buf
  PROVE  /\ UserPage(NewPcb(page, stack, buf)) = page
         /\ NewPcb(page, stack, buf).sysStack = stack
<1>1. 0 \in 0 .. NumPtes - 1
  BY SpaceAssumption
<1>2. NewPcb(page, stack, buf).pagetable[0] = MemorySetupPte(page)
  BY <1>1 DEF NewPcb
<1>3. NewPcb(page, stack, buf).sysStack = stack
  BY DEF NewPcb
<1> QED BY <1>2, <1>3, PteLemma DEF UserPage

LEMMA PutArgumentsLemma ==
  ASSUME NEW m, NEW F, MapIs(m, F), NEW pcb, NEW buf
  PROVE  MapIs(PutArguments(m, pcb, buf), F)
BY CopyLemma DEF PutArguments

Kernel(t, m, pb, ds) == [table |-> t, memory |-> m, pcbs |-> pb, openfiles |-> ds]

\* The three ways in which a creation ends: the system stops, the file is no
\* executable, or the process has two pages and its descriptor is closed.
Stopped(n, t, pb, ds) ==
  /\ n.table = Halt(t) /\ n.pcbs = pb /\ n.openfiles = ds
  /\ \E G : MapIs(n.memory, G)

NoCode(n, t, F, pb, ds, name) ==
  /\ t.free # <<>> /\ n.table = ForkNoCode(t) /\ MapIs(n.memory, F)
  /\ \E pcb : n.pcbs = FilledIn(pb, Head(t.free), pcb)
  /\ ProcessGetCodeInfo(ds, name).fd < 0
  /\ n.openfiles = ProcessGetCodeInfo(ds, name).table

StartedWith(n, t, F, pb, ds, name) ==
  /\ t.free # <<>> /\ n.table = Fork(t)
  /\ \E pcb : /\ PagesIn(pcb) \subseteq F /\ UserPage(pcb) # pcb.sysStack
              /\ n.pcbs = FilledIn(pb, Head(t.free), pcb)
              /\ MapIs(n.memory, F \ PagesIn(pcb))
  /\ name \in Executable
  /\ n.openfiles \in Descs /\ OpenSlots(n.openfiles) = OpenSlots(ds)

LEMMA ForkWithLemma ==
  ASSUME NEW t, t.free # <<>>, NEW m, NEW F, NEW pb, NEW ds \in Descs, NEW name \in Names,
         NEW page \in F, NEW stack \in F, page # stack, F \subseteq UserPages,
         MapIs(m, F \ {page, stack}), NEW old, NEW buf
  PROVE  LET n == ForkWith(Kernel(t, old, pb, ds), m, NewPcb(page, stack, buf),
                           ProcessGetCodeInfo(ds, name), buf)
         IN  NoCode(n, t, F, pb, ds, name) \/ StartedWith(n, t, F, pb, ds, name)
<1> DEFINE pcb == NewPcb(page, stack, buf)
           i == ProcessGetCodeInfo(ds, name)
           k == Kernel(t, old, pb, ds)
           n == ForkWith(k, m, pcb, i, buf)
           p == Head(t.free)
           G == F \ {page, stack}
<1>1. UserPage(pcb) = page /\ pcb.sysStack = stack /\ PagesIn(pcb) = {page, stack}
  BY NewPcbLemma DEF PagesIn
<1>2. k.table = t /\ k.openfiles = ds
  BY DEF Kernel
<1> DEFINE load == LoadProgram(m, pcb, i.table, i.fd)
<1>3. n = IF i.fd < 0
          THEN [k EXCEPT !.table = ForkNoCode(@), !.memory = FreeResources(m, pcb),
                         !.pcbs[p] = pcb, !.openfiles = i.table]
          ELSE [k EXCEPT !.table = Fork(@), !.memory = PutArguments(load.mem, pcb, buf),
                         !.pcbs[p] = pcb, !.openfiles = FsClose(load.table, i.fd)]
  BY <1>2 DEF ForkWith
<1> HIDE DEF pcb, i, n, p, load
<1>4. CASE i.fd < 0
  <2>1. n = [table |-> ForkNoCode(t), memory |-> FreeResources(m, pcb),
             pcbs |-> [pb EXCEPT ![p] = pcb], openfiles |-> i.table]
    <3>1. n = [[table |-> t, memory |-> old, pcbs |-> pb, openfiles |-> ds]
               EXCEPT !.table = ForkNoCode(@), !.memory = FreeResources(m, pcb),
                      !.pcbs[p] = pcb, !.openfiles = i.table]
      BY <1>3, <1>4 DEF Kernel
    <3> QED BY <3>1
  <2>2. /\ n.table = ForkNoCode(t) /\ n.memory = FreeResources(m, pcb)
        /\ n.pcbs = FilledIn(pb, p, pcb) /\ n.openfiles = i.table
    BY <2>1 DEF FilledIn
  <2>3. MapIs(FreeResources(m, pcb), G \cup {UserPage(pcb), pcb.sysStack})
    <3>1. UserPage(pcb) \in UserPages \ G /\ pcb.sysStack \in UserPages \ G
          /\ UserPage(pcb) # pcb.sysStack /\ MapIs(m, G)
      BY <1>1
    <3> HIDE DEF G
    <3> QED BY <3>1, FreeResourcesLemma
  <2>4. G \cup {UserPage(pcb), pcb.sysStack} = F
    BY <1>1
  <2>5. NoCode(n, t, F, pb, ds, name)
    BY <1>4, <2>2, <2>3, <2>4 DEF NoCode, p, i
  <2> QED BY <2>5 DEF n, k, pcb, i
<1>5. CASE ~(i.fd < 0)
  <2>1. n = [table |-> Fork(t), memory |-> PutArguments(load.mem, pcb, buf),
             pcbs |-> [pb EXCEPT ![p] = pcb], openfiles |-> FsClose(load.table, i.fd)]
    <3>1. n = [[table |-> t, memory |-> old, pcbs |-> pb, openfiles |-> ds]
               EXCEPT !.table = Fork(@), !.memory = PutArguments(load.mem, pcb, buf),
                      !.pcbs[p] = pcb, !.openfiles = FsClose(load.table, i.fd)]
      BY <1>3, <1>5 DEF Kernel
    <3> QED BY <3>1
  <2>2. /\ n.table = Fork(t) /\ n.memory = PutArguments(load.mem, pcb, buf)
        /\ n.pcbs = FilledIn(pb, p, pcb) /\ n.openfiles = FsClose(load.table, i.fd)
    BY <2>1 DEF FilledIn
  <2>3. PICK fd \in Slot \ OpenSlots(ds) :
          IF fd > 0 /\ name \in Executable
          THEN i.fd = fd /\ \E pos \in Nat : i.table = Taking(ds, fd, ReadMode, name, pos)
          ELSE i.fd = -1
    <3>1. IF OpenSlots(ds) # Slot /\ Exists(name)
          THEN \E fd \in Slot \ OpenSlots(ds) :
                 /\ 0 \notin OpenSlots(ds) => fd = 0
                 /\ IF fd > 0 /\ name \in Executable
                    THEN /\ i.fd = fd
                         /\ \E pos \in Nat : i.table = Taking(ds, fd, ReadMode, name, pos)
                    ELSE /\ i.fd = -1 /\ i.table \in Descs
                         /\ OpenSlots(i.table) = IF fd = 0 \/ IsText(name)
                                                 THEN OpenSlots(ds) \cup {fd} ELSE OpenSlots(ds)
          ELSE i.fd = -1 /\ i.table = ds
      BY CodeInfoLemma DEF i
    <3>2. -1 < 0
      OBVIOUS
    <3> QED BY <1>5, <3>1, <3>2
  <2>4. fd > 0 /\ name \in Executable /\ i.fd = fd /\ Reading(ds, fd, name, i.table)
    <3>1. -1 < 0
      OBVIOUS
    <3> QED BY <1>5, <2>3, <3>1 DEF Reading
  <2>5. Loading(load, G, ds, fd, name)
    BY <2>4, LoadLemma DEF load
  <2>6. FsClose(load.table, fd) \in Descs /\ OpenSlots(FsClose(load.table, fd)) = OpenSlots(ds)
    BY <2>4, <2>5, ReadingLemma DEF Loading
  <2>7. MapIs(n.memory, F \ PagesIn(pcb))
    BY <1>1, <2>2, <2>5, PutArgumentsLemma DEF Loading
  <2>8. StartedWith(n, t, F, pb, ds, name)
    BY <1>1, <2>2, <2>4, <2>6, <2>7 DEF StartedWith, p
  <2> QED BY <2>8 DEF n, k, pcb, i
<1> QED BY <1>4, <1>5

LEMMA CreateLemma ==
  ASSUME NEW t, NEW m, NEW F, MapIs(m, F), NEW pb, NEW ds \in Descs, NEW name \in Names,
         NEW buf
  PROVE  LET n == ProcessFork(Kernel(t, m, pb, ds), name, buf) IN
         \/ Stopped(n, t, pb, ds)
         \/ NoCode(n, t, F, pb, ds, name)
         \/ StartedWith(n, t, F, pb, ds, name)
<1> DEFINE k == Kernel(t, m, pb, ds)
           user == MemoryAllocPage(m)
           stack == MemoryAllocPage(user.mem)
           n == ProcessFork(k, name, buf)
<1>1. k = [table |-> t, memory |-> m, pcbs |-> pb, openfiles |-> ds]
  BY DEF Kernel
<1>2. k.table = t /\ k.memory = m /\ k.openfiles = ds
  BY <1>1
<1>3. F \subseteq UserPages /\ 0 \notin UserPages
  BY WordFacts DEF MapIs
<1>4. IF F = {} THEN user.page = 0 /\ user.mem = m
      ELSE user.page \in F /\ MapIs(user.mem, F \ {user.page})
  BY AllocPageLemma
<1> DEFINE H == IF F = {} THEN F ELSE F \ {user.page}
<1>5. MapIs(user.mem, H)
  BY <1>4
<1> HIDE DEF H
<1>6. IF H = {} THEN stack.page = 0 /\ stack.mem = user.mem
      ELSE stack.page \in H /\ MapIs(stack.mem, H \ {stack.page})
  <2> HIDE DEF user
  <2> QED BY <1>5, AllocPageLemma
<1>7. n = IF t.free = <<>> THEN [k EXCEPT !.table = Halt(@)]
          ELSE IF user.page = 0 \/ stack.page = 0
          THEN [k EXCEPT !.table = Halt(@), !.memory = stack.mem]
          ELSE ForkWith(k, stack.mem, NewPcb(user.page, stack.page, buf),
                        ProcessGetCodeInfo(ds, name), buf)
  BY <1>2 DEF ProcessFork
<1> HIDE DEF user, stack, n
<1>8. CASE t.free = <<>>
  <2>1. n = [[table |-> t, memory |-> m, pcbs |-> pb, openfiles |-> ds]
             EXCEPT !.table = Halt(@)]
    BY <1>1, <1>7, <1>8
  <2>2. n.table = Halt(t) /\ n.pcbs = pb /\ n.openfiles = ds /\ n.memory = m
    BY <2>1
  <2> QED BY <2>2 DEF Stopped, n, k
<1>9. CASE t.free # <<>> /\ (user.page = 0 \/ stack.page = 0)
  <2>1. n = [[table |-> t, memory |-> m, pcbs |-> pb, openfiles |-> ds]
             EXCEPT !.table = Halt(@), !.memory = stack.mem]
    BY <1>1, <1>7, <1>9
  <2>2. n.table = Halt(t) /\ n.pcbs = pb /\ n.openfiles = ds /\ n.memory = stack.mem
    BY <2>1
  <2>3. \E G : MapIs(stack.mem, G)
    BY <1>5, <1>6
  <2>4. Stopped(n, t, pb, ds)
    BY <2>2, <2>3 DEF Stopped
  <2> QED BY <2>4 DEF n, k
<1>10. CASE t.free # <<>> /\ ~(user.page = 0 \/ stack.page = 0)
  <2>1. user.page \in F /\ stack.page \in F \ {user.page} /\ H = F \ {user.page}
    BY <1>4, <1>6, <1>10 DEF H
  <2>2. MapIs(stack.mem, F \ {user.page, stack.page})
    <3>1. MapIs(stack.mem, H \ {stack.page})
      BY <1>6, <1>10
    <3>2. H \ {stack.page} = F \ {user.page, stack.page}
      BY <2>1
    <3> QED BY <3>1, <3>2
  <2>3. n = ForkWith(k, stack.mem, NewPcb(user.page, stack.page, buf),
                     ProcessGetCodeInfo(ds, name), buf)
    BY <1>7, <1>10
  <2>4. NoCode(n, t, F, pb, ds, name) \/ StartedWith(n, t, F, pb, ds, name)
    BY <1>3, <1>10, <2>1, <2>2, <2>3, ForkWithLemma
  <2> QED BY <2>4 DEF n, k
<1> QED BY <1>8, <1>9, <1>10

-----------------------------------------------------------------------------
(* The inductive invariant.                                                *)

\* The pages: the map is one of a set, and while the system runs that set is
\* what the living processes do not own.
PagesInv ==
  /\ pcbs = [p \in Proc |-> pcbs[p]]
  /\ \E F : MapIs(memory, F) /\ (Running => Owned(pcbs, LiveIn(table), F))

\* The descriptors: slot 0 is taken, and as many as are known to be lost.
SlotsInv ==
  /\ openfiles \in Descs /\ 0 \in OpenSlots(openfiles)
  /\ Cardinality(OpenSlots(openfiles)) = lost
  /\ access = "failed" => lost = MaxOpen

ResInv ==
  /\ Inv /\ PagesInv /\ SlotsInv
  /\ access \in {"none", "ok", "failed"} /\ forks \in 0 .. MaxForks

LEMMA ResTable ==
  ASSUME ResInv
  PROVE  /\ TableInv(table) /\ Settled(table) /\ jiffies \in 0 .. Quantum
         /\ Running => /\ Current \in With(table, "runnable")
                       /\ With(table, "zombie") = {}
<1>1. TableInv(table) /\ Settled(table) /\ jiffies \in 0 .. Quantum
  BY DEF ResInv, Inv, TypeOK, QueuesMatchStatus, CurrentIsFront, TableInv
<1>2. Running => Current \in With(table, "runnable")
  BY CurrentLemma DEF ResInv
<1>3. Running => With(table, "zombie") = {}
  BY <1>1, NoZombies DEF Settled, Running
<1> QED BY <1>1, <1>2, <1>3

\* Boot: the system starts only if main's program could be loaded.
LEMMA ResInitInv == ResInit => ResInv
<1> SUFFICES ASSUME ResInit PROVE ResInv
  OBVIOUS
<1>1. PICK dumps \in DumpLists, vm \in VmNames, name \in Programs, args \in ArgLists,
           filler \in Fillers :
        LET birth == Birth("main", name, args)
            k == [table |-> ModuleInit, memory |-> MemoryModuleInit,
                  pcbs |-> [p \in Proc |-> NoPcb], openfiles |-> Booted(dumps, vm)]
        IN \E next \in {ProcessFork(k, name, MainArgs(birth.strings, filler))} :
            /\ Loaded(k, next)
            /\ table = next.table /\ jiffies = 0 /\ memory = next.memory
            /\ pcbs = next.pcbs /\ openfiles = next.openfiles
            /\ lost = LostAtBoot(dumps) /\ access = "none" /\ forks = 0
  BY DEF ResInit
<1> DEFINE pb == [p \in Proc |-> NoPcb]
           ds == Booted(dumps, vm)
           k == Kernel(ModuleInit, MemoryModuleInit, pb, ds)
           buf == MainArgs(Birth("main", name, args).strings, filler)
           n == ProcessFork(k, name, buf)
<1>2. /\ Loaded(k, n) /\ table = n.table /\ jiffies = 0 /\ memory = n.memory
      /\ pcbs = n.pcbs /\ openfiles = n.openfiles
      /\ lost = LostAtBoot(dumps) /\ access = "none" /\ forks = 0
  BY <1>1 DEF Kernel
<1>3. /\ ds \in Descs /\ 0 \in OpenSlots(ds)
      /\ Cardinality(OpenSlots(ds)) = LostAtBoot(dumps)
  BY BootedLemma
<1> HIDE DEF ds, buf
<1>4. name \in Names
  BY NameAssumption
<1>5. \/ Stopped(n, ModuleInit, pb, ds)
      \/ NoCode(n, ModuleInit, UserPages, pb, ds, name)
      \/ StartedWith(n, ModuleInit, UserPages, pb, ds, name)
  BY <1>3, <1>4, MapAtBoot, CreateLemma
<1>6. pb = [q \in Proc |-> pb[q]]
  OBVIOUS
<1>7. Owned(pb, {}, UserPages) /\ LiveIn(ModuleInit) = {}
  <2>1. LiveIn(ModuleInit) = {}
    BY DEF LiveIn, ModuleInit
  <2> QED BY <2>1 DEF Owned
<1>8. TableInv(ModuleInit)
  BY ModuleInitLemma
<1> HIDE DEF n, pb
<1>9. ModuleInit.free # <<>> /\ n.table.status[Head(ModuleInit.free)] = "runnable"
  <2>1. k.table = ModuleInit
    BY DEF Kernel
  <2> QED BY <1>2, <2>1 DEF Loaded
<1>10. StartedWith(n, ModuleInit, UserPages, pb, ds, name)
  <2>1. ModuleInit.status[Head(ModuleInit.free)] = "free"
    BY <1>8, <1>9, ForkLive
  <2>2. ~Stopped(n, ModuleInit, pb, ds)
    BY <1>8, <1>9, <2>1, HaltLive DEF Stopped
  <2>3. ~NoCode(n, ModuleInit, UserPages, pb, ds, name)
    BY <1>8, <1>9, <2>1, ForkLive DEF NoCode
  <2> QED BY <1>5, <2>2, <2>3
<1>11. Inv
  <2>1. Init
    BY <1>2, <1>10 DEF Init, StartedWith
  <2> QED BY <2>1, InitInv
<1>12. PagesInv
  <2> DEFINE p == Head(ModuleInit.free)
  <2>1. PICK pcb : /\ PagesIn(pcb) \subseteq UserPages /\ UserPage(pcb) # pcb.sysStack
                   /\ pcbs = FilledIn(pb, p, pcb) /\ MapIs(memory, UserPages \ PagesIn(pcb))
    BY <1>2, <1>10 DEF StartedWith
  <2>2. p \in Proc \ {} /\ LiveIn(table) = {} \cup {p}
    BY <1>2, <1>7, <1>8, <1>9, <1>10, ForkLive DEF StartedWith
  <2> HIDE DEF p
  <2>3. Owned(pcbs, {} \cup {p}, UserPages \ PagesIn(pcb))
    BY <1>6, <1>7, <2>1, <2>2, GrantLemma
  <2>4. pcbs = [q \in Proc |-> pcbs[q]]
    BY <1>6, <2>1, <2>2, FilledInLemma
  <2> QED BY <2>1, <2>2, <2>3, <2>4 DEF PagesInv
<1>13. SlotsInv
  BY <1>2, <1>3, <1>10 DEF SlotsInv, StartedWith
<1>14. forks \in 0 .. MaxForks
  BY <1>2, ForksAssumption
<1> QED BY <1>2, <1>11, <1>12, <1>13, <1>14 DEF ResInv

\* The trap that creates a process (traps.c 290-393, process.c 351-558).
LEMMA CreateProgramInv ==
  ASSUME ResInv, NEW name \in Programs, NEW args \in ArgLists, CreateProgram(name, args)
  PROVE  ResInv'
<1> DEFINE k == Kernel(table, memory, pcbs, openfiles)
           strings == Birth("trap", name, args).strings
           n == IF ArgsAccepted(strings) THEN ProcessFork(k, name, TrapArgs(strings))
                ELSE [k EXCEPT !.table = Halt(@)]
           p == Head(table.free)
<1>1. /\ Running /\ forks < MaxForks /\ forks' = forks + 1
      /\ table' = n.table /\ memory' = n.memory /\ pcbs' = n.pcbs
      /\ openfiles' = n.openfiles
      /\ lost' = IF ~n.table.halted /\ IsText(name) /\ OpenSlots(openfiles) # Slot
                 THEN lost + 1 ELSE lost
      /\ UNCHANGED <<jiffies, access>>
  BY DEF CreateProgram, Kernel
<1>2. /\ TableInv(table) /\ Settled(table) /\ jiffies \in 0 .. Quantum
      /\ table.halted = FALSE
  <2>1. TableInv(table) /\ Settled(table) /\ jiffies \in 0 .. Quantum
    BY ResTable
  <2>2. table.halted \in BOOLEAN
    BY <2>1 DEF TableInv, Tables
  <2> QED BY <1>1, <2>1, <2>2 DEF Running
<1>3. PICK F : MapIs(memory, F) /\ Owned(pcbs, LiveIn(table), F)
  BY <1>1 DEF ResInv, PagesInv
<1>4. /\ pcbs = [q \in Proc |-> pcbs[q]]
      /\ openfiles \in Descs /\ 0 \in OpenSlots(openfiles)
      /\ Cardinality(OpenSlots(openfiles)) = lost
      /\ access = "failed" => lost = MaxOpen
      /\ access \in {"none", "ok", "failed"} /\ forks \in 0 .. MaxForks
  BY DEF ResInv, PagesInv, SlotsInv
<1>5. name \in Names
  BY NameAssumption
<1>6. \/ Stopped(n, table, pcbs, openfiles)
      \/ NoCode(n, table, F, pcbs, openfiles, name)
      \/ StartedWith(n, table, F, pcbs, openfiles, name)
  <2>1. CASE ArgsAccepted(strings)
    <3> HIDE DEF strings
    <3> QED BY <1>3, <1>4, <1>5, <2>1, CreateLemma
  <2>2. CASE ~ArgsAccepted(strings)
    <3>1. n = [[table |-> table, memory |-> memory, pcbs |-> pcbs, openfiles |-> openfiles]
               EXCEPT !.table = Halt(@)]
      <4> HIDE DEF strings
      <4> QED BY <2>2 DEF Kernel
    <3> HIDE DEF n
    <3>2. n.table = Halt(table) /\ n.pcbs = pcbs /\ n.openfiles = openfiles /\ n.memory = memory
      BY <3>1
    <3> QED BY <1>3, <3>2 DEF Stopped
  <2> QED BY <2>1, <2>2
<1> HIDE DEF n
<1>7. LiveIn(table) \in SUBSET Proc
  BY DEF LiveIn
<1>8. lost \in Nat /\ MaxOpen \in Nat
  BY <1>4, SlotFacts
<1>9. table.free # <<>> =>
        /\ p \in Proc \ LiveIn(table) /\ p \in Proc
        /\ LiveIn(Fork(table)) = LiveIn(table) \cup {p} /\ Fork(table).halted = FALSE
        /\ LiveIn(ForkNoCode(table)) = LiveIn(table) /\ ForkNoCode(table).halted = FALSE
  BY <1>2, ForkLive
<1>10. Inv'
  <2>1. TableInv(table') /\ Settled(table')
    BY <1>1, <1>2, <1>6, HaltLemma, ForkLemma, ForkNoCodeLemma
    DEF Stopped, NoCode, StartedWith
  <2> QED BY <1>1, <1>2, <2>1, InvFromTable
<1>11. PagesInv'
  <2> HIDE DEF p
  <2>1. CASE Stopped(n, table, pcbs, openfiles)
    <3>1. PICK G : MapIs(memory', G)
      BY <1>1, <2>1 DEF Stopped
    <3>2. ~Running' /\ pcbs' = pcbs
      BY <1>1, <1>2, <2>1, HaltLive DEF Stopped, Running
    <3> QED BY <1>4, <3>1, <3>2 DEF PagesInv
  <2>2. CASE NoCode(n, table, F, pcbs, openfiles, name)
    <3>1. PICK pcb : pcbs' = FilledIn(pcbs, p, pcb)
      BY <1>1, <2>2 DEF NoCode, p
    <3>2. MapIs(memory', F) /\ LiveIn(table') = LiveIn(table) /\ p \in Proc \ LiveIn(table)
      BY <1>1, <1>9, <2>2 DEF NoCode
    <3>3. Owned(pcbs', LiveIn(table'), F)
      BY <1>3, <1>4, <1>7, <3>1, <3>2, FreePcbLemma
    <3>4. pcbs' = [q \in Proc |-> pcbs'[q]]
      BY <1>4, <3>1, <3>2, FilledInLemma
    <3> QED BY <3>2, <3>3, <3>4 DEF PagesInv
  <2>3. CASE StartedWith(n, table, F, pcbs, openfiles, name)
    <3>1. PICK pcb : /\ PagesIn(pcb) \subseteq F /\ UserPage(pcb) # pcb.sysStack
                     /\ pcbs' = FilledIn(pcbs, p, pcb)
                     /\ MapIs(memory', F \ PagesIn(pcb))
      BY <1>1, <2>3 DEF StartedWith, p
    <3>2. LiveIn(table') = LiveIn(table) \cup {p} /\ p \in Proc \ LiveIn(table)
      BY <1>1, <1>9, <2>3 DEF StartedWith
    <3>3. Owned(pcbs', LiveIn(table'), F \ PagesIn(pcb))
      BY <1>3, <1>4, <1>7, <3>1, <3>2, GrantLemma
    <3>4. pcbs' = [q \in Proc |-> pcbs'[q]]
      BY <1>4, <3>1, <3>2, FilledInLemma
    <3> QED BY <3>1, <3>3, <3>4 DEF PagesInv
  <2> QED BY <1>6, <2>1, <2>2, <2>3
<1>12. SlotsInv'
  <2> DEFINE O == OpenSlots(openfiles)
  <2>1. lost = MaxOpen => O = Slot
    BY <1>4, SlotFacts
  <2>2. access' = "failed" => lost' = MaxOpen
    BY <1>1, <1>4, <2>1
  <2>3. /\ openfiles' \in Descs /\ 0 \in OpenSlots(openfiles')
        /\ Cardinality(OpenSlots(openfiles')) = lost'
    <3>1. CASE Stopped(n, table, pcbs, openfiles)
      <4>1. n.table.halted /\ openfiles' = openfiles
        BY <1>1, <1>2, <3>1, HaltLive DEF Stopped
      <4> QED BY <1>1, <1>4, <4>1
    <3>2. CASE NoCode(n, table, F, pcbs, openfiles, name)
      <4>1. /\ openfiles' \in Descs /\ 0 \in OpenSlots(openfiles')
            /\ Cardinality(OpenSlots(openfiles'))
                 = lost + (IF Loses(openfiles, name) THEN 1 ELSE 0)
        BY <1>1, <1>4, <1>5, <3>2, NoCodeLemma DEF NoCode
      <4>2. n.table.halted = FALSE
        BY <1>9, <3>2 DEF NoCode
      <4>3. lost' = IF Loses(openfiles, name) THEN lost + 1 ELSE lost
        BY <1>1, <4>2 DEF Loses
      <4>4. lost + 0 = lost
        BY <1>8
      <4> QED BY <4>1, <4>3, <4>4
    <3>3. CASE StartedWith(n, table, F, pcbs, openfiles, name)
      <4>1. /\ openfiles' \in Descs /\ OpenSlots(openfiles') = OpenSlots(openfiles)
            /\ ~IsText(name)
        BY <1>1, <3>3 DEF StartedWith, IsText
      <4> QED BY <1>1, <1>4, <4>1
    <3> QED BY <1>6, <3>1, <3>2, <3>3
  <2> QED BY <2>2, <2>3 DEF SlotsInv
<1>13. forks' \in 0 .. MaxForks
  BY <1>1, <1>4, ForksAssumption
<1> QED BY <1>1, <1>4, <1>10, <1>11, <1>12, <1>13 DEF ResInv

\* The zombies that are freed are none or the one process that has exited.
LEMMA FoldNone ==
  FoldSet(LAMBDA p, m : FreeResources(m, pcbs[p]), memory, {}) = memory
<1> DEFINE P(g) == g = [s \in SUBSET {} |-> IF s = {} THEN memory
                        ELSE FreeResources(g[s \ {CHOOSE x \in s : TRUE}],
                                           pcbs[CHOOSE x \in s : TRUE])]
           iter == [s \in SUBSET {} |-> memory]
<1>1. P(iter)
  BY Zenon
<1>2. ASSUME NEW g, P(g) PROVE g[{}] = memory
  BY <1>2
<1> HIDE DEF iter
<1>3. (CHOOSE g : P(g))[{}] = memory
  <2> HIDE DEF P
  <2> QED BY <1>1, <1>2
<1> QED BY <1>3 DEF FoldSet, MapThenFoldSet

LEMMA FoldOne ==
  ASSUME NEW c
  PROVE  FoldSet(LAMBDA p, m : FreeResources(m, pcbs[p]), memory, {c})
           = FreeResources(memory, pcbs[c])
<1> DEFINE P(g) == g = [s \in SUBSET {c} |-> IF s = {} THEN memory
                        ELSE FreeResources(g[s \ {CHOOSE x \in s : TRUE}],
                                           pcbs[CHOOSE x \in s : TRUE])]
           iter == [s \in SUBSET {c} |-> IF s = {} THEN memory
                                         ELSE FreeResources(memory, pcbs[c])]
<1>1. ASSUME NEW s \in SUBSET {c}, s # {}
      PROVE  (CHOOSE x \in s : TRUE) = c /\ s \ {CHOOSE x \in s : TRUE} = {}
  <2>1. s = {c}
    BY <1>1
  <2> QED BY <2>1
<1>2. P(iter)
  <2>1. {} \in SUBSET {c}
    OBVIOUS
  <2>2. ASSUME NEW s \in SUBSET {c}
        PROVE  iter[s] = (IF s = {} THEN memory
                          ELSE FreeResources(iter[s \ {CHOOSE x \in s : TRUE}],
                                             pcbs[CHOOSE x \in s : TRUE]))
    BY <1>1, <2>1
  <2> QED BY <2>2, Zenon
<1>3. ASSUME NEW g, P(g) PROVE g[{c}] = FreeResources(memory, pcbs[c])
  <2>1. {} \in SUBSET {c} /\ {c} \in SUBSET {c} /\ {c} # {}
    OBVIOUS
  <2>2. g[{}] = memory
    BY <1>3, <2>1
  <2>3. (CHOOSE x \in {c} : TRUE) = c /\ {c} \ {CHOOSE x \in {c} : TRUE} = {}
    BY <1>1, <2>1
  <2>4. g[{c}] = FreeResources(g[{c} \ {CHOOSE x \in {c} : TRUE}],
                               pcbs[CHOOSE x \in {c} : TRUE])
    BY <1>3, <2>1
  <2> QED BY <2>2, <2>3, <2>4
<1> HIDE DEF iter
<1>4. (CHOOSE g : P(g))[{c}] = FreeResources(memory, pcbs[c])
  <2> HIDE DEF P
  <2> QED BY <1>2, <1>3
<1> QED BY <1>4 DEF FoldSet, MapThenFoldSet

\* Exit: the process that ends gives its pages back before the next one runs,
\* or the system ends (process.c 213-223).
LEMMA ExitAndFreeInv ==
  ASSUME ResInv, ExitAndFree
  PROVE  ResInv'
<1> DEFINE c == Current
           d == Destroy(table, c)
           freed == {p \in Proc : table.status[p] # "free" /\ table'.status[p] = "free"}
<1>1. /\ Running /\ table' = Schedule(d) /\ jiffies' = 0
      /\ memory' = FoldSet(LAMBDA p, m : FreeResources(m, pcbs[p]), memory, freed)
      /\ UNCHANGED <<openfiles, pcbs, born, lost, access, forks>>
  BY DEF ExitAndFree, Exit, ClkReset
<1>2. /\ TableInv(table) /\ table \in Tables /\ table.halted = FALSE
      /\ c \in With(table, "runnable") /\ With(table, "zombie") = {}
  <2>1. TableInv(table) /\ c \in With(table, "runnable") /\ With(table, "zombie") = {}
    BY <1>1, ResTable
  <2>2. table.halted \in BOOLEAN /\ table \in Tables
    BY <2>1 DEF TableInv, Tables
  <2> QED BY <1>1, <2>1, <2>2 DEF Running
<1> HIDE DEF c
<1>3. TableInv(d) /\ d.status = [table.status EXCEPT ![c] = "zombie"]
  BY <1>2, DestroyLemma DEF Destroy, Tables
<1> HIDE DEF d
<1>4. c \in Proc /\ c \in LiveIn(table) /\ LiveIn(d) = LiveIn(table) /\ With(d, "zombie") = {c}
  BY <1>2, <1>3 DEF LiveIn, With, Tables
<1>5. IF d.run = <<>> THEN table'.status = d.status /\ table'.halted
      ELSE LiveIn(table') = LiveIn(d) \ With(d, "zombie")
  BY <1>1, <1>3, ScheduleLive
<1>6. PICK F : MapIs(memory, F) /\ Owned(pcbs, LiveIn(table), F)
  BY <1>1 DEF ResInv, PagesInv
<1>7. Inv'
  <2>1. Exit
    BY DEF ExitAndFree
  <2>2. Inv
    BY DEF ResInv
  <2> QED BY <2>1, <2>2, NextInv DEF Next
<1>8. PagesInv'
  <2>1. pcbs' = [p \in Proc |-> pcbs'[p]] /\ pcbs' = pcbs
    BY <1>1 DEF ResInv, PagesInv
  <2>2. CASE d.run = <<>>
    <3>1. freed = {}
      BY <1>2, <1>3, <1>5, <2>2 DEF Tables
    <3>2. memory' = memory
      BY <1>1, <3>1, FoldNone
    <3>3. ~Running'
      BY <1>5, <2>2 DEF Running
    <3> QED BY <1>6, <2>1, <3>2, <3>3 DEF PagesInv
  <2>3. CASE d.run # <<>>
    <3>1. LiveIn(table') = LiveIn(table) \ {c}
      BY <1>4, <1>5, <2>3
    <3>2. freed = {c}
      <4>1. freed = LiveIn(table) \ LiveIn(table')
        BY DEF LiveIn
      <4> QED BY <1>4, <3>1, <4>1
    <3> HIDE DEF freed
    <3>3. memory' = FreeResources(memory, pcbs[c])
      BY <1>1, <3>2, FoldOne
    <3>4. LiveIn(table) \in SUBSET Proc
      BY DEF LiveIn
    <3>5. /\ UserPage(pcbs[c]) \in UserPages \ F /\ pcbs[c].sysStack \in UserPages \ F
          /\ UserPage(pcbs[c]) # pcbs[c].sysStack
          /\ Owned(pcbs, LiveIn(table) \ {c}, F \cup PagesIn(pcbs[c]))
      BY <1>4, <1>6, <3>4, ReclaimLemma
    <3>6. MapIs(memory', F \cup PagesIn(pcbs[c]))
      BY <1>6, <3>3, <3>5, FreeResourcesLemma DEF PagesIn
    <3> QED BY <2>1, <3>1, <3>5, <3>6 DEF PagesInv
  <2> QED BY <2>2, <2>3
<1>9. SlotsInv' /\ access' \in {"none", "ok", "failed"} /\ forks' \in 0 .. MaxForks
  BY <1>1 DEF ResInv, SlotsInv
<1> QED BY <1>7, <1>8, <1>9 DEF ResInv

\* A transfer of a block of the disk.
LEMMA DiskAccessInv ==
  ASSUME ResInv, NEW transfers \in {"reads", "writes"}, DiskAccess(transfers)
  PROVE  ResInv'
<1> DEFINE d == DiskBlock(openfiles, transfers)
<1>1. /\ openfiles' = d.table /\ access' = IF d.ok THEN "ok" ELSE "failed"
      /\ UNCHANGED <<table, jiffies, memory, pcbs, born, lost, forks>>
  BY DEF DiskAccess
<1>2. /\ openfiles \in Descs /\ 0 \in OpenSlots(openfiles)
      /\ Cardinality(OpenSlots(openfiles)) = lost
  BY DEF ResInv, SlotsInv
<1>3. /\ d.table \in Descs
      /\ \/ OpenSlots(d.table) = OpenSlots(openfiles) \cup {0}
         \/ OpenSlots(d.table) = OpenSlots(openfiles)
      /\ OpenSlots(openfiles) # Slot => d.ok
  BY <1>2, DiskLemma
<1> HIDE DEF d
<1>4. OpenSlots(openfiles') = OpenSlots(openfiles) /\ openfiles' \in Descs
  <2>1. OpenSlots(openfiles) \cup {0} = OpenSlots(openfiles)
    BY <1>2
  <2> QED BY <1>1, <1>3, <2>1
<1>5. access' = "failed" => lost' = MaxOpen
  <2>1. access' = "failed" => OpenSlots(openfiles) = Slot
    BY <1>1, <1>3
  <2> QED BY <1>1, <1>2, <2>1, SlotFacts
<1>6. SlotsInv'
  BY <1>1, <1>2, <1>4, <1>5 DEF SlotsInv
<1>7. Inv' /\ PagesInv' /\ forks' \in 0 .. MaxForks
  BY <1>1 DEF ResInv, Inv, TypeOK, QueuesMatchStatus, CurrentIsFront, PagesInv, Running
<1> QED BY <1>1, <1>6, <1>7 DEF ResInv

\* No other trap makes or frees a process.
LEMMA OtherProcessTrapLive ==
  ASSUME ResInv, OtherProcessTrap
  PROVE  LiveIn(table') = LiveIn(table) \/ ~Running'
<1>1. Yield \/ Sleep \/ Tick \/ \E p \in table.waiting : WakeOne(p)
  BY DEF OtherProcessTrap
<1>2. Running
  BY <1>1 DEF Yield, Sleep, Tick, WakeOne
<1>3. /\ TableInv(table) /\ table \in Tables
      /\ Current \in With(table, "runnable") /\ With(table, "zombie") = {}
  BY <1>2, ResTable DEF TableInv
<1>4. LiveIn(Schedule(table)) = LiveIn(table) \/ Schedule(table).halted
  BY <1>3, ScheduleLive
<1>5. CASE Yield \/ Tick
  BY <1>4, <1>5 DEF Yield, Tick, Running
<1>6. CASE Sleep
  <2> DEFINE c == Current
             s == Suspend(table, c)
  <2>1. table' = Schedule(s)
    BY <1>6 DEF Sleep
  <2> HIDE DEF c
  <2>2. TableInv(s) /\ s.status = [table.status EXCEPT ![c] = "waiting"]
    BY <1>3, SuspendLemma DEF Suspend, Tables, c
  <2> HIDE DEF s
  <2>3. LiveIn(s) = LiveIn(table) /\ With(s, "zombie") = {}
    BY <1>3, <2>2 DEF LiveIn, With, Tables, c
  <2>4. LiveIn(Schedule(s)) = LiveIn(s) \/ Schedule(s).halted
    BY <2>2, <2>3, ScheduleLive
  <2> QED BY <2>1, <2>3, <2>4 DEF Running
<1>7. CASE \E p \in table.waiting : WakeOne(p)
  <2>1. PICK p \in table.waiting : table' = Wakeup(table, p)
    BY <1>7 DEF WakeOne
  <2>2. table'.status = [table.status EXCEPT ![p] = "runnable"]
    BY <1>3, <2>1 DEF Wakeup, Tables
  <2>3. p \in With(table, "waiting")
    BY <1>3, <2>1 DEF TableInv, QueuesMatch
  <2> QED BY <1>3, <2>2, <2>3 DEF LiveIn, With, Tables
<1> QED BY <1>1, <1>5, <1>6, <1>7

LEMMA OtherProcessTrapInv ==
  ASSUME ResInv, OtherProcessTrap
  PROVE  ResInv'
<1>1. /\ Yield \/ Sleep \/ Tick \/ \E p \in table.waiting : WakeOne(p)
      /\ UNCHANGED <<memory, openfiles, pcbs, born, lost, access, forks>>
  BY DEF OtherProcessTrap
<1>2. Inv'
  BY <1>1, NextInv DEF Next, ResInv
<1>3. Running
  BY <1>1 DEF Yield, Sleep, Tick, WakeOne
<1>4. LiveIn(table') = LiveIn(table) \/ ~Running'
  BY OtherProcessTrapLive
<1>5. PagesInv'
  BY <1>1, <1>3, <1>4 DEF ResInv, PagesInv
<1>6. SlotsInv' /\ access' \in {"none", "ok", "failed"} /\ forks' \in 0 .. MaxForks
  BY <1>1 DEF ResInv, SlotsInv
<1> QED BY <1>2, <1>5, <1>6 DEF ResInv

LEMMA ResNextInv == ResInv /\ [ResNext]_resVars => ResInv'
<1> SUFFICES ASSUME ResInv, [ResNext]_resVars PROVE ResInv'
  OBVIOUS
<1>1. CASE \E name \in Programs, args \in ArgLists : CreateProgram(name, args)
  BY <1>1, CreateProgramInv
<1>2. CASE ExitAndFree
  BY <1>2, ExitAndFreeInv
<1>3. CASE \E transfers \in {"reads", "writes"} : DiskAccess(transfers)
  BY <1>3, DiskAccessInv
<1>4. CASE OtherProcessTrap
  BY <1>4, OtherProcessTrapInv
<1>5. CASE UNCHANGED resVars
  BY <1>5 DEF resVars, ResInv, Inv, TypeOK, QueuesMatchStatus, CurrentIsFront, PagesInv,
              SlotsInv, Running
<1> QED BY <1>1, <1>2, <1>3, <1>4, <1>5 DEF ResNext

LEMMA ResInvHolds == ResSpec => []ResInv
BY ResInitInv, ResNextInv, PTL DEF ResSpec

-----------------------------------------------------------------------------
(* The theorems.                                                           *)

\* The map of free pages, its count and the word where the next search begins
\* keep their types, and so do the descriptors, through every creation,
\* failed or not, every exit and every access to the disk.
THEOREM ResourcesTyped == ResSpec => []ResTypeOK
<1>1. ResInv => ResTypeOK
  <2> SUFFICES ASSUME ResInv PROVE ResTypeOK
    OBVIOUS
  <2>1. PICK F : MapIs(memory, F)
    BY DEF ResInv, PagesInv
  <2>2. /\ memory.freepages \in [Word -> SUBSET (0 .. WordBits - 1)]
        /\ memory.mapnum \in Word /\ memory.nfreepages = Cardinality(F)
    BY <2>1 DEF MapIs, Bits
  <2>3. memory.nfreepages \in 0 .. MaxPage - PageStart
    <3>1. Cardinality(F) \in Nat /\ Cardinality(F) <= MaxPage - PageStart
      BY <2>1, MapFacts
    <3> QED BY <2>2, <3>1, WordFacts
  <2>4. lost \in 0 .. MaxOpen
    BY SlotFacts DEF ResInv, SlotsInv
  <2> QED BY <2>2, <2>3, <2>4 DEF ResTypeOK, ResInv, SlotsInv, Inv, Descs
<1> QED BY <1>1, ResInvHolds, PTL

\* MemoryAllocPage and MemoryFreePage: no page is lost, owned twice, or owned
\* and free, whatever creations fail for want of a PCB, of a page or of an
\* executable, and in whatever order processes exit.
THEOREM PagesAlwaysOwned == ResSpec => []PagesAreOwned
<1>1. ResInv => PagesAreOwned
  <2> SUFFICES ASSUME ResInv, Running PROVE PagesAreOwned
    BY DEF PagesAreOwned
  <2>1. PICK F : MapIs(memory, F) /\ Owned(pcbs, LiveIn(table), F)
    BY DEF ResInv, PagesInv
  <2>2. LiveIn(table) = Live /\ \A p \in Live : PagesIn(pcbs[p]) = PagesOf(p)
    BY DEF LiveIn, Live, PagesIn, PagesOf, UserPage
  <2>3. FreePages(memory) = F
    BY <2>1, MapFacts
  <2>4. ASSUME NEW p \in Live
        PROVE  Cardinality(PagesOf(p)) = 2 /\ PagesOf(p) \subseteq UserPages
    <3>1. /\ PagesIn(pcbs[p]) \subseteq UserPages
          /\ UserPage(pcbs[p]) # pcbs[p].sysStack
      BY <2>1, <2>2 DEF Owned
    <3> DEFINE u == UserPage(pcbs[p])
               s == pcbs[p].sysStack
    <3>2. PagesOf(p) = {u} \cup {s}
      BY DEF PagesOf, UserPage
    <3> HIDE DEF u, s
    <3>3. IsFiniteSet({u}) /\ Cardinality({u}) = 1
      BY FS_Singleton
    <3>4. s \notin {u}
      BY <3>1 DEF u, s
    <3>5. Cardinality({u} \cup {s}) = Cardinality({u}) + 1
      BY <3>3, <3>4, FS_AddElement
    <3>6. Cardinality({u} \cup {s}) = 2
      BY <3>3, <3>5
    <3> QED BY <2>2, <3>1, <3>2, <3>6
  <2>5. \A p, q \in Live : p # q => PagesOf(p) \cap PagesOf(q) = {}
    BY <2>1, <2>2 DEF Owned
  <2>6. FreePages(memory) = UserPages \ UNION {PagesOf(p) : p \in Live}
    <3>1. {PagesIn(pcbs[p]) : p \in LiveIn(table)} = {PagesOf(p) : p \in Live}
      BY <2>2
    <3> QED BY <2>1, <2>3, <3>1 DEF Owned
  <2> QED BY <2>4, <2>5, <2>6 DEF PagesAreOwned, UserPages
<1> QED BY <1>1, ResInvHolds, PTL

\* MemoryAllocPage trusts its count and looks for a word with a free page
\* without an end: it always finds one.
THEOREM SearchAlwaysEnds == ResSpec => []SearchEnds
<1>1. ResInv => SearchEnds
  <2> SUFFICES ASSUME ResInv PROVE SearchEnds
    OBVIOUS
  <2>1. PICK F : MapIs(memory, F)
    BY DEF ResInv, PagesInv
  <2> QED BY <2>1, MapFacts DEF SearchEnds
<1> QED BY <1>1, ResInvHolds, PTL

\* FsOpen and FsClose: neither a creation that succeeds or fails nor an access
\* to the disk leaves a slot open, besides the ones that a text or slot 0
\* loses for good.
THEOREM DescriptorsAlwaysAccounted == ResSpec => []DescriptorsAccounted
<1>1. ResInv => DescriptorsAccounted
  BY DEF ResInv, SlotsInv, DescriptorsAccounted
<1> QED BY <1>1, ResInvHolds, PTL

\* DiskReadBlock and DiskWriteBlock fail only when every slot has been lost.
THEOREM DiskAlwaysUsable == ResSpec => []DiskUsable
<1>1. ResInv => DiskUsable
  BY DEF ResInv, SlotsInv, DiskUsable
<1> QED BY <1>1, ResInvHolds, PTL
=============================================================================

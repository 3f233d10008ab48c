----------------------------- MODULE MemoryPages -----------------------------
(***************************************************************************)
(* The pages of physical memory and the copies between a user program and  *)
(* the kernel (flat/os/memory.c).                                          *)
(*                                                                         *)
(* A memory is a record of the map of free pages, word by word, of the     *)
(* number of free pages, of the word where the next search begins and of   *)
(* the cells of all pages; the routines are functions from one to the      *)
(* next.  A cell stands for a byte or a word of the real memory.           *)
(***************************************************************************)
EXTENDS Integers, Sequences, FiniteSetsExt

CONSTANTS WordBits,  \* pages per word of the map (32)
          PageStart, \* the first page behind the operating system
          MaxPage,   \* MemoryGetSize() / MEMORY_PAGE_SIZE
          PageSize,  \* MEMORY_PAGE_SIZE (64 KB)
          NumPtes    \* entries of a page table, of which npages = 1 is used

ASSUME WordAssumption == WordBits \in Nat \ {0}
ASSUME PageAssumption == /\ PageStart \in Nat \ {0}
                         /\ MaxPage \in Nat
                         /\ PageStart <= MaxPage
ASSUME SpaceAssumption == PageSize \in Nat \ {0} /\ NumPtes \in Nat /\ NumPtes > 1

FreemapMax == (MaxPage + WordBits - 1) \div WordBits
Word       == 0 .. FreemapMax - 1
Page       == 0 .. MaxPage - 1
Cell       == 0 .. MaxPage * PageSize - 1

-----------------------------------------------------------------------------
(* The map of free pages: freepages[w] is the set of its one bits.         *)

MemorySetFreemap(m, p, free) ==
  [m EXCEPT !.freepages[p \div WordBits] =
     IF free THEN @ \cup {p % WordBits} ELSE @ \ {p % WordBits}]

IsFree(m, p) == p % WordBits \in m.freepages[p \div WordBits]

MemoryModuleInit ==
  [freepages  |-> [w \in Word |-> {b \in 0 .. WordBits - 1 :
                                     w * WordBits + b \in PageStart .. MaxPage - 1}],
   nfreepages |-> MaxPage - PageStart,
   mapnum     |-> 0,    \* keeps its value from call to call
   stuck      |-> FALSE, \* a search has gone round without an end
   cells      |-> [c \in Cell |-> 0]]

WordsWithFree(m) == {w \in Word : m.freepages[w] # {}}

\* The search begins with the word of the last allocation and goes round.
NextWord(m) ==
  LET from == {w \in WordsWithFree(m) : w >= m.mapnum}
  IN  IF from # {} THEN Min(from) ELSE Min(WordsWithFree(m))

\* Page 0 is the answer when there is none.  Where the count is positive and
\* the map empty the loop over the words never ends.
MemoryAllocPage(m) ==
  IF m.nfreepages = 0 THEN [mem |-> m, page |-> 0]
  ELSE IF WordsWithFree(m) = {} THEN [mem |-> [m EXCEPT !.stuck = TRUE], page |-> 0]
  ELSE LET w == NextWord(m)
           b == Min(m.freepages[w])
       IN  [mem |-> [m EXCEPT !.mapnum = w,
                              !.freepages[w] = @ \ {b},
                              !.nfreepages = @ - 1],
            page |-> w * WordBits + b]

MemoryFreePageUncounted(m, p) == \* mutant: nfreepages is not changed
  MemorySetFreemap(m, p, TRUE)

MemoryFreePage(m, p) ==
  [MemorySetFreemap(m, p, TRUE) EXCEPT !.nfreepages = @ + 1]

\* A page table entry is the address of its page; the bits of its state are
\* masked out wherever it is used.
MemorySetupPte(p)       == p * PageSize
MemoryFreePte(m, entry) == MemoryFreePage(m, entry \div PageSize)

-----------------------------------------------------------------------------
(* Translation and copies.                                                 *)

\* The first page that is not mapped passes the test too; its entry is 0 in
\* the static table of PCBs.  The answer 0 means that there is no such cell.
MemoryTranslateUserToSystem(pcb, addr) ==
  LET page == addr \div PageSize IN
  IF page > pcb.npages THEN 0
  ELSE pcb.pagetable[page] + (addr % PageSize)

\* The cells that a copy of n cells at user address u reaches: it goes page by
\* page and stops where the translation of the first cell of a piece fails.
Reached(pcb, u, n) ==
  LET Piece(i) == i = 0 \/ (u + i) % PageSize = 0
      failed == {i \in 0 .. n - 1 : /\ Piece(i)
                                    /\ MemoryTranslateUserToSystem(pcb, u + i) = 0}
  IN  0 .. (IF failed = {} THEN n ELSE Min(failed)) - 1

\* The cells from..to of data, an array from 0, go to user address u.
MemoryCopySystemToUser(m, pcb, data, u, n) ==
  LET new == [i \in Reached(pcb, u, n) |-> MemoryTranslateUserToSystem(pcb, u + i)]
      Behind(c) == {i \in DOMAIN new : new[i] = c}
  IN  [m EXCEPT !.cells = [c \in Cell |-> IF Behind(c) = {} THEN @[c]
                                          ELSE data[Max(Behind(c))]]]

\* What a user program finds at its own addresses u .. u + n - 1.
UserCells(m, pcb, u, n) ==
  [i \in 0 .. n - 1 |-> m.cells[pcb.pagetable[0] + u + i]]

-----------------------------------------------------------------------------

FreePages(m) == {p \in Page : IsFree(m, p)}

\* The count is that of the bits, so a search that begins comes to an end.
MapIsCounted(m) == Quantify(Page, LAMBDA p : IsFree(m, p)) = m.nfreepages
=============================================================================

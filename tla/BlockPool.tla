------------------------------ MODULE BlockPool ------------------------------
(***************************************************************************)
(* What the free block vector of flat/os/dfs.c promises, without its       *)
(* words, bits and masks: a set of blocks in use.  An allocation marks a   *)
(* block that was not in use and answers it, and is refused only when      *)
(* every block is in use or the file system is not up; a free gives a      *)
(* block back once.                                                        *)
(***************************************************************************)
CONSTANTS Block,    \* the DFS blocks the vector describes
          NoBlock   \* the answer of a refused allocation (DFS_FAIL)

VARIABLES used,     \* the blocks in use ('1' in the vector)
          up,       \* what DfsCheckSystem answers
          answer    \* what the last call returned

vars == <<used, up, answer>>

Answers == [call : {"boot", "switch"}]
           \cup [call : {"alloc"}, block : Block \cup {NoBlock}]
           \cup [call : {"free"}, block : Block, ok : BOOLEAN]

Init ==
  /\ used \in SUBSET Block
  /\ up \in BOOLEAN
  /\ answer = [call |-> "boot"]

Allocate ==
  /\ UNCHANGED up
  /\ \/ \E b \in Block \ used :
          /\ up
          /\ used' = used \cup {b}
          /\ answer' = [call |-> "alloc", block |-> b]
     \/ /\ ~up \/ used = Block
        /\ answer' = [call |-> "alloc", block |-> NoBlock]
        /\ UNCHANGED used

Free(b) ==
  /\ used' = used \ {b}
  /\ answer' = [call |-> "free", block |-> b, ok |-> b \in used]
  /\ UNCHANGED up

\* The file system is closed, invalidated or mounted again by other code.
Switch ==
  /\ up' \in BOOLEAN
  /\ answer' = [call |-> "switch"]
  /\ UNCHANGED used

Next == Allocate \/ (\E b \in Block : Free(b)) \/ Switch

Spec == Init /\ [][Next]_vars
=============================================================================

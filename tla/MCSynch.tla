------------------------------- MODULE MCSynch -------------------------------
(* One instance of Synch with a semaphore, two locks and a condition         *)
(* variable; a behaviour uses the semaphore or the others, which share no    *)
(* code.                                                                     *)
EXTENDS Synch

MCCounts == {-1, 0, 1}

UsesSems  == \E s \in Sem : sems[s].inuse
UsesLocks == (\E l \in Lock : locks[l].inuse) \/ (\E c \in Cond : conds[c].inuse)

OneKind == ~(UsesSems /\ UsesLocks)
=============================================================================

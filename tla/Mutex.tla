-------------------------------- MODULE Mutex --------------------------------
(***************************************************************************)
(* What the locks of the operating system promise: each has at most one    *)
(* owner, the owner hands it to one that waits for it as it gives it up,   *)
(* and it is free only while nobody waits.                                 *)
(***************************************************************************)
CONSTANTS Mutexes, \* the locks
          Client,  \* the processes
          Nobody   \* the owner of a free lock

VARIABLES owner,  \* owner[m]: who holds m
          waiters \* waiters[m]: who is asleep until m is handed over

vars == <<owner, waiters>>

Init ==
  /\ owner = [m \in Mutexes |-> Nobody]
  /\ waiters = [m \in Mutexes |-> {}]

Take(m, p) ==
  /\ owner[m] = Nobody
  /\ owner' = [owner EXCEPT ![m] = p]
  /\ UNCHANGED waiters

Wait(m, p) ==
  /\ owner[m] \notin {Nobody, p}
  /\ p \notin waiters[m]
  /\ waiters' = [waiters EXCEPT ![m] = @ \cup {p}]
  /\ UNCHANGED owner

GiveUp(m) ==
  /\ owner[m] # Nobody
  /\ waiters[m] = {}
  /\ owner' = [owner EXCEPT ![m] = Nobody]
  /\ UNCHANGED waiters

HandOver(m, p) ==
  /\ owner[m] # Nobody
  /\ p \in waiters[m]
  /\ owner' = [owner EXCEPT ![m] = p]
  /\ waiters' = [waiters EXCEPT ![m] = @ \ {p}]

Next ==
  \E m \in Mutexes :
    \/ \E p \in Client : Take(m, p) \/ Wait(m, p) \/ HandOver(m, p)
    \/ GiveUp(m)

Spec == Init /\ [][Next]_vars
=============================================================================

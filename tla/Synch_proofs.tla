------------------------------ MODULE Synch_proofs ------------------------------
(***************************************************************************)
(* Proofs about the process table of Process and about the semaphores,     *)
(* locks and condition variables that Synch builds on it.                  *)
(*                                                                         *)
(* The process table: whatever the number of PCBs and the length of the    *)
(* quantum, every PCB is on the one queue that its status names, and the   *)
(* running process is the front of the run queue.  The queue operations    *)
(* come first, then one lemma per routine of process.c, then the traps     *)
(* that compose the routines.                                              *)
(*                                                                         *)
(* Synchronization, for any number of processes, of objects and of calls,  *)
(* any initial counts, and whether processes exit with locks in hand or    *)
(* not: no wake-up is lost, a lock has one owner, a semaphore lets through *)
(* what its units allow, and each lock is the mutex of module Mutex.  What *)
(* the routines of process.c do to the table is taken from the lemmas of   *)
(* the first part; there only who is asleep matters.                       *)
(***************************************************************************)
EXTENDS Synch, TLAPS

-----------------------------------------------------------------------------
(* Queues.                                                                 *)

\* Inserting at the end adds the process, and keeps a front that was there.
LEMMA AppendLemma ==
  ASSUME NEW S, NEW q \in Seq(S), NEW A, Holds(q, A), NEW p \in S, p \notin A
  PROVE  /\ Append(q, p) \in Seq(S)
         /\ Holds(Append(q, p), A \cup {p})
         /\ Append(q, p) # <<>>
         /\ q # <<>> => Head(Append(q, p)) = Head(q)
<1> DEFINE r == Append(q, p)
<1>1. /\ r \in Seq(S)
      /\ Len(r) = Len(q) + 1
      /\ DOMAIN r = 1 .. Len(q) + 1
      /\ \A i \in DOMAIN q : r[i] = q[i]
      /\ r[Len(q) + 1] = p
      /\ DOMAIN q = 1 .. Len(q)
      /\ Len(q) \in Nat
  OBVIOUS
<1>2. Elements(r) = A \cup {p}
  BY <1>1 DEF Holds, Elements
<1>3. NoRepeat(r)
  <2>1. \A i \in DOMAIN q : q[i] \in A
    BY DEF Holds, Elements
  <2> QED BY <1>1, <2>1 DEF NoRepeat, Holds
<1>4. r # <<>>
  <2>1. Len(<<>>) = 0
    OBVIOUS
  <2> QED BY <1>1, <2>1
<1>5. ASSUME q # <<>> PROVE Head(r) = Head(q)
  <2>1. Head(r) = r[1] /\ Head(q) = q[1] /\ 1 \in DOMAIN q
    BY <1>1, <1>4, <1>5
  <2> QED BY <1>1, <2>1
<1> QED BY <1>1, <1>2, <1>3, <1>4, <1>5 DEF Holds

\* Taking the front away removes that process and no other.
LEMMA TailLemma ==
  ASSUME NEW S, NEW q \in Seq(S), NEW A, Holds(q, A), q # <<>>
  PROVE  /\ Head(q) \in A
         /\ Head(q) \in S
         /\ Tail(q) \in Seq(S)
         /\ Holds(Tail(q), A \ {Head(q)})
<1> DEFINE r == Tail(q)
<1>1. /\ r \in Seq(S)
      /\ Len(q) \in Nat \ {0}
      /\ DOMAIN q = 1 .. Len(q)
      /\ DOMAIN r = 1 .. Len(q) - 1
      /\ \A i \in 1 .. Len(q) - 1 : r[i] = q[i + 1]
      /\ Head(q) = q[1]
      /\ q[1] \in S
  OBVIOUS
<1>2. Head(q) \in A
  BY <1>1 DEF Holds, Elements
<1>3. NoRepeat(r)
  BY <1>1 DEF Holds, NoRepeat
<1>4. Elements(r) = A \ {Head(q)}
  <2>1. ASSUME NEW i \in DOMAIN r PROVE r[i] \in A /\ r[i] # q[1]
    BY <1>1 DEF Holds, Elements, NoRepeat
  <2>2. ASSUME NEW x \in A, x # q[1] PROVE \E i \in DOMAIN r : r[i] = x
    <3>1. PICK j \in DOMAIN q : q[j] = x
      BY DEF Holds, Elements
    <3>2. j - 1 \in DOMAIN r /\ r[j - 1] = x
      BY <1>1, <2>2, <3>1
    <3> QED BY <3>2
  <2> QED BY <1>1, <2>1, <2>2 DEF Elements
<1> QED BY <1>1, <1>2, <1>3, <1>4 DEF Holds

\* Unlinking a process that is on the queue removes it and no other.
LEMMA UnlinkLemma ==
  ASSUME NEW S, NEW q \in Seq(S), NEW A, Holds(q, A), NEW p \in A
  PROVE  /\ Unlink(q, p) \in Seq(S)
         /\ Holds(Unlink(q, p), A \ {p})
<1> DEFINE at == CHOOSE i \in DOMAIN q : q[i] = p
           r  == Unlink(q, p)
<1>1. at \in DOMAIN q /\ q[at] = p
  <2>1. \E i \in DOMAIN q : q[i] = p
    BY DEF Holds, Elements
  <2> QED BY <2>1
<1>2. Len(q) \in Nat /\ DOMAIN q = 1 .. Len(q) /\ \A i \in 1 .. Len(q) : q[i] \in S
  OBVIOUS
<1>3. at \in 1 .. Len(q)
  BY <1>1, <1>2
<1> HIDE DEF at
<1>4. r = [i \in 1 .. Len(q) - 1 |-> IF i < at THEN q[i] ELSE q[i + 1]]
  BY DEF Unlink, at
<1>5. Len(q) - 1 \in Nat
  BY <1>2, <1>3
<1>6. \A i \in 1 .. Len(q) - 1 : r[i] = IF i < at THEN q[i] ELSE q[i + 1]
  BY <1>4
<1>7. r \in Seq(S) /\ DOMAIN r = 1 .. Len(q) - 1
  BY <1>2, <1>4, <1>5
<1> HIDE DEF r
<1>8. NoRepeat(r)
  <2>1. \A i, j \in 1 .. Len(q) : q[i] = q[j] => i = j
    BY <1>2 DEF Holds, NoRepeat
  <2>2. SUFFICES ASSUME NEW i \in 1 .. Len(q) - 1, NEW j \in 1 .. Len(q) - 1, r[i] = r[j]
                 PROVE  i = j
    BY <1>7 DEF NoRepeat
  <2> QED BY <1>2, <1>3, <1>6, <2>1, <2>2
<1>9. Elements(r) = A \ {p}
  <2>1. ASSUME NEW i \in DOMAIN r PROVE r[i] \in A /\ r[i] # p
    <3> DEFINE k == IF i < at THEN i ELSE i + 1
    <3>1. k \in 1 .. Len(q) /\ k # at /\ r[i] = q[k]
      BY <1>2, <1>3, <1>6, <1>7
    <3> HIDE DEF k
    <3>2. q[k] \in A
      BY <1>2, <3>1 DEF Holds, Elements
    <3>3. q[k] # q[at]
      BY <1>2, <1>3, <3>1 DEF Holds, NoRepeat
    <3> QED BY <1>1, <3>1, <3>2, <3>3
  <2>2. ASSUME NEW x \in A, x # p PROVE \E i \in DOMAIN r : r[i] = x
    <3>1. PICK j \in 1 .. Len(q) : q[j] = x
      BY <1>2 DEF Holds, Elements
    <3>2. j # at
      BY <1>1, <2>2, <3>1
    <3>3. CASE j < at
      <4>1. j \in 1 .. Len(q) - 1 /\ r[j] = x
        BY <1>2, <1>3, <1>6, <3>1, <3>3
      <4> QED BY <4>1, <1>7
    <3>4. CASE j > at
      <4>1. j - 1 \in 1 .. Len(q) - 1 /\ ~(j - 1 < at)
        BY <1>2, <1>3, <3>4
      <4>2. r[j - 1] = x
        BY <1>6, <3>1, <4>1
      <4> QED BY <4>1, <4>2, <1>7
    <3> QED BY <1>2, <1>3, <3>2, <3>3, <3>4
  <2> QED BY <2>1, <2>2 DEF Elements
<1> QED BY <1>7, <1>8, <1>9 DEF Holds, r

\* One queue behind another holds what both hold.
LEMMA ConcatLemma ==
  ASSUME NEW S, NEW q \in Seq(S), NEW A, Holds(q, A),
         NEW r \in Seq(S), NEW B, Holds(r, B), A \cap B = {}
  PROVE  q \o r \in Seq(S) /\ Holds(q \o r, A \cup B)
<1> DEFINE c == q \o r
<1>1. /\ c \in Seq(S)
      /\ Len(q) \in Nat /\ Len(r) \in Nat
      /\ DOMAIN q = 1 .. Len(q) /\ DOMAIN r = 1 .. Len(r)
      /\ DOMAIN c = 1 .. Len(q) + Len(r)
      /\ \A i \in 1 .. Len(q) : c[i] = q[i]
      /\ \A i \in Len(q) + 1 .. Len(q) + Len(r) : c[i] = r[i - Len(q)]
  OBVIOUS
<1> HIDE DEF c
<1>2. \A i \in 1 .. Len(q) : q[i] \in A
  BY <1>1 DEF Holds, Elements
<1>3. \A i \in 1 .. Len(r) : r[i] \in B
  BY <1>1 DEF Holds, Elements
<1>4. NoRepeat(c)
  <2>1. SUFFICES ASSUME NEW i \in DOMAIN c, NEW j \in DOMAIN c, c[i] = c[j]
                 PROVE  i = j
    BY DEF NoRepeat
  <2>2. CASE i <= Len(q) /\ j <= Len(q)
    BY <1>1, <2>1, <2>2 DEF Holds, NoRepeat
  <2>3. CASE i > Len(q) /\ j > Len(q)
    <3>1. /\ i - Len(q) \in DOMAIN r /\ j - Len(q) \in DOMAIN r
          /\ r[i - Len(q)] = r[j - Len(q)]
      <4>1. \A k \in DOMAIN c : k > Len(q) =>
              k - Len(q) \in DOMAIN r /\ c[k] = r[k - Len(q)]
        BY <1>1
      <4> QED BY <2>1, <2>3, <4>1
    <3>2. i - Len(q) = j - Len(q)
      BY <3>1 DEF Holds, NoRepeat
    <3>3. i \in Int /\ j \in Int /\ Len(q) \in Int
      BY <1>1
    <3> QED BY <3>2, <3>3
  <2>4. ASSUME NEW k \in DOMAIN c, NEW m \in DOMAIN c, k <= Len(q), m > Len(q)
        PROVE  c[k] # c[m]
    <3>1. c[k] \in A /\ m - Len(q) \in 1 .. Len(r) /\ c[m] = r[m - Len(q)]
      BY <1>1, <1>2, <2>4
    <3> QED BY <1>3, <3>1
  <2> QED BY <1>1, <2>1, <2>2, <2>3, <2>4
<1>5. Elements(c) = A \cup B
  <2>1. ASSUME NEW i \in DOMAIN c PROVE c[i] \in A \cup B
    <3>1. CASE i <= Len(q)
      BY <1>1, <1>2, <3>1
    <3>2. CASE i > Len(q)
      <4>1. i - Len(q) \in 1 .. Len(r) /\ c[i] = r[i - Len(q)]
        BY <1>1, <3>2
      <4> QED BY <1>3, <4>1
    <3> QED BY <1>1, <3>1, <3>2
  <2>2. ASSUME NEW x \in A PROVE \E i \in DOMAIN c : c[i] = x
    BY <1>1 DEF Holds, Elements
  <2>3. ASSUME NEW x \in B PROVE \E i \in DOMAIN c : c[i] = x
    <3>1. PICK j \in 1 .. Len(r) : r[j] = x
      BY <1>1 DEF Holds, Elements
    <3>2. /\ j + Len(q) \in Len(q) + 1 .. Len(q) + Len(r)
          /\ (j + Len(q)) - Len(q) = j
      BY <1>1
    <3>3. j + Len(q) \in DOMAIN c
      BY <1>1, <3>2
    <3>4. c[j + Len(q)] = x
      BY <1>1, <3>1, <3>2
    <3> QED BY <3>3, <3>4
  <2> QED BY <2>1, <2>2, <2>3 DEF Elements
<1> QED BY <1>1, <1>4, <1>5 DEF Holds, c

\* The empty queue and the queue of one process.
LEMMA ShortQueues ==
  /\ \A S : <<>> \in Seq(S)
  /\ Holds(<<>>, {})
  /\ \A S : \A p \in S : <<p>> \in Seq(S) /\ Holds(<<p>>, {p})
BY DEF Holds, Elements, NoRepeat

\* Moving the front to the end keeps the processes of the queue.
LEMMA RotateLemma ==
  ASSUME NEW S, NEW q \in Seq(S), NEW A, Holds(q, A), q # <<>>
  PROVE  /\ MoveFrontToEnd(q) \in Seq(S)
         /\ MoveFrontToEnd(q) # <<>>
         /\ Holds(MoveFrontToEnd(q), A)
<1>1. /\ Head(q) \in A /\ Head(q) \in S
      /\ Tail(q) \in Seq(S) /\ Holds(Tail(q), A \ {Head(q)})
  BY TailLemma
<1> DEFINE h == Head(q)
           t == Tail(q)
<1>4. h \in S /\ t \in Seq(S) /\ Holds(t, A \ {h}) /\ h \notin A \ {h}
  BY <1>1
<1> HIDE DEF h, t
<1>5. /\ Append(t, h) \in Seq(S)
      /\ Holds(Append(t, h), (A \ {h}) \cup {h})
      /\ Append(t, h) # <<>>
  BY <1>4, AppendLemma
<1>2. /\ Append(Tail(q), Head(q)) \in Seq(S)
      /\ Holds(Append(Tail(q), Head(q)), (A \ {Head(q)}) \cup {Head(q)})
      /\ Append(Tail(q), Head(q)) # <<>>
  BY <1>5 DEF h, t
<1>3. (A \ {Head(q)}) \cup {Head(q)} = A
  BY <1>1
<1> QED BY <1>2, <1>3 DEF MoveFrontToEnd

-----------------------------------------------------------------------------
(* The routines of process.c, on any table.                                *)

TableInv(t) == t \in Tables /\ QueuesMatch(t)

\* A status change moves one process from its set to another.
LEMMA MovedLemma ==
  ASSUME NEW t \in Tables, NEW from \in Status, NEW to \in Status, from # to,
         NEW p \in With(t, from), NEW u,
         u.status = [t.status EXCEPT ![p] = to]
  PROVE  /\ p \in Proc
         /\ u.status \in [Proc -> Status]
         /\ With(u, to) = With(t, to) \cup {p}
         /\ With(u, from) = With(t, from) \ {p}
         /\ \A w \in Status \ {from, to} : With(u, w) = With(t, w)
BY DEF Tables, With

\* A process found in the set of one status is in no other set.
LEMMA OneStatus ==
  ASSUME NEW t, NEW p, NEW s, p \in With(t, s)
  PROVE  \A w : w # s => p \notin With(t, w)
BY DEF With

\* The table at boot: every PCB is free, the last one is the first to be taken.
LEMMA ModuleInitLemma ==
  /\ TableInv(ModuleInit)
  /\ ModuleInit.free # <<>>
  /\ ModuleInit.run = <<>> /\ ModuleInit.zombies = <<>>
  /\ ModuleInit.current = NoProc /\ ~ModuleInit.halted
<1> DEFINE f == [i \in 1 .. NumProcs |-> NumProcs - i]
<1>1. NumProcs \in Nat \ {0}
  BY NumProcsAssumption
<1>2. f \in Seq(Proc) /\ DOMAIN f = 1 .. NumProcs /\ Len(f) = NumProcs
  BY <1>1 DEF Proc
<1>3. f # <<>>
  BY <1>1, <1>2
<1>4. Holds(f, Proc)
  <2>1. \A i \in 1 .. NumProcs : f[i] \in Proc
    BY <1>1 DEF Proc
  <2>2. \A p \in Proc : NumProcs - p \in 1 .. NumProcs /\ f[NumProcs - p] = p
    BY <1>1 DEF Proc
  <2>3. \A i, j \in 1 .. NumProcs : f[i] = f[j] => i = j
    BY <1>1
  <2> HIDE DEF f
  <2> QED BY <1>2, <2>1, <2>2, <2>3 DEF Holds, Elements, NoRepeat
<1> HIDE DEF f
<1>5. /\ ModuleInit.status = [p \in Proc |-> "free"]
      /\ ModuleInit.free = f
      /\ ModuleInit.run = <<>> /\ ModuleInit.zombies = <<>>
      /\ ModuleInit.waiting = {}
      /\ ModuleInit.current = NoProc /\ ModuleInit.halted = FALSE
  BY DEF ModuleInit, f
<1>6. ModuleInit \in Tables
  BY <1>2, ShortQueues DEF ModuleInit, Tables, Status, f
<1>7. /\ With(ModuleInit, "free") = Proc
      /\ \A s \in Status \ {"free"} : With(ModuleInit, s) = {}
  BY <1>5 DEF With, Status
<1>8. QueuesMatch(ModuleInit)
  BY <1>4, <1>5, <1>7, ShortQueues DEF QueuesMatch, Status
<1> QED BY <1>3, <1>5, <1>6, <1>8 DEF TableInv

\* Halting changes no queue.
LEMMA HaltLemma ==
  ASSUME NEW t, TableInv(t)
  PROVE  TableInv(Halt(t)) /\ Settled(Halt(t))
<1>1. /\ Halt(t) \in Tables /\ Halt(t).halted
      /\ Halt(t).status = t.status /\ Halt(t).run = t.run
      /\ Halt(t).free = t.free /\ Halt(t).zombies = t.zombies
      /\ Halt(t).waiting = t.waiting
  BY DEF TableInv, Tables, Halt
<1> QED BY <1>1 DEF TableInv, QueuesMatch, With, Settled

\* A fork takes the PCB from the free ones to the end of the run queue.
LEMMA ForkLemma ==
  ASSUME NEW t, TableInv(t),
         Settled(t) \/ (t.run = <<>> /\ t.zombies = <<>> /\ t.current = NoProc)
  PROVE  TableInv(Fork(t)) /\ Settled(Fork(t))
<1>1. CASE t.free = <<>>
  BY <1>1, HaltLemma DEF Fork
<1>2. CASE t.free # <<>>
  <2> DEFINE p == Head(t.free)
             u == [t EXCEPT !.free = Tail(@), !.status[p] = "runnable",
                            !.run = Append(@, p),
                            !.current = IF @ = NoProc THEN p ELSE @]
  <2>1. Fork(t) = u
    BY <1>2 DEF Fork
  <2>2. t \in Tables /\ t.free \in Seq(Proc) /\ t.run \in Seq(Proc)
    BY DEF TableInv, Tables
  <2>3. /\ p \in With(t, "free") /\ p \in Proc
        /\ Tail(t.free) \in Seq(Proc)
        /\ Holds(Tail(t.free), With(t, "free") \ {p})
    BY <1>2, <2>2, TailLemma DEF TableInv, QueuesMatch
  <2> HIDE DEF p
  <2>4. p \notin With(t, "runnable")
    BY <2>3, OneStatus
  <2>5. /\ Append(t.run, p) \in Seq(Proc)
        /\ Holds(Append(t.run, p), With(t, "runnable") \cup {p})
        /\ Append(t.run, p) # <<>>
        /\ t.run # <<>> => Head(Append(t.run, p)) = Head(t.run)
    BY <2>2, <2>3, <2>4, AppendLemma DEF TableInv, QueuesMatch
  <2>6. /\ u \in Tables
        /\ u.status = [t.status EXCEPT ![p] = "runnable"]
        /\ u.free = Tail(t.free) /\ u.run = Append(t.run, p)
        /\ u.waiting = t.waiting /\ u.zombies = t.zombies
        /\ u.current = (IF t.current = NoProc THEN p ELSE t.current)
        /\ u.halted = t.halted
    BY <2>2, <2>3, <2>5 DEF Tables, Status
  <2> HIDE DEF u
  <2>7. /\ With(u, "runnable") = With(t, "runnable") \cup {p}
        /\ With(u, "free") = With(t, "free") \ {p}
        /\ With(u, "waiting") = With(t, "waiting")
        /\ With(u, "zombie") = With(t, "zombie")
    <3>1. /\ "free" \in Status /\ "runnable" \in Status /\ "free" # "runnable"
          /\ {"waiting", "zombie"} \subseteq Status \ {"free", "runnable"}
      BY DEF Status
    <3>2. p \in With(t, "free") /\ t \in Tables
      BY <2>2, <2>3
    <3>3. u.status = [t.status EXCEPT ![p] = "runnable"]
      BY <2>6
    <3>4. /\ With(u, "runnable") = With(t, "runnable") \cup {p}
          /\ With(u, "free") = With(t, "free") \ {p}
          /\ \A w \in Status \ {"free", "runnable"} : With(u, w) = With(t, w)
      BY <3>1, <3>2, <3>3, MovedLemma
    <3> QED BY <3>1, <3>4
  <2>8. QueuesMatch(u)
    BY <2>3, <2>5, <2>6, <2>7 DEF TableInv, QueuesMatch
  <2>9. Settled(u)
    <3>1. CASE Settled(t)
      <4>1. t.current # NoProc \/ t.halted
        <5>1. CASE ~t.halted
          <6>1. t.run # <<>> /\ t.current = Head(t.run)
            BY <3>1, <5>1 DEF Settled
          <6>2. Head(t.run) \in Proc
            BY <2>2, <6>1
          <6> QED BY <6>1, <6>2, NoProcAssumption DEF Proc
        <5> QED BY <5>1 DEF TableInv, Tables
      <4> QED BY <2>5, <2>6, <3>1, <4>1 DEF Settled
    <3>2. CASE t.run = <<>> /\ t.zombies = <<>> /\ t.current = NoProc
      <4>1. u.run = <<p>> /\ u.current = p /\ u.zombies = <<>>
        BY <2>3, <2>6, <3>2
      <4> QED BY <4>1 DEF Settled
    <3> QED BY <3>1, <3>2
  <2> QED BY <2>1, <2>6, <2>8, <2>9 DEF TableInv
<1> QED BY <1>1, <1>2

\* A fork without code only moves the PCB to the end of the free ones.
LEMMA ForkNoCodeLemma ==
  ASSUME NEW t, TableInv(t), Settled(t)
  PROVE  TableInv(ForkNoCode(t)) /\ Settled(ForkNoCode(t))
<1>1. CASE t.free = <<>>
  BY <1>1, HaltLemma DEF ForkNoCode
<1>2. CASE t.free # <<>>
  <2> DEFINE u == [t EXCEPT !.free = MoveFrontToEnd(@)]
  <2>1. ForkNoCode(t) = u
    BY <1>2 DEF ForkNoCode
  <2>2. t \in Tables /\ t.free \in Seq(Proc)
    BY DEF TableInv, Tables
  <2>3. /\ MoveFrontToEnd(t.free) \in Seq(Proc)
        /\ Holds(MoveFrontToEnd(t.free), With(t, "free"))
    BY <1>2, <2>2, RotateLemma DEF TableInv, QueuesMatch
  <2>4. /\ u \in Tables
        /\ u.free = MoveFrontToEnd(t.free)
        /\ u.status = t.status /\ u.run = t.run /\ u.waiting = t.waiting
        /\ u.zombies = t.zombies /\ u.current = t.current /\ u.halted = t.halted
    BY <2>2, <2>3 DEF Tables
  <2> HIDE DEF u
  <2> QED BY <2>1, <2>3, <2>4 DEF TableInv, QueuesMatch, With, Settled
<1> QED BY <1>1, <1>2
-----------------------------------------------------------------------------

\* A process that is put to sleep goes from the run queue to waitQueue.
LEMMA SuspendLemma ==
  ASSUME NEW t, TableInv(t), NEW p \in With(t, "runnable")
  PROVE  TableInv(Suspend(t, p)) /\ Suspend(t, p).zombies = t.zombies
<1> DEFINE u == Suspend(t, p)
<1>1. t \in Tables /\ t.run \in Seq(Proc)
  BY DEF TableInv, Tables
<1>2. /\ Unlink(t.run, p) \in Seq(Proc)
      /\ Holds(Unlink(t.run, p), With(t, "runnable") \ {p})
  BY <1>1, UnlinkLemma DEF TableInv, QueuesMatch
<1>3. p \in Proc
  BY DEF With
<1>4. /\ u \in Tables
      /\ u.status = [t.status EXCEPT ![p] = "waiting"]
      /\ u.run = Unlink(t.run, p) /\ u.waiting = t.waiting \cup {p}
      /\ u.free = t.free /\ u.zombies = t.zombies
  BY <1>1, <1>2, <1>3 DEF Tables, Status, Suspend
<1> HIDE DEF u
<1>5. /\ With(u, "waiting") = With(t, "waiting") \cup {p}
      /\ With(u, "runnable") = With(t, "runnable") \ {p}
      /\ With(u, "free") = With(t, "free")
      /\ With(u, "zombie") = With(t, "zombie")
  <2>1. /\ "runnable" \in Status /\ "waiting" \in Status /\ "runnable" # "waiting"
        /\ {"free", "zombie"} \subseteq Status \ {"runnable", "waiting"}
    BY DEF Status
  <2>2. u.status = [t.status EXCEPT ![p] = "waiting"]
    BY <1>4
  <2>3. t \in Tables /\ p \in With(t, "runnable")
    BY <1>1
  <2>4. /\ With(u, "waiting") = With(t, "waiting") \cup {p}
        /\ With(u, "runnable") = With(t, "runnable") \ {p}
        /\ \A w \in Status \ {"runnable", "waiting"} : With(u, w) = With(t, w)
    BY <2>1, <2>2, <2>3, MovedLemma
  <2> QED BY <2>1, <2>4
<1>6. QueuesMatch(u)
  BY <1>2, <1>4, <1>5 DEF TableInv, QueuesMatch
<1> QED BY <1>4, <1>6 DEF TableInv, u

\* A process that is woken up goes to the end of the run queue.
LEMMA WakeupLemma ==
  ASSUME NEW t, TableInv(t), NEW p \in t.waiting
  PROVE  TableInv(Wakeup(t, p)) /\ (Settled(t) => Settled(Wakeup(t, p)))
<1> DEFINE u == Wakeup(t, p)
<1>1. t \in Tables /\ t.run \in Seq(Proc)
  BY DEF TableInv, Tables
<1>2. p \in With(t, "waiting") /\ p \in Proc /\ p \notin With(t, "runnable")
  BY OneStatus DEF TableInv, QueuesMatch, With
<1>3. /\ Append(t.run, p) \in Seq(Proc)
      /\ Holds(Append(t.run, p), With(t, "runnable") \cup {p})
      /\ Append(t.run, p) # <<>>
      /\ t.run # <<>> => Head(Append(t.run, p)) = Head(t.run)
  BY <1>1, <1>2, AppendLemma DEF TableInv, QueuesMatch
<1>4. /\ u \in Tables
      /\ u.status = [t.status EXCEPT ![p] = "runnable"]
      /\ u.run = Append(t.run, p) /\ u.waiting = t.waiting \ {p}
      /\ u.free = t.free /\ u.zombies = t.zombies
      /\ u.current = t.current /\ u.halted = t.halted
  BY <1>1, <1>2, <1>3 DEF Tables, Status, Wakeup
<1> HIDE DEF u
<1>5. /\ With(u, "runnable") = With(t, "runnable") \cup {p}
      /\ With(u, "waiting") = With(t, "waiting") \ {p}
      /\ With(u, "free") = With(t, "free")
      /\ With(u, "zombie") = With(t, "zombie")
  <2>1. /\ "runnable" \in Status /\ "waiting" \in Status /\ "runnable" # "waiting"
        /\ {"free", "zombie"} \subseteq Status \ {"waiting", "runnable"}
    BY DEF Status
  <2>2. u.status = [t.status EXCEPT ![p] = "runnable"]
    BY <1>4
  <2>3. t \in Tables /\ p \in With(t, "waiting")
    BY <1>1, <1>2
  <2>4. /\ With(u, "runnable") = With(t, "runnable") \cup {p}
        /\ With(u, "waiting") = With(t, "waiting") \ {p}
        /\ \A w \in Status \ {"waiting", "runnable"} : With(u, w) = With(t, w)
    BY <2>1, <2>2, <2>3, MovedLemma
  <2> QED BY <2>1, <2>4
<1>6. QueuesMatch(u)
  BY <1>3, <1>4, <1>5 DEF TableInv, QueuesMatch
<1>7. Settled(t) => Settled(u)
  BY <1>3, <1>4 DEF Settled
<1> QED BY <1>4, <1>6, <1>7 DEF TableInv, u

\* A process that is destroyed goes from the run queue to the zombies.
LEMMA DestroyLemma ==
  ASSUME NEW t, TableInv(t), NEW p \in With(t, "runnable")
  PROVE  TableInv(Destroy(t, p))
<1> DEFINE u == Destroy(t, p)
<1>1. t \in Tables /\ t.run \in Seq(Proc) /\ t.zombies \in Seq(Proc)
  BY DEF TableInv, Tables
<1>2. /\ Unlink(t.run, p) \in Seq(Proc)
      /\ Holds(Unlink(t.run, p), With(t, "runnable") \ {p})
  BY <1>1, UnlinkLemma DEF TableInv, QueuesMatch
<1>3. p \in Proc /\ p \notin With(t, "zombie")
  BY OneStatus DEF With
<1>4. /\ <<p>> \o t.zombies \in Seq(Proc)
      /\ Holds(<<p>> \o t.zombies, With(t, "zombie") \cup {p})
  <2>1. <<p>> \in Seq(Proc) /\ Holds(<<p>>, {p})
    BY <1>3, ShortQueues
  <2>2. Holds(t.zombies, With(t, "zombie")) /\ {p} \cap With(t, "zombie") = {}
    BY <1>3 DEF TableInv, QueuesMatch
  <2>3. /\ <<p>> \o t.zombies \in Seq(Proc)
        /\ Holds(<<p>> \o t.zombies, {p} \cup With(t, "zombie"))
    BY <1>1, <2>1, <2>2, ConcatLemma
  <2>4. {p} \cup With(t, "zombie") = With(t, "zombie") \cup {p}
    OBVIOUS
  <2> QED BY <2>3, <2>4
<1>5. /\ u \in Tables
      /\ u.status = [t.status EXCEPT ![p] = "zombie"]
      /\ u.run = Unlink(t.run, p) /\ u.zombies = <<p>> \o t.zombies
      /\ u.free = t.free /\ u.waiting = t.waiting
  BY <1>1, <1>2, <1>3, <1>4 DEF Tables, Status, Destroy
<1> HIDE DEF u
<1>6. /\ With(u, "zombie") = With(t, "zombie") \cup {p}
      /\ With(u, "runnable") = With(t, "runnable") \ {p}
      /\ With(u, "free") = With(t, "free")
      /\ With(u, "waiting") = With(t, "waiting")
  <2>1. /\ "runnable" \in Status /\ "zombie" \in Status /\ "runnable" # "zombie"
        /\ {"free", "waiting"} \subseteq Status \ {"runnable", "zombie"}
    BY DEF Status
  <2>2. u.status = [t.status EXCEPT ![p] = "zombie"]
    BY <1>5
  <2>3. t \in Tables /\ p \in With(t, "runnable")
    BY <1>1
  <2>4. /\ With(u, "zombie") = With(t, "zombie") \cup {p}
        /\ With(u, "runnable") = With(t, "runnable") \ {p}
        /\ \A w \in Status \ {"runnable", "zombie"} : With(u, w) = With(t, w)
    BY <2>1, <2>2, <2>3, MovedLemma
  <2> QED BY <2>1, <2>4
<1>7. QueuesMatch(u)
  BY <1>2, <1>4, <1>5, <1>6 DEF TableInv, QueuesMatch
<1> QED BY <1>5, <1>7 DEF TableInv, u

\* Freeing the zombies puts every one of them behind the free PCBs.
LEMMA FreeZombiesLemma ==
  ASSUME NEW t, TableInv(t)
  PROVE  /\ TableInv(FreeZombies(t))
         /\ FreeZombies(t).zombies = <<>>
         /\ FreeZombies(t).run = t.run
         /\ FreeZombies(t).current = t.current
         /\ FreeZombies(t).halted = t.halted
<1> DEFINE u == FreeZombies(t)
           st == [p \in Proc |-> IF p \in Elements(t.zombies) THEN "free"
                                 ELSE t.status[p]]
<1>1. /\ t \in Tables /\ t.free \in Seq(Proc) /\ t.zombies \in Seq(Proc)
      /\ Holds(t.zombies, With(t, "zombie")) /\ Holds(t.free, With(t, "free"))
      /\ Elements(t.zombies) = With(t, "zombie")
  BY DEF TableInv, Tables, QueuesMatch, Holds
<1>2. With(t, "free") \cap With(t, "zombie") = {}
  BY DEF With
<1>3. /\ t.free \o t.zombies \in Seq(Proc)
      /\ Holds(t.free \o t.zombies, With(t, "free") \cup With(t, "zombie"))
  BY <1>1, <1>2, ConcatLemma
<1>4. st \in [Proc -> Status]
  BY <1>1 DEF Tables, Status
<1>5. /\ u \in Tables
      /\ u.status = st
      /\ u.free = t.free \o t.zombies /\ u.zombies = <<>>
      /\ u.run = t.run /\ u.waiting = t.waiting
      /\ u.current = t.current /\ u.halted = t.halted
  BY <1>1, <1>3, <1>4, ShortQueues DEF Tables, FreeZombies
<1> HIDE DEF u
<1>6. /\ With(u, "free") = With(t, "free") \cup With(t, "zombie")
      /\ With(u, "zombie") = {}
      /\ With(u, "runnable") = With(t, "runnable")
      /\ With(u, "waiting") = With(t, "waiting")
  BY <1>1, <1>5 DEF With
<1>7. QueuesMatch(u)
  BY <1>3, <1>5, <1>6, ShortQueues DEF TableInv, QueuesMatch
<1> QED BY <1>5, <1>7 DEF TableInv, u

\* The scheduler keeps the queues and leaves the new process in front.
LEMMA ScheduleLemma ==
  ASSUME NEW t, TableInv(t)
  PROVE  TableInv(Schedule(t)) /\ Settled(Schedule(t))
<1>1. CASE t.run = <<>>
  BY <1>1, HaltLemma DEF Schedule
<1>2. CASE t.run # <<>>
  <2> DEFINE turned == MoveFrontToEnd(t.run)
             u == [t EXCEPT !.run = turned, !.current = Head(turned)]
  <2>1. Schedule(t) = FreeZombies(u)
    BY <1>2 DEF Schedule
  <2>2. t \in Tables /\ t.run \in Seq(Proc)
    BY DEF TableInv, Tables
  <2>3. /\ turned \in Seq(Proc) /\ turned # <<>>
        /\ Holds(turned, With(t, "runnable"))
    BY <1>2, <2>2, RotateLemma DEF TableInv, QueuesMatch
  <2> HIDE DEF turned
  <2>4. Head(turned) \in Proc
    BY <2>3
  <2>5. /\ u \in Tables
        /\ u.run = turned /\ u.current = Head(turned)
        /\ u.status = t.status /\ u.free = t.free /\ u.zombies = t.zombies
        /\ u.waiting = t.waiting
    BY <2>2, <2>3, <2>4 DEF Tables
  <2> HIDE DEF u
  <2>6. TableInv(u)
    BY <2>3, <2>5 DEF TableInv, QueuesMatch, With
  <2> QED BY <2>1, <2>3, <2>5, <2>6, FreeZombiesLemma DEF Settled
<1> QED BY <1>1, <1>2

-----------------------------------------------------------------------------
(* The specification of Process.                                           *)

\* The inductive invariant: typed, queues and statuses agree, front is current.
Inv == TypeOK /\ QueuesMatchStatus /\ CurrentIsFront

\* While the system runs, the current process is a runnable one.
LEMMA CurrentLemma ==
  ASSUME Inv, Running
  PROVE  Current \in With(table, "runnable")
<1>1. /\ table.run # <<>> /\ Current = Head(table.run)
      /\ table.run \in Seq(Proc)
      /\ Holds(table.run, With(table, "runnable"))
  BY DEF Inv, CurrentIsFront, Settled, Running, Current, QueuesMatchStatus,
         QueuesMatch, TypeOK, Tables
<1> QED BY <1>1, TailLemma

\* Boot establishes the invariant: main forks the first process.
LEMMA InitInv == Init => Inv
<1> SUFFICES ASSUME Init PROVE Inv
  OBVIOUS
<1>1. TableInv(table) /\ Settled(table)
  BY ModuleInitLemma, ForkLemma DEF Init
<1>2. jiffies \in 0 .. Quantum
  BY QuantumAssumption DEF Init
<1> QED BY <1>1, <1>2 DEF Inv, TypeOK, QueuesMatchStatus, CurrentIsFront, TableInv

\* Every trap and every timer interrupt preserves it.
LEMMA NextInv == Inv /\ [Next]_vars => Inv'
<1> SUFFICES ASSUME Inv, [Next]_vars PROVE Inv'
  OBVIOUS
<1>1. TableInv(table) /\ Settled(table) /\ jiffies \in 0 .. Quantum
  BY DEF Inv, TypeOK, QueuesMatchStatus, CurrentIsFront, TableInv
<1>2. ASSUME TableInv(table'), Settled(table'), jiffies' \in 0 .. Quantum
      PROVE  Inv'
  BY <1>2 DEF Inv, TypeOK, QueuesMatchStatus, CurrentIsFront, TableInv
<1>3. Quantum \in Nat
  BY QuantumAssumption
<1>4. CASE ProcessCreate
  BY <1>1, <1>2, <1>4, ForkLemma, ForkNoCodeLemma DEF ProcessCreate
<1>5. CASE Exit
  <2>1. Current \in With(table, "runnable")
    BY <1>5, CurrentLemma DEF Exit
  <2>2. TableInv(Destroy(table, Current))
    BY <1>1, <2>1, DestroyLemma
  <2>3. TableInv(table') /\ Settled(table')
    BY <1>5, <2>2, ScheduleLemma DEF Exit
  <2> QED BY <1>2, <1>3, <1>5, <2>3 DEF Exit, ClkReset
<1>6. CASE Yield
  <2>1. TableInv(table') /\ Settled(table')
    BY <1>1, <1>6, ScheduleLemma DEF Yield
  <2> QED BY <1>2, <1>3, <1>6, <2>1 DEF Yield, ClkReset
<1>7. CASE Sleep
  <2>1. Current \in With(table, "runnable")
    BY <1>7, CurrentLemma DEF Sleep
  <2>2. TableInv(Suspend(table, Current))
    BY <1>1, <2>1, SuspendLemma
  <2>3. TableInv(table') /\ Settled(table')
    BY <1>7, <2>2, ScheduleLemma DEF Sleep
  <2> QED BY <1>2, <1>3, <1>7, <2>3 DEF Sleep, ClkReset
<1>8. ASSUME NEW p \in table.waiting, WakeOne(p) PROVE Inv'
  <2>1. TableInv(table') /\ Settled(table')
    BY <1>1, <1>8, WakeupLemma DEF WakeOne
  <2> QED BY <1>1, <1>2, <1>8, <2>1 DEF WakeOne
<1>9. CASE Tick
  <2>1. CASE jiffies + 1 > Quantum
    <3>1. TableInv(table') /\ Settled(table') /\ jiffies' = 0
      BY <1>1, <1>9, <2>1, ScheduleLemma DEF Tick
    <3> QED BY <1>2, <1>3, <3>1
  <2>2. CASE ~(jiffies + 1 > Quantum)
    <3>1. table' = table /\ jiffies' = jiffies + 1 /\ jiffies' \in 0 .. Quantum
      BY <1>1, <1>3, <1>9, <2>2 DEF Tick
    <3> QED BY <1>1, <1>2, <3>1
  <2> QED BY <2>1, <2>2
<1>10. CASE UNCHANGED vars
  BY <1>1, <1>2, <1>10 DEF vars
<1> QED BY <1>4, <1>5, <1>6, <1>7, <1>8, <1>9, <1>10 DEF Next

\* The process table and the quantum counter keep their types.
THEOREM TypeCorrect == Spec => []TypeOK
<1>1. Inv => TypeOK
  BY DEF Inv
<1> QED BY <1>1, InitInv, NextInv, PTL DEF Spec

\* No PCB is lost, given out twice or on a queue that its status does not name
\* (process.c 64-322), for any number of processes.
THEOREM QueuesAlwaysMatch == Spec => []QueuesMatchStatus
<1>1. Inv => QueuesMatchStatus
  BY DEF Inv
<1> QED BY <1>1, InitInv, NextInv, PTL DEF Spec

\* The running process is the front of the run queue between two traps, which
\* the rotation of ProcessSchedule relies on (process.c 204-209).
THEOREM CurrentAlwaysFront == Spec => []CurrentIsFront
<1>1. Inv => CurrentIsFront
  BY DEF Inv
<1> QED BY <1>1, InitInv, NextInv, PTL DEF Spec

-----------------------------------------------------------------------------
(* Synch: the inductive invariant.                                         *)

Asleep == With(table, "waiting")

\* Those who sleep in the call where.
Sleepers(where) == {p \in Asleep : call[p] = where}

\* A lock whose slot is not in use has no owner and no queue.
LocksOK ==
  /\ locks \in [Lock -> [inuse : BOOLEAN, pid : Proc \cup {NoProc},
                         waiting : Seq(Proc)]]
  /\ \A l \in Lock : ~locks[l].inuse =>
       locks[l].pid = NoProc /\ locks[l].waiting = <<>>

SemTypes ==
  /\ sems \in [Sem -> [inuse : BOOLEAN, count : Int, waiting : Seq(Proc)]]
  /\ log \in [Sem -> [init : Int, signals : 0 .. MaxCalls, waits : 0 .. MaxCalls]]

\* A semaphore whose slot is not in use has never been used.
SemsOK ==
  /\ SemTypes
  /\ \A s \in Sem : ~sems[s].inuse =>
       /\ sems[s].count = 0 /\ sems[s].waiting = <<>>
       /\ log[s] = [init |-> 0, signals |-> 0, waits |-> 0]

CondsOK ==
  /\ conds \in [Cond -> [inuse : BOOLEAN, lock : Lock \cup {0}, waiting : Seq(Proc)]]
  /\ \A c \in Cond : IF conds[c].inuse THEN conds[c].lock \in Lock
                     ELSE conds[c].waiting = <<>>

Calls == {NoCall} \cup {In("lock", l) : l \in Lock} \cup {In("sem", s) : s \in Sem}
                  \cup {In("cond", c) : c \in Cond}

\* Who waits for a condition waits for one that exists and comes back to a
\* lock that exists.
CallsOK ==
  /\ call \in [Proc -> Calls]
  /\ \A p \in Proc : \A c \in Cond : call[p] = In("cond", c) =>
       conds[c].inuse /\ locks[conds[c].lock].inuse

\* A lock that has been handed to a process stays its own until it returns.
HandedOver ==
  \A p \in Proc : \A l \in Lock :
    call[p] = In("lock", l) /\ p \notin Asleep => locks[l].pid = p

LockQueues == \A l \in Lock : Holds(locks[l].waiting, Sleepers(In("lock", l)))
SemQueues  == \A s \in Sem : Holds(sems[s].waiting, Sleepers(In("sem", s)))
CondQueues == \A c \in Cond : Holds(conds[c].waiting, Sleepers(In("cond", c)))

\* The count is what is left of the units, a negative one only while nobody
\* has been let through, and nobody waits while it is positive.
Balanced(s) ==
  /\ LetThrough(s) >= 0
  /\ sems[s].count = log[s].init + log[s].signals - LetThrough(s)
  /\ sems[s].count > 0 => sems[s].waiting = <<>>
  /\ LetThrough(s) > 0 => sems[s].count >= 0

CountsMatch == \A s \in Sem : Balanced(s)

OwnersOK ==
  /\ holds \in [Proc -> SUBSET Lock]
  /\ HoldersOwn
  /\ HandedOver
  /\ SleepersAreBlocked

SynchInv ==
  /\ Inv
  /\ LocksOK /\ SemsOK /\ CondsOK /\ CallsOK
  /\ LockQueues /\ SemQueues /\ CondQueues
  /\ OwnersOK
  /\ CountsMatch

-----------------------------------------------------------------------------
(* Who is asleep after the routines of process.c.                          *)

\* Scheduling frees zombies and wakes nobody.
LEMMA ScheduleAsleep ==
  ASSUME NEW t, TableInv(t)
  PROVE  With(Schedule(t), "waiting") = With(t, "waiting")
<1>1. t \in Tables /\ Elements(t.zombies) = With(t, "zombie")
  BY DEF TableInv, QueuesMatch, Holds
<1>2. CASE t.run = <<>>
  BY <1>1, <1>2 DEF Schedule, Halt, With, Tables
<1>3. CASE t.run # <<>>
  <2> DEFINE turned == MoveFrontToEnd(t.run)
             u == [t EXCEPT !.run = turned, !.current = Head(turned)]
  <2>1. Schedule(t) = FreeZombies(u)
    BY <1>3 DEF Schedule
  <2>2. u.status = t.status /\ u.zombies = t.zombies
    BY <1>1 DEF Tables
  <2>3. FreeZombies(u).status = [p \in Proc |-> IF p \in Elements(u.zombies)
                                                THEN "free" ELSE u.status[p]]
    <3>1. u \in [status : [Proc -> Status], free : Seq(Proc), run : {turned},
                 waiting : SUBSET Proc, zombies : Seq(Proc),
                 current : {Head(turned)}, halted : BOOLEAN]
      BY <1>1 DEF Tables
    <3> HIDE DEF u
    <3> QED BY <3>1 DEF FreeZombies
  <2> HIDE DEF u
  <2> QED BY <1>1, <2>1, <2>2, <2>3 DEF With
<1> QED BY <1>2, <1>3

\* Neither a fork nor the exit of a running process puts anybody to sleep or
\* wakes anybody.
LEMMA ForkAsleep ==
  ASSUME NEW t, TableInv(t)
  PROVE  /\ With(Fork(t), "waiting") = With(t, "waiting")
         /\ With(ForkNoCode(t), "waiting") = With(t, "waiting")
<1>1. t \in Tables /\ t.free \in Seq(Proc)
  BY DEF TableInv, Tables
<1>2. With(Halt(t), "waiting") = With(t, "waiting")
  BY <1>1 DEF Halt, With, Tables
<1>3. CASE t.free = <<>>
  BY <1>2, <1>3 DEF Fork, ForkNoCode
<1>4. CASE t.free # <<>>
  <2>1. Head(t.free) \in With(t, "free")
    BY <1>1, <1>4, TailLemma DEF TableInv, QueuesMatch
  <2>2. /\ Fork(t).status = [t.status EXCEPT ![Head(t.free)] = "runnable"]
        /\ ForkNoCode(t).status = t.status
    BY <1>1, <1>4 DEF Fork, ForkNoCode, Tables
  <2> QED BY <1>1, <2>1, <2>2 DEF With, Tables
<1> QED BY <1>3, <1>4

LEMMA DestroyAsleep ==
  ASSUME NEW t, TableInv(t), NEW p \in With(t, "runnable")
  PROVE  With(Destroy(t, p), "waiting") = With(t, "waiting")
<1>1. t \in Tables
  BY DEF TableInv
<1>2. Destroy(t, p).status = [t.status EXCEPT ![p] = "zombie"]
  BY <1>1 DEF Destroy, Tables
<1> QED BY <1>1, <1>2 DEF With, Tables

\* A handler that sleeps puts its own process to sleep.
LEMMA SleepTable ==
  ASSUME NEW t, TableInv(t), NEW p \in With(t, "runnable")
  PROVE  /\ TableInv(Schedule(Suspend(t, p)))
         /\ Settled(Schedule(Suspend(t, p)))
         /\ With(Schedule(Suspend(t, p)), "waiting") = With(t, "waiting") \cup {p}
<1>1. TableInv(Suspend(t, p)) /\ t \in Tables
  BY SuspendLemma DEF TableInv
<1>2. Suspend(t, p).status = [t.status EXCEPT ![p] = "waiting"]
  BY <1>1 DEF Suspend, Tables
<1>3. With(Suspend(t, p), "waiting") = With(t, "waiting") \cup {p}
  BY <1>1, <1>2 DEF With, Tables
<1> QED BY <1>1, <1>3, ScheduleLemma, ScheduleAsleep

\* A process that is woken up is asleep no more, and the current one runs on.
LEMMA WakeTable ==
  ASSUME NEW t, TableInv(t), Settled(t), NEW p \in With(t, "waiting")
  PROVE  /\ TableInv(Wakeup(t, p)) /\ Settled(Wakeup(t, p))
         /\ With(Wakeup(t, p), "waiting") = With(t, "waiting") \ {p}
         /\ With(Wakeup(t, p), "runnable") = With(t, "runnable") \cup {p}
<1>1. t \in Tables /\ p \in t.waiting
  BY DEF TableInv, QueuesMatch
<1>2. TableInv(Wakeup(t, p)) /\ Settled(Wakeup(t, p))
  BY <1>1, WakeupLemma
<1>3. Wakeup(t, p).status = [t.status EXCEPT ![p] = "runnable"]
  BY <1>1 DEF Wakeup, Tables
<1> QED BY <1>1, <1>2, <1>3 DEF With, Tables

-----------------------------------------------------------------------------
(* Who sleeps in which call.                                               *)

LEMMA InDistinct ==
  /\ \A o1, o2, x, y : In(o1, x) = In(o2, y) => o1 = o2 /\ x = y
  /\ \A o, x : In(o, x).op = o /\ In(o, x).on = x
  /\ NoCall = In("none", 0)
BY DEF In, NoCall

\* The process me wakes up those in out and goes to sleep in the call where.
LEMMA SleepersAfterWakeAndSleep ==
  ASSUME call \in [Proc -> Calls], NEW me \in Proc, me \notin Asleep,
         NEW out, NEW where,
         Asleep' = (Asleep \ out) \cup {me},
         call' = [call EXCEPT ![me] = where]
  PROVE  /\ Sleepers(where)' = (Sleepers(where) \ out) \cup {me}
         /\ me \notin Sleepers(where)
         /\ \A w : w # where => Sleepers(w)' = Sleepers(w) \ out
<1>1. \A p : p \in Asleep => p \in Proc
  BY DEF Asleep, With
<1>2. call'[me] = where /\ \A p \in Proc : p # me => call'[p] = call[p]
  OBVIOUS
<1> QED BY <1>1, <1>2 DEF Sleepers

\* The process me goes to sleep in the call where.
LEMMA SleepersWhenAsleep ==
  ASSUME call \in [Proc -> Calls], NEW me \in Proc, me \notin Asleep, NEW where,
         Asleep' = Asleep \cup {me}, call' = [call EXCEPT ![me] = where]
  PROVE  /\ Sleepers(where)' = Sleepers(where) \cup {me}
         /\ me \notin Sleepers(where)
         /\ \A w : w # where => Sleepers(w)' = Sleepers(w)
<1>1. \A p : p \in Asleep => p \in Proc
  BY DEF Asleep, With
<1>2. call'[me] = where /\ \A p \in Proc : p # me => call'[p] = call[p]
  OBVIOUS
<1> QED BY <1>1, <1>2 DEF Sleepers

\* Those in out are woken.
LEMMA SleepersAfterWake ==
  ASSUME NEW out, Asleep' = Asleep \ out, call' = call
  PROVE  \A w : Sleepers(w)' = Sleepers(w) \ out
BY DEF Sleepers

\* The handler of a process that is awake returns.
LEMMA SleepersAfterReturn ==
  ASSUME call \in [Proc -> Calls], NEW me \in Proc, me \notin Asleep,
         Asleep' = Asleep, NEW where, call' = [call EXCEPT ![me] = where]
  PROVE  \A w : Sleepers(w)' = Sleepers(w)
<1>1. \A p : p \in Asleep => p \in Proc
  BY DEF Asleep, With
<1> QED BY <1>1 DEF Sleepers

-----------------------------------------------------------------------------
(* What every step has to keep, and what most steps leave alone.           *)

LEMMA TableFacts ==
  ASSUME SynchInv
  PROVE  /\ TableInv(table) /\ Settled(table) /\ jiffies \in 0 .. Quantum
         /\ Running => /\ Current \in Proc
                       /\ Current \in With(table, "runnable")
                       /\ Current \notin Asleep
         /\ Asleep \subseteq Proc
<1>1. Inv
  BY DEF SynchInv
<1>2. TableInv(table) /\ Settled(table) /\ jiffies \in 0 .. Quantum
  BY <1>1 DEF Inv, TypeOK, QueuesMatchStatus, CurrentIsFront, TableInv
<1>3. Running => /\ Current \in Proc
                 /\ Current \in With(table, "runnable")
                 /\ Current \notin Asleep
  BY <1>1, CurrentLemma DEF Asleep, With
<1> QED BY <1>2, <1>3 DEF Asleep, With

LEMMA InvFromTable ==
  ASSUME TableInv(table'), Settled(table'), jiffies' \in 0 .. Quantum
  PROVE  Inv'
BY DEF Inv, TypeOK, QueuesMatchStatus, CurrentIsFront, TableInv

\* A condition that a process waits for stays, and so does its lock.
LEMMA CallsKept ==
  ASSUME CallsOK, CondsOK,
         call' \in [Proc -> Calls],
         \A p \in Proc : \A c \in Cond : call'[p] = In("cond", c)
           => call[p] = In("cond", c) \/ (conds[c].inuse /\ locks[conds[c].lock].inuse),
         \A c \in Cond : conds[c].inuse
           => conds'[c].inuse /\ conds'[c].lock = conds[c].lock,
         \A l \in Lock : locks[l].inuse => locks'[l].inuse
  PROVE  CallsOK'
<1>1. \A p \in Proc : \A c \in Cond : call'[p] = In("cond", c) =>
        conds[c].inuse /\ locks[conds[c].lock].inuse /\ conds[c].lock \in Lock
  BY DEF CallsOK, CondsOK
<1>2. \A p \in Proc : \A c \in Cond : call'[p] = In("cond", c) =>
        conds'[c].inuse /\ locks'[conds'[c].lock].inuse
  BY <1>1
<1> QED BY <1>2 DEF CallsOK, Calls, In

\* Steps that change no queue and put nobody to sleep keep the queues.
LEMMA QueuesKept ==
  ASSUME LockQueues, SemQueues, CondQueues,
         \A w : Sleepers(w)' = Sleepers(w),
         \A l \in Lock : locks'[l].waiting = locks[l].waiting,
         \A s \in Sem : sems'[s].waiting = sems[s].waiting,
         \A c \in Cond : conds'[c].waiting = conds[c].waiting
  PROVE  (LockQueues /\ SemQueues /\ CondQueues)'
BY DEF LockQueues, SemQueues, CondQueues

\* A step on one semaphore in use, or one just taken, keeps the others.
LEMMA SemsKept ==
  ASSUME SemsOK, CountsMatch, NEW s \in Sem, sems'[s].inuse, SemTypes', Balanced(s)',
         \A x \in Sem : x # s => sems'[x] = sems[x] /\ log'[x] = log[x]
  PROVE  SemsOK' /\ CountsMatch'
<1>1. ASSUME NEW x \in Sem, ~sems'[x].inuse
      PROVE  /\ sems'[x].count = 0 /\ sems'[x].waiting = <<>>
             /\ log'[x] = [init |-> 0, signals |-> 0, waits |-> 0]
  <2>1. x # s
    BY <1>1
  <2>2. sems'[x] = sems[x] /\ log'[x] = log[x]
    BY <2>1
  <2> QED BY <1>1, <2>2 DEF SemsOK
<1>2. ASSUME NEW x \in Sem PROVE Balanced(x)'
  <2>1. CASE x = s
    BY <2>1 DEF Balanced, LetThrough
  <2>2. CASE x # s
    <3>1. sems'[x] = sems[x] /\ log'[x] = log[x]
      BY <2>2
    <3> QED BY <3>1 DEF CountsMatch, Balanced, LetThrough
  <2> QED BY <2>1, <2>2
<1>3. SemsOK'
  BY <1>1 DEF SemsOK
<1>4. CountsMatch'
  BY <1>2 DEF CountsMatch
<1> QED BY <1>3, <1>4

\* The same for a lock.
LEMMA LocksKept ==
  ASSUME LocksOK, NEW l \in Lock, locks'[l].inuse,
         locks' \in [Lock -> [inuse : BOOLEAN, pid : Proc \cup {NoProc},
                              waiting : Seq(Proc)]],
         \A x \in Lock : x # l => locks'[x] = locks[x]
  PROVE  LocksOK' /\ \A x \in Lock : locks[x].inuse => locks'[x].inuse
<1>1. ASSUME NEW x \in Lock
      PROVE  /\ ~locks'[x].inuse => locks'[x].pid = NoProc /\ locks'[x].waiting = <<>>
             /\ locks[x].inuse => locks'[x].inuse
  <2>1. CASE x = l
    BY <2>1
  <2>2. CASE x # l
    <3>1. locks'[x] = locks[x]
      BY <2>2
    <3> QED BY <3>1 DEF LocksOK
  <2> QED BY <2>1, <2>2
<1> QED BY <1>1 DEF LocksOK

\* The same for a condition.
LEMMA CondsKept ==
  ASSUME CondsOK, NEW c \in Cond, conds'[c].inuse, conds'[c].lock \in Lock,
         conds' \in [Cond -> [inuse : BOOLEAN, lock : Lock \cup {0}, waiting : Seq(Proc)]],
         \A x \in Cond : x # c => conds'[x] = conds[x],
         conds[c].inuse => conds'[c].lock = conds[c].lock
  PROVE  /\ CondsOK'
         /\ \A x \in Cond : conds[x].inuse => conds'[x].inuse /\ conds'[x].lock = conds[x].lock
<1>1. ASSUME NEW x \in Cond
      PROVE  /\ IF conds'[x].inuse THEN conds'[x].lock \in Lock ELSE conds'[x].waiting = <<>>
             /\ conds[x].inuse => conds'[x].inuse /\ conds'[x].lock = conds[x].lock
  <2>1. CASE x = c
    BY <2>1
  <2>2. CASE x # c
    <3>1. conds'[x] = conds[x]
      BY <2>2
    <3> QED BY <3>1 DEF CondsOK
  <2> QED BY <2>1, <2>2
<1> QED BY <1>1 DEF CondsOK

-----------------------------------------------------------------------------
(* One lemma per action.                                                   *)

LEMMA SemCreateInv ==
  ASSUME SynchInv, NEW count \in InitialCounts, SemCreate(count)
  PROVE  SynchInv'
<1>1. PICK s \in FirstFree(sems) :
        /\ sems' = [sems EXCEPT ![s] = [inuse |-> TRUE, count |-> count,
                                        waiting |-> <<>>]]
        /\ log' = [log EXCEPT ![s].init = count]
  BY DEF SemCreate
<1>2. /\ UNCHANGED <<table, jiffies, locks, conds, call, holds>>
      /\ LocksOK /\ SemsOK /\ CondsOK /\ CallsOK
      /\ LockQueues /\ SemQueues /\ CondQueues /\ OwnersOK /\ CountsMatch
  BY DEF SemCreate, ProcessesUnchanged, SynchInv
<1>3. s \in Sem /\ ~sems[s].inuse /\ count \in Int
  BY <1>2, CountAssumption DEF FirstFree, SemsOK, SemTypes
<1>4. /\ sems[s].waiting = <<>> /\ log[s] = [init |-> 0, signals |-> 0, waits |-> 0]
  BY <1>2, <1>3 DEF SemsOK
<1>5. /\ sems'[s] = [inuse |-> TRUE, count |-> count, waiting |-> <<>>]
      /\ log'[s] = [init |-> count, signals |-> 0, waits |-> 0]
      /\ \A x \in Sem : x # s => sems'[x] = sems[x] /\ log'[x] = log[x]
      /\ sems' \in [Sem -> [inuse : BOOLEAN, count : Int, waiting : Seq(Proc)]]
      /\ log' \in [Sem -> [init : Int, signals : 0 .. MaxCalls, waits : 0 .. MaxCalls]]
  <2>1. <<>> \in Seq(Proc)
    BY ShortQueues
  <2>2. /\ sems \in [Sem -> [inuse : BOOLEAN, count : Int, waiting : Seq(Proc)]]
        /\ log \in [Sem -> [init : Int, signals : 0 .. MaxCalls, waits : 0 .. MaxCalls]]
    BY <1>2 DEF SemsOK, SemTypes
  <2>3. 0 \in 0 .. MaxCalls
    BY CountAssumption
  <2>4. /\ sems'[s] = [inuse |-> TRUE, count |-> count, waiting |-> <<>>]
        /\ \A x \in Sem : x # s => sems'[x] = sems[x]
    BY <1>1, <1>3, <2>2
  <2>5. sems' \in [Sem -> [inuse : BOOLEAN, count : Int, waiting : Seq(Proc)]]
    BY <1>1, <1>3, <2>1, <2>2
  <2>6. /\ log'[s] = [log[s] EXCEPT !.init = count]
        /\ \A x \in Sem : x # s => log'[x] = log[x]
        /\ log' \in [Sem -> [init : Int, signals : 0 .. MaxCalls, waits : 0 .. MaxCalls]]
    BY <1>1, <1>3, <2>2
  <2>7. log'[s] = [init |-> count, signals |-> 0, waits |-> 0]
    BY <1>4, <2>6
  <2> QED BY <2>4, <2>5, <2>6, <2>7
<1>6. SemsOK' /\ CountsMatch'
  <2>1. LetThrough(s)' = 0
    BY <1>5 DEF LetThrough
  <2>2. /\ sems'[s].inuse /\ sems'[s].count = count /\ sems'[s].waiting = <<>>
        /\ log'[s].init = count /\ log'[s].signals = 0
    BY <1>5
  <2>3. Balanced(s)'
    BY <1>3, <2>1, <2>2 DEF Balanced
  <2>4. SemTypes'
    BY <1>5 DEF SemTypes
  <2> QED BY <1>2, <1>3, <1>5, <2>2, <2>3, <2>4, SemsKept
<1>7. (LockQueues /\ SemQueues /\ CondQueues)'
  <2>1. \A w : Sleepers(w)' = Sleepers(w)
    BY <1>2 DEF Sleepers, Asleep
  <2>2. ASSUME NEW x \in Sem PROVE sems'[x].waiting = sems[x].waiting
    <3>1. CASE x = s
      BY <1>4, <1>5, <3>1
    <3> QED BY <1>5, <3>1
  <2>3. /\ \A l \in Lock : locks'[l].waiting = locks[l].waiting
        /\ \A c \in Cond : conds'[c].waiting = conds[c].waiting
    BY <1>2
  <2> QED BY <1>2, <2>1, <2>2, <2>3, QueuesKept
<1>8. (Inv /\ LocksOK /\ CondsOK /\ CallsOK)'
  BY <1>2 DEF SynchInv, Inv, TypeOK, QueuesMatchStatus, CurrentIsFront,
              LocksOK, CondsOK, CallsOK
<1>9. OwnersOK'
  BY <1>2 DEF OwnersOK, HoldersOwn, HandedOver, SleepersAreBlocked, Asleep
<1> QED BY <1>6, <1>7, <1>8, <1>9 DEF SynchInv

LEMMA SemWaitInv ==
  ASSUME SynchInv, NEW s \in Sem, SemWait(s)
  PROVE  SynchInv'
<1> DEFINE me == Current
<1>1. /\ UserMode /\ sems[s].inuse /\ log[s].waits < MaxCalls
      /\ log' = [log EXCEPT ![s].waits = @ + 1]
      /\ UNCHANGED <<locks, conds, holds>>
      /\ LocksOK /\ SemsOK /\ CondsOK /\ CallsOK
      /\ LockQueues /\ SemQueues /\ CondQueues /\ OwnersOK /\ CountsMatch
  BY DEF SemWait, SynchInv
<1>2. /\ TableInv(table) /\ Settled(table) /\ jiffies \in 0 .. Quantum
      /\ me \in Proc /\ me \in With(table, "runnable") /\ me \notin Asleep
      /\ call[me] = NoCall
  BY <1>1, TableFacts DEF UserMode
<1> HIDE DEF me
<1>3. /\ sems \in [Sem -> [inuse : BOOLEAN, count : Int, waiting : Seq(Proc)]]
      /\ log \in [Sem -> [init : Int, signals : 0 .. MaxCalls, waits : 0 .. MaxCalls]]
      /\ call \in [Proc -> Calls]
  BY <1>1 DEF SemsOK, SemTypes, CallsOK
<1>4. /\ log' \in [Sem -> [init : Int, signals : 0 .. MaxCalls, waits : 0 .. MaxCalls]]
      /\ log'[s].waits = log[s].waits + 1
      /\ log'[s].init = log[s].init /\ log'[s].signals = log[s].signals
      /\ \A x \in Sem : x # s => log'[x] = log[x]
  <2>1. log[s].waits + 1 \in 0 .. MaxCalls
    BY <1>1, <1>3, CountAssumption
  <2>2. /\ log'[s] = [log[s] EXCEPT !.waits = @ + 1]
        /\ \A x \in Sem : x # s => log'[x] = log[x]
    BY <1>1, <1>3
  <2>3. log'[s].waits = log[s].waits + 1
        /\ log'[s].init = log[s].init /\ log'[s].signals = log[s].signals
    BY <1>3, <2>2
  <2>4. log' \in [Sem -> [init : Int, signals : 0 .. MaxCalls, waits : 0 .. MaxCalls]]
    BY <1>1, <1>3, <2>1
  <2> QED BY <2>2, <2>3, <2>4
<1>5. CASE /\ sems[s].count <= 0
           /\ sems' = [sems EXCEPT ![s].waiting = Append(@, me)]
           /\ SleepIn(table, In("sem", s))
  <2>1. table' = Schedule(Suspend(table, me)) /\ jiffies' = 0
        /\ call' = [call EXCEPT ![me] = In("sem", s)]
    BY <1>5 DEF SleepIn, ClkReset, me
  <2>2. TableInv(table') /\ Settled(table') /\ Asleep' = Asleep \cup {me}
    BY <1>2, <2>1, SleepTable DEF Asleep
  <2>3. Inv'
    BY <2>1, <2>2, QuantumAssumption, InvFromTable
  <2>4. /\ Sleepers(In("sem", s))' = Sleepers(In("sem", s)) \cup {me}
        /\ me \notin Sleepers(In("sem", s))
        /\ \A w : w # In("sem", s) => Sleepers(w)' = Sleepers(w)
    BY <1>2, <1>3, <2>1, <2>2, SleepersWhenAsleep
  <2>5. /\ Append(sems[s].waiting, me) \in Seq(Proc)
        /\ Holds(Append(sems[s].waiting, me), Sleepers(In("sem", s)) \cup {me})
        /\ Len(Append(sems[s].waiting, me)) = Len(sems[s].waiting) + 1
        /\ Len(sems[s].waiting) \in Nat
    <3>1. sems[s].waiting \in Seq(Proc) /\ Holds(sems[s].waiting, Sleepers(In("sem", s)))
      BY <1>1, <1>3 DEF SemQueues
    <3> QED BY <1>2, <2>4, <3>1, AppendLemma
  <2>6. /\ sems' \in [Sem -> [inuse : BOOLEAN, count : Int, waiting : Seq(Proc)]]
        /\ sems'[s].waiting = Append(sems[s].waiting, me)
        /\ sems'[s].count = sems[s].count /\ sems'[s].inuse = sems[s].inuse
        /\ \A x \in Sem : x # s => sems'[x] = sems[x]
    BY <1>3, <1>5, <2>5
  <2>7. SemsOK' /\ CountsMatch'
    <3>1. LetThrough(s)' = LetThrough(s)
      BY <1>3, <1>4, <2>5, <2>6 DEF LetThrough
    <3>2. /\ LetThrough(s) >= 0
          /\ sems[s].count = log[s].init + log[s].signals - LetThrough(s)
          /\ LetThrough(s) > 0 => sems[s].count >= 0
      BY <1>1 DEF CountsMatch, Balanced
    <3>3. ~(sems'[s].count > 0)
      BY <1>3, <1>5, <2>6
    <3>4. sems'[s].count = sems[s].count
          /\ log'[s].init = log[s].init /\ log'[s].signals = log[s].signals
      BY <1>4, <2>6
    <3>5. Balanced(s)'
      BY <3>1, <3>2, <3>3, <3>4 DEF Balanced
    <3>6. SemTypes' /\ sems'[s].inuse
      BY <1>1, <1>4, <2>6 DEF SemTypes
    <3>7. \A x \in Sem : x # s => sems'[x] = sems[x] /\ log'[x] = log[x]
      BY <1>4, <2>6
    <3> QED BY <1>1, <3>5, <3>6, <3>7, SemsKept
  <2>8. LockQueues' /\ CondQueues'
    BY <1>1, <2>4, InDistinct DEF LockQueues, CondQueues
  <2>9. SemQueues'
    <3>1. ASSUME NEW x \in Sem PROVE Holds(sems'[x].waiting, Sleepers(In("sem", x))')
      <4>1. CASE x = s
        <5>1. Holds(sems'[s].waiting, Sleepers(In("sem", s))')
          BY <2>4, <2>5, <2>6
        <5> QED BY <4>1, <5>1
      <4>2. CASE x # s
        <5>1. In("sem", x) # In("sem", s)
          BY <4>2, InDistinct
        <5>2. sems'[x] = sems[x] /\ Sleepers(In("sem", x))' = Sleepers(In("sem", x))
          BY <2>4, <2>6, <4>2, <5>1
        <5> QED BY <1>1, <5>2 DEF SemQueues
      <4> QED BY <4>1, <4>2
    <3> QED BY <3>1 DEF SemQueues
  <2>10. CallsOK'
    <3>1. call' \in [Proc -> Calls]
      BY <1>3, <2>1 DEF Calls
    <3>2. \A p \in Proc : \A c \in Cond : call'[p] = In("cond", c) => call[p] = In("cond", c)
      BY <1>3, <2>1, InDistinct
    <3> QED BY <1>1, <3>1, <3>2, CallsKept
  <2>11. OwnersOK'
    <3>1. HandedOver'
      BY <1>1, <1>3, <2>1, <2>2 DEF OwnersOK, HandedOver
    <3> QED BY <1>1, <3>1 DEF OwnersOK, HoldersOwn, SleepersAreBlocked
  <2>12. LocksOK' /\ CondsOK'
    BY <1>1 DEF LocksOK, CondsOK
  <2> QED BY <2>3, <2>7, <2>8, <2>9, <2>10, <2>11, <2>12 DEF SynchInv
<1>6. CASE /\ sems[s].count > 0
           /\ sems' = [sems EXCEPT ![s].count = @ - 1]
           /\ UNCHANGED <<table, jiffies, call>>
  <2>1. /\ sems' \in [Sem -> [inuse : BOOLEAN, count : Int, waiting : Seq(Proc)]]
        /\ sems'[s].waiting = sems[s].waiting
        /\ sems'[s].count = sems[s].count - 1 /\ sems'[s].inuse = sems[s].inuse
        /\ \A x \in Sem : x # s => sems'[x] = sems[x]
    <3>1. sems[s].count - 1 \in Int
      BY <1>3
    <3>2. /\ sems'[s] = [sems[s] EXCEPT !.count = @ - 1]
          /\ \A x \in Sem : x # s => sems'[x] = sems[x]
      BY <1>3, <1>6
    <3>3. sems' \in [Sem -> [inuse : BOOLEAN, count : Int, waiting : Seq(Proc)]]
      BY <1>3, <1>6, <3>1
    <3>4. /\ sems'[s].waiting = sems[s].waiting /\ sems'[s].inuse = sems[s].inuse
          /\ sems'[s].count = sems[s].count - 1
      BY <1>3, <3>2
    <3> QED BY <3>2, <3>3, <3>4
  <2>2. SemsOK' /\ CountsMatch'
    <3>1. sems[s].waiting = <<>>
      BY <1>1, <1>6 DEF CountsMatch, Balanced
    <3>2. LetThrough(s)' = LetThrough(s) + 1
      BY <1>3, <1>4, <2>1, <3>1 DEF LetThrough
    <3>3. LetThrough(s) \in Int /\ LetThrough(s) >= 0
          /\ sems[s].count = log[s].init + log[s].signals - LetThrough(s)
          /\ sems[s].count \in Int /\ log[s].init \in Int /\ log[s].signals \in Int
      <4>1. LetThrough(s) >= 0
            /\ sems[s].count = log[s].init + log[s].signals - LetThrough(s)
        BY <1>1 DEF CountsMatch, Balanced
      <4>2. sems[s].count \in Int /\ log[s].init \in Int /\ log[s].signals \in Int
            /\ log[s].waits \in Int /\ Len(sems[s].waiting) = 0
        BY <1>3, <3>1, CountAssumption
      <4>3. LetThrough(s) \in Int
        BY <4>2 DEF LetThrough
      <4> QED BY <4>1, <4>2, <4>3
    <3>4. /\ sems'[s].count = sems[s].count - 1 /\ sems[s].count > 0
          /\ log'[s].init = log[s].init /\ log'[s].signals = log[s].signals
          /\ sems'[s].waiting = <<>>
      BY <1>4, <1>6, <2>1, <3>1
    <3>5. Balanced(s)'
      <4>1. /\ LetThrough(s)' >= 0
            /\ sems'[s].count = log'[s].init + log'[s].signals - LetThrough(s)'
            /\ sems'[s].count >= 0
        BY <3>2, <3>3, <3>4
      <4> QED BY <3>4, <4>1 DEF Balanced
    <3>6. SemTypes' /\ sems'[s].inuse
      BY <1>1, <1>4, <2>1 DEF SemTypes
    <3>7. \A x \in Sem : x # s => sems'[x] = sems[x] /\ log'[x] = log[x]
      BY <1>4, <2>1
    <3> QED BY <1>1, <3>5, <3>6, <3>7, SemsKept
  <2>3. (LockQueues /\ SemQueues /\ CondQueues)'
    <3>1. \A w : Sleepers(w)' = Sleepers(w)
      BY <1>6 DEF Sleepers, Asleep
    <3>2. ASSUME NEW x \in Sem PROVE sems'[x].waiting = sems[x].waiting
      <4>1. CASE x = s
        BY <2>1, <4>1
      <4> QED BY <2>1, <4>1
    <3>3. /\ \A l \in Lock : locks'[l].waiting = locks[l].waiting
          /\ \A c \in Cond : conds'[c].waiting = conds[c].waiting
      BY <1>1
    <3> QED BY <1>1, <3>1, <3>2, <3>3, QueuesKept
  <2>4. (Inv /\ LocksOK /\ CondsOK /\ CallsOK /\ OwnersOK)'
    BY <1>1, <1>6 DEF SynchInv, Inv, TypeOK, QueuesMatchStatus, CurrentIsFront, LocksOK,
                      CondsOK, CallsOK, OwnersOK, HoldersOwn, HandedOver,
                      SleepersAreBlocked, Asleep
  <2> QED BY <2>2, <2>3, <2>4 DEF SynchInv
<1> QED BY <1>5, <1>6 DEF SemWait, ProcessesUnchanged, me

LEMMA SemSignalInv ==
  ASSUME SynchInv, NEW s \in Sem, SemSignal(s)
  PROVE  SynchInv'
<1>1. /\ UserMode /\ sems[s].inuse /\ log[s].signals < MaxCalls
      /\ log' = [log EXCEPT ![s].signals = @ + 1]
      /\ SemPost(s)
      /\ UNCHANGED <<jiffies, locks, conds, call, holds>>
      /\ LocksOK /\ SemsOK /\ CondsOK /\ CallsOK
      /\ LockQueues /\ SemQueues /\ CondQueues /\ OwnersOK /\ CountsMatch
  BY DEF SemSignal, SynchInv
<1>2. TableInv(table) /\ Settled(table) /\ jiffies \in 0 .. Quantum
  BY TableFacts
<1>3. /\ sems \in [Sem -> [inuse : BOOLEAN, count : Int, waiting : Seq(Proc)]]
      /\ log \in [Sem -> [init : Int, signals : 0 .. MaxCalls, waits : 0 .. MaxCalls]]
      /\ call \in [Proc -> Calls]
  BY <1>1 DEF SemsOK, SemTypes, CallsOK
<1>4. /\ log' \in [Sem -> [init : Int, signals : 0 .. MaxCalls, waits : 0 .. MaxCalls]]
      /\ log'[s].signals = log[s].signals + 1
      /\ log'[s].init = log[s].init /\ log'[s].waits = log[s].waits
      /\ \A x \in Sem : x # s => log'[x] = log[x]
  <2>1. log[s].signals + 1 \in 0 .. MaxCalls
    BY <1>1, <1>3, CountAssumption
  <2>2. /\ log'[s] = [log[s] EXCEPT !.signals = @ + 1]
        /\ \A x \in Sem : x # s => log'[x] = log[x]
    BY <1>1, <1>3
  <2>3. log'[s].signals = log[s].signals + 1
        /\ log'[s].init = log[s].init /\ log'[s].waits = log[s].waits
    BY <1>3, <2>2
  <2>4. log' \in [Sem -> [init : Int, signals : 0 .. MaxCalls, waits : 0 .. MaxCalls]]
    BY <1>1, <1>3, <2>1
  <2> QED BY <2>2, <2>3, <2>4
<1>5. /\ LetThrough(s) \in Int /\ LetThrough(s) >= 0
      /\ sems[s].count = log[s].init + log[s].signals - LetThrough(s)
      /\ sems[s].count > 0 => sems[s].waiting = <<>>
      /\ LetThrough(s) > 0 => sems[s].count >= 0
      /\ sems[s].count \in Int /\ sems[s].waiting \in Seq(Proc)
      /\ Len(sems[s].waiting) \in Nat
      /\ log[s].init \in Int /\ log[s].signals \in Nat /\ log[s].waits \in Nat
  <2>1. Len(sems[s].waiting) \in Nat
    BY <1>3
  <2>2. log[s].waits \in Nat /\ log[s].signals \in Nat
    BY <1>3, CountAssumption
  <2>3. LetThrough(s) \in Int
    BY <2>1, <2>2 DEF LetThrough
  <2> QED BY <1>1, <1>3, <2>1, <2>2, <2>3 DEF CountsMatch, Balanced
<1>6. CASE sems[s].count + 1 > 0 /\ sems[s].waiting # <<>>
  <2> DEFINE h == Head(sems[s].waiting)
             q == Tail(sems[s].waiting)
  <2>1. /\ sems' = [sems EXCEPT ![s].count = (sems[s].count + 1) - 1, ![s].waiting = Tail(@)]
        /\ table' = Wakeup(table, h)
    BY <1>1, <1>6 DEF SemPost
  <2>2. sems[s].count = 0
    BY <1>5, <1>6
  <2>3. /\ h \in Sleepers(In("sem", s)) /\ h \in Proc /\ q \in Seq(Proc)
        /\ Holds(q, Sleepers(In("sem", s)) \ {h})
    <3>1. Holds(sems[s].waiting, Sleepers(In("sem", s)))
      BY <1>1 DEF SemQueues
    <3> QED BY <1>5, <1>6, <3>1, TailLemma
  <2>4. Len(q) = Len(sems[s].waiting) - 1
    BY <1>5, <1>6
  <2>5. /\ sems' \in [Sem -> [inuse : BOOLEAN, count : Int, waiting : Seq(Proc)]]
        /\ sems'[s].waiting = q /\ sems'[s].count = 0 /\ sems'[s].inuse
        /\ \A x \in Sem : x # s => sems'[x] = sems[x]
    <3>1. (sems[s].count + 1) - 1 = 0
      BY <2>2
    <3> HIDE DEF q
    <3>2. sems' = [sems EXCEPT ![s].count = 0, ![s].waiting = q]
      BY <2>1, <3>1 DEF q
    <3> DEFINE r == [sems[s] EXCEPT !.count = 0, !.waiting = q]
    <3>3. r \in [inuse : BOOLEAN, count : Int, waiting : Seq(Proc)]
      <4>1. sems[s] \in [inuse : BOOLEAN, count : Int, waiting : Seq(Proc)]
        BY <1>3
      <4>2. q \in Seq(Proc) /\ 0 \in Int
        BY <2>3
      <4> QED BY <4>1, <4>2
    <3>4. sems' = [sems EXCEPT ![s] = r]
      BY <1>3, <3>2
    <3>5. /\ sems'[s] = [sems[s] EXCEPT !.count = 0, !.waiting = q]
          /\ \A x \in Sem : x # s => sems'[x] = sems[x]
      BY <1>3, <3>2
    <3> HIDE DEF r
    <3>6. sems' \in [Sem -> [inuse : BOOLEAN, count : Int, waiting : Seq(Proc)]]
      BY <1>3, <3>3, <3>4
    <3>7. sems'[s].waiting = q /\ sems'[s].count = 0 /\ sems'[s].inuse
      BY <1>1, <1>3, <3>5
    <3> QED BY <3>6, <3>5, <3>7
  <2> HIDE DEF h, q
  <2>6. h \in With(table, "waiting") /\ call[h] = In("sem", s)
    BY <2>3 DEF Sleepers, Asleep
  <2>7. TableInv(table') /\ Settled(table') /\ Asleep' = Asleep \ {h}
    BY <1>2, <2>1, <2>6, WakeTable DEF Asleep
  <2>8. Inv'
    BY <1>1, <1>2, <2>7, InvFromTable
  <2>9. \A w : Sleepers(w)' = Sleepers(w) \ {h}
    BY <1>1, <2>7, SleepersAfterWake
  <2>10. \A w : w # In("sem", s) => Sleepers(w)' = Sleepers(w)
    BY <2>6, <2>9 DEF Sleepers
  <2>11. LockQueues' /\ CondQueues'
    BY <1>1, <2>10, InDistinct DEF LockQueues, CondQueues
  <2>12. SemQueues'
    <3>1. ASSUME NEW x \in Sem PROVE Holds(sems'[x].waiting, Sleepers(In("sem", x))')
      <4>1. CASE x = s
        <5>1. Holds(sems'[s].waiting, Sleepers(In("sem", s))')
          BY <2>3, <2>5, <2>9
        <5> QED BY <4>1, <5>1
      <4>2. CASE x # s
        <5>1. In("sem", x) # In("sem", s)
          BY <4>2, InDistinct
        <5>2. sems'[x] = sems[x] /\ Sleepers(In("sem", x))' = Sleepers(In("sem", x))
          BY <2>5, <2>10, <4>2, <5>1
        <5> QED BY <1>1, <5>2 DEF SemQueues
      <4> QED BY <4>1, <4>2
    <3> QED BY <3>1 DEF SemQueues
  <2>13. SemsOK' /\ CountsMatch'
    <3>1. /\ log'[s].signals = log[s].signals + 1 /\ log'[s].init = log[s].init
          /\ log'[s].waits = log[s].waits
          /\ sems'[s].waiting = q /\ sems'[s].count = 0
      BY <1>4, <2>5
    <3>3. LetThrough(s)' = LetThrough(s) + 1
      BY <1>5, <2>4, <3>1 DEF LetThrough
    <3>4. /\ LetThrough(s) \in Int /\ LetThrough(s) >= 0
          /\ log[s].init \in Int /\ log[s].signals \in Int
          /\ 0 = log[s].init + log[s].signals - LetThrough(s)
      BY <1>5, <2>2
    <3>5. Balanced(s)'
      <4>1. /\ LetThrough(s)' >= 0
            /\ sems'[s].count = log'[s].init + log'[s].signals - LetThrough(s)'
            /\ sems'[s].count >= 0 /\ ~(sems'[s].count > 0)
        BY <3>1, <3>3, <3>4
      <4> QED BY <4>1 DEF Balanced
    <3>6. SemTypes' /\ sems'[s].inuse
      BY <1>4, <2>5 DEF SemTypes
    <3>7. \A x \in Sem : x # s => sems'[x] = sems[x] /\ log'[x] = log[x]
      BY <1>4, <2>5
    <3> QED BY <1>1, <3>5, <3>6, <3>7, SemsKept
  <2>14. OwnersOK'
    <3>1. HandedOver'
      <4>1. \A l \in Lock : In("lock", l) # In("sem", s)
        BY InDistinct
      <4> QED BY <1>1, <2>6, <2>7, <4>1 DEF OwnersOK, HandedOver
    <3> QED BY <1>1, <3>1 DEF OwnersOK, HoldersOwn, SleepersAreBlocked
  <2>15. (LocksOK /\ CondsOK /\ CallsOK)'
    BY <1>1 DEF LocksOK, CondsOK, CallsOK
  <2> QED BY <2>8, <2>11, <2>12, <2>13, <2>14, <2>15 DEF SynchInv
<1>7. CASE ~(sems[s].count + 1 > 0 /\ sems[s].waiting # <<>>)
  <2>1. sems' = [sems EXCEPT ![s].count = sems[s].count + 1] /\ UNCHANGED table
    BY <1>1, <1>7 DEF SemPost
  <2>2. /\ sems' \in [Sem -> [inuse : BOOLEAN, count : Int, waiting : Seq(Proc)]]
        /\ sems'[s].waiting = sems[s].waiting /\ sems'[s].inuse
        /\ sems'[s].count = sems[s].count + 1
        /\ \A x \in Sem : x # s => sems'[x] = sems[x]
    <3>1. sems[s].count + 1 \in Int
      BY <1>5
    <3>2. /\ sems'[s] = [sems[s] EXCEPT !.count = sems[s].count + 1]
          /\ \A x \in Sem : x # s => sems'[x] = sems[x]
      BY <1>3, <2>1
    <3>3. sems' \in [Sem -> [inuse : BOOLEAN, count : Int, waiting : Seq(Proc)]]
      BY <1>3, <2>1, <3>1
    <3>4. /\ sems'[s].waiting = sems[s].waiting /\ sems'[s].inuse
          /\ sems'[s].count = sems[s].count + 1
      BY <1>1, <1>3, <3>2
    <3> QED BY <3>2, <3>3, <3>4
  <2>3. SemsOK' /\ CountsMatch'
    <3>1. LetThrough(s)' = LetThrough(s)
      BY <1>4, <2>2 DEF LetThrough
    <3>4. /\ log'[s].signals = log[s].signals + 1 /\ log'[s].init = log[s].init
          /\ sems'[s].count = sems[s].count + 1
      BY <1>4, <2>2
    <3>2. /\ LetThrough(s) \in Int /\ LetThrough(s) >= 0
          /\ log[s].init \in Int /\ log[s].signals \in Int /\ sems[s].count \in Int
          /\ sems[s].count = log[s].init + log[s].signals - LetThrough(s)
          /\ LetThrough(s) > 0 => sems[s].count >= 0
      BY <1>5
    <3>3. sems'[s].count > 0 => sems'[s].waiting = <<>>
      BY <1>7, <2>2
    <3>5. Balanced(s)'
      <4>1. /\ LetThrough(s)' >= 0
            /\ sems'[s].count = log'[s].init + log'[s].signals - LetThrough(s)'
            /\ LetThrough(s)' > 0 => sems'[s].count >= 0
        BY <3>1, <3>2, <3>4
      <4> QED BY <3>3, <4>1 DEF Balanced
    <3>6. SemTypes' /\ sems'[s].inuse
      BY <1>4, <2>2 DEF SemTypes
    <3>7. \A x \in Sem : x # s => sems'[x] = sems[x] /\ log'[x] = log[x]
      BY <1>4, <2>2
    <3> QED BY <1>1, <3>5, <3>6, <3>7, SemsKept
  <2>4. (LockQueues /\ SemQueues /\ CondQueues)'
    <3>1. \A w : Sleepers(w)' = Sleepers(w)
      BY <1>1, <2>1 DEF Sleepers, Asleep
    <3>2. ASSUME NEW x \in Sem PROVE sems'[x].waiting = sems[x].waiting
      <4>1. CASE x = s
        BY <2>2, <4>1
      <4> QED BY <2>2, <4>1
    <3>3. /\ \A l \in Lock : locks'[l].waiting = locks[l].waiting
          /\ \A c \in Cond : conds'[c].waiting = conds[c].waiting
      BY <1>1
    <3> QED BY <1>1, <3>1, <3>2, <3>3, QueuesKept
  <2>5. (Inv /\ LocksOK /\ CondsOK /\ CallsOK /\ OwnersOK)'
    <3>1. Inv'
      BY <1>1, <1>2, <2>1, InvFromTable
    <3> QED BY <1>1, <2>1, <3>1 DEF LocksOK, CondsOK, CallsOK, OwnersOK, HoldersOwn,
                                    HandedOver, SleepersAreBlocked, Asleep
  <2> QED BY <2>3, <2>4, <2>5 DEF SynchInv
<1> QED BY <1>6, <1>7

\* Steps that move no owner and change neither the calls nor who is asleep.
LEMMA OwnersKept ==
  ASSUME OwnersOK, Asleep' = Asleep, call' = call, holds' = holds,
         \A l \in Lock : locks'[l].pid = locks[l].pid
                         /\ locks'[l].waiting = locks[l].waiting
  PROVE  OwnersOK'
<1>1. HoldersOwn'
  BY DEF OwnersOK, HoldersOwn
<1>2. HandedOver'
  BY DEF OwnersOK, HandedOver
<1>3. SleepersAreBlocked'
  BY DEF OwnersOK, SleepersAreBlocked
<1> QED BY <1>1, <1>2, <1>3 DEF OwnersOK

LEMMA LockCreateInv ==
  ASSUME SynchInv, LockCreate
  PROVE  SynchInv'
<1>1. PICK l \in FirstFree(locks) :
        locks' = [locks EXCEPT ![l] = [inuse |-> TRUE, pid |-> NoProc,
                                       waiting |-> <<>>]]
  BY DEF LockCreate
<1>2. /\ UNCHANGED <<table, jiffies, sems, conds, call, holds, log>>
      /\ LocksOK /\ SemsOK /\ CondsOK /\ CallsOK
      /\ LockQueues /\ SemQueues /\ CondQueues /\ OwnersOK /\ CountsMatch
  BY DEF LockCreate, ProcessesUnchanged, SynchInv
<1>3. /\ l \in Lock /\ ~locks[l].inuse
      /\ locks[l].pid = NoProc /\ locks[l].waiting = <<>>
      /\ locks \in [Lock -> [inuse : BOOLEAN, pid : Proc \cup {NoProc},
                             waiting : Seq(Proc)]]
  BY <1>2 DEF FirstFree, LocksOK
<1>4. /\ locks'[l] = [inuse |-> TRUE, pid |-> NoProc, waiting |-> <<>>]
      /\ \A x \in Lock : x # l => locks'[x] = locks[x]
  BY <1>1, <1>3
<1>5. locks' \in [Lock -> [inuse : BOOLEAN, pid : Proc \cup {NoProc},
                           waiting : Seq(Proc)]]
  BY <1>1, <1>3, ShortQueues
<1>6. LocksOK' /\ \A x \in Lock : locks[x].inuse => locks'[x].inuse
  <2>1. locks'[l].inuse
    BY <1>4
  <2> QED BY <1>2, <1>3, <1>4, <1>5, <2>1, LocksKept
<1>7. ASSUME NEW x \in Lock
      PROVE  locks'[x].pid = locks[x].pid /\ locks'[x].waiting = locks[x].waiting
  <2>1. CASE x = l
    BY <1>3, <1>4, <2>1
  <2> QED BY <1>4, <2>1
<1>8. (LockQueues /\ SemQueues /\ CondQueues)'
  <2>1. \A w : Sleepers(w)' = Sleepers(w)
    BY <1>2 DEF Sleepers, Asleep
  <2>2. /\ \A s \in Sem : sems'[s].waiting = sems[s].waiting
        /\ \A c \in Cond : conds'[c].waiting = conds[c].waiting
    BY <1>2
  <2> QED BY <1>2, <1>7, <2>1, <2>2, QueuesKept
<1>9. OwnersOK'
  <2>1. Asleep' = Asleep
    BY <1>2 DEF Asleep
  <2> QED BY <1>2, <1>7, <2>1, OwnersKept
<1>10. CallsOK'
  <2>1. \A c \in Cond : conds[c].inuse => conds'[c].inuse /\ conds'[c].lock = conds[c].lock
    BY <1>2
  <2>2. /\ call' \in [Proc -> Calls]
        /\ \A p \in Proc : \A c \in Cond : call'[p] = In("cond", c) => call[p] = In("cond", c)
    BY <1>2 DEF CallsOK
  <2> QED BY <1>2, <1>6, <2>1, <2>2, CallsKept
<1>11. (Inv /\ SemsOK /\ CondsOK /\ CountsMatch)'
  BY <1>2 DEF SynchInv, Inv, TypeOK, QueuesMatchStatus, CurrentIsFront,
              SemsOK, SemTypes, CondsOK, CountsMatch, Balanced, LetThrough
<1> QED BY <1>6, <1>8, <1>9, <1>10, <1>11 DEF SynchInv

LEMMA CondCreateInv ==
  ASSUME SynchInv, NEW l \in Lock, CondCreate(l)
  PROVE  SynchInv'
<1>1. PICK c \in FirstFree(conds) :
        conds' = [conds EXCEPT ![c] = [inuse |-> TRUE, lock |-> l, waiting |-> <<>>]]
  BY DEF CondCreate
<1>2. /\ UNCHANGED <<table, jiffies, locks, sems, call, holds, log>>
      /\ LocksOK /\ SemsOK /\ CondsOK /\ CallsOK
      /\ LockQueues /\ SemQueues /\ CondQueues /\ OwnersOK /\ CountsMatch
  BY DEF CondCreate, ProcessesUnchanged, SynchInv
<1>3. /\ c \in Cond /\ ~conds[c].inuse /\ conds[c].waiting = <<>>
      /\ conds \in [Cond -> [inuse : BOOLEAN, lock : Lock \cup {0}, waiting : Seq(Proc)]]
  BY <1>2 DEF FirstFree, CondsOK
<1>4. /\ conds'[c] = [inuse |-> TRUE, lock |-> l, waiting |-> <<>>]
      /\ \A x \in Cond : x # c => conds'[x] = conds[x]
  BY <1>1, <1>3
<1>5. conds' \in [Cond -> [inuse : BOOLEAN, lock : Lock \cup {0}, waiting : Seq(Proc)]]
  BY <1>1, <1>3, ShortQueues
<1>6. /\ CondsOK'
      /\ \A x \in Cond : conds[x].inuse => conds'[x].inuse /\ conds'[x].lock = conds[x].lock
  <2>1. conds'[c].inuse /\ conds'[c].lock \in Lock
    BY <1>4
  <2> QED BY <1>2, <1>3, <1>4, <1>5, <2>1, CondsKept
<1>7. (LockQueues /\ SemQueues /\ CondQueues)'
  <2>1. \A w : Sleepers(w)' = Sleepers(w)
    BY <1>2 DEF Sleepers, Asleep
  <2>2. /\ \A s \in Sem : sems'[s].waiting = sems[s].waiting
        /\ \A x \in Lock : locks'[x].waiting = locks[x].waiting
    BY <1>2
  <2>3. ASSUME NEW x \in Cond PROVE conds'[x].waiting = conds[x].waiting
    <3>1. CASE x = c
      BY <1>3, <1>4, <3>1
    <3> QED BY <1>4, <3>1
  <2> QED BY <1>2, <2>1, <2>2, <2>3, QueuesKept
<1>8. CallsOK'
  <2>1. \A x \in Lock : locks[x].inuse => locks'[x].inuse
    BY <1>2
  <2>2. /\ call' \in [Proc -> Calls]
        /\ \A p \in Proc : \A x \in Cond : call'[p] = In("cond", x) => call[p] = In("cond", x)
    BY <1>2 DEF CallsOK
  <2> QED BY <1>2, <1>6, <2>1, <2>2, CallsKept
<1>9. (Inv /\ LocksOK /\ SemsOK /\ CountsMatch)'
  BY <1>2 DEF SynchInv, Inv, TypeOK, QueuesMatchStatus, CurrentIsFront,
              LocksOK, SemsOK, SemTypes, CountsMatch, Balanced, LetThrough
<1>10. OwnersOK'
  BY <1>2 DEF OwnersOK, HoldersOwn, HandedOver, SleepersAreBlocked, Asleep
<1> QED BY <1>6, <1>7, <1>8, <1>9, <1>10 DEF SynchInv

LEMMA ReturnAwakeInv ==
  ASSUME SynchInv, ReturnAwake
  PROVE  SynchInv'
<1> DEFINE me == Current
<1>1. /\ Running /\ call[me].op \in {"sem", "lock"}
      /\ holds' = IF call[me].op = "lock"
                  THEN [holds EXCEPT ![me] = @ \cup {call[me].on}] ELSE holds
      /\ call' = [call EXCEPT ![me] = NoCall]
      /\ UNCHANGED <<table, jiffies, locks, sems, conds, log>>
      /\ LocksOK /\ SemsOK /\ CondsOK /\ CallsOK
      /\ LockQueues /\ SemQueues /\ CondQueues /\ OwnersOK /\ CountsMatch
  BY DEF ReturnAwake, Told, BackToUser, ProcessesUnchanged, SynchInv
<1>2. me \in Proc /\ me \notin Asleep
  BY <1>1, TableFacts
<1> HIDE DEF me
<1>3. call \in [Proc -> Calls] /\ holds \in [Proc -> SUBSET Lock]
  BY <1>1 DEF CallsOK, OwnersOK
<1>4. call[me].op = "lock" => \E l \in Lock : call[me] = In("lock", l)
  BY <1>2, <1>3, InDistinct DEF Calls
<1>5. \A w : Sleepers(w)' = Sleepers(w)
  <2>1. Asleep' = Asleep
    BY <1>1 DEF Asleep
  <2> QED BY <1>1, <1>2, <1>3, <2>1, SleepersAfterReturn
<1>6. (LockQueues /\ SemQueues /\ CondQueues)'
  <2>1. /\ \A l \in Lock : locks'[l].waiting = locks[l].waiting
        /\ \A s \in Sem : sems'[s].waiting = sems[s].waiting
        /\ \A c \in Cond : conds'[c].waiting = conds[c].waiting
    BY <1>1
  <2> QED BY <1>1, <1>5, <2>1, QueuesKept
<1>7. CallsOK'
  <2>1. call' \in [Proc -> Calls]
    BY <1>1, <1>3 DEF Calls
  <2>2. \A p \in Proc : \A c \in Cond : call'[p] = In("cond", c) => call[p] = In("cond", c)
    BY <1>1, <1>2, <1>3, InDistinct
  <2>3. /\ \A c \in Cond : conds[c].inuse => conds'[c].inuse /\ conds'[c].lock = conds[c].lock
        /\ \A l \in Lock : locks[l].inuse => locks'[l].inuse
    BY <1>1
  <2> QED BY <1>1, <2>1, <2>2, <2>3, CallsKept
<1>8. holds' \in [Proc -> SUBSET Lock] /\ HoldersOwn'
  <2>1. CASE call[me].op = "lock"
    <3>1. PICK l \in Lock : call[me] = In("lock", l)
      BY <1>4, <2>1
    <3>2. call[me].on = l
      BY <3>1, InDistinct
    <3>3. locks[l].pid = me
      BY <1>1, <1>2, <3>1 DEF OwnersOK, HandedOver
    <3>4. holds' = [holds EXCEPT ![me] = @ \cup {l}]
      BY <1>1, <2>1, <3>2
    <3>5. holds' \in [Proc -> SUBSET Lock]
      BY <1>3, <3>4
    <3>6. \A p \in Proc : \A x \in holds'[p] : x \in holds[p] \/ (p = me /\ x = l)
      BY <1>3, <3>4
    <3> QED BY <1>1, <3>3, <3>5, <3>6 DEF OwnersOK, HoldersOwn
  <2>2. CASE call[me].op # "lock"
    BY <1>1, <1>3, <2>2 DEF OwnersOK, HoldersOwn
  <2> QED BY <2>1, <2>2
<1>9. HandedOver' /\ SleepersAreBlocked'
  <2>1. \A l \in Lock : NoCall # In("lock", l)
    BY InDistinct
  <2>2. \A p \in Proc : p # me => call'[p] = call[p]
    BY <1>1, <1>3
  <2>3. call'[me] = NoCall
    BY <1>1, <1>2, <1>3
  <2> QED BY <1>1, <2>1, <2>2, <2>3 DEF OwnersOK, HandedOver, SleepersAreBlocked, Asleep
<1>10. (Inv /\ LocksOK /\ SemsOK /\ CondsOK /\ CountsMatch)'
  BY <1>1 DEF SynchInv, Inv, TypeOK, QueuesMatchStatus, CurrentIsFront,
              LocksOK, SemsOK, SemTypes, CondsOK, CountsMatch, Balanced, LetThrough
<1> QED BY <1>6, <1>7, <1>8, <1>9, <1>10 DEF SynchInv, OwnersOK

\* An exit, a fork, a yield or a tick changes who may run, not who is asleep.
LEMMA SameSleepers ==
  ASSUME SynchInv, Inv', Asleep' = Asleep, SynchUnchanged,
         \/ holds' = holds
         \/ \E me \in Proc : holds' = [holds EXCEPT ![me] = {}]
  PROVE  SynchInv'
<1>1. /\ UNCHANGED <<locks, sems, conds, call, log>>
      /\ LocksOK /\ SemsOK /\ CondsOK /\ CallsOK
      /\ LockQueues /\ SemQueues /\ CondQueues /\ OwnersOK /\ CountsMatch
  BY DEF SynchUnchanged, SynchInv
<1>2. (LocksOK /\ SemsOK /\ CondsOK /\ CallsOK /\ CountsMatch)'
  BY <1>1 DEF LocksOK, SemsOK, SemTypes, CondsOK, CallsOK, CountsMatch, Balanced, LetThrough
<1>3. (LockQueues /\ SemQueues /\ CondQueues)'
  BY <1>1 DEF LockQueues, SemQueues, CondQueues, Sleepers
<1>4. /\ holds' \in [Proc -> SUBSET Lock]
      /\ \A p \in Proc : \A l \in holds'[p] : l \in holds[p]
  BY <1>1 DEF OwnersOK
<1>5. HoldersOwn' /\ HandedOver' /\ SleepersAreBlocked'
  BY <1>1, <1>4 DEF OwnersOK, HoldersOwn, HandedOver, SleepersAreBlocked
<1> QED BY <1>2, <1>3, <1>4, <1>5 DEF SynchInv, OwnersOK

LEMMA ProcessExitInv ==
  ASSUME SynchInv, ProcessExit
  PROVE  SynchInv'
<1>1. /\ TableInv(table) /\ Current \in Proc /\ Current \in With(table, "runnable")
      /\ table' = Schedule(Destroy(table, Current)) /\ jiffies' = 0
  BY TableFacts DEF ProcessExit, UserMode, Exit, ClkReset
<1>2. TableInv(Destroy(table, Current))
  BY <1>1, DestroyLemma
<1>3. TableInv(table') /\ Settled(table') /\ Asleep' = Asleep
  BY <1>1, <1>2, ScheduleLemma, ScheduleAsleep, DestroyAsleep DEF Asleep
<1>4. Inv'
  BY <1>1, <1>3, QuantumAssumption, InvFromTable
<1> QED BY <1>1, <1>3, <1>4, SameSleepers DEF ProcessExit

LEMMA OtherTrapInv ==
  ASSUME SynchInv, OtherTrap
  PROVE  SynchInv'
<1>1. Inv /\ TableInv(table)
  BY TableFacts DEF SynchInv
<1>2. Inv'
  BY <1>1, NextInv DEF OtherTrap, Next
<1>3. \/ table' = table
      \/ table' = Fork(table)
      \/ table' = ForkNoCode(table)
      \/ table' = Schedule(table)
  BY DEF OtherTrap, ProcessCreate, Yield, Tick
<1>4. Asleep' = Asleep
  BY <1>1, <1>3, ForkAsleep, ScheduleAsleep DEF Asleep
<1> QED BY <1>2, <1>4, SameSleepers DEF OtherTrap

\* LockAcquire, called by a process or by CondWait once it is awake again.
LEMMA AcquireInv ==
  ASSUME SynchInv, Running, NEW l \in Lock, locks[l].inuse,
         \A x : call[Current] # In("lock", x),
         Acquire(l), UNCHANGED <<sems, conds, log>>
  PROVE  SynchInv'
<1> DEFINE me == Current
<1>1. /\ LocksOK /\ SemsOK /\ CondsOK /\ CallsOK
      /\ LockQueues /\ SemQueues /\ CondQueues /\ OwnersOK /\ CountsMatch
      /\ TableInv(table) /\ Settled(table) /\ jiffies \in 0 .. Quantum
      /\ me \in Proc /\ me \in With(table, "runnable") /\ me \notin Asleep
      /\ \A x : call[me] # In("lock", x)
  BY TableFacts DEF SynchInv
<1>2. \/ /\ locks[l].pid \in {me, NoProc}
         /\ locks' = [locks EXCEPT ![l].pid = me]
         /\ holds' = [holds EXCEPT ![me] = @ \cup {l}]
         /\ call' = [call EXCEPT ![me] = NoCall]
         /\ UNCHANGED <<table, jiffies>>
      \/ /\ locks[l].pid \notin {me, NoProc}
         /\ locks' = [locks EXCEPT ![l].waiting = Append(@, me)]
         /\ table' = Schedule(Suspend(table, me)) /\ jiffies' = 0
         /\ call' = [call EXCEPT ![me] = In("lock", l)]
         /\ holds' = holds
  BY DEF Acquire, Told, BackToUser, ProcessesUnchanged, SleepIn, ClkReset
<1> HIDE DEF me
<1>3. /\ locks \in [Lock -> [inuse : BOOLEAN, pid : Proc \cup {NoProc},
                             waiting : Seq(Proc)]]
      /\ call \in [Proc -> Calls]
      /\ holds \in [Proc -> SUBSET Lock]
      /\ NoProc \notin Proc
  BY <1>1, NoProcAssumption DEF LocksOK, CallsOK, OwnersOK, Proc
<1>4. /\ \A p \in Proc : p # me => call'[p] = call[p]
      /\ call'[me] \in {NoCall, In("lock", l)}
      /\ call' \in [Proc -> Calls]
  <2>1. NoCall \in Calls /\ In("lock", l) \in Calls
    BY DEF Calls
  <2>2. call' = [call EXCEPT ![me] = NoCall] \/ call' = [call EXCEPT ![me] = In("lock", l)]
    BY <1>2
  <2> QED BY <1>1, <1>3, <2>1, <2>2
<1>5. /\ locks'[l].inuse
      /\ locks' \in [Lock -> [inuse : BOOLEAN, pid : Proc \cup {NoProc},
                              waiting : Seq(Proc)]]
      /\ \A x \in Lock : x # l => locks'[x] = locks[x]
  <2>1. /\ locks[l] \in [inuse : BOOLEAN, pid : Proc \cup {NoProc}, waiting : Seq(Proc)]
        /\ Append(locks[l].waiting, me) \in Seq(Proc)
    BY <1>1, <1>3
  <2>2. CASE locks' = [locks EXCEPT ![l].pid = me]
    BY <1>1, <1>3, <2>1, <2>2
  <2>3. CASE locks' = [locks EXCEPT ![l].waiting = Append(@, me)]
    <3> DEFINE q == Append(locks[l].waiting, me)
               r == [locks[l] EXCEPT !.waiting = q]
    <3>1. locks' = [locks EXCEPT ![l] = r]
      BY <1>3, <2>3
    <3>2. q \in Seq(Proc)
      BY <2>1
    <3> HIDE DEF q
    <3>3. r \in [inuse : BOOLEAN, pid : Proc \cup {NoProc}, waiting : Seq(Proc)]
          /\ r.inuse
      BY <2>1, <3>2
    <3> HIDE DEF r
    <3> QED BY <1>3, <3>1, <3>3
  <2> QED BY <1>2, <2>2, <2>3
<1>6. LocksOK' /\ CallsOK'
  <2>1. LocksOK' /\ \A x \in Lock : locks[x].inuse => locks'[x].inuse
    BY <1>1, <1>5, LocksKept
  <2>2. \A p \in Proc : \A c \in Cond : call'[p] = In("cond", c) => call[p] = In("cond", c)
    BY <1>1, <1>4, InDistinct
  <2>3. \A c \in Cond : conds[c].inuse => conds'[c].inuse /\ conds'[c].lock = conds[c].lock
    OBVIOUS
  <2> QED BY <1>1, <1>4, <2>1, <2>2, <2>3, CallsKept
<1>7. (SemsOK /\ CondsOK /\ CountsMatch)'
  BY <1>1 DEF SemsOK, SemTypes, CondsOK, CountsMatch, Balanced, LetThrough
<1>8. CASE /\ locks[l].pid \in {me, NoProc}
           /\ locks' = [locks EXCEPT ![l].pid = me]
           /\ holds' = [holds EXCEPT ![me] = @ \cup {l}]
           /\ call' = [call EXCEPT ![me] = NoCall]
           /\ UNCHANGED <<table, jiffies>>
  <2>1. Asleep' = Asleep
    BY <1>8 DEF Asleep
  <2>2. /\ locks'[l].pid = me /\ locks'[l].waiting = locks[l].waiting
        /\ \A x \in Lock : locks'[x].waiting = locks[x].waiting
    BY <1>3, <1>8
  <2>3. (LockQueues /\ SemQueues /\ CondQueues)'
    <3>1. \A w : Sleepers(w)' = Sleepers(w)
      BY <1>1, <1>3, <1>8, <2>1, SleepersAfterReturn
    <3>2. /\ \A s \in Sem : sems'[s].waiting = sems[s].waiting
          /\ \A c \in Cond : conds'[c].waiting = conds[c].waiting
      OBVIOUS
    <3> QED BY <1>1, <2>2, <3>1, <3>2, QueuesKept
  <2>4. holds' \in [Proc -> SUBSET Lock]
    BY <1>3, <1>8
  <2>5. HoldersOwn'
    <3>1. SUFFICES ASSUME NEW p \in Proc, NEW x \in holds'[p] PROVE locks'[x].pid = p
      BY DEF HoldersOwn
    <3>2. x \in Lock /\ (x \in holds[p] \/ (p = me /\ x = l))
      BY <1>3, <1>8, <2>4
    <3>3. x \in holds[p] => locks[x].pid = p
      BY <1>1 DEF OwnersOK, HoldersOwn
    <3>4. CASE x = l
      BY <1>3, <1>8, <2>2, <3>2, <3>3, <3>4
    <3>5. CASE x # l
      BY <1>5, <3>2, <3>3, <3>5
    <3> QED BY <3>4, <3>5
  <2>6. HandedOver'
    <3>1. SUFFICES ASSUME NEW p \in Proc, NEW x \in Lock, call'[p] = In("lock", x),
                          p \notin Asleep'
                   PROVE  locks'[x].pid = p
      BY DEF HandedOver
    <3>2. call'[me] = NoCall
      BY <1>1, <1>3, <1>8
    <3>3. p # me
      BY <3>1, <3>2, InDistinct
    <3>4. locks[x].pid = p
      BY <1>1, <1>4, <2>1, <3>1, <3>3 DEF OwnersOK, HandedOver
    <3>5. x # l
      BY <1>3, <1>8, <3>3, <3>4
    <3> QED BY <1>5, <3>4, <3>5
  <2>7. SleepersAreBlocked'
    <3>1. SUFFICES ASSUME NEW x \in Lock
                   PROVE  /\ locks'[x].pid = NoProc => locks'[x].waiting = <<>>
                          /\ locks'[x].pid \notin Elements(locks'[x].waiting)
      BY DEF SleepersAreBlocked
    <3>2. /\ locks[x].pid = NoProc => locks[x].waiting = <<>>
          /\ locks[x].pid \notin Elements(locks[x].waiting)
      BY <1>1 DEF OwnersOK, SleepersAreBlocked
    <3>3. CASE x = l
      <4>1. locks'[x].waiting = locks[x].waiting /\ locks'[x].pid = me
        BY <2>2, <3>3
      <4>2. CASE locks[x].pid = me
        BY <3>2, <4>1, <4>2
      <4>3. CASE locks[x].pid = NoProc
        BY <1>1, <1>3, <3>2, <4>1, <4>3 DEF Elements
      <4> QED BY <1>8, <3>3, <4>2, <4>3
    <3>4. CASE x # l
      BY <1>5, <3>2, <3>4
    <3> QED BY <3>3, <3>4
  <2>8. Inv'
    BY <1>1, <1>8, InvFromTable
  <2> QED BY <1>6, <1>7, <2>3, <2>4, <2>5, <2>6, <2>7, <2>8 DEF SynchInv, OwnersOK
<1>9. CASE /\ locks[l].pid \notin {me, NoProc}
           /\ locks' = [locks EXCEPT ![l].waiting = Append(@, me)]
           /\ table' = Schedule(Suspend(table, me)) /\ jiffies' = 0
           /\ call' = [call EXCEPT ![me] = In("lock", l)]
           /\ holds' = holds
  <2>1. TableInv(table') /\ Settled(table') /\ Asleep' = Asleep \cup {me}
    BY <1>1, <1>9, SleepTable DEF Asleep
  <2>2. Inv'
    BY <1>9, <2>1, QuantumAssumption, InvFromTable
  <2>3. /\ Sleepers(In("lock", l))' = Sleepers(In("lock", l)) \cup {me}
        /\ me \notin Sleepers(In("lock", l))
        /\ \A w : w # In("lock", l) => Sleepers(w)' = Sleepers(w)
    BY <1>1, <1>3, <1>9, <2>1, SleepersWhenAsleep
  <2>4. Holds(Append(locks[l].waiting, me), Sleepers(In("lock", l)) \cup {me})
    <3>1. locks[l].waiting \in Seq(Proc) /\ Holds(locks[l].waiting, Sleepers(In("lock", l)))
      BY <1>1, <1>3 DEF LockQueues
    <3> QED BY <1>1, <2>3, <3>1, AppendLemma
  <2>5. /\ locks'[l].waiting = Append(locks[l].waiting, me)
        /\ \A x \in Lock : locks'[x].pid = locks[x].pid
    BY <1>3, <1>9
  <2>6. SemQueues' /\ CondQueues'
    BY <1>1, <2>3, InDistinct DEF SemQueues, CondQueues
  <2>7. LockQueues'
    <3>1. ASSUME NEW x \in Lock PROVE Holds(locks'[x].waiting, Sleepers(In("lock", x))')
      <4>1. CASE x = l
        <5>1. Holds(locks'[l].waiting, Sleepers(In("lock", l))')
          BY <2>3, <2>4, <2>5
        <5> QED BY <4>1, <5>1
      <4>2. CASE x # l
        <5>1. In("lock", x) # In("lock", l)
          BY <4>2, InDistinct
        <5>2. locks'[x] = locks[x] /\ Sleepers(In("lock", x))' = Sleepers(In("lock", x))
          BY <1>5, <2>3, <4>2, <5>1
        <5> QED BY <1>1, <5>2 DEF LockQueues
      <4> QED BY <4>1, <4>2
    <3> QED BY <3>1 DEF LockQueues
  <2>8. HandedOver'
    <3>1. \A p \in Proc : p \notin Asleep' => p # me /\ p \notin Asleep
      BY <2>1
    <3> QED BY <1>1, <1>4, <2>5, <3>1 DEF OwnersOK, HandedOver
  <2>9. HoldersOwn'
    <3>1. \A p \in Proc : \A x \in holds[p] : x \in Lock /\ locks[x].pid = p
      BY <1>1, <1>3 DEF OwnersOK, HoldersOwn
    <3> QED BY <1>9, <2>5, <3>1 DEF HoldersOwn
  <2>10. SleepersAreBlocked'
    <3>1. SUFFICES ASSUME NEW x \in Lock
                   PROVE  /\ locks'[x].pid = NoProc => locks'[x].waiting = <<>>
                          /\ locks'[x].pid \notin Elements(locks'[x].waiting)
      BY DEF SleepersAreBlocked
    <3>2. /\ locks[x].pid = NoProc => locks[x].waiting = <<>>
          /\ locks[x].pid \notin Elements(locks[x].waiting)
      BY <1>1 DEF OwnersOK, SleepersAreBlocked
    <3>3. CASE x = l
      <4>1. /\ Elements(locks[l].waiting) = Sleepers(In("lock", l))
            /\ Elements(locks'[l].waiting) = Sleepers(In("lock", l)) \cup {me}
        BY <1>1, <2>4, <2>5 DEF LockQueues, Holds
      <4> QED BY <1>9, <2>5, <3>2, <3>3, <4>1
    <3>4. CASE x # l
      BY <1>5, <3>2, <3>4
    <3> QED BY <3>3, <3>4
  <2> QED BY <1>1, <1>6, <1>7, <1>9, <2>2, <2>6, <2>7, <2>8, <2>9, <2>10 DEF SynchInv, OwnersOK
<1> QED BY <1>2, <1>8, <1>9

LEMMA LockAcquireInv ==
  ASSUME SynchInv, NEW l \in Lock, LockAcquire(l)
  PROVE  SynchInv'
<1>1. \A x : call[Current] # In("lock", x)
  BY InDistinct DEF LockAcquire, UserMode
<1> QED BY <1>1, AcquireInv DEF LockAcquire, UserMode

LEMMA CondWaitAwakeInv ==
  ASSUME SynchInv, CondWaitAwake
  PROVE  SynchInv'
<1>1. Running /\ call[Current].op = "cond" /\ Current \in Proc /\ CallsOK /\ CondsOK
  BY TableFacts DEF CondWaitAwake, SynchInv
<1>2. PICK c \in Cond : call[Current] = In("cond", c)
  BY <1>1, InDistinct DEF CallsOK, Calls
<1>3. /\ call[Current].on = c
      /\ conds[c].lock \in Lock /\ locks[conds[c].lock].inuse
      /\ \A x : call[Current] # In("lock", x)
  BY <1>1, <1>2, InDistinct DEF CallsOK, CondsOK
<1> QED BY <1>1, <1>3, AcquireInv DEF CondWaitAwake

-----------------------------------------------------------------------------
(* LockRelease, called by a process or by CondWait.                        *)

\* The one that the lock is handed to, if any.
Handed(l) == IF locks[l].waiting = <<>> THEN {} ELSE {Head(locks[l].waiting)}

\* What LockRelease does to the lock and to the process table.
LEMMA ReleaseLemma ==
  ASSUME SynchInv, Running, NEW l \in Lock, locks[l].pid = Current,
         locks' = Released(l), NEW t, t = TableAfterRelease(l)
  PROVE  /\ TableInv(t) /\ Settled(t) /\ Current \in With(t, "runnable")
         /\ With(t, "waiting") = Asleep \ Handed(l)
         /\ Handed(l) \subseteq Sleepers(In("lock", l))
         /\ LocksOK' /\ \A x \in Lock : locks[x].inuse => locks'[x].inuse
         /\ \A x \in Lock : x # l => locks'[x] = locks[x]
         /\ Holds(locks'[l].waiting, Sleepers(In("lock", l)) \ Handed(l))
         /\ \A p \in Handed(l) : locks'[l].pid = p
         /\ Handed(l) = {} => locks'[l].pid = NoProc /\ locks'[l].waiting = <<>>
<1>1. /\ LocksOK /\ LockQueues
      /\ TableInv(table) /\ Settled(table)
      /\ Current \in Proc /\ Current \in With(table, "runnable") /\ Current \notin Asleep
  BY TableFacts DEF SynchInv
<1>2. /\ locks \in [Lock -> [inuse : BOOLEAN, pid : Proc \cup {NoProc},
                             waiting : Seq(Proc)]]
      /\ Current # NoProc
      /\ Holds(locks[l].waiting, Sleepers(In("lock", l)))
  BY <1>1, NoProcAssumption DEF LocksOK, LockQueues, Proc
<1>3. /\ locks[l].inuse /\ locks[l].waiting \in Seq(Proc)
      /\ locks[l] \in [inuse : BOOLEAN, pid : Proc \cup {NoProc}, waiting : Seq(Proc)]
  BY <1>1, <1>2 DEF LocksOK
<1>4. CASE locks[l].waiting = <<>>
  <2>1. Handed(l) = {} /\ t = table /\ locks' = [locks EXCEPT ![l].pid = NoProc]
    BY <1>4 DEF Handed, TableAfterRelease, Released
  <2>2. /\ locks' \in [Lock -> [inuse : BOOLEAN, pid : Proc \cup {NoProc},
                                waiting : Seq(Proc)]]
        /\ \A x \in Lock : x # l => locks'[x] = locks[x]
        /\ locks'[l].pid = NoProc /\ locks'[l].waiting = locks[l].waiting
        /\ locks'[l].inuse
    <3>1. locks'[l] = [locks[l] EXCEPT !.pid = NoProc]
          /\ \A x \in Lock : x # l => locks'[x] = locks[x]
      BY <1>2, <2>1
    <3>2. locks'[l].pid = NoProc /\ locks'[l].waiting = locks[l].waiting
          /\ locks'[l].inuse
      BY <1>3, <3>1
    <3>3. locks' \in [Lock -> [inuse : BOOLEAN, pid : Proc \cup {NoProc},
                               waiting : Seq(Proc)]]
      BY <1>2, <2>1
    <3> QED BY <3>1, <3>2, <3>3
  <2>3. LocksOK' /\ \A x \in Lock : locks[x].inuse => locks'[x].inuse
    BY <1>1, <2>2, LocksKept
  <2>4. Holds(locks'[l].waiting, Sleepers(In("lock", l)) \ Handed(l))
    <3>1. Sleepers(In("lock", l)) \ Handed(l) = Sleepers(In("lock", l))
      BY <2>1
    <3> QED BY <1>2, <2>2, <3>1
  <2>5. With(t, "waiting") = Asleep \ Handed(l)
    BY <2>1 DEF Asleep
  <2> QED BY <1>1, <1>4, <2>1, <2>2, <2>3, <2>4, <2>5
<1>5. CASE locks[l].waiting # <<>>
  <2> DEFINE h == Head(locks[l].waiting)
             q == Tail(locks[l].waiting)
             r == [locks[l] EXCEPT !.pid = h, !.waiting = q]
  <2>1. /\ Handed(l) = {h} /\ t = Wakeup(table, h)
        /\ locks' = [locks EXCEPT ![l].pid = h, ![l].waiting = q]
    BY <1>5 DEF Handed, TableAfterRelease, Released
  <2>2. /\ h \in Sleepers(In("lock", l)) /\ h \in Proc /\ q \in Seq(Proc)
        /\ Holds(q, Sleepers(In("lock", l)) \ {h})
    BY <1>2, <1>3, <1>5, TailLemma
  <2> HIDE DEF h, q
  <2>3. locks' = [locks EXCEPT ![l] = r]
    BY <1>2, <2>1
  <2>4. /\ r \in [inuse : BOOLEAN, pid : Proc \cup {NoProc}, waiting : Seq(Proc)]
        /\ r.inuse /\ r.pid = h /\ r.waiting = q
    BY <1>3, <2>2
  <2> HIDE DEF r
  <2>5. /\ locks' \in [Lock -> [inuse : BOOLEAN, pid : Proc \cup {NoProc},
                                waiting : Seq(Proc)]]
        /\ \A x \in Lock : x # l => locks'[x] = locks[x]
        /\ locks'[l] = r
    BY <1>2, <2>3, <2>4
  <2>6. LocksOK' /\ \A x \in Lock : locks[x].inuse => locks'[x].inuse
    BY <1>1, <2>4, <2>5, LocksKept
  <2>7. h \in With(table, "waiting")
    BY <2>2 DEF Sleepers, Asleep
  <2>8. /\ TableInv(t) /\ Settled(t)
        /\ With(t, "waiting") = With(table, "waiting") \ {h}
        /\ With(t, "runnable") = With(table, "runnable") \cup {h}
    BY <1>1, <2>1, <2>7, WakeTable
  <2> QED BY <1>1, <2>1, <2>2, <2>4, <2>5, <2>6, <2>8 DEF Asleep
<1> QED BY <1>4, <1>5

\* Whoever the lock is handed to was waiting for it, so nobody else thinks that
\* it owns the lock.
LEMMA ReleaseOwners ==
  ASSUME SynchInv, Running, NEW l \in Lock, locks[l].pid = Current,
         locks' = Released(l), Dropped(l),
         \A p \in Proc : \A x \in Lock :
           call'[p] = In("lock", x) /\ p \notin Asleep'
             => /\ p # Current /\ call[p] = In("lock", x)
                /\ p \notin Asleep \/ p \in Handed(l)
  PROVE  OwnersOK'
<1> DEFINE me == Current
           t  == TableAfterRelease(l)
<1>1. /\ Handed(l) \subseteq Sleepers(In("lock", l))
      /\ LocksOK'
      /\ \A x \in Lock : x # l => locks'[x] = locks[x]
      /\ Holds(locks'[l].waiting, Sleepers(In("lock", l)) \ Handed(l))
      /\ \A p \in Handed(l) : locks'[l].pid = p
      /\ Handed(l) = {} => locks'[l].pid = NoProc /\ locks'[l].waiting = <<>>
  BY ReleaseLemma
<1>2. /\ me \in Proc /\ OwnersOK /\ LockQueues
      /\ Asleep \subseteq Proc /\ NoProc \notin Proc
      /\ holds' = [holds EXCEPT ![me] = @ \ {l}]
  BY TableFacts, NoProcAssumption DEF SynchInv, Proc, Dropped
<1> HIDE DEF me
<1>3. /\ holds \in [Proc -> SUBSET Lock]
      /\ \A p \in Proc : \A x \in holds[p] : x \in Lock /\ locks[x].pid = p
  BY <1>2 DEF OwnersOK, HoldersOwn
<1>4. holds' \in [Proc -> SUBSET Lock]
  BY <1>2, <1>3
<1>5. HoldersOwn'
  <2>1. SUFFICES ASSUME NEW p \in Proc, NEW x \in holds'[p] PROVE locks'[x].pid = p
    BY DEF HoldersOwn
  <2>2. x \in holds[p] /\ ~(p = me /\ x = l)
    BY <1>2, <1>3, <2>1
  <2>3. x # l
    BY <1>3, <2>2 DEF me
  <2> QED BY <1>1, <1>3, <2>2, <2>3
<1>6. HandedOver'
  <2>1. SUFFICES ASSUME NEW p \in Proc, NEW x \in Lock, call'[p] = In("lock", x),
                        p \notin Asleep'
                 PROVE  locks'[x].pid = p
    BY DEF HandedOver
  <2>2. p # me /\ call[p] = In("lock", x) /\ (p \notin Asleep \/ p \in Handed(l))
    BY <2>1 DEF me
  <2>3. CASE p \in Handed(l)
    <3>1. call[p] = In("lock", l)
      BY <1>1, <2>3 DEF Sleepers
    <3>2. x = l
      BY <2>2, <3>1, InDistinct
    <3> QED BY <1>1, <2>3, <3>2
  <2>4. CASE p \notin Asleep
    <3>1. locks[x].pid = p
      BY <1>2, <2>2, <2>4 DEF OwnersOK, HandedOver
    <3>2. x # l
      BY <2>2, <3>1 DEF me
    <3> QED BY <1>1, <3>1, <3>2
  <2> QED BY <2>2, <2>3, <2>4
<1>7. SleepersAreBlocked'
  <2>1. SUFFICES ASSUME NEW x \in Lock
                 PROVE  /\ locks'[x].pid = NoProc => locks'[x].waiting = <<>>
                        /\ locks'[x].pid \notin Elements(locks'[x].waiting)
    BY DEF SleepersAreBlocked
  <2>2. CASE x # l
    <3>1. locks'[x] = locks[x]
      BY <1>1, <2>2
    <3> QED BY <1>2, <3>1 DEF OwnersOK, SleepersAreBlocked
  <2>3. CASE x = l
    <3>1. Elements(locks'[l].waiting) = Sleepers(In("lock", l)) \ Handed(l)
      BY <1>1 DEF Holds
    <3>2. CASE Handed(l) = {}
      <4>1. locks'[l].pid = NoProc /\ NoProc \notin Sleepers(In("lock", l))
        BY <1>1, <1>2, <3>2 DEF Sleepers
      <4> QED BY <1>1, <2>3, <3>1, <3>2, <4>1
    <3>3. CASE Handed(l) # {}
      <4>1. PICK h \in Handed(l) : locks'[l].pid = h
        BY <1>1, <3>3
      <4>2. h # NoProc
        BY <1>1, <1>2 DEF Sleepers
      <4> QED BY <2>3, <3>1, <4>1, <4>2
    <3> QED BY <3>2, <3>3
  <2> QED BY <2>2, <2>3
<1> QED BY <1>4, <1>5, <1>6, <1>7 DEF OwnersOK

\* The queues after a release: the lock's own loses the one it is handed to.
LEMMA ReleaseQueues ==
  ASSUME SynchInv, Running, NEW l \in Lock, locks[l].pid = Current,
         locks' = Released(l),
         \A x \in Lock : Sleepers(In("lock", x))' = Sleepers(In("lock", x)) \ Handed(l)
  PROVE  LockQueues'
<1> DEFINE t == TableAfterRelease(l)
<1>1. /\ Handed(l) \subseteq Sleepers(In("lock", l))
      /\ \A x \in Lock : x # l => locks'[x] = locks[x]
      /\ Holds(locks'[l].waiting, Sleepers(In("lock", l)) \ Handed(l))
  BY ReleaseLemma
<1>2. LockQueues
  BY DEF SynchInv
<1>3. ASSUME NEW x \in Lock PROVE Holds(locks'[x].waiting, Sleepers(In("lock", x))')
  <2>1. CASE x = l
    <3>1. Holds(locks'[l].waiting, Sleepers(In("lock", l))')
      BY <1>1
    <3> QED BY <2>1, <3>1
  <2>2. CASE x # l
    <3>1. In("lock", x) # In("lock", l)
      BY <2>2, InDistinct
    <3>2. Sleepers(In("lock", x)) \ Handed(l) = Sleepers(In("lock", x))
      BY <1>1, <3>1 DEF Sleepers
    <3>3. Sleepers(In("lock", x))' = Sleepers(In("lock", x)) /\ locks'[x] = locks[x]
      BY <1>1, <2>2, <3>2
    <3> QED BY <1>2, <3>3 DEF LockQueues
  <2> QED BY <2>1, <2>2
<1> QED BY <1>3 DEF LockQueues

\* Those the lock is handed to were waiting for nothing else.
LEMMA HandedWaitForLock ==
  ASSUME SynchInv, Running, NEW l \in Lock, locks[l].pid = Current,
         locks' = Released(l)
  PROVE  \A w : w # In("lock", l) => Sleepers(w) \ Handed(l) = Sleepers(w)
<1> DEFINE t == TableAfterRelease(l)
<1>1. Handed(l) \subseteq Sleepers(In("lock", l))
  BY ReleaseLemma
<1> QED BY <1>1 DEF Sleepers

LEMMA LockReleaseInv ==
  ASSUME SynchInv, NEW l \in Lock, LockRelease(l)
  PROVE  SynchInv'
<1>1. /\ Running /\ call[Current] = NoCall /\ locks[l].pid = Current
      /\ locks' = Released(l) /\ table' = TableAfterRelease(l) /\ Dropped(l)
      /\ UNCHANGED <<jiffies, sems, conds, call, log>>
      /\ SemsOK /\ CondsOK /\ CallsOK /\ SemQueues /\ CondQueues /\ CountsMatch
  BY DEF LockRelease, UserMode, SynchInv
<1>2. jiffies \in 0 .. Quantum /\ Asleep \subseteq Proc
  BY TableFacts
<1>3. /\ TableInv(table') /\ Settled(table')
      /\ With(table', "waiting") = Asleep \ Handed(l)
      /\ LocksOK' /\ \A x \in Lock : locks[x].inuse => locks'[x].inuse
  BY <1>1, ReleaseLemma
<1>4. Asleep' = Asleep \ Handed(l)
  BY <1>3 DEF Asleep
<1>5. Inv'
  BY <1>1, <1>2, <1>3, InvFromTable
<1>6. \A w : Sleepers(w)' = Sleepers(w) \ Handed(l)
  BY <1>1, <1>4, SleepersAfterWake
<1>7. LockQueues'
  BY <1>1, <1>6, ReleaseQueues
<1>8. \A w : w # In("lock", l) => Sleepers(w)' = Sleepers(w)
  BY <1>1, <1>6, HandedWaitForLock
<1>9. SemQueues' /\ CondQueues'
  BY <1>1, <1>8, InDistinct DEF SemQueues, CondQueues
<1>10. OwnersOK'
  <2>1. ASSUME NEW p \in Proc, NEW x \in Lock, call'[p] = In("lock", x), p \notin Asleep'
        PROVE  /\ p # Current /\ call[p] = In("lock", x)
               /\ p \notin Asleep \/ p \in Handed(l)
    BY <1>1, <1>4, <2>1, InDistinct
  <2> QED BY <1>1, <2>1, ReleaseOwners
<1>11. CallsOK'
  <2>1. /\ call' \in [Proc -> Calls]
        /\ \A p \in Proc : \A c \in Cond : call'[p] = In("cond", c) => call[p] = In("cond", c)
        /\ \A c \in Cond : conds[c].inuse => conds'[c].inuse /\ conds'[c].lock = conds[c].lock
    BY <1>1 DEF CallsOK
  <2> QED BY <1>1, <1>3, <2>1, CallsKept
<1>12. (SemsOK /\ CondsOK /\ CountsMatch)'
  BY <1>1 DEF SemsOK, SemTypes, CondsOK, CountsMatch, Balanced, LetThrough
<1> QED BY <1>3, <1>5, <1>7, <1>9, <1>10, <1>11, <1>12 DEF SynchInv

\* CondWait queues the process, releases the lock and sleeps.
LEMMA CondWaitInv ==
  ASSUME SynchInv, NEW c \in Cond, CondWait(c)
  PROVE  SynchInv'
<1> DEFINE me == Current
           l  == conds[c].lock
           t  == TableAfterRelease(l)
           where == In("cond", c)
           q  == Append(conds[c].waiting, me)
<1>1. /\ Running /\ call[me] = NoCall /\ conds[c].inuse /\ locks[l].pid = me
      /\ conds' = [conds EXCEPT ![c].waiting = q]
      /\ locks' = Released(l) /\ Dropped(l)
      /\ table' = Schedule(Suspend(t, me)) /\ jiffies' = 0
      /\ call' = [call EXCEPT ![me] = where]
      /\ UNCHANGED <<sems, log>>
      /\ SemsOK /\ CondsOK /\ CallsOK /\ SemQueues /\ CondQueues /\ CountsMatch
  BY DEF CondWait, UserMode, OwnsLockOf, SleepIn, ClkReset, SynchInv
<1>2. /\ me \in Proc /\ me \notin Asleep /\ Asleep \subseteq Proc
      /\ call \in [Proc -> Calls]
      /\ l \in Lock
  BY <1>1, TableFacts DEF CallsOK, CondsOK
<1>3. /\ TableInv(t) /\ Settled(t) /\ me \in With(t, "runnable")
      /\ With(t, "waiting") = Asleep \ Handed(l)
      /\ Handed(l) \subseteq Sleepers(In("lock", l))
      /\ LocksOK' /\ \A x \in Lock : locks[x].inuse => locks'[x].inuse
      /\ locks[l].inuse
  <2>1. locks[l].inuse
    BY <1>1, <1>2, NoProcAssumption DEF SynchInv, LocksOK, Proc
  <2> HIDE DEF l
  <2> QED BY <1>1, <1>2, <2>1, ReleaseLemma
<1>4. \A w : w # In("lock", l) => Sleepers(w) \ Handed(l) = Sleepers(w)
  <2> HIDE DEF l
  <2> QED BY <1>1, <1>2, HandedWaitForLock
<1>5. /\ \A x : where # In("lock", x) /\ where # In("sem", x)
      /\ \A x : x # c => where # In("cond", x)
      /\ \A x, y : In("lock", x) # In("cond", y) /\ In("lock", x) # In("sem", y)
      /\ \A x : NoCall # In("lock", x)
  BY InDistinct
<1> HIDE DEF l, t, me, where
<1>6. TableInv(table') /\ Settled(table') /\ Asleep' = (Asleep \ Handed(l)) \cup {me}
  BY <1>1, <1>3, SleepTable DEF Asleep
<1>7. Inv'
  BY <1>1, <1>6, QuantumAssumption, InvFromTable
<1>8. /\ Sleepers(where)' = (Sleepers(where) \ Handed(l)) \cup {me}
      /\ me \notin Sleepers(where)
      /\ \A w : w # where => Sleepers(w)' = Sleepers(w) \ Handed(l)
  <2>1. PICK m \in Proc : m = me
    BY <1>2
  <2>2. PICK out : out = Handed(l)
    OBVIOUS
  <2>3. Asleep' = (Asleep \ out) \cup {m} /\ call' = [call EXCEPT ![m] = In("cond", c)]
    BY <1>1, <1>6, <2>1, <2>2 DEF where
  <2>4. call \in [Proc -> Calls] /\ m \notin Asleep
    BY <1>2, <2>1
  <2>5. \A p : p \in Asleep => p \in Proc
    BY DEF Asleep, With
  <2>6. call'[m] = In("cond", c) /\ \A p \in Proc : p # m => call'[p] = call[p]
    BY <2>3, <2>4
  <2>7. PICK w : w = In("cond", c)
    OBVIOUS
  <2>8. Sleepers(w)' = (Sleepers(w) \ out) \cup {m} /\ m \notin Sleepers(w)
    BY <2>3, <2>4, <2>5, <2>6, <2>7 DEF Sleepers
  <2>9. \A v : v # w => Sleepers(v)' = Sleepers(v) \ out
    BY <2>3, <2>4, <2>5, <2>6, <2>7 DEF Sleepers
  <2> QED BY <2>1, <2>2, <2>7, <2>8, <2>9 DEF where
<1>9. Sleepers(where) \ Handed(l) = Sleepers(where)
  BY <1>4, <1>5
<1>10. LockQueues'
  <2>1. \A x \in Lock : Sleepers(In("lock", x))' = Sleepers(In("lock", x)) \ Handed(l)
    BY <1>5, <1>8
  <2>2. Current = me
    BY DEF me
  <2> QED BY <1>1, <1>2, <2>1, <2>2, ReleaseQueues
<1>11. SemQueues'
  <2>1. \A s \in Sem : Sleepers(In("sem", s))' = Sleepers(In("sem", s))
    BY <1>4, <1>5, <1>8
  <2> QED BY <1>1, <2>1 DEF SemQueues
<1>12. /\ q \in Seq(Proc) /\ Holds(q, Sleepers(where) \cup {me})
  <2>1. conds[c].waiting \in Seq(Proc) /\ Holds(conds[c].waiting, Sleepers(where))
    BY <1>1 DEF CondsOK, CondQueues, where
  <2> QED BY <1>2, <1>8, <2>1, AppendLemma
<1> HIDE DEF q
<1>13. /\ conds' \in [Cond -> [inuse : BOOLEAN, lock : Lock \cup {0}, waiting : Seq(Proc)]]
       /\ conds'[c].waiting = q /\ conds'[c].inuse /\ conds'[c].lock = l
       /\ \A x \in Cond : x # c => conds'[x] = conds[x]
  <2> DEFINE r == [conds[c] EXCEPT !.waiting = q]
  <2>1. conds \in [Cond -> [inuse : BOOLEAN, lock : Lock \cup {0}, waiting : Seq(Proc)]]
    BY <1>1 DEF CondsOK
  <2>2. conds' = [conds EXCEPT ![c] = r]
    BY <1>1, <2>1
  <2>3. /\ r \in [inuse : BOOLEAN, lock : Lock \cup {0}, waiting : Seq(Proc)]
        /\ r.waiting = q /\ r.inuse /\ r.lock = l
    <3>1. conds[c] \in [inuse : BOOLEAN, lock : Lock \cup {0}, waiting : Seq(Proc)]
      BY <2>1
    <3> QED BY <1>1, <1>12, <3>1 DEF l
  <2> HIDE DEF r
  <2> QED BY <2>1, <2>2, <2>3
<1>14. CondsOK' /\ \A x \in Cond : conds[x].inuse => conds'[x].inuse /\ conds'[x].lock = conds[x].lock
  BY <1>1, <1>2, <1>13, CondsKept DEF l
<1>15. CondQueues'
  <2>1. ASSUME NEW x \in Cond PROVE Holds(conds'[x].waiting, Sleepers(In("cond", x))')
    <3>1. CASE x = c
      <4>1. Holds(conds'[c].waiting, Sleepers(In("cond", c))')
        BY <1>8, <1>9, <1>12, <1>13 DEF where
      <4> QED BY <3>1, <4>1
    <3>2. CASE x # c
      <4>1. Sleepers(In("cond", x))' = Sleepers(In("cond", x)) /\ conds'[x] = conds[x]
        BY <1>4, <1>5, <1>8, <1>13, <3>2
      <4> QED BY <1>1, <4>1 DEF CondQueues
    <3> QED BY <3>1, <3>2
  <2> QED BY <2>1 DEF CondQueues
<1>16. OwnersOK'
  <2>1. ASSUME NEW p \in Proc, NEW x \in Lock, call'[p] = In("lock", x), p \notin Asleep'
        PROVE  /\ p # me /\ call[p] = In("lock", x)
               /\ p \notin Asleep \/ p \in Handed(l)
    BY <1>1, <1>2, <1>6, <2>1
  <2>2. Current = me
    BY DEF me
  <2> QED BY <1>1, <1>2, <2>1, <2>2, ReleaseOwners
<1>17. CallsOK'
  <2>1. call' \in [Proc -> Calls]
    <3>1. where \in Calls
      BY DEF where, Calls
    <3> QED BY <1>1, <1>2, <3>1
  <2>2. \A p \in Proc : \A x \in Cond : call'[p] = In("cond", x) =>
          call[p] = In("cond", x) \/ (conds[x].inuse /\ locks[conds[x].lock].inuse)
    <3>1. SUFFICES ASSUME NEW p \in Proc, NEW x \in Cond, call'[p] = In("cond", x), p = me
                   PROVE  conds[x].inuse /\ locks[conds[x].lock].inuse
      BY <1>1, <1>2
    <3>2. x = c
      BY <1>1, <1>2, <1>5, <3>1
    <3> QED BY <1>1, <1>3, <3>2 DEF l
  <2> QED BY <1>1, <1>3, <1>14, <2>1, <2>2, CallsKept
<1>18. (SemsOK /\ CountsMatch)'
  BY <1>1 DEF SemsOK, SemTypes, CountsMatch, Balanced, LetThrough
<1> QED BY <1>3, <1>7, <1>10, <1>11, <1>14, <1>15, <1>16, <1>17, <1>18 DEF SynchInv

LEMMA CondSignalInv ==
  ASSUME SynchInv, NEW c \in Cond, CondSignal(c)
  PROVE  SynchInv'
<1> DEFINE h == Head(conds[c].waiting)
           q == Tail(conds[c].waiting)
           r == [conds[c] EXCEPT !.waiting = q]
<1>1. /\ conds[c].inuse /\ conds[c].waiting # <<>>
      /\ conds' = [conds EXCEPT ![c].waiting = Tail(@)] /\ table' = Wakeup(table, h)
      /\ UNCHANGED <<jiffies, locks, sems, call, holds, log>>
      /\ LocksOK /\ SemsOK /\ CondsOK /\ CallsOK
      /\ LockQueues /\ SemQueues /\ CondQueues /\ OwnersOK /\ CountsMatch
  BY DEF CondSignal, OwnsLockOf, SynchInv
<1>2. TableInv(table) /\ Settled(table) /\ jiffies \in 0 .. Quantum
  BY TableFacts
<1>3. conds \in [Cond -> [inuse : BOOLEAN, lock : Lock \cup {0}, waiting : Seq(Proc)]]
  BY <1>1 DEF CondsOK
<1>4. /\ h \in Sleepers(In("cond", c)) /\ h \in Proc /\ q \in Seq(Proc)
      /\ Holds(q, Sleepers(In("cond", c)) \ {h})
  <2>1. conds[c].waiting \in Seq(Proc) /\ Holds(conds[c].waiting, Sleepers(In("cond", c)))
    BY <1>1, <1>3 DEF CondQueues
  <2> QED BY <1>1, <2>1, TailLemma
<1>5. conds' = [conds EXCEPT ![c] = r]
  BY <1>1, <1>3
<1> HIDE DEF h, q
<1>6. /\ r \in [inuse : BOOLEAN, lock : Lock \cup {0}, waiting : Seq(Proc)]
      /\ r.waiting = q /\ r.inuse /\ r.lock = conds[c].lock
  <2>1. conds[c] \in [inuse : BOOLEAN, lock : Lock \cup {0}, waiting : Seq(Proc)]
    BY <1>3
  <2> QED BY <1>1, <1>4, <2>1
<1> HIDE DEF r
<1>7. /\ conds' \in [Cond -> [inuse : BOOLEAN, lock : Lock \cup {0}, waiting : Seq(Proc)]]
      /\ conds'[c] = r /\ \A x \in Cond : x # c => conds'[x] = conds[x]
  BY <1>3, <1>5, <1>6
<1>8. CondsOK' /\ \A x \in Cond : conds[x].inuse => conds'[x].inuse /\ conds'[x].lock = conds[x].lock
  <2>1. conds[c].lock \in Lock
    BY <1>1 DEF CondsOK
  <2>2. conds'[c].inuse /\ conds'[c].lock = conds[c].lock
    BY <1>6, <1>7
  <2> QED BY <1>1, <1>7, <2>1, <2>2, CondsKept
<1>9. h \in With(table, "waiting") /\ call[h] = In("cond", c)
  BY <1>4 DEF Sleepers, Asleep
<1>10. TableInv(table') /\ Settled(table') /\ Asleep' = Asleep \ {h}
  BY <1>1, <1>2, <1>9, WakeTable DEF Asleep
<1>11. Inv'
  BY <1>1, <1>2, <1>10, InvFromTable
<1>12. \A w : Sleepers(w)' = Sleepers(w) \ {h}
  BY <1>1, <1>10, SleepersAfterWake
<1>13. \A w : w # In("cond", c) => Sleepers(w)' = Sleepers(w)
  BY <1>9, <1>12 DEF Sleepers
<1>14. LockQueues' /\ SemQueues'
  BY <1>1, <1>13, InDistinct DEF LockQueues, SemQueues
<1>15. CondQueues'
  <2>1. ASSUME NEW x \in Cond PROVE Holds(conds'[x].waiting, Sleepers(In("cond", x))')
    <3>1. CASE x = c
      <4>1. Holds(conds'[c].waiting, Sleepers(In("cond", c))')
        BY <1>4, <1>6, <1>7, <1>12
      <4> QED BY <3>1, <4>1
    <3>2. CASE x # c
      <4>1. In("cond", x) # In("cond", c)
        BY <3>2, InDistinct
      <4>2. conds'[x] = conds[x] /\ Sleepers(In("cond", x))' = Sleepers(In("cond", x))
        BY <1>7, <1>13, <3>2, <4>1
      <4> QED BY <1>1, <4>2 DEF CondQueues
    <3> QED BY <3>1, <3>2
  <2> QED BY <2>1 DEF CondQueues
<1>16. OwnersOK'
  <2>1. HandedOver'
    <3>1. \A l \in Lock : In("lock", l) # In("cond", c)
      BY InDistinct
    <3> QED BY <1>1, <1>9, <1>10, <3>1 DEF OwnersOK, HandedOver
  <2> QED BY <1>1, <2>1 DEF OwnersOK, HoldersOwn, SleepersAreBlocked
<1>17. CallsOK'
  <2>1. /\ call' \in [Proc -> Calls]
        /\ \A p \in Proc : \A x \in Cond : call'[p] = In("cond", x) => call[p] = In("cond", x)
        /\ \A l \in Lock : locks[l].inuse => locks'[l].inuse
    BY <1>1 DEF CallsOK
  <2> QED BY <1>1, <1>8, <2>1, CallsKept
<1>18. (LocksOK /\ SemsOK /\ CountsMatch)'
  BY <1>1 DEF LocksOK, SemsOK, SemTypes, CountsMatch, Balanced, LetThrough
<1> QED BY <1>8, <1>11, <1>14, <1>15, <1>16, <1>17, <1>18 DEF SynchInv

-----------------------------------------------------------------------------
(* The specification.                                                      *)

LEMMA SynchInitInv == SynchInit => SynchInv
<1> SUFFICES ASSUME SynchInit PROVE SynchInv
  OBVIOUS
<1>1. /\ Init
      /\ locks = [l \in Lock |-> [inuse |-> FALSE, pid |-> NoProc, waiting |-> <<>>]]
      /\ sems = [s \in Sem |-> [inuse |-> FALSE, count |-> 0, waiting |-> <<>>]]
      /\ conds = [c \in Cond |-> [inuse |-> FALSE, lock |-> 0, waiting |-> <<>>]]
      /\ call = [p \in Proc |-> NoCall]
      /\ holds = [p \in Proc |-> {}]
      /\ log = [s \in Sem |-> [init |-> 0, signals |-> 0, waits |-> 0]]
  BY DEF SynchInit
<1>2. Inv
  BY <1>1, InitInv
<1>3. Asleep = {}
  <2>1. With(ModuleInit, "waiting") = {}
    BY DEF ModuleInit, With
  <2> QED BY <1>1, <2>1, ModuleInitLemma, ForkAsleep DEF Init, Asleep
<1>4. <<>> \in Seq(Proc) /\ Holds(<<>>, {}) /\ 0 \in 0 .. MaxCalls /\ Len(<<>>) = 0
  BY ShortQueues, CountAssumption
<1>5. \A w : Sleepers(w) = {}
  BY <1>3 DEF Sleepers
<1>6. LocksOK
  BY <1>1, <1>4 DEF LocksOK
<1>7. SemsOK
  BY <1>1, <1>4 DEF SemsOK, SemTypes
<1>8. CondsOK
  BY <1>1, <1>4 DEF CondsOK
<1>9. CallsOK
  <2>1. call \in [Proc -> Calls]
    BY <1>1 DEF Calls
  <2> QED BY <1>1, <2>1, InDistinct DEF CallsOK
<1>10. LockQueues /\ SemQueues /\ CondQueues
  BY <1>1, <1>4, <1>5 DEF LockQueues, SemQueues, CondQueues
<1>11. OwnersOK
  <2>1. holds \in [Proc -> SUBSET Lock] /\ HoldersOwn
    BY <1>1 DEF HoldersOwn
  <2>2. HandedOver
    BY <1>1, InDistinct DEF HandedOver
  <2>3. SleepersAreBlocked
    BY <1>1, <1>4 DEF SleepersAreBlocked, Holds
  <2> QED BY <2>1, <2>2, <2>3 DEF OwnersOK
<1>12. CountsMatch
  <2>1. SUFFICES ASSUME NEW s \in Sem PROVE Balanced(s)
    BY DEF CountsMatch
  <2>2. /\ sems[s].count = 0 /\ sems[s].waiting = <<>>
        /\ log[s].init = 0 /\ log[s].signals = 0 /\ log[s].waits = 0
    BY <1>1
  <2>3. LetThrough(s) = 0
    <3>1. Len(sems[s].waiting) = 0 /\ log[s].waits = 0
      BY <1>4, <2>2
    <3> QED BY <3>1 DEF LetThrough
  <2> QED BY <2>2, <2>3 DEF Balanced
<1> QED BY <1>2, <1>6, <1>7, <1>8, <1>9, <1>10, <1>11, <1>12 DEF SynchInv

LEMMA SynchNextInv == SynchInv /\ [SynchNext]_synchVars => SynchInv'
<1> SUFFICES ASSUME SynchInv, [SynchNext]_synchVars PROVE SynchInv'
  OBVIOUS
<1>1. CASE SynchNext
  BY <1>1, SemCreateInv, SemWaitInv, SemSignalInv, LockCreateInv, LockAcquireInv,
     LockReleaseInv, CondCreateInv, CondWaitInv, CondSignalInv, ReturnAwakeInv,
     CondWaitAwakeInv, ProcessExitInv, OtherTrapInv DEF SynchNext
<1>2. CASE UNCHANGED synchVars
  <2>1. /\ UNCHANGED <<table, jiffies, holds>> /\ SynchUnchanged
    BY <1>2 DEF synchVars, SynchUnchanged
  <2>2. Inv' /\ Asleep' = Asleep
    BY <2>1 DEF SynchInv, Inv, TypeOK, QueuesMatchStatus, CurrentIsFront, Asleep
  <2> QED BY <2>1, <2>2, SameSleepers
<1> QED BY <1>1, <1>2

LEMMA SynchInvHolds == SynchSpec => []SynchInv
BY SynchInitInv, SynchNextInv, PTL DEF SynchSpec

\* The process table, the three tables of objects and what the handlers do keep
\* their types.
THEOREM SynchTypeCorrect == SynchSpec => []SynchTypeOK
<1>1. SynchInv => SynchTypeOK
  <2>1. SUFFICES ASSUME SynchInv PROVE SynchTypeOK
    OBVIOUS
  <2>2. Lock \subseteq Nat /\ Sem \subseteq Nat /\ Cond \subseteq Nat
    BY SlotAssumption DEF Lock, Sem, Cond
  <2>3. Calls \subseteq [op : {"none", "sem", "lock", "cond"}, on : Nat]
    BY <2>2 DEF Calls, NoCall, In
  <2>4. call \in [Proc -> Calls]
    BY <2>1 DEF SynchInv, CallsOK
  <2>5. call \in [Proc -> [op : {"none", "sem", "lock", "cond"}, on : Nat]]
    BY <2>3, <2>4
  <2>6. /\ locks \in [Lock -> [inuse : BOOLEAN, pid : Proc \cup {NoProc},
                               waiting : Seq(Proc)]]
        /\ sems \in [Sem -> [inuse : BOOLEAN, count : Int, waiting : Seq(Proc)]]
        /\ conds \in [Cond -> [inuse : BOOLEAN, lock : Lock \cup {0}, waiting : Seq(Proc)]]
        /\ log \in [Sem -> [init : Int, signals : 0 .. MaxCalls, waits : 0 .. MaxCalls]]
        /\ holds \in [Proc -> SUBSET Lock]
    BY <2>1 DEF SynchInv, LocksOK, SemsOK, SemTypes, CondsOK, OwnersOK
  <2>7. TypeOK
    BY <2>1 DEF SynchInv, Inv
  <2> QED BY <2>5, <2>6, <2>7 DEF SynchTypeOK
<1> QED BY <1>1, SynchInvHolds, PTL

\* No wake-up of a semaphore, lock or condition is lost or given twice: a process
\* is asleep exactly when it stands in the queue of the call it made, once.
THEOREM SleepersAlwaysQueued == SynchSpec => []SleepersAreQueued
<1>1. SynchInv => SleepersAreQueued
  <2>1. SUFFICES ASSUME SynchInv, NEW where \in DOMAIN SleepQueue
                 PROVE  Holds(SleepQueue[where], Sleepers(where))
    BY DEF SleepersAreQueued, Holds, Sleepers, Asleep, With
  <2>2. LockQueues /\ SemQueues /\ CondQueues
    BY <2>1 DEF SynchInv
  <2>3. \/ \E l \in Lock : where = In("lock", l)
        \/ \E s \in Sem : where = In("sem", s)
        \/ \E c \in Cond : where = In("cond", c)
    BY <2>1 DEF SleepQueue
  <2>4. ASSUME NEW l \in Lock, where = In("lock", l)
        PROVE  SleepQueue[where] = locks[l].waiting
    BY <2>1, <2>4, InDistinct DEF SleepQueue
  <2>5. ASSUME NEW s \in Sem, where = In("sem", s)
        PROVE  SleepQueue[where] = sems[s].waiting
    BY <2>1, <2>5, InDistinct DEF SleepQueue
  <2>6. ASSUME NEW c \in Cond, where = In("cond", c)
        PROVE  SleepQueue[where] = conds[c].waiting
    BY <2>1, <2>6, InDistinct DEF SleepQueue
  <2> QED BY <2>2, <2>3, <2>4, <2>5, <2>6 DEF LockQueues, SemQueues, CondQueues
<1> QED BY <1>1, SynchInvHolds, PTL

\* Whoever was told that it holds a lock owns it until it releases it.
THEOREM HoldersAlwaysOwn == SynchSpec => []HoldersOwn
<1>1. SynchInv => HoldersOwn
  BY DEF SynchInv, OwnersOK
<1> QED BY <1>1, SynchInvHolds, PTL

\* Nobody sleeps for a lock that is free, or that it owns itself.
THEOREM SleepersAlwaysBlocked == SynchSpec => []SleepersAreBlocked
<1>1. SynchInv => SleepersAreBlocked
  BY DEF SynchInv, OwnersOK
<1> QED BY <1>1, SynchInvHolds, PTL

\* The arithmetic of a semaphore: count is what is left of its units.
LEMMA UnitsLemma ==
  ASSUME NEW through \in Int, NEW count \in Int, NEW init \in Int,
         NEW signals \in Nat, NEW waits \in Nat, NEW waiting \in Nat,
         through = waits - waiting, through >= 0,
         count = init + signals - through,
         count > 0 => waiting = 0,
         through > 0 => count >= 0
  PROVE  through = IF init + signals <= 0 THEN 0
                   ELSE IF init + signals < waits THEN init + signals ELSE waits
OBVIOUS

\* A semaphore lets through exactly what its initial count, also a negative one,
\* and its signals allow.
THEOREM SemAlwaysCountsUnits == SynchSpec => []SemCountsUnits
<1>1. SynchInv => SemCountsUnits
  <2>1. SUFFICES ASSUME SynchInv, NEW s \in Sem
                 PROVE  LET units == log[s].init + log[s].signals IN
                        LetThrough(s) = IF units <= 0 THEN 0
                                        ELSE IF units < log[s].waits THEN units
                                        ELSE log[s].waits
    BY DEF SemCountsUnits
  <2>2. /\ sems \in [Sem -> [inuse : BOOLEAN, count : Int, waiting : Seq(Proc)]]
        /\ log \in [Sem -> [init : Int, signals : 0 .. MaxCalls, waits : 0 .. MaxCalls]]
    BY <2>1 DEF SynchInv, SemsOK, SemTypes
  <2>3. /\ LetThrough(s) >= 0
        /\ sems[s].count = log[s].init + log[s].signals - LetThrough(s)
        /\ sems[s].count > 0 => sems[s].waiting = <<>>
        /\ LetThrough(s) > 0 => sems[s].count >= 0
    BY <2>1 DEF SynchInv, CountsMatch, Balanced
  <2>4. /\ sems[s].count \in Int /\ log[s].init \in Int /\ log[s].signals \in Nat
        /\ log[s].waits \in Nat /\ Len(sems[s].waiting) \in Nat
        /\ sems[s].waiting = <<>> => Len(sems[s].waiting) = 0
    BY <2>2, CountAssumption
  <2>5. /\ LetThrough(s) = log[s].waits - Len(sems[s].waiting)
        /\ LetThrough(s) \in Int
    BY <2>4 DEF LetThrough
  <2>6. sems[s].count > 0 => Len(sems[s].waiting) = 0
    BY <2>3, <2>4
  <2> DEFINE through == LetThrough(s)
             count   == sems[s].count
             init    == log[s].init
             signals == log[s].signals
             waits   == log[s].waits
             waiting == Len(sems[s].waiting)
  <2>7. /\ through \in Int /\ count \in Int /\ init \in Int
        /\ signals \in Nat /\ waits \in Nat /\ waiting \in Nat
        /\ through = waits - waiting /\ through >= 0
        /\ count = init + signals - through
        /\ count > 0 => waiting = 0
        /\ through > 0 => count >= 0
    BY <2>3, <2>4, <2>5, <2>6
  <2> HIDE DEF through, count, init, signals, waits, waiting
  <2>8. through = IF init + signals <= 0 THEN 0
                  ELSE IF init + signals < waits THEN init + signals ELSE waits
    BY <2>7, UnitsLemma
  <2> QED BY <2>8 DEF through, init, signals, waits
<1> QED BY <1>1, SynchInvHolds, PTL

-----------------------------------------------------------------------------
(* Every lock is a mutex.                                                  *)

MutexOwner   == [l \in Lock |-> locks[l].pid]
MutexWaiters == [l \in Lock |-> Elements(locks[l].waiting)]

\* A step that moves no owner and no place in a queue is a stutter.
LEMMA MutexStutters ==
  ASSUME \A l \in Lock : locks'[l].pid = locks[l].pid
                         /\ locks'[l].waiting = locks[l].waiting
  PROVE  UNCHANGED Locks!vars
<1>1. MutexOwner' = MutexOwner
  BY DEF MutexOwner
<1>2. MutexWaiters' = MutexWaiters
  BY DEF MutexWaiters
<1> QED BY <1>1, <1>2 DEF MutexOwner, MutexWaiters, Locks!vars

\* The disjuncts of the mutex's next-state relation.
LEMMA MutexSteps ==
  ASSUME NEW l \in Lock
  PROVE  /\ \A p \in Proc : Locks!Take(l, p) => Locks!Next
         /\ \A p \in Proc : Locks!Wait(l, p) => Locks!Next
         /\ \A p \in Proc : Locks!HandOver(l, p) => Locks!Next
         /\ Locks!GiveUp(l) => Locks!Next
BY DEF Locks!Next

\* LockAcquire takes a free lock, or waits for one that another process owns.
LEMMA AcquireIsMutexStep ==
  ASSUME SynchInv, Running, NEW l \in Lock, Acquire(l)
  PROVE  Locks!Next \/ UNCHANGED Locks!vars
<1> DEFINE me == Current
<1>1. /\ me \in Proc /\ me \notin Asleep /\ LocksOK /\ LockQueues
  BY TableFacts DEF SynchInv
<1>2. locks \in [Lock -> [inuse : BOOLEAN, pid : Proc \cup {NoProc},
                          waiting : Seq(Proc)]]
  BY <1>1 DEF LocksOK
<1>3. \/ locks[l].pid = me /\ locks' = [locks EXCEPT ![l].pid = me]
      \/ locks[l].pid = NoProc /\ locks' = [locks EXCEPT ![l].pid = me]
      \/ /\ locks[l].pid \notin {me, NoProc}
         /\ locks' = [locks EXCEPT ![l].waiting = Append(@, me)]
  BY DEF Acquire
<1> HIDE DEF me
<1>4. CASE locks[l].pid = me /\ locks' = [locks EXCEPT ![l].pid = me]
  <2>1. ASSUME NEW x \in Lock
        PROVE  locks'[x].pid = locks[x].pid /\ locks'[x].waiting = locks[x].waiting
    <3>1. CASE x = l
      BY <1>2, <1>4, <3>1
    <3> QED BY <1>2, <1>4, <3>1
  <2> QED BY <2>1, MutexStutters
<1>5. CASE locks[l].pid = NoProc /\ locks' = [locks EXCEPT ![l].pid = me]
  <2>1. MutexOwner[l] = NoProc
    BY <1>5 DEF MutexOwner
  <2>2. MutexOwner' = [MutexOwner EXCEPT ![l] = me]
    BY <1>2, <1>5 DEF MutexOwner
  <2>3. MutexWaiters' = MutexWaiters
    BY <1>2, <1>5 DEF MutexWaiters
  <2>4. PICK p \in Proc : p = me
    BY <1>1
  <2>5. Locks!Take(l, p)
    BY <2>1, <2>2, <2>3, <2>4 DEF Locks!Take, MutexOwner, MutexWaiters
  <2> QED BY <2>5, MutexSteps
<1>6. CASE /\ locks[l].pid \notin {me, NoProc}
           /\ locks' = [locks EXCEPT ![l].waiting = Append(@, me)]
  <2> DEFINE q == locks[l].waiting
  <2>1. /\ q \in Seq(Proc) /\ Holds(q, Sleepers(In("lock", l)))
        /\ me \notin Sleepers(In("lock", l))
    BY <1>1, <1>2 DEF LockQueues, Sleepers
  <2>2. Elements(Append(q, me)) = Elements(q) \cup {me} /\ me \notin Elements(q)
    BY <1>1, <2>1, AppendLemma DEF Holds
  <2>3. MutexOwner[l] \notin {NoProc, me} /\ me \notin MutexWaiters[l]
    BY <1>6, <2>2 DEF MutexOwner, MutexWaiters
  <2>4. MutexOwner' = MutexOwner
    BY <1>2, <1>6 DEF MutexOwner
  <2>5. /\ locks'[l].waiting = Append(q, me)
        /\ \A x \in Lock : x # l => locks'[x].waiting = locks[x].waiting
    BY <1>2, <1>6
  <2> HIDE DEF q
  <2>6. MutexWaiters' = [MutexWaiters EXCEPT ![l] = @ \cup {me}]
    <3>1. MutexWaiters[l] = Elements(q)
      BY DEF MutexWaiters, q
    <3>2. /\ Elements(locks'[l].waiting) = MutexWaiters[l] \cup {me}
          /\ \A x \in Lock : x # l => Elements(locks'[x].waiting) = MutexWaiters[x]
      BY <2>2, <2>5, <3>1 DEF MutexWaiters
    <3>3. MutexWaiters' = [x \in Lock |-> Elements(locks'[x].waiting)]
      BY DEF MutexWaiters
    <3>4. DOMAIN MutexWaiters = Lock
      BY DEF MutexWaiters
    <3> HIDE DEF MutexWaiters
    <3> QED BY <3>2, <3>3, <3>4
  <2>7. PICK p \in Proc : p = me
    BY <1>1
  <2>8. Locks!Wait(l, p)
    BY <2>3, <2>4, <2>6, <2>7 DEF Locks!Wait, MutexOwner, MutexWaiters
  <2> QED BY <2>8, MutexSteps
<1> QED BY <1>3, <1>4, <1>5, <1>6

\* LockRelease gives up the lock, or hands it to one that waits for it.
LEMMA ReleaseIsMutexStep ==
  ASSUME SynchInv, Running, NEW l \in Lock, locks[l].pid = Current,
         locks' = Released(l)
  PROVE  Locks!Next
<1> DEFINE t == TableAfterRelease(l)
<1>1. /\ Handed(l) \subseteq Sleepers(In("lock", l))
      /\ \A x \in Lock : x # l => locks'[x] = locks[x]
      /\ Elements(locks'[l].waiting) = Sleepers(In("lock", l)) \ Handed(l)
      /\ \A p \in Handed(l) : locks'[l].pid = p
      /\ Handed(l) = {} => locks'[l].pid = NoProc
  BY ReleaseLemma DEF Holds
<1>2. /\ Elements(locks[l].waiting) = Sleepers(In("lock", l))
      /\ Current # NoProc /\ Asleep \subseteq Proc
  BY TableFacts, NoProcAssumption DEF SynchInv, LockQueues, Holds, Proc
<1>3. MutexOwner[l] # NoProc /\ MutexWaiters[l] = Sleepers(In("lock", l))
  BY <1>2 DEF MutexOwner, MutexWaiters
<1>4. MutexOwner' = [MutexOwner EXCEPT ![l] = locks'[l].pid]
  BY <1>1 DEF MutexOwner
<1>5. MutexWaiters' = [MutexWaiters EXCEPT ![l] = @ \ Handed(l)]
  <2>1. /\ Elements(locks'[l].waiting) = MutexWaiters[l] \ Handed(l)
        /\ \A x \in Lock : x # l => Elements(locks'[x].waiting) = MutexWaiters[x]
    BY <1>1, <1>3 DEF MutexWaiters
  <2>2. MutexWaiters' = [x \in Lock |-> Elements(locks'[x].waiting)]
    BY DEF MutexWaiters
  <2>3. DOMAIN MutexWaiters = Lock
    BY DEF MutexWaiters
  <2> HIDE DEF MutexWaiters
  <2> QED BY <2>1, <2>2, <2>3
<1>6. CASE locks[l].waiting = <<>>
  <2>1. Handed(l) = {} /\ Sleepers(In("lock", l)) = {}
    BY <1>2, <1>6, ShortQueues DEF Handed, Holds
  <2>2. MutexWaiters[l] = {} /\ MutexWaiters' = MutexWaiters
    BY <1>3, <1>5, <2>1 DEF MutexWaiters
  <2>3. MutexOwner' = [MutexOwner EXCEPT ![l] = NoProc]
    BY <1>1, <1>4, <2>1
  <2>4. Locks!GiveUp(l)
    BY <1>3, <2>2, <2>3 DEF Locks!GiveUp, MutexOwner, MutexWaiters
  <2> QED BY <2>4, MutexSteps
<1>7. CASE locks[l].waiting # <<>>
  <2> DEFINE h == Head(locks[l].waiting)
  <2>1. Handed(l) = {h}
    BY <1>7 DEF Handed
  <2> HIDE DEF h
  <2>2. h \in MutexWaiters[l] /\ h \in Proc /\ locks'[l].pid = h
    BY <1>1, <1>2, <1>3, <2>1 DEF Sleepers
  <2>3. MutexOwner' = [MutexOwner EXCEPT ![l] = h]
    BY <1>4, <2>2
  <2>4. MutexWaiters' = [MutexWaiters EXCEPT ![l] = @ \ {h}]
    BY <1>5, <2>1
  <2>5. PICK p \in Proc : p = h
    BY <2>2
  <2>6. Locks!HandOver(l, p)
    BY <1>3, <2>2, <2>3, <2>4, <2>5 DEF Locks!HandOver, MutexOwner, MutexWaiters
  <2> QED BY <2>6, MutexSteps
<1> QED BY <1>6, <1>7

\* The lock table with its hand-over and its queues implements module Mutex:
\* initial states map to initial states, every step to a step or a stutter.
THEOREM LocksImplementMutexes == SynchSpec => LocksAreMutexes
<1>1. SynchInit => Locks!Init
  <2>1. SUFFICES ASSUME SynchInit PROVE Locks!Init
    OBVIOUS
  <2>2. \A l \in Lock : locks[l].pid = NoProc /\ locks[l].waiting = <<>>
    BY <2>1 DEF SynchInit
  <2>3. Elements(<<>>) = {}
    BY ShortQueues DEF Holds
  <2> QED BY <2>2, <2>3 DEF Locks!Init
<1>2. SynchInv /\ [SynchNext]_synchVars => [Locks!Next]_(Locks!vars)
  <2>1. SUFFICES ASSUME SynchInv, [SynchNext]_synchVars
                 PROVE  Locks!Next \/ UNCHANGED Locks!vars
    OBVIOUS
  <2>2. ASSUME locks' = locks PROVE UNCHANGED Locks!vars
    BY <2>2, MutexStutters
  <2>3. ASSUME LockCreate PROVE UNCHANGED Locks!vars
    <3>1. PICK l \in FirstFree(locks) :
            locks' = [locks EXCEPT ![l] = [inuse |-> TRUE, pid |-> NoProc,
                                           waiting |-> <<>>]]
      BY <2>3 DEF LockCreate
    <3>2. /\ l \in Lock /\ locks[l].pid = NoProc /\ locks[l].waiting = <<>>
          /\ locks \in [Lock -> [inuse : BOOLEAN, pid : Proc \cup {NoProc},
                                 waiting : Seq(Proc)]]
      BY <2>1 DEF SynchInv, LocksOK, FirstFree
    <3>3. ASSUME NEW x \in Lock
          PROVE  locks'[x].pid = locks[x].pid /\ locks'[x].waiting = locks[x].waiting
      <4>1. CASE x = l
        BY <3>1, <3>2, <4>1
      <4> QED BY <3>1, <3>2, <4>1
    <3> QED BY <3>3, MutexStutters
  <2>4. ASSUME NEW l \in Lock, LockAcquire(l) PROVE Locks!Next \/ UNCHANGED Locks!vars
    BY <2>1, <2>4, AcquireIsMutexStep DEF LockAcquire, UserMode
  <2>5. ASSUME NEW l \in Lock, LockRelease(l) PROVE Locks!Next
    BY <2>1, <2>5, ReleaseIsMutexStep DEF LockRelease, UserMode
  <2>6. ASSUME NEW c \in Cond, CondWait(c) PROVE Locks!Next
    <3>1. conds[c].lock \in Lock
      BY <2>1, <2>6 DEF CondWait, OwnsLockOf, SynchInv, CondsOK
    <3> QED BY <2>1, <2>6, <3>1, ReleaseIsMutexStep DEF CondWait, OwnsLockOf, UserMode
  <2>7. ASSUME CondWaitAwake PROVE Locks!Next \/ UNCHANGED Locks!vars
    <3>1. Running /\ call[Current].op = "cond" /\ Current \in Proc /\ CallsOK /\ CondsOK
      BY <2>1, <2>7, TableFacts DEF CondWaitAwake, SynchInv
    <3>2. PICK c \in Cond : call[Current] = In("cond", c)
      BY <3>1, InDistinct DEF CallsOK, Calls
    <3>3. call[Current].on = c /\ conds[c].lock \in Lock
      BY <3>1, <3>2, InDistinct DEF CallsOK, CondsOK
    <3> QED BY <2>1, <2>7, <3>1, <3>3, AcquireIsMutexStep DEF CondWaitAwake
  <2>8. \/ locks' = locks
        \/ LockCreate \/ CondWaitAwake
        \/ \E l \in Lock : LockAcquire(l) \/ LockRelease(l)
        \/ \E c \in Cond : CondWait(c)
    BY <2>1 DEF SynchNext, synchVars, SemCreate, SemWait, SemSignal, CondCreate,
                CondSignal, ReturnAwake, ProcessExit, OtherTrap, SynchUnchanged
  <2> QED BY <2>2, <2>3, <2>4, <2>5, <2>6, <2>7, <2>8
<1> QED BY <1>1, <1>2, SynchInvHolds, PTL DEF SynchSpec, LocksAreMutexes, Locks!Spec
=============================================================================

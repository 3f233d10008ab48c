-------------------------------- MODULE Synch --------------------------------
(***************************************************************************)
(* Semaphores, locks and condition variables over the process table: the   *)
(* traps 678-726 of flat/os/traps.c and the routines of the compiled       *)
(* synchronization module flat/lib/synch.o (header flat/include/os/synch.h). *)
(*                                                                         *)
(* Interrupts are off in a trap, so a handler is one step up to the point  *)
(* where its process goes to sleep; the rest of it runs when the process   *)
(* is scheduled again.  call[p] says what the sleeping or just woken       *)
(* handler of p is doing.                                                  *)
(***************************************************************************)
EXTENDS Process, FiniteSets

CONSTANTS NumLocks,      \* MAX_LOCKS (64)
          NumSems,       \* MAX_SEMS (32)
          NumConds,      \* MAX_CONDS (32)
          InitialCounts, \* the counts that programs give to sem_create
          MaxCalls,      \* bound on the waits and on the signals of a semaphore
          ExitHolding    \* TRUE when a process may exit with a lock in hand

ASSUME SlotAssumption == NumLocks \in Nat /\ NumSems \in Nat /\ NumConds \in Nat
ASSUME CountAssumption == InitialCounts \subseteq Int /\ MaxCalls \in Nat
ASSUME ExitAssumption == ExitHolding \in BOOLEAN

VARIABLES locks, \* locks[l]: slot in use, owner, queue of the waiting
          sems,  \* sems[s]: slot in use, count, queue of the waiting
          conds, \* conds[c]: slot in use, its lock, queue of the waiting
          call,  \* call[p]: the handler in which p sleeps or slept
          holds, \* history: the locks that p was told it holds
          log    \* history: initial count, signals and waits of a semaphore

synchVars == <<table, jiffies, locks, sems, conds, call, holds, log>>

Lock == 0 .. NumLocks - 1
Sem  == 0 .. NumSems - 1
Cond == 0 .. NumConds - 1

NoCall == [op |-> "none", on |-> 0]
In(op, object) == [op |-> op, on |-> object]

SynchInit ==
  /\ Init
  /\ locks = [l \in Lock |-> [inuse |-> FALSE, pid |-> NoProc, waiting |-> <<>>]]
  /\ sems = [s \in Sem |-> [inuse |-> FALSE, count |-> 0, waiting |-> <<>>]]
  /\ conds = [c \in Cond |-> [inuse |-> FALSE, lock |-> 0, waiting |-> <<>>]]
  /\ call = [p \in Proc |-> NoCall]
  /\ holds = [p \in Proc |-> {}]
  /\ log = [s \in Sem |-> [init |-> 0, signals |-> 0, waits |-> 0]]

UserMode == Running /\ call[Current] = NoCall

\* The first slot that is not in use; none when the table is full.
FirstFree(slots) ==
  {i \in DOMAIN slots : ~slots[i].inuse /\ \A j \in DOMAIN slots :
                                             j < i => slots[j].inuse}

\* The handler of the current process sleeps in a call, in process table t.
SleepIn(t, where) ==
  /\ table' = Schedule(Suspend(t, Current))
  /\ ClkReset
  /\ call' = [call EXCEPT ![Current] = where]

ProcessesUnchanged == UNCHANGED <<table, jiffies>>

-----------------------------------------------------------------------------
(* Semaphores.                                                             *)

SemCreate(count) ==
  /\ UserMode
  /\ \E s \in FirstFree(sems) :
       /\ sems' = [sems EXCEPT ![s] = [inuse |-> TRUE, count |-> count,
                                       waiting |-> <<>>]]
       /\ log' = [log EXCEPT ![s].init = count]
  /\ ProcessesUnchanged
  /\ UNCHANGED <<locks, conds, call, holds>>

\* A wait that has to sleep does not count down, and does not look again when
\* it is woken: the signal has passed its unit on.
SemWait(s) ==
  /\ UserMode
  /\ sems[s].inuse
  /\ log[s].waits < MaxCalls
  /\ log' = [log EXCEPT ![s].waits = @ + 1]
  /\ \/ /\ sems[s].count <= 0
        /\ sems' = [sems EXCEPT ![s].waiting = Append(@, Current)]
        /\ SleepIn(table, In("sem", s))
     \/ /\ sems[s].count > 0
        /\ sems' = [sems EXCEPT ![s].count = @ - 1]
        /\ ProcessesUnchanged
        /\ UNCHANGED call
  /\ UNCHANGED <<locks, conds, holds>>

SemWakesKeepCount(s) == \* mutant: the woken process's unit is not taken
  LET count == sems[s].count + 1 IN
  IF count > 0 /\ sems[s].waiting # <<>>
  THEN /\ sems' = [sems EXCEPT ![s].count = count, ![s].waiting = Tail(@)]
       /\ table' = Wakeup(table, Head(sems[s].waiting))
  ELSE /\ sems' = [sems EXCEPT ![s].count = count]
       /\ UNCHANGED table

SemPost(s) ==
  LET count == sems[s].count + 1 IN
  IF count > 0 /\ sems[s].waiting # <<>>
  THEN /\ sems' = [sems EXCEPT ![s].count = count - 1, ![s].waiting = Tail(@)]
       /\ table' = Wakeup(table, Head(sems[s].waiting))
  ELSE /\ sems' = [sems EXCEPT ![s].count = count]
       /\ UNCHANGED table

SemSignal(s) ==
  /\ UserMode
  /\ sems[s].inuse
  /\ log[s].signals < MaxCalls
  /\ log' = [log EXCEPT ![s].signals = @ + 1]
  /\ SemPost(s)
  /\ UNCHANGED <<jiffies, locks, conds, call, holds>>

-----------------------------------------------------------------------------
(* Locks.                                                                  *)

LockCreate ==
  /\ UserMode
  /\ \E l \in FirstFree(locks) :
       locks' = [locks EXCEPT ![l] = [inuse |-> TRUE, pid |-> NoProc,
                                      waiting |-> <<>>]]
  /\ ProcessesUnchanged
  /\ UNCHANGED <<sems, conds, call, holds, log>>

Told(l) == holds' = [holds EXCEPT ![Current] = @ \cup {l}]
BackToUser == call' = [call EXCEPT ![Current] = NoCall]

AcquireNotOwned(l) == \* mutant: the test whether the caller is the owner is dropped
  \/ /\ locks[l].pid = NoProc
     /\ locks' = [locks EXCEPT ![l].pid = Current]
     /\ Told(l)
     /\ BackToUser
     /\ ProcessesUnchanged
  \/ /\ locks[l].pid # NoProc
     /\ locks' = [locks EXCEPT ![l].waiting = Append(@, Current)]
     /\ SleepIn(table, In("lock", l))
     /\ UNCHANGED holds

\* LockAcquire by the current process.  An owner is told yes at once; a waiter
\* does not look at the lock again when it is woken.
Acquire(l) ==
  \/ /\ locks[l].pid \in {Current, NoProc}
     /\ locks' = [locks EXCEPT ![l].pid = Current]
     /\ Told(l)
     /\ BackToUser
     /\ ProcessesUnchanged
  \/ /\ locks[l].pid \notin {Current, NoProc}
     /\ locks' = [locks EXCEPT ![l].waiting = Append(@, Current)]
     /\ SleepIn(table, In("lock", l))
     /\ UNCHANGED holds

LockAcquire(l) ==
  /\ UserMode
  /\ locks[l].inuse
  /\ Acquire(l)
  /\ UNCHANGED <<sems, conds, log>>

\* Mutant: the lock is left free for the woken process to take.
ReleasedNotHanded(l) ==
  [locks EXCEPT ![l].pid = NoProc,
                ![l].waiting = IF @ = <<>> THEN @ ELSE Tail(@)]

\* LockRelease hands the lock to the first of its queue and wakes it.
Released(l) ==
  IF locks[l].waiting = <<>>
  THEN [locks EXCEPT ![l].pid = NoProc]
  ELSE [locks EXCEPT ![l].pid = Head(locks[l].waiting), ![l].waiting = Tail(@)]

TableAfterRelease(l) ==
  IF locks[l].waiting = <<>> THEN table
  ELSE Wakeup(table, Head(locks[l].waiting))

Dropped(l) == holds' = [holds EXCEPT ![Current] = @ \ {l}]

LockRelease(l) ==
  /\ UserMode
  /\ locks[l].pid = Current
  /\ locks' = Released(l)
  /\ table' = TableAfterRelease(l)
  /\ Dropped(l)
  /\ UNCHANGED <<jiffies, sems, conds, call, log>>

-----------------------------------------------------------------------------
(* Condition variables: CondCreate takes any lock handle.                  *)

CondCreate(l) ==
  /\ UserMode
  /\ \E c \in FirstFree(conds) :
       conds' = [conds EXCEPT ![c] = [inuse |-> TRUE, lock |-> l,
                                      waiting |-> <<>>]]
  /\ ProcessesUnchanged
  /\ UNCHANGED <<locks, sems, call, holds, log>>

OwnsLockOf(c) == conds[c].inuse /\ locks[conds[c].lock].pid = Current

\* Mutant: the process goes to sleep without a place in the queue.
CondWaitUnqueued(c) ==
  /\ UserMode
  /\ OwnsLockOf(c)
  /\ LET l == conds[c].lock IN
       /\ locks' = Released(l)
       /\ SleepIn(TableAfterRelease(l), In("cond", c))
       /\ Dropped(l)
  /\ UNCHANGED <<sems, conds, log>>

\* The process is queued and the lock released before it sleeps, in one step.
CondWait(c) ==
  /\ UserMode
  /\ OwnsLockOf(c)
  /\ LET l == conds[c].lock IN
       /\ conds' = [conds EXCEPT ![c].waiting = Append(@, Current)]
       /\ locks' = Released(l)
       /\ SleepIn(TableAfterRelease(l), In("cond", c))
       /\ Dropped(l)
  /\ UNCHANGED <<sems, log>>

\* Also CondHandleBroadcast, which calls CondSignal and not CondBroadcast.
CondSignal(c) ==
  /\ UserMode
  /\ OwnsLockOf(c)
  /\ conds[c].waiting # <<>>
  /\ conds' = [conds EXCEPT ![c].waiting = Tail(@)]
  /\ table' = Wakeup(table, Head(conds[c].waiting))
  /\ UNCHANGED <<jiffies, locks, sems, call, holds, log>>

-----------------------------------------------------------------------------
(* The rest of a handler, once its process is scheduled again.             *)

\* SemWait and LockAcquire only return; the lock has been handed over.
ReturnAwake ==
  /\ Running
  /\ call[Current].op \in {"sem", "lock"}
  /\ IF call[Current].op = "lock" THEN Told(call[Current].on)
     ELSE UNCHANGED holds
  /\ BackToUser
  /\ ProcessesUnchanged
  /\ UNCHANGED <<locks, sems, conds, log>>

ReturnWithoutLock == \* mutant: CondWait does not take the lock again
  /\ Running
  /\ call[Current].op = "cond"
  /\ Told(conds[call[Current].on].lock)
  /\ BackToUser
  /\ ProcessesUnchanged
  /\ UNCHANGED <<locks, sems, conds, log>>

\* CondWait takes the lock of the condition again, and may sleep for it.
CondWaitAwake ==
  /\ Running
  /\ call[Current].op = "cond"
  /\ Acquire(conds[call[Current].on].lock)
  /\ UNCHANGED <<sems, conds, log>>

SynchUnchanged == UNCHANGED <<locks, sems, conds, call, log>>

\* A process that exits gives no lock back.
ProcessExit ==
  /\ UserMode
  /\ ExitHolding \/ \A l \in Lock : locks[l].pid # Current
  /\ Exit
  /\ holds' = [holds EXCEPT ![Current] = {}]
  /\ SynchUnchanged

OtherTrap ==
  /\ UserMode
  /\ ProcessCreate \/ Yield \/ Tick
  /\ SynchUnchanged
  /\ UNCHANGED holds

SynchNext ==
  \/ \E count \in InitialCounts : SemCreate(count)
  \/ \E s \in Sem : SemWait(s) \/ SemSignal(s)
  \/ LockCreate
  \/ \E l \in Lock : LockAcquire(l) \/ LockRelease(l) \/ CondCreate(l)
  \/ \E c \in Cond : CondWait(c) \/ CondSignal(c)
  \/ ReturnAwake
  \/ CondWaitAwake
  \/ ProcessExit
  \/ OtherTrap

SynchSpec == SynchInit /\ [][SynchNext]_synchVars

-----------------------------------------------------------------------------
(* Properties.                                                             *)

SynchTypeOK ==
  /\ TypeOK
  /\ locks \in [Lock -> [inuse : BOOLEAN, pid : Proc \cup {NoProc},
                         waiting : Seq(Proc)]]
  /\ sems \in [Sem -> [inuse : BOOLEAN, count : Int, waiting : Seq(Proc)]]
  /\ conds \in [Cond -> [inuse : BOOLEAN, lock : Lock \cup {0},
                         waiting : Seq(Proc)]]
  /\ call \in [Proc -> [op : {"none", "sem", "lock", "cond"}, on : Nat]]
  /\ holds \in [Proc -> SUBSET Lock]
  /\ log \in [Sem -> [init : Int, signals : 0 .. MaxCalls, waits : 0 .. MaxCalls]]

\* The queues of the synchronization objects, by the call that sleeps in them.
SleepQueue ==
  [where \in {In("lock", l) : l \in Lock} \cup {In("sem", s) : s \in Sem}
             \cup {In("cond", c) : c \in Cond} |->
     CASE where.op = "lock" -> locks[where.on].waiting
       [] where.op = "sem" -> sems[where.on].waiting
       [] where.op = "cond" -> conds[where.on].waiting]

\* No wake-up is lost and none is given twice: a process is asleep exactly
\* when it stands in the queue of the call it made, and it stands in no other
\* queue.  So the ASSERTs of ProcessSuspend and ProcessWakeup hold.
SleepersAreQueued ==
  \A where \in DOMAIN SleepQueue :
    /\ NoRepeat(SleepQueue[where])
    /\ \A p \in Proc : p \in Elements(SleepQueue[where])
                       <=> table.status[p] = "waiting" /\ call[p] = where

\* Whoever was told that it holds a lock owns it: from the return of
\* LockAcquire or of CondWait to the release no other process is told so.
HoldersOwn == \A p \in Proc : \A l \in holds[p] : locks[l].pid = p

\* Nobody sleeps for a lock that is free, or that it owns itself.
SleepersAreBlocked ==
  \A l \in Lock : /\ locks[l].pid = NoProc => locks[l].waiting = <<>>
                  /\ locks[l].pid \notin Elements(locks[l].waiting)

\* The number of waits of a semaphore that have been let through is the most
\* that the initial count and the signals allow, also for a negative initial
\* count (makeprocs.c 41-47): no waiter sleeps while a unit is left and none
\* passes without one.
LetThrough(s) == log[s].waits - Len(sems[s].waiting)
SemCountsUnits ==
  \A s \in Sem :
    LET units == log[s].init + log[s].signals IN
    sems[s].inuse => LetThrough(s) = IF units <= 0 THEN 0
                                     ELSE IF units < log[s].waits THEN units
                                     ELSE log[s].waits

Locks == INSTANCE Mutex WITH Mutexes <- Lock, Client <- Proc, Nobody <- NoProc,
                             owner <- [l \in Lock |-> locks[l].pid],
                             waiters <- [l \in Lock |-> Elements(locks[l].waiting)]

\* Every lock of the table, with its hand-over and its queue, is a mutex.
LocksAreMutexes == Locks!Spec
=============================================================================

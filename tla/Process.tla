------------------------------- MODULE Process -------------------------------
(***************************************************************************)
(* Processes and their scheduling: the process control blocks, the four    *)
(* queues they move between and the quantum timer (flat/os/process.c,      *)
(* flat/os/clock.c and the process traps of flat/os/traps.c).              *)
(*                                                                         *)
(* The code runs with interrupts disabled, so a trap or a timer interrupt  *)
(* is one step.  A handler calls several of the routines below one after   *)
(* another; each routine is therefore a function from a state of the       *)
(* process table to the next, and an action composes them as the handler   *)
(* does.  The module Synch composes them for locks and semaphores.         *)
(***************************************************************************)
EXTENDS Integers, Sequences

CONSTANTS NumProcs, \* PROCESS_MAX_PROCS (32)
          NoProc,   \* the PCB pointer NULL
          Quantum   \* CLOCK_PROCESS_JIFFIES (10)

ASSUME NumProcsAssumption == NumProcs \in Nat \ {0}
ASSUME NoProcAssumption == NoProc \notin 0 .. NumProcs - 1
ASSUME QuantumAssumption == Quantum \in Nat

VARIABLES table,  \* the process table: a record of the queues and statuses
          jiffies \* curtime - last_trigger_jiffies

\* A process is named by its PID, the index of its PCB.
Proc   == 0 .. NumProcs - 1
Status == {"free", "runnable", "waiting", "zombie"}

Elements(queue) == {queue[i] : i \in DOMAIN queue}

\* AQueueRemove of the link of p: the links behind it move up.
Unlink(queue, p) ==
  LET at == CHOOSE i \in DOMAIN queue : queue[i] = p
  IN  [i \in 1 .. Len(queue) - 1 |-> IF i < at THEN queue[i] ELSE queue[i + 1]]

\* AQueueMoveAfter of the first link behind the last one.
MoveFrontToEnd(queue) == Append(Tail(queue), Head(queue))

-----------------------------------------------------------------------------
(* The routines of process.c.                                              *)

\* Every PCB is put in front of the ones before it, so the last comes first.
ModuleInit ==
  [status  |-> [p \in Proc |-> "free"],
   free    |-> [i \in 1 .. NumProcs |-> NumProcs - i],
   run     |-> <<>>,
   waiting |-> {},          \* waitQueue: its order is never looked at
   zombies |-> <<>>,
   current |-> NoProc,
   halted  |-> FALSE]       \* GracefulExit has stopped the simulator

Halt(t) == [t EXCEPT !.halted = TRUE]

\* A new process goes to the end of the run queue; none left is fatal.
Fork(t) ==
  IF t.free = <<>> THEN Halt(t)
  ELSE LET p == Head(t.free) IN
       [t EXCEPT !.free = Tail(@),
                 !.status[p] = "runnable",
                 !.run = Append(@, p),
                 !.current = IF @ = NoProc THEN p ELSE @]

\* The executable cannot be loaded: the PCB goes to the end of freepcbs.
ForkNoCode(t) ==
  IF t.free = <<>> THEN Halt(t)
  ELSE [t EXCEPT !.free = MoveFrontToEnd(@)]

Suspend(t, p) ==
  [t EXCEPT !.status[p] = "waiting",
            !.run = Unlink(@, p),
            !.waiting = @ \cup {p}]

WakeupInFront(t, p) == \* mutant: the woken process is put in front
  [t EXCEPT !.status[p] = "runnable",
            !.waiting = @ \ {p},
            !.run = <<p>> \o @]

Wakeup(t, p) ==
  [t EXCEPT !.status[p] = "runnable",
            !.waiting = @ \ {p},
            !.run = Append(@, p)]

DestroyWithoutRemove(t, p) == \* mutant: the link stays in the run queue
  [t EXCEPT !.status[p] = "zombie", !.zombies = <<p>> \o @]

Destroy(t, p) ==
  [t EXCEPT !.status[p] = "zombie",
            !.run = Unlink(@, p),
            !.zombies = <<p>> \o @]

\* ProcessFreeResources of every zombie, from the first of the queue.
FreeZombies(t) ==
  [t EXCEPT !.status = [p \in Proc |-> IF p \in Elements(t.zombies)
                                       THEN "free" ELSE t.status[p]],
            !.free = @ \o t.zombies,
            !.zombies = <<>>]

ScheduleKeepsFront(t) == \* mutant: the front is not moved to the end
  IF t.run = <<>> THEN Halt(t)
  ELSE FreeZombies([t EXCEPT !.current = Head(t.run)])

\* Without a runnable process the system exits, whether others sleep or not.
Schedule(t) ==
  IF t.run = <<>> THEN Halt(t)
  ELSE LET turned == MoveFrontToEnd(t.run)
       IN  FreeZombies([t EXCEPT !.run = turned, !.current = Head(turned)])

-----------------------------------------------------------------------------
(* Traps and interrupts, taken while the current process is in user mode.  *)

vars == <<table, jiffies>>

Init ==
  /\ table = Fork(ModuleInit) \* main forks the program it was given
  /\ jiffies = 0

Running == ~table.halted
Current == table.current

\* ClkResetProcess, called by the traps that give the processor away.
ClkReset == jiffies' = 0

ProcessCreate ==
  /\ Running
  /\ \/ table' = Fork(table)
     \/ table' = ForkNoCode(table)
  /\ UNCHANGED jiffies

Exit ==
  /\ Running
  /\ table' = Schedule(Destroy(table, Current))
  /\ ClkReset

Yield ==
  /\ Running
  /\ table' = Schedule(table)
  /\ ClkReset

\* ProcessSleep: a handler that has to wait suspends its own process.
Sleep ==
  /\ Running
  /\ table' = Schedule(Suspend(table, Current))
  /\ ClkReset

\* A handler of the current process wakes up p.
WakeOne(p) ==
  /\ Running
  /\ table' = Wakeup(table, p)
  /\ UNCHANGED jiffies

TickKeepsTrigger == \* mutant: last_trigger_jiffies is not set
  /\ Running
  /\ jiffies' = jiffies + 1
  /\ IF jiffies' > Quantum THEN table' = Schedule(table) ELSE UNCHANGED table

\* A timer interrupt: after more than Quantum of them, the next process runs.
Tick ==
  /\ Running
  /\ IF jiffies + 1 > Quantum
     THEN jiffies' = 0 /\ table' = Schedule(table)
     ELSE jiffies' = jiffies + 1 /\ UNCHANGED table

Next ==
  \/ ProcessCreate
  \/ Exit
  \/ Yield
  \/ Sleep
  \/ \E p \in table.waiting : WakeOne(p)
  \/ Tick

\* The timer keeps running (ClkStart, and ClkInterrupt sets it again).
Fairness == WF_vars(Tick)

Spec == Init /\ [][Next]_vars /\ Fairness

-----------------------------------------------------------------------------
(* Properties.                                                             *)

Tables ==
  [status : [Proc -> Status], free : Seq(Proc), run : Seq(Proc),
   waiting : SUBSET Proc, zombies : Seq(Proc),
   current : Proc \cup {NoProc}, halted : BOOLEAN]

TypeOK == table \in Tables /\ jiffies \in 0 .. Quantum

With(t, status) == {p \in Proc : t.status[p] = status}

NoRepeat(queue) == \A i, j \in DOMAIN queue : queue[i] = queue[j] => i = j

\* The queue holds exactly the processes of the set, each of them once.
Holds(queue, procs) == Elements(queue) = procs /\ NoRepeat(queue)

QueuesMatch(t) ==
  /\ Holds(t.run, With(t, "runnable"))
  /\ Holds(t.free, With(t, "free"))
  /\ Holds(t.zombies, With(t, "zombie"))
  /\ t.waiting = With(t, "waiting")

\* Between two traps every PCB is on exactly one queue, once, and on the one
\* that its status names: no PCB is lost and none is given out twice.
QueuesMatchStatus == QueuesMatch(table)

Settled(t) ==
  ~t.halted => /\ t.run # <<>>
               /\ t.current = Head(t.run)
               /\ t.zombies = <<>>

\* While a process runs it is the front of the run queue, and no PCB is left
\* waiting to be freed: Sleep and Exit take the right link away.
CurrentIsFront == Settled(table)

\* Processes that only compute share the processor: once nothing but timer
\* interrupts and yields happens, every runnable process runs again and again.
ComputingShares ==
  <>[][Tick \/ Yield]_vars
    => \A p \in Proc : []<>(~Running \/ p \notin Elements(table.run) \/ Current = p)
=============================================================================

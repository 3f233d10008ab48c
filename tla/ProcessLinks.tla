----------------------------- MODULE ProcessLinks -----------------------------
(***************************************************************************)
(* The process table of module Process as flat/os/process.c keeps it: PCBs *)
(* with one link each, in queues of links.  A process that sleeps in a     *)
(* semaphore, lock or condition has a second link, in the queue of that    *)
(* object; the routines of flat/lib/synch.o insert and remove it.          *)
(*                                                                         *)
(* A kernel is a record of the heap of links, the PCBs and currentPCB; the *)
(* routines are functions from a kernel to the next, composed by the       *)
(* actions as the handlers compose them.                                   *)
(***************************************************************************)
EXTENDS LinkQueues

CONSTANTS NumProcs, \* PROCESS_MAX_PROCS (32)
          NoProc,   \* the PCB pointer NULL, also the NULL object of a link
          Quantum,  \* CLOCK_PROCESS_JIFFIES (10)
          Waits     \* the waiting queues of the synchronization objects

Proc == 0 .. NumProcs - 1
ProcessQueues == {"freepcbs", "runQueue", "waitQueue", "zombieQueue"}

ASSUME SizeAssumption == NumProcs \in Nat \ {0} /\ Quantum \in Nat
ASSUME ObjectAssumption == NoProc \notin Proc /\ NoObject = NoProc
ASSUME QueuesAssumption ==
  Queues = ProcessQueues \cup Waits /\ Waits \cap ProcessQueues = {}

\* QUEUE_MAX_LINKS (400): a link for every PCB, and one for every sleeper.
ASSUME LinksAssumption == Len(LinkPool) >= 2 * NumProcs

VARIABLES kernel, \* the heap, the PCBs, currentPCB and whether it all stopped
          jiffies \* curtime - last_trigger_jiffies

vars == <<kernel, jiffies>>

Halt(k) == [k EXCEPT !.halted = TRUE]
Empty(k, q) == k.heap.nitems[q] = 0
FirstObject(k, q) == k.heap.object[k.heap.first[q]]
SetStatus(k, p, status) == [k EXCEPT !.status[p] = status]

-----------------------------------------------------------------------------
(* The routines of process.c.                                              *)

\* pcb->l = AQueueAllocLink(pcb), then AQueueInsertFirst or AQueueInsertLast.
EnterFirst(k, p, q) ==
  LET new == AQueueAllocLink(k.heap, p) IN
  IF new.heap.failed THEN Halt([k EXCEPT !.heap = new.heap])
  ELSE [k EXCEPT !.heap = AQueueInsertFirst(new.heap, q, new.link),
                 !.link[p] = new.link]

EnterLast(k, p, q) ==
  LET new == AQueueAllocLink(k.heap, p) IN
  IF new.heap.failed THEN Halt([k EXCEPT !.heap = new.heap])
  ELSE [k EXCEPT !.heap = AQueueInsertLast(new.heap, q, new.link),
                 !.link[p] = new.link]

\* AQueueRemove(&pcb->l) also sets the pointer to NULL.
Leave(k, p) == [k EXCEPT !.heap = AQueueRemove(@, k.link[p]), !.link[p] = NoLink]

ProcessModuleInit ==
  LET Booted[n \in 0 .. NumProcs] ==
        IF n = 0 THEN [heap |-> AQueueModuleInit,
                       link |-> [p \in Proc |-> NoLink],
                       status |-> [p \in Proc |-> "free"],
                       current |-> NoProc, halted |-> FALSE]
        ELSE EnterFirst(Booted[n - 1], n - 1, "freepcbs")
  IN  Booted[NumProcs]

\* The pages of the process are modelled in module Resources.
ProcessFreeResources(k, p) ==
  EnterLast(SetStatus(k, p, "free"), p, "freepcbs")

\* The executable is looked up while the PCB is on no queue.
ProcessFork(k, loads) ==
  IF Empty(k, "freepcbs") THEN Halt(k)
  ELSE LET p == FirstObject(k, "freepcbs")
           taken == SetStatus(Leave(k, p), p, "runnable")
       IN  IF ~loads THEN ProcessFreeResources(taken, p)
           ELSE [EnterLast(taken, p, "runQueue") EXCEPT
                   !.current = IF @ = NoProc THEN p ELSE @]

ProcessSuspend(k, p) ==
  EnterLast(Leave(SetStatus(k, p, "waiting"), p), p, "waitQueue")

ProcessWakeupStaleLink(k, p) == \* mutant: pcb->l is not set to the new link
  LET out == Leave(SetStatus(k, p, "runnable"), p)
      new == AQueueAllocLink(out.heap, p)
  IN  [out EXCEPT !.heap = AQueueInsertLast(new.heap, "runQueue", new.link),
                  !.link[p] = k.link[p]]

ProcessWakeup(k, p) ==
  EnterLast(Leave(SetStatus(k, p, "runnable"), p), p, "runQueue")

ProcessDestroy(k, p) ==
  EnterFirst(Leave(SetStatus(k, p, "zombie"), p), p, "zombieQueue")

\* The zombie of the front leaves its queue and its PCB becomes free, until
\* the queue is empty.
FreeZombies(k) ==
  LET Freed[n \in 0 .. k.heap.nitems["zombieQueue"]] ==
        IF n = 0 THEN k
        ELSE LET p == FirstObject(Freed[n - 1], "zombieQueue")
             IN  ProcessFreeResources(Leave(Freed[n - 1], p), p)
  IN  Freed[k.heap.nitems["zombieQueue"]]

ProcessSchedule(k) ==
  IF Empty(k, "runQueue") THEN Halt(k)
  ELSE LET turned == [k EXCEPT !.heap = AQueueMoveAfter(@, "runQueue",
                                          @.last["runQueue"],
                                          @.first["runQueue"])]
       IN  FreeZombies([turned EXCEPT
                          !.current = FirstObject(turned, "runQueue")])

-----------------------------------------------------------------------------
(* Traps and interrupts.                                                   *)

Init ==
  /\ kernel = ProcessFork(ProcessModuleInit, TRUE)
  /\ jiffies = 0

Stopped == kernel.halted \/ kernel.heap.failed
Current == kernel.current
ClkReset == jiffies' = 0

ProcessCreate ==
  /\ ~Stopped
  /\ \E loads \in BOOLEAN : kernel' = ProcessFork(kernel, loads)
  /\ UNCHANGED jiffies

Exit ==
  /\ ~Stopped
  /\ kernel' = ProcessSchedule(ProcessDestroy(kernel, Current))
  /\ ClkReset

Yield ==
  /\ ~Stopped
  /\ kernel' = ProcessSchedule(kernel)
  /\ ClkReset

\* The sleep trap: no object will wake the process.
Sleep ==
  /\ ~Stopped
  /\ kernel' = ProcessSchedule(ProcessSuspend(kernel, Current))
  /\ ClkReset

\* SemWait, LockHandleAcquire or CondHandleWait finds that it has to wait: a
\* link of the object's queue for the current process, then ProcessSleep.
WaitIn(q) ==
  /\ ~Stopped
  /\ LET new == AQueueAllocLink(kernel.heap, Current) IN
     IF new.heap.failed THEN kernel' = Halt([kernel EXCEPT !.heap = new.heap])
     ELSE LET queued == [kernel EXCEPT
                           !.heap = AQueueInsertLast(new.heap, q, new.link)]
          IN  kernel' = ProcessSchedule(ProcessSuspend(queued, Current))
  /\ ClkReset

\* A signal or a release takes the first link of the object's queue away and
\* wakes its process.
WakeFirst(q) ==
  /\ ~Stopped
  /\ ~Empty(kernel, q)
  /\ LET p == FirstObject(kernel, q)
         left == [kernel EXCEPT !.heap = AQueueRemove(@, @.first[q])]
     IN  kernel' = ProcessWakeup(left, p)
  /\ UNCHANGED jiffies

TickKeepsTrigger == \* mutant: last_trigger_jiffies is not set
  /\ ~Stopped
  /\ jiffies' = jiffies + 1
  /\ IF jiffies' > Quantum THEN kernel' = ProcessSchedule(kernel)
     ELSE UNCHANGED kernel

Tick ==
  /\ ~Stopped
  /\ IF jiffies + 1 > Quantum
     THEN jiffies' = 0 /\ kernel' = ProcessSchedule(kernel)
     ELSE jiffies' = jiffies + 1 /\ UNCHANGED kernel

Next ==
  \/ ProcessCreate
  \/ Exit
  \/ Yield
  \/ Sleep
  \/ \E q \in Waits : WaitIn(q) \/ WakeFirst(q)
  \/ Tick

Spec == Init /\ [][Next]_vars

-----------------------------------------------------------------------------
(* Properties.                                                             *)

TypeOK ==
  /\ DOMAIN kernel.heap = {"next", "prev", "queue", "object", "first", "last",
                           "nitems", "failed"}
  /\ kernel.heap.next \in [Links -> Links \cup {NoLink}]
  /\ kernel.heap.prev \in [Links -> Links \cup {NoLink}]
  /\ kernel.heap.queue \in [Links -> AllQueues \cup {NoQueue}]
  /\ kernel.heap.object \in [Links -> Proc \cup {NoProc}]
  /\ kernel.heap.first \in [AllQueues -> Links \cup {NoLink}]
  /\ kernel.heap.last \in [AllQueues -> Links \cup {NoLink}]
  /\ kernel.heap.nitems \in [AllQueues -> 0 .. Len(LinkPool)]
  /\ kernel.link \in [Proc -> Links \cup {NoLink}]
  /\ kernel.current \in Proc \cup {NoProc}
  /\ kernel.halted \in BOOLEAN
  /\ jiffies \in 0 .. Quantum

\* Between two handlers every link of the pool is in exactly one queue, and
\* all seven pointers and counts of queue.c tell the same story about it.
WellLinked ==
  /\ \A q \in AllQueues : WellLinkedQueue(kernel.heap, q)
  /\ \A l \in Links : kernel.heap.queue[l] \in AllQueues

\* The pool never runs out, no insertion is refused and no link is removed
\* twice: the fatal errors of queue operations in process.c cannot happen.
QueuesNeverFail == ~kernel.heap.failed

\* The link of a PCB is the one that stands for it in a queue of processes: a
\* stale pointer would take somebody else's link out.
LinkIsOwn ==
  \A p \in Proc : LET l == kernel.link[p] IN
    /\ l # NoLink
    /\ kernel.heap.object[l] = p
    /\ kernel.heap.queue[l] \in ProcessQueues

Elements(queue) == {queue[i] : i \in DOMAIN queue}

Abstract == INSTANCE Process WITH
  table <- [status |-> kernel.status,
            free    |-> Objects(kernel.heap, "freepcbs"),
            run     |-> Objects(kernel.heap, "runQueue"),
            waiting |-> Elements(Objects(kernel.heap, "waitQueue")),
            zombies |-> Objects(kernel.heap, "zombieQueue"),
            current |-> kernel.current,
            halted  |-> kernel.halted]

\* The queues of links do what the sequences of module Process do, step by
\* step: same order, same current process, same end.
ImplementsProcess == Abstract!Init /\ [][Abstract!Next]_Abstract!vars
=============================================================================

------------------------------ MODULE LinkQueues ------------------------------
(***************************************************************************)
(* The doubly linked queues of the kernel and their pool of links          *)
(* (flat/os/queue.c).  A heap is a record of the fields of all links and   *)
(* of all queues; each routine is a function from a heap to the next.      *)
(*                                                                         *)
(* Where a routine answers QUEUE_FAIL or NULL the heap gets the mark       *)
(* failed: every caller in process.c stops the system then (the one that   *)
(* does not, ProcessSchedule, is noted where it is modelled).              *)
(***************************************************************************)
EXTENDS Integers, Sequences

CONSTANTS LinkPool,  \* the order of linkpool: a sequence of all links
          NoLink,    \* the link pointer NULL
          Queues,    \* every queue but freeLinks
          FreeLinks, \* the queue of the links that are not in use
          NoQueue,   \* the queue pointer NULL
          NoObject   \* the object pointer NULL

Links == {LinkPool[i] : i \in DOMAIN LinkPool}
AllQueues == Queues \cup {FreeLinks}

ASSUME PoolAssumption ==
  /\ LinkPool \in Seq(Links)
  /\ \A i, j \in DOMAIN LinkPool : LinkPool[i] = LinkPool[j] => i = j
  /\ NoLink \notin Links
ASSUME QueueAssumption == FreeLinks \notin Queues /\ NoQueue \notin AllQueues

Fail(h) == [h EXCEPT !.failed = TRUE]

-----------------------------------------------------------------------------
(* Insertion and removal.                                                  *)

\* A link is put next to one of the queue, or into a queue that is empty.
Insertable(h, q, beside) ==
  IF beside # NoLink THEN h.queue[beside] = q
  ELSE h.first[q] = NoLink /\ h.last[q] = NoLink /\ h.nitems[q] = 0

AQueueInsertAfter(h, q, after, l) ==
  IF ~Insertable(h, q, after) THEN Fail(h)
  ELSE LET behind == IF after = NoLink THEN NoLink ELSE h.next[after] IN
       [h EXCEPT !.queue[l] = q,
                 !.prev = [x \in Links |-> CASE x = l -> after
                                             [] x = behind -> l
                                             [] OTHER -> @[x]],
                 !.next = [x \in Links |-> CASE x = l -> behind
                                             [] x = after -> l
                                             [] OTHER -> @[x]],
                 !.first[q] = IF after = NoLink THEN l ELSE @,
                 !.last[q] = IF @ = after THEN l ELSE @,
                 !.nitems[q] = IF after = NoLink THEN 1 ELSE @ + 1]

AQueueInsertBefore(h, q, before, l) ==
  IF ~Insertable(h, q, before) THEN Fail(h)
  ELSE LET ahead == IF before = NoLink THEN NoLink ELSE h.prev[before] IN
       [h EXCEPT !.queue[l] = q,
                 !.next = [x \in Links |-> CASE x = l -> before
                                             [] x = ahead -> l
                                             [] OTHER -> @[x]],
                 !.prev = [x \in Links |-> CASE x = l -> ahead
                                             [] x = before -> l
                                             [] OTHER -> @[x]],
                 !.last[q] = IF before = NoLink THEN l ELSE @,
                 !.first[q] = IF @ = before THEN l ELSE @,
                 !.nitems[q] = IF before = NoLink THEN 1 ELSE @ + 1]

AQueueInsertFirst(h, q, l) == AQueueInsertBefore(h, q, h.first[q], l)
AQueueInsertLast(h, q, l)  == AQueueInsertAfter(h, q, h.last[q], l)

\* Takes l out of the chain of q; the fields of l itself stay.
Detached(h, q, l) ==
  [h EXCEPT !.first[q] = IF @ = l THEN h.next[l] ELSE @,
            !.last[q] = IF @ = l THEN h.prev[l] ELSE @,
            !.next = [x \in Links |-> IF x = h.prev[l] THEN h.next[l] ELSE @[x]],
            !.prev = [x \in Links |-> IF x = h.next[l] THEN h.prev[l] ELSE @[x]],
            !.nitems[q] = @ - 1]

AQueueRemoveLosesLink(h, l) == \* mutant: the link is not given back
  IF l = NoLink \/ h.queue[l] = NoQueue THEN Fail(h)
  ELSE Detached(h, h.queue[l], l)

\* A removed link goes to the end of freeLinks.
AQueueRemove(h, l) ==
  IF l = NoLink \/ h.queue[l] = NoQueue THEN Fail(h)
  ELSE AQueueInsertLast(Detached(h, h.queue[l], l), FreeLinks, l)

AQueueAllocLinkKeepsPrev(h, obj) == \* mutant: the link behind keeps its prev
  LET l == h.first[FreeLinks] IN
  IF h.nitems[FreeLinks] = 0 \/ l = NoLink
  THEN [heap |-> Fail(h), link |-> NoLink]
  ELSE [heap |-> [Detached(h, FreeLinks, l) EXCEPT !.next[l] = NoLink,
                                                   !.prev = h.prev,
                                                   !.queue[l] = NoQueue,
                                                   !.object[l] = obj],
        link |-> l]

\* The first free link, taken out by hand and with its pointers reset.
AQueueAllocLink(h, obj) ==
  LET l == h.first[FreeLinks] IN
  IF h.nitems[FreeLinks] = 0 \/ l = NoLink
  THEN [heap |-> Fail(h), link |-> NoLink]
  ELSE [heap |-> [Detached(h, FreeLinks, l) EXCEPT !.next[l] = NoLink,
                                                   !.prev[l] = NoLink,
                                                   !.queue[l] = NoQueue,
                                                   !.object[l] = obj],
        link |-> l]

MovesWithin(h, q, after, l) ==
  l # NoLink /\ h.queue[l] = q /\ after # NoLink /\ h.queue[after] = q

AQueueMoveAfterKeepsLast(h, q, after, l) == \* mutant: last still names after
  IF ~MovesWithin(h, q, after, l) \/ after = l \/ h.last[q] = l THEN h
  ELSE LET out == Detached(h, q, l) IN
       [AQueueInsertAfter(out, q, after, l) EXCEPT !.last[q] = h.last[q]]

\* The answer is not looked at by the one caller, so a refusal is no change.
\* The code relinks l in place; nitems, first and last come out the same as
\* from taking l out and putting it behind after.
AQueueMoveAfter(h, q, after, l) ==
  IF ~MovesWithin(h, q, after, l) \/ after = l \/ h.last[q] = l THEN h
  ELSE AQueueInsertAfter(Detached(h, q, l), q, after, l)

-----------------------------------------------------------------------------
(* The start: every link in freeLinks, the queues empty.                   *)

Unlinked ==
  [next   |-> [l \in Links |-> NoLink],
   prev   |-> [l \in Links |-> NoLink],
   queue  |-> [l \in Links |-> NoQueue],
   object |-> [l \in Links |-> NoObject],
   first  |-> [q \in AllQueues |-> NoLink],
   last   |-> [q \in AllQueues |-> NoLink],
   nitems |-> [q \in AllQueues |-> 0],
   failed |-> FALSE]

AQueueModuleInit ==
  LET Filled[i \in 0 .. Len(LinkPool)] ==
        IF i = 0 THEN Unlinked
        ELSE AQueueInsertLast(Filled[i - 1], FreeLinks, LinkPool[i])
  IN  Filled[Len(LinkPool)]

-----------------------------------------------------------------------------
(* What the queues stand for.                                              *)

\* The links of a queue, from first along the next pointers.
Chain(h, q) ==
  LET Walk[i \in 0 .. h.nitems[q]] ==
        IF i = 0 THEN <<>>
        ELSE IF i = 1 THEN <<h.first[q]>>
        ELSE Append(Walk[i - 1], h.next[Walk[i - 1][i - 1]])
  IN  Walk[h.nitems[q]]

Objects(h, q) ==
  LET chain == Chain(h, q) IN [i \in DOMAIN chain |-> h.object[chain[i]]]

\* Every step of the chain is a link that names the queue and the one before
\* it, the chain ends where last says, and it has all the links of the queue.
WellLinkedQueue(h, q) ==
  LET chain == Chain(h, q)
      At(i) == IF i \in DOMAIN chain THEN chain[i] ELSE NoLink
  IN  /\ \A i \in DOMAIN chain : /\ chain[i] \in Links
                                 /\ h.queue[chain[i]] = q
                                 /\ h.prev[chain[i]] = At(i - 1)
                                 /\ h.next[chain[i]] = At(i + 1)
      /\ h.first[q] = At(1)
      /\ h.last[q] = At(Len(chain))
      /\ \A l \in Links : h.queue[l] = q => \E i \in DOMAIN chain : chain[i] = l
=============================================================================

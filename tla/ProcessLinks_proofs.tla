-------------------------- MODULE ProcessLinks_proofs --------------------------
(***************************************************************************)
(* Proofs about the doubly linked queues of queue.c and the process table  *)
(* that process.c keeps in them, for any number of PCBs, of links and of   *)
(* objects to wait for: all pointers agree, no link is lost, the pool      *)
(* never runs out, and the queues of links implement the sequences of      *)
(* module Process.                                                         *)
(*                                                                         *)
(* The argument: a heap of links represents one sequence of links for each *)
(* queue (Rep).  Every routine of queue.c takes a heap that represents     *)
(* some sequences to one that represents the sequences one expects; the    *)
(* routines of process.c and the traps are then about sequences.           *)
(***************************************************************************)
EXTENDS ProcessLinks, FiniteSetTheorems, WellFoundedInduction, TLAPS

-----------------------------------------------------------------------------
(* Heaps and the sequences of links that they represent.                   *)

LinkOrNone == Links \cup {NoLink}

Heaps ==
  [next : [Links -> LinkOrNone], prev : [Links -> LinkOrNone],
   queue : [Links -> AllQueues \cup {NoQueue}], object : [Links -> Proc \cup {NoProc}],
   first : [AllQueues -> LinkOrNone], last : [AllQueues -> LinkOrNone],
   nitems : [AllQueues -> Int], failed : BOOLEAN]

Chains == [AllQueues -> Seq(Links)]

\* The link at a place of a sequence, none outside of it.
At(s, i) == IF i \in 1 .. Len(s) THEN s[i] ELSE NoLink

\* The fields of q and of its links say that the queue is s.
Linked(h, q, s) ==
  /\ h.nitems[q] = Len(s)
  /\ h.first[q] = At(s, 1)
  /\ h.last[q] = At(s, Len(s))
  /\ \A i \in 1 .. Len(s) : /\ h.queue[s[i]] = q
                            /\ h.prev[s[i]] = At(s, i - 1)
                            /\ h.next[s[i]] = At(s, i + 1)

Distinct(s) == \A i, j \in 1 .. Len(s) : s[i] = s[j] => i = j

\* The queues are the sequences c, and the links out are in none of them.
Rep(h, c, out) ==
  /\ h \in Heaps /\ c \in Chains /\ out \subseteq Links
  /\ \A q \in AllQueues : Linked(h, q, c[q]) /\ Distinct(c[q])
  /\ \A l \in Links \ out : \E q \in AllQueues : \E i \in 1 .. Len(c[q]) : c[q][i] = l
  /\ \A q \in AllQueues : \A i \in 1 .. Len(c[q]) : c[q][i] \notin out

\* The sequence without the link at place k.
Without(s, k) == [i \in 1 .. Len(s) - 1 |-> IF i < k THEN s[i] ELSE s[i + 1]]

-----------------------------------------------------------------------------
(* The pointer operations of queue.c.                                      *)

LEMMA WithoutLemma ==
  ASSUME NEW S, NEW s \in Seq(S), NEW k \in 1 .. Len(s)
  PROVE  /\ Without(s, k) \in Seq(S)
         /\ Len(s) \in Nat /\ Len(Without(s, k)) = Len(s) - 1
         /\ \A i \in 1 .. Len(s) - 1 :
              Without(s, k)[i] = IF i < k THEN s[i] ELSE s[i + 1]
<1>1. Len(s) \in Nat /\ Len(s) - 1 \in Nat /\ \A i \in 1 .. Len(s) : s[i] \in S
  OBVIOUS
<1>2. \A i \in 1 .. Len(s) - 1 : (IF i < k THEN s[i] ELSE s[i + 1]) \in S
  BY <1>1
<1>3. Without(s, k) \in [1 .. Len(s) - 1 -> S]
  BY <1>2 DEF Without
<1>4. Without(s, k) \in Seq(S) /\ Len(Without(s, k)) = Len(s) - 1
  BY <1>1, <1>3
<1> QED BY <1>1, <1>4 DEF Without

\* The links of two queues are not the same.
LEMMA QueuesApart ==
  ASSUME NEW h, NEW c, NEW out, Rep(h, c, out),
         NEW q \in AllQueues, NEW r \in AllQueues,
         NEW i \in 1 .. Len(c[q]), NEW j \in 1 .. Len(c[r]), c[q][i] = c[r][j]
  PROVE  q = r /\ i = j
<1>1. Linked(h, q, c[q]) /\ Linked(h, r, c[r]) /\ Distinct(c[q])
  BY DEF Rep
<1>2. h.queue[c[q][i]] = q /\ h.queue[c[r][j]] = r
  BY <1>1 DEF Linked
<1>3. q = r
  BY <1>2
<1> QED BY <1>1, <1>3 DEF Distinct

\* u is h with l taken out of the chain of q.
Shortened(u, h, q, l) ==
  /\ u \in Heaps
  /\ u.queue = h.queue /\ u.object = h.object /\ u.failed = h.failed
  /\ u.first = [h.first EXCEPT ![q] = IF h.first[q] = l THEN h.next[l] ELSE h.first[q]]
  /\ u.last = [h.last EXCEPT ![q] = IF h.last[q] = l THEN h.prev[l] ELSE h.last[q]]
  /\ u.nitems = [h.nitems EXCEPT ![q] = h.nitems[q] - 1]
  /\ \A x \in Links : /\ u.next[x] = IF x = h.prev[l] THEN h.next[l] ELSE h.next[x]
                      /\ u.prev[x] = IF x = h.next[l] THEN h.prev[l] ELSE h.prev[x]

LEMMA DetachedFields ==
  ASSUME NEW h \in Heaps, NEW q \in AllQueues, NEW l \in Links
  PROVE  Shortened(Detached(h, q, l), h, q, l)
<1> DEFINE u == Detached(h, q, l)
<1>1. /\ h.next \in [Links -> LinkOrNone] /\ h.prev \in [Links -> LinkOrNone]
      /\ h.first \in [AllQueues -> LinkOrNone] /\ h.last \in [AllQueues -> LinkOrNone]
      /\ h.nitems \in [AllQueues -> Int]
  BY DEF Heaps
<1>3. PICK first, last, nitems, next, prev :
        /\ first = [h.first EXCEPT ![q] = IF h.first[q] = l THEN h.next[l] ELSE h.first[q]]
        /\ last = [h.last EXCEPT ![q] = IF h.last[q] = l THEN h.prev[l] ELSE h.last[q]]
        /\ nitems = [h.nitems EXCEPT ![q] = h.nitems[q] - 1]
        /\ next = [x \in Links |-> IF x = h.prev[l] THEN h.next[l] ELSE h.next[x]]
        /\ prev = [x \in Links |-> IF x = h.next[l] THEN h.prev[l] ELSE h.prev[x]]
  OBVIOUS
<1>4. u = [h EXCEPT !.first = first, !.last = last, !.next = next, !.prev = prev,
                    !.nitems = nitems]
  BY <1>3 DEF Detached
<1>5. /\ next \in [Links -> LinkOrNone] /\ prev \in [Links -> LinkOrNone]
      /\ first \in [AllQueues -> LinkOrNone] /\ last \in [AllQueues -> LinkOrNone]
      /\ nitems \in [AllQueues -> Int]
  BY <1>1, <1>3
<1> HIDE DEF u
<1>6. u \in Heaps
  BY <1>4, <1>5 DEF Heaps
<1>7. /\ u.queue = h.queue /\ u.object = h.object /\ u.failed = h.failed
      /\ u.first = first /\ u.last = last /\ u.nitems = nitems
      /\ u.next = next /\ u.prev = prev
  BY <1>4 DEF Heaps
<1>2. \A x \in Links : /\ u.next[x] = IF x = h.prev[l] THEN h.next[l] ELSE h.next[x]
                       /\ u.prev[x] = IF x = h.next[l] THEN h.prev[l] ELSE h.prev[x]
  BY <1>3, <1>7
<1> QED BY <1>2, <1>3, <1>6, <1>7 DEF u, Shortened

\* Taking a link out of a queue leaves the others of the queue in their order
\* (queue.c 128-152).
LEMMA DetachLemma ==
  ASSUME NEW h, NEW c, NEW out, Rep(h, c, out),
         NEW q \in AllQueues, NEW k \in 1 .. Len(c[q])
  PROVE  Rep(Detached(h, q, c[q][k]), [c EXCEPT ![q] = Without(c[q], k)], out \cup {c[q][k]})
<1> DEFINE s == c[q]
           l == c[q][k]
           t == Without(c[q], k)
           d == [c EXCEPT ![q] = t]
           u == Detached(h, q, l)
<1>1. /\ h \in Heaps /\ c \in Chains /\ out \subseteq Links /\ s \in Seq(Links)
      /\ l \in Links /\ s[k] = l /\ k \in 1 .. Len(s)
  BY DEF Rep, Chains
<1>2. /\ t \in Seq(Links) /\ Len(s) \in Nat /\ Len(t) = Len(s) - 1
      /\ \A i \in 1 .. Len(s) - 1 : t[i] = IF i < k THEN s[i] ELSE s[i + 1]
  BY <1>1, WithoutLemma
<1>3. /\ u \in Heaps /\ u.queue = h.queue
      /\ u.first = [h.first EXCEPT ![q] = IF h.first[q] = l THEN h.next[l] ELSE h.first[q]]
      /\ u.last = [h.last EXCEPT ![q] = IF h.last[q] = l THEN h.prev[l] ELSE h.last[q]]
      /\ u.nitems = [h.nitems EXCEPT ![q] = h.nitems[q] - 1]
      /\ \A x \in Links : /\ u.next[x] = IF x = h.prev[l] THEN h.next[l] ELSE h.next[x]
                          /\ u.prev[x] = IF x = h.next[l] THEN h.prev[l] ELSE h.prev[x]
  <2>1. Shortened(u, h, q, l)
    BY <1>1, DetachedFields
  <2> HIDE DEF u
  <2> QED BY <2>1 DEF Shortened
<1>4. /\ Linked(h, q, s) /\ Distinct(s)
      /\ \A i \in 1 .. Len(s) : s[i] \in Links
      /\ NoLink \notin Links
  BY <1>1, PoolAssumption DEF Rep
<1>5. /\ d \in Chains /\ d[q] = t
      /\ \A r \in AllQueues : r # q => d[r] = c[r]
  BY <1>1, <1>2 DEF Chains
<1> HIDE DEF t, u, d
<1>6. h.prev[l] = At(s, k - 1) /\ h.next[l] = At(s, k + 1)
  BY <1>1, <1>4 DEF Linked
<1>7. Distinct(t)
  BY <1>2, <1>4 DEF Distinct
<1>8. Linked(u, q, t)
  <2>1. u.nitems[q] = Len(t)
    BY <1>2, <1>3, <1>4 DEF Linked, Heaps
  <2>2. u.first[q] = At(t, 1)
    <3>1. h.first[q] = s[1] /\ (s[1] = l <=> k = 1)
      BY <1>1, <1>4 DEF Linked, Distinct, At
    <3>2. u.first[q] = IF k = 1 THEN At(s, 2) ELSE s[1]
      BY <1>1, <1>3, <1>6, <3>1 DEF Heaps
    <3> QED BY <1>1, <1>2, <3>2 DEF At
  <2>3. u.last[q] = At(t, Len(t))
    <3>1. h.last[q] = s[Len(s)] /\ (s[Len(s)] = l <=> k = Len(s))
      BY <1>1, <1>2, <1>4 DEF Linked, Distinct, At
    <3>2. u.last[q] = IF k = Len(s) THEN At(s, Len(s) - 1) ELSE s[Len(s)]
      BY <1>1, <1>3, <1>6, <3>1 DEF Heaps
    <3> QED BY <1>1, <1>2, <3>2 DEF At
  <2>4. ASSUME NEW i \in 1 .. Len(t)
        PROVE  /\ u.queue[t[i]] = q
               /\ u.prev[t[i]] = At(t, i - 1)
               /\ u.next[t[i]] = At(t, i + 1)
    <3> DEFINE j == IF i < k THEN i ELSE i + 1
    <3>1. j \in 1 .. Len(s) /\ j # k /\ t[i] = s[j]
      BY <1>1, <1>2
    <3>2. /\ h.queue[s[j]] = q /\ h.prev[s[j]] = At(s, j - 1) /\ h.next[s[j]] = At(s, j + 1)
          /\ s[j] \in Links
      BY <1>4, <3>1 DEF Linked
    <3>3. u.prev[t[i]] = At(t, i - 1)
      <4>1. s[j] = At(s, k + 1) <=> j = k + 1
        BY <1>1, <1>2, <1>4, <3>1 DEF At, Distinct
      <4>2. u.prev[t[i]] = IF j = k + 1 THEN At(s, k - 1) ELSE At(s, j - 1)
        <5>1. u.prev[s[j]] = IF s[j] = h.next[l] THEN h.prev[l] ELSE h.prev[s[j]]
          BY <1>3, <3>2
        <5> QED BY <1>6, <3>1, <3>2, <4>1, <5>1
      <4>3. CASE i < k
        BY <1>1, <1>2, <4>2, <4>3 DEF At
      <4>4. CASE i = k
        BY <1>1, <1>2, <4>2, <4>4 DEF At
      <4>5. CASE i > k
        BY <1>1, <1>2, <4>2, <4>5 DEF At
      <4> QED BY <1>1, <4>3, <4>4, <4>5
    <3>4. u.next[t[i]] = At(t, i + 1)
      <4>1. s[j] = At(s, k - 1) <=> j = k - 1
        BY <1>1, <1>2, <1>4, <3>1 DEF At, Distinct
      <4>2. u.next[t[i]] = IF j = k - 1 THEN At(s, k + 1) ELSE At(s, j + 1)
        <5>1. u.next[s[j]] = IF s[j] = h.prev[l] THEN h.next[l] ELSE h.next[s[j]]
          BY <1>3, <3>2
        <5> QED BY <1>6, <3>1, <3>2, <4>1, <5>1
      <4>3. CASE i < k - 1
        BY <1>1, <1>2, <4>2, <4>3 DEF At
      <4>4. CASE i = k - 1
        BY <1>1, <1>2, <4>2, <4>4 DEF At
      <4>5. CASE i > k - 1
        BY <1>1, <1>2, <4>2, <4>5 DEF At
      <4> QED BY <1>1, <4>3, <4>4, <4>5
    <3> QED BY <1>3, <3>1, <3>2, <3>3, <3>4
  <2> QED BY <2>1, <2>2, <2>3, <2>4 DEF Linked
<1>9. ASSUME NEW r \in AllQueues, r # q
      PROVE  Linked(u, r, c[r]) /\ Distinct(c[r])
  <2>1. Linked(h, r, c[r]) /\ Distinct(c[r]) /\ c[r] \in Seq(Links)
    BY <1>1 DEF Rep, Chains
  <2>2. /\ u.first[r] = h.first[r] /\ u.last[r] = h.last[r]
        /\ u.nitems[r] = h.nitems[r] /\ u.queue = h.queue
    BY <1>3, <1>9 DEF Heaps
  <2>3. ASSUME NEW i \in 1 .. Len(c[r])
        PROVE  /\ u.prev[c[r][i]] = h.prev[c[r][i]] /\ u.next[c[r][i]] = h.next[c[r][i]]
    <3>1. c[r][i] \in Links /\ h.queue[c[r][i]] = r
      BY <2>1 DEF Linked
    <3>2. \A j \in 1 .. Len(s) : s[j] # c[r][i]
      BY <1>4, <1>9, <3>1 DEF Linked
    <3>3. c[r][i] # h.prev[l] /\ c[r][i] # h.next[l]
      BY <1>4, <1>6, <3>1, <3>2 DEF At
    <3> QED BY <1>3, <3>1, <3>3
  <2> QED BY <2>1, <2>2, <2>3 DEF Linked
<1>10. ASSUME NEW x \in Links \ (out \cup {l})
       PROVE  \E r \in AllQueues : \E i \in 1 .. Len(d[r]) : d[r][i] = x
  <2>1. PICK r \in AllQueues : \E i \in 1 .. Len(c[r]) : c[r][i] = x
    BY DEF Rep
  <2>4. PICK j \in 1 .. Len(c[r]) : c[r][j] = x
    BY <2>1
  <2>2. CASE r # q
    BY <1>5, <2>2, <2>4
  <2>3. CASE r = q
    <3>1. j \in 1 .. Len(s) /\ j # k /\ s[j] = x
      BY <2>3, <2>4
    <3>2. CASE j < k
      <4>1. j \in 1 .. Len(t) /\ t[j] = x
        BY <1>1, <1>2, <3>1, <3>2
      <4> QED BY <1>5, <2>3, <4>1
    <3>3. CASE j > k
      <4>1. j - 1 \in 1 .. Len(t) /\ t[j - 1] = x
        BY <1>1, <1>2, <3>1, <3>3
      <4> QED BY <1>5, <2>3, <4>1
    <3> QED BY <1>1, <1>2, <3>1, <3>2, <3>3
  <2> QED BY <2>2, <2>3
<1>11. ASSUME NEW r \in AllQueues, NEW i \in 1 .. Len(d[r])
       PROVE  d[r][i] \notin out \cup {l}
  <2>1. CASE r # q
    <3>1. i \in 1 .. Len(c[r]) /\ d[r][i] = c[r][i]
      BY <1>5, <2>1
    <3>2. c[r][i] \notin out
      BY <3>1 DEF Rep
    <3>3. c[r][i] # l
      BY <1>1, <2>1, <3>1, QueuesApart
    <3> QED BY <3>1, <3>2, <3>3
  <2>2. CASE r = q
    <3> DEFINE j == IF i < k THEN i ELSE i + 1
    <3>1. j \in 1 .. Len(s) /\ j # k /\ d[r][i] = s[j]
      BY <1>1, <1>2, <1>5, <2>2
    <3>2. s[j] \notin out /\ s[j] # s[k]
      BY <1>1, <1>4, <3>1 DEF Rep, Distinct
    <3> QED BY <1>1, <3>1, <3>2
  <2> QED BY <2>1, <2>2
<1>12. \A r \in AllQueues : Linked(u, r, d[r]) /\ Distinct(d[r])
  BY <1>5, <1>7, <1>8, <1>9
<1> QED BY <1>1, <1>3, <1>5, <1>10, <1>11, <1>12 DEF Rep, u, d, t

-----------------------------------------------------------------------------
(* Insertion at an end.                                                    *)

\* A queue that is empty has no first and no last link.
LEMMA Ends ==
  ASSUME NEW h, NEW c, NEW out, Rep(h, c, out), NEW q \in AllQueues
  PROVE  /\ h \in Heaps /\ c[q] \in Seq(Links) /\ Len(c[q]) \in Nat /\ NoLink \notin Links
         /\ h.nitems[q] = Len(c[q])
         /\ Len(c[q]) = 0 => h.first[q] = NoLink /\ h.last[q] = NoLink
         /\ Len(c[q]) # 0 => /\ h.first[q] = c[q][1] /\ h.last[q] = c[q][Len(c[q])]
                             /\ c[q][1] \in Links /\ c[q][Len(c[q])] \in Links
                             /\ h.queue[c[q][1]] = q /\ h.queue[c[q][Len(c[q])]] = q
                             /\ h.prev[c[q][1]] = NoLink
                             /\ h.next[c[q][Len(c[q])]] = NoLink
         /\ \A i \in 1 .. Len(c[q]) : c[q][i] \in Links /\ c[q][i] \notin out
<1>1. /\ h \in Heaps /\ c[q] \in Seq(Links) /\ Linked(h, q, c[q])
      /\ \A i \in 1 .. Len(c[q]) : c[q][i] \notin out
  BY DEF Rep, Chains
<1> DEFINE s == c[q]
<1>2. Len(s) \in Nat /\ (\A i \in 1 .. Len(s) : s[i] \in Links) /\ NoLink \notin Links
  BY <1>1, PoolAssumption
<1>3. /\ h.nitems[q] = Len(s) /\ h.first[q] = At(s, 1) /\ h.last[q] = At(s, Len(s))
      /\ \A i \in 1 .. Len(s) : /\ h.queue[s[i]] = q
                                /\ h.prev[s[i]] = At(s, i - 1)
                                /\ h.next[s[i]] = At(s, i + 1)
  BY <1>1 DEF Linked
<1>4. Len(s) = 0 => h.first[q] = NoLink /\ h.last[q] = NoLink
  BY <1>2, <1>3 DEF At
<1>5. ASSUME Len(s) # 0
      PROVE  /\ h.first[q] = s[1] /\ h.last[q] = s[Len(s)]
             /\ s[1] \in Links /\ s[Len(s)] \in Links
             /\ h.queue[s[1]] = q /\ h.queue[s[Len(s)]] = q
             /\ h.prev[s[1]] = NoLink /\ h.next[s[Len(s)]] = NoLink
  <2>1. 1 \in 1 .. Len(s) /\ Len(s) \in 1 .. Len(s)
    BY <1>2, <1>5
  <2>2. At(s, 1 - 1) = NoLink /\ At(s, Len(s) + 1) = NoLink
    BY <1>2 DEF At
  <2> HIDE DEF s
  <2> QED BY <1>2, <1>3, <2>1, <2>2 DEF At
<1> QED BY <1>1, <1>2, <1>3, <1>4, <1>5

\* u is h with l behind the links s of q (queue.c 168-207).
Lengthened(u, h, q, s, l) ==
  /\ u \in Heaps /\ u.object = h.object /\ u.failed = h.failed
  /\ u.queue = [h.queue EXCEPT ![l] = q]
  /\ u.first = [h.first EXCEPT ![q] = IF Len(s) = 0 THEN l ELSE h.first[q]]
  /\ u.last = [h.last EXCEPT ![q] = l]
  /\ u.nitems = [h.nitems EXCEPT ![q] = Len(s) + 1]
  /\ \A x \in Links :
       /\ u.next[x] = IF x = l THEN NoLink
                      ELSE IF x = At(s, Len(s)) THEN l ELSE h.next[x]
       /\ u.prev[x] = IF x = l THEN At(s, Len(s)) ELSE h.prev[x]

LEMMA InsertLastFields ==
  ASSUME NEW h, NEW c, NEW out, Rep(h, c, out), NEW q \in AllQueues, NEW l \in out
  PROVE  Lengthened(AQueueInsertLast(h, q, l), h, q, c[q], l)
<1> DEFINE s == c[q]
           tail == At(c[q], Len(c[q]))
           u == AQueueInsertLast(h, q, l)
<1>1. /\ h \in Heaps /\ Len(s) \in Nat /\ NoLink \notin Links /\ l \in Links
      /\ h.nitems[q] = Len(s)
      /\ Len(s) = 0 => h.first[q] = NoLink /\ h.last[q] = NoLink
      /\ Len(s) # 0 => /\ h.last[q] = s[Len(s)] /\ s[Len(s)] \in Links
                       /\ h.queue[s[Len(s)]] = q
                       /\ h.next[s[Len(s)]] = NoLink
      /\ tail = IF Len(s) = 0 THEN NoLink ELSE s[Len(s)]
      /\ tail # l
  <2>1. l \in Links
    BY DEF Rep
  <2> QED BY <2>1, Ends DEF At
<1> HIDE DEF tail, s
<1>2. tail = h.last[q] /\ Insertable(h, q, tail) /\ tail \in LinkOrNone
  BY <1>1 DEF Insertable, LinkOrNone
<1>3. PICK next, prev, queue, first, last, nitems :
        /\ next = [x \in Links |-> IF x = l THEN NoLink
                                   ELSE IF x = tail THEN l ELSE h.next[x]]
        /\ prev = [x \in Links |-> IF x = l THEN tail ELSE h.prev[x]]
        /\ queue = [h.queue EXCEPT ![l] = q]
        /\ first = [h.first EXCEPT ![q] = IF Len(s) = 0 THEN l ELSE h.first[q]]
        /\ last = [h.last EXCEPT ![q] = l]
        /\ nitems = [h.nitems EXCEPT ![q] = Len(s) + 1]
  OBVIOUS
<1>4. /\ next \in [Links -> LinkOrNone] /\ prev \in [Links -> LinkOrNone]
      /\ queue \in [Links -> AllQueues \cup {NoQueue}]
      /\ first \in [AllQueues -> LinkOrNone] /\ last \in [AllQueues -> LinkOrNone]
      /\ nitems \in [AllQueues -> Int]
  BY <1>1, <1>2, <1>3 DEF Heaps, LinkOrNone
<1>5. u = [h EXCEPT !.queue = queue, !.prev = prev, !.next = next,
                    !.first = first, !.last = last, !.nitems = nitems]
  <2>1. (IF tail = NoLink THEN NoLink ELSE h.next[tail]) = NoLink
    BY <1>1
  <2>2. /\ prev = [x \in Links |->
                      CASE x = l -> tail
                        [] x = (IF tail = NoLink THEN NoLink ELSE h.next[tail]) -> l
                        [] OTHER -> h.prev[x]]
        /\ next = [x \in Links |->
                      CASE x = l -> (IF tail = NoLink THEN NoLink ELSE h.next[tail])
                        [] x = tail -> l
                        [] OTHER -> h.next[x]]
        /\ first = [h.first EXCEPT ![q] = IF tail = NoLink THEN l ELSE h.first[q]]
        /\ last = [h.last EXCEPT ![q] = IF h.last[q] = tail THEN l ELSE h.last[q]]
        /\ nitems = [h.nitems EXCEPT ![q] = IF tail = NoLink THEN 1 ELSE h.nitems[q] + 1]
    BY <1>1, <1>2, <1>3, <2>1
  <2>3. u = AQueueInsertAfter(h, q, tail, l)
    BY <1>2 DEF AQueueInsertLast
  <2> HIDE DEF u
  <2> QED BY <1>2, <1>3, <2>1, <2>2, <2>3 DEF AQueueInsertAfter
<1> HIDE DEF u
<1>6. u \in Heaps
  BY <1>1, <1>4, <1>5 DEF Heaps
<1>7. /\ u.object = h.object /\ u.failed = h.failed /\ u.queue = queue
      /\ u.first = first /\ u.last = last /\ u.nitems = nitems
      /\ u.next = next /\ u.prev = prev
  BY <1>1, <1>5 DEF Heaps
<1> QED BY <1>3, <1>6, <1>7 DEF u, tail, s, Lengthened

\* A link that is in no queue goes to the end of q.
LEMMA InsertLastLemma ==
  ASSUME NEW h, NEW c, NEW out, Rep(h, c, out), NEW q \in AllQueues, NEW l \in out
  PROVE  Rep(AQueueInsertLast(h, q, l), [c EXCEPT ![q] = Append(c[q], l)], out \ {l})
<1> DEFINE s == c[q]
           t == Append(c[q], l)
           d == [c EXCEPT ![q] = t]
           u == AQueueInsertLast(h, q, l)
           tail == At(c[q], Len(c[q]))
<1>1. /\ h \in Heaps /\ c \in Chains /\ out \subseteq Links /\ s \in Seq(Links)
      /\ l \in Links /\ Linked(h, q, s) /\ Distinct(s)
  BY DEF Rep, Chains
<1>2. /\ t \in Seq(Links) /\ Len(s) \in Nat /\ Len(t) = Len(s) + 1 /\ t[Len(s) + 1] = l
      /\ \A i \in 1 .. Len(s) : t[i] = s[i]
  BY <1>1
<1>3. /\ u \in Heaps /\ u.queue = [h.queue EXCEPT ![l] = q]
      /\ u.first = [h.first EXCEPT ![q] = IF Len(s) = 0 THEN l ELSE h.first[q]]
      /\ u.last = [h.last EXCEPT ![q] = l]
      /\ u.nitems = [h.nitems EXCEPT ![q] = Len(s) + 1]
      /\ \A x \in Links : /\ u.next[x] = IF x = l THEN NoLink
                                         ELSE IF x = tail THEN l ELSE h.next[x]
                          /\ u.prev[x] = IF x = l THEN tail ELSE h.prev[x]
  <2>1. Lengthened(u, h, q, s, l)
    BY InsertLastFields
  <2> HIDE DEF u
  <2> QED BY <2>1 DEF Lengthened
<1>4. /\ NoLink \notin Links
      /\ \A r \in AllQueues : \A i \in 1 .. Len(c[r]) : c[r][i] \in Links /\ c[r][i] # l
  BY <1>1, Ends
<1>5. /\ d \in Chains /\ d[q] = t
      /\ \A r \in AllQueues : r # q => d[r] = c[r]
  BY <1>1, <1>2 DEF Chains
<1> HIDE DEF t, u, d
<1>6. Distinct(t)
  <2>1. ASSUME NEW i \in 1 .. Len(t), NEW j \in 1 .. Len(t), t[i] = t[j]
        PROVE  i = j
    <3>1. \A n \in 1 .. Len(s) : s[n] # l
      BY <1>1, <1>4
    <3>2. CASE i \in 1 .. Len(s) /\ j \in 1 .. Len(s)
      BY <1>1, <1>2, <2>1, <3>2 DEF Distinct
    <3>3. CASE i \in 1 .. Len(s) /\ j = Len(s) + 1
      BY <1>2, <2>1, <3>1, <3>3
    <3>4. CASE i = Len(s) + 1 /\ j \in 1 .. Len(s)
      BY <1>2, <2>1, <3>1, <3>4
    <3> QED BY <1>2, <3>2, <3>3, <3>4
  <2> QED BY <2>1 DEF Distinct
<1>7. Linked(u, q, t)
  <2>1. u.nitems[q] = Len(t) /\ u.last[q] = At(t, Len(t))
    BY <1>1, <1>2, <1>3 DEF Heaps, At
  <2>2. u.first[q] = At(t, 1)
    <3>1. h.first[q] = At(s, 1)
      BY <1>1 DEF Linked
    <3>2. u.first[q] = IF Len(s) = 0 THEN l ELSE At(s, 1)
      BY <1>1, <1>3, <3>1 DEF Heaps
    <3> QED BY <1>2, <3>2 DEF At
  <2>3. ASSUME NEW i \in 1 .. Len(t)
        PROVE  /\ u.queue[t[i]] = q
               /\ u.prev[t[i]] = At(t, i - 1)
               /\ u.next[t[i]] = At(t, i + 1)
    <3>1. CASE i = Len(s) + 1
      <4>1. At(t, i + 1) = NoLink /\ At(t, i - 1) = tail
        BY <1>2, <3>1 DEF At
      <4>2. u.queue[l] = q /\ u.prev[l] = tail /\ u.next[l] = NoLink
        BY <1>1, <1>3 DEF Heaps
      <4> QED BY <1>2, <3>1, <4>1, <4>2
    <3>2. CASE i # Len(s) + 1
      <4>1. i \in 1 .. Len(s) /\ t[i] = s[i]
        BY <1>2, <3>2
      <4>2. /\ h.queue[s[i]] = q /\ h.prev[s[i]] = At(s, i - 1) /\ h.next[s[i]] = At(s, i + 1)
            /\ s[i] \in Links /\ s[i] # l
        BY <1>1, <1>4, <4>1 DEF Linked
      <4>3. s[i] = tail <=> i = Len(s)
        BY <1>1, <1>2, <4>1 DEF At, Distinct
      <4>4. /\ u.queue[s[i]] = q /\ u.prev[s[i]] = At(s, i - 1)
            /\ u.next[s[i]] = IF i = Len(s) THEN l ELSE At(s, i + 1)
        BY <1>1, <1>3, <4>2, <4>3 DEF Heaps
      <4>5. At(t, i - 1) = At(s, i - 1)
        BY <1>2, <4>1 DEF At
      <4>6. At(t, i + 1) = IF i = Len(s) THEN l ELSE At(s, i + 1)
        BY <1>2, <4>1 DEF At
      <4> QED BY <4>1, <4>4, <4>5, <4>6
    <3> QED BY <3>1, <3>2
  <2> QED BY <2>1, <2>2, <2>3 DEF Linked
<1>8. ASSUME NEW r \in AllQueues, r # q
      PROVE  Linked(u, r, c[r]) /\ Distinct(c[r])
  <2>1. Linked(h, r, c[r]) /\ Distinct(c[r])
    BY DEF Rep
  <2>2. /\ u.first[r] = h.first[r] /\ u.last[r] = h.last[r] /\ u.nitems[r] = h.nitems[r]
    BY <1>1, <1>3, <1>8 DEF Heaps
  <2>3. ASSUME NEW i \in 1 .. Len(c[r])
        PROVE  /\ u.queue[c[r][i]] = h.queue[c[r][i]]
               /\ u.prev[c[r][i]] = h.prev[c[r][i]] /\ u.next[c[r][i]] = h.next[c[r][i]]
    <3>1. c[r][i] \in Links /\ h.queue[c[r][i]] = r /\ c[r][i] # l
      BY <1>4, <2>1 DEF Linked
    <3>2. \A j \in 1 .. Len(s) : s[j] # c[r][i]
      BY <1>1, <1>8, <3>1 DEF Linked
    <3>3. c[r][i] # tail
      BY <1>2, <1>4, <3>1, <3>2 DEF At
    <3> QED BY <1>1, <1>3, <3>1, <3>3 DEF Heaps
  <2> QED BY <2>1, <2>2, <2>3 DEF Linked
<1>9. ASSUME NEW x \in Links \ (out \ {l})
      PROVE  \E r \in AllQueues : \E i \in 1 .. Len(d[r]) : d[r][i] = x
  <2>1. CASE x = l
    <3>1. Len(s) + 1 \in 1 .. Len(d[q]) /\ d[q][Len(s) + 1] = x
      BY <1>2, <1>5, <2>1
    <3> QED BY <3>1
  <2>2. CASE x # l
    <3>1. PICK r \in AllQueues : \E i \in 1 .. Len(c[r]) : c[r][i] = x
      BY <2>2 DEF Rep
    <3>2. PICK i \in 1 .. Len(c[r]) : c[r][i] = x
      BY <3>1
    <3>3. i \in 1 .. Len(d[r]) /\ d[r][i] = x
      BY <1>2, <1>5, <3>2
    <3> QED BY <3>3
  <2> QED BY <2>1, <2>2
<1>10. ASSUME NEW r \in AllQueues, NEW i \in 1 .. Len(d[r])
       PROVE  d[r][i] \notin out \ {l}
  <2>1. \A j \in 1 .. Len(c[r]) : c[r][j] \notin out
    BY DEF Rep
  <2>2. CASE r # q
    BY <1>5, <2>1, <2>2
  <2>3. CASE r = q
    BY <1>2, <1>5, <2>1, <2>3
  <2> QED BY <2>2, <2>3
<1>11. \A r \in AllQueues : Linked(u, r, d[r]) /\ Distinct(d[r])
  BY <1>5, <1>6, <1>7, <1>8
<1> QED BY <1>1, <1>3, <1>5, <1>9, <1>10, <1>11 DEF Rep, u, d, t

\* u is h with l before the links s of q (queue.c 209-249).
Preceded(u, h, q, s, l) ==
  /\ u \in Heaps /\ u.object = h.object /\ u.failed = h.failed
  /\ u.queue = [h.queue EXCEPT ![l] = q]
  /\ u.last = [h.last EXCEPT ![q] = IF Len(s) = 0 THEN l ELSE h.last[q]]
  /\ u.first = [h.first EXCEPT ![q] = l]
  /\ u.nitems = [h.nitems EXCEPT ![q] = Len(s) + 1]
  /\ \A x \in Links :
       /\ u.prev[x] = IF x = l THEN NoLink
                      ELSE IF x = At(s, 1) THEN l ELSE h.prev[x]
       /\ u.next[x] = IF x = l THEN At(s, 1) ELSE h.next[x]

LEMMA InsertFirstFields ==
  ASSUME NEW h, NEW c, NEW out, Rep(h, c, out), NEW q \in AllQueues, NEW l \in out
  PROVE  Preceded(AQueueInsertFirst(h, q, l), h, q, c[q], l)
<1> DEFINE s == c[q]
           head == At(c[q], 1)
           u == AQueueInsertFirst(h, q, l)
<1>1. /\ h \in Heaps /\ Len(s) \in Nat /\ NoLink \notin Links /\ l \in Links
      /\ h.nitems[q] = Len(s)
      /\ Len(s) = 0 => h.last[q] = NoLink /\ h.first[q] = NoLink
      /\ Len(s) # 0 => /\ h.first[q] = s[1] /\ s[1] \in Links
                       /\ h.queue[s[1]] = q
                       /\ h.prev[s[1]] = NoLink
      /\ head = IF Len(s) = 0 THEN NoLink ELSE s[1]
      /\ head # l
  <2>1. l \in Links
    BY DEF Rep
  <2> QED BY <2>1, Ends DEF At
<1> HIDE DEF head, s
<1>2. head = h.first[q] /\ Insertable(h, q, head) /\ head \in LinkOrNone
  BY <1>1 DEF Insertable, LinkOrNone
<1>3. PICK prev, next, queue, last, first, nitems :
        /\ prev = [x \in Links |-> IF x = l THEN NoLink
                                   ELSE IF x = head THEN l ELSE h.prev[x]]
        /\ next = [x \in Links |-> IF x = l THEN head ELSE h.next[x]]
        /\ queue = [h.queue EXCEPT ![l] = q]
        /\ last = [h.last EXCEPT ![q] = IF Len(s) = 0 THEN l ELSE h.last[q]]
        /\ first = [h.first EXCEPT ![q] = l]
        /\ nitems = [h.nitems EXCEPT ![q] = Len(s) + 1]
  OBVIOUS
<1>4. /\ prev \in [Links -> LinkOrNone] /\ next \in [Links -> LinkOrNone]
      /\ queue \in [Links -> AllQueues \cup {NoQueue}]
      /\ last \in [AllQueues -> LinkOrNone] /\ first \in [AllQueues -> LinkOrNone]
      /\ nitems \in [AllQueues -> Int]
  BY <1>1, <1>2, <1>3 DEF Heaps, LinkOrNone
<1>5. u = [h EXCEPT !.queue = queue, !.next = next, !.prev = prev,
                    !.last = last, !.first = first, !.nitems = nitems]
  <2>1. (IF head = NoLink THEN NoLink ELSE h.prev[head]) = NoLink
    BY <1>1
  <2>2. /\ next = [x \in Links |->
                      CASE x = l -> head
                        [] x = (IF head = NoLink THEN NoLink ELSE h.prev[head]) -> l
                        [] OTHER -> h.next[x]]
        /\ prev = [x \in Links |->
                      CASE x = l -> (IF head = NoLink THEN NoLink ELSE h.prev[head])
                        [] x = head -> l
                        [] OTHER -> h.prev[x]]
        /\ last = [h.last EXCEPT ![q] = IF head = NoLink THEN l ELSE h.last[q]]
        /\ first = [h.first EXCEPT ![q] = IF h.first[q] = head THEN l ELSE h.first[q]]
        /\ nitems = [h.nitems EXCEPT ![q] = IF head = NoLink THEN 1 ELSE h.nitems[q] + 1]
    BY <1>1, <1>2, <1>3, <2>1
  <2>3. u = AQueueInsertBefore(h, q, head, l)
    BY <1>2 DEF AQueueInsertFirst
  <2> HIDE DEF u
  <2> QED BY <1>2, <1>3, <2>1, <2>2, <2>3 DEF AQueueInsertBefore
<1> HIDE DEF u
<1>6. u \in Heaps
  BY <1>1, <1>4, <1>5 DEF Heaps
<1>7. /\ u.object = h.object /\ u.failed = h.failed /\ u.queue = queue
      /\ u.last = last /\ u.first = first /\ u.nitems = nitems
      /\ u.prev = prev /\ u.next = next
  BY <1>1, <1>5 DEF Heaps
<1> QED BY <1>3, <1>6, <1>7 DEF u, head, s, Preceded

\* A link that is in no queue goes to the front of q.
LEMMA InsertFirstLemma ==
  ASSUME NEW h, NEW c, NEW out, Rep(h, c, out), NEW q \in AllQueues, NEW l \in out
  PROVE  Rep(AQueueInsertFirst(h, q, l), [c EXCEPT ![q] = <<l>> \o c[q]], out \ {l})
<1> DEFINE s == c[q]
           t == <<l>> \o c[q]
           d == [c EXCEPT ![q] = t]
           u == AQueueInsertFirst(h, q, l)
           head == At(c[q], 1)
<1>1. /\ h \in Heaps /\ c \in Chains /\ out \subseteq Links /\ s \in Seq(Links)
      /\ l \in Links /\ Linked(h, q, s) /\ Distinct(s)
  BY DEF Rep, Chains
<1>2. /\ t \in Seq(Links) /\ Len(s) \in Nat /\ Len(t) = Len(s) + 1 /\ t[1] = l
      /\ \A i \in 1 .. Len(s) : t[i + 1] = s[i]
      /\ \A i \in 1 .. Len(t) : i = 1 \/ (i - 1 \in 1 .. Len(s) /\ t[i] = s[i - 1])
  BY <1>1
<1>3. /\ u \in Heaps /\ u.queue = [h.queue EXCEPT ![l] = q]
      /\ u.last = [h.last EXCEPT ![q] = IF Len(s) = 0 THEN l ELSE h.last[q]]
      /\ u.first = [h.first EXCEPT ![q] = l]
      /\ u.nitems = [h.nitems EXCEPT ![q] = Len(s) + 1]
      /\ \A x \in Links : /\ u.prev[x] = IF x = l THEN NoLink
                                         ELSE IF x = head THEN l ELSE h.prev[x]
                          /\ u.next[x] = IF x = l THEN head ELSE h.next[x]
  <2>1. Preceded(u, h, q, s, l)
    BY InsertFirstFields
  <2> HIDE DEF u
  <2> QED BY <2>1 DEF Preceded
<1>4. /\ NoLink \notin Links
      /\ \A r \in AllQueues : \A i \in 1 .. Len(c[r]) : c[r][i] \in Links /\ c[r][i] # l
  BY <1>1, Ends
<1>5. /\ d \in Chains /\ d[q] = t
      /\ \A r \in AllQueues : r # q => d[r] = c[r]
  BY <1>1, <1>2 DEF Chains
<1> HIDE DEF t, u, d
<1>6. Distinct(t)
  <2> SUFFICES ASSUME NEW i \in 1 .. Len(t), NEW j \in 1 .. Len(t), t[i] = t[j]
               PROVE  i = j
    BY DEF Distinct
  <2>1. \A m \in 1 .. Len(s) : s[m] # l
    BY <1>4
  <2>2. CASE i = 1 \/ j = 1
    BY <1>2, <2>1, <2>2
  <2>3. CASE i # 1 /\ j # 1
    <3>1. i - 1 \in 1 .. Len(s) /\ j - 1 \in 1 .. Len(s) /\ s[i - 1] = s[j - 1]
      BY <1>2, <2>3
    <3>2. i - 1 = j - 1
      BY <1>1, <3>1 DEF Distinct
    <3> QED BY <3>2
  <2> QED BY <2>2, <2>3
<1>7. Linked(u, q, t)
  <2>1. u.nitems[q] = Len(t) /\ u.first[q] = At(t, 1)
    BY <1>1, <1>2, <1>3 DEF Heaps, At
  <2>2. u.last[q] = At(t, Len(t))
    <3>1. h.last[q] = At(s, Len(s))
      BY <1>1 DEF Linked
    <3>2. u.last[q] = IF Len(s) = 0 THEN l ELSE At(s, Len(s))
      BY <1>1, <1>3, <3>1 DEF Heaps
    <3>3. Len(s) # 0 => Len(s) \in 1 .. Len(s) /\ t[Len(t)] = s[Len(s)]
      BY <1>2
    <3> QED BY <1>2, <3>2, <3>3 DEF At
  <2>3. ASSUME NEW i \in 1 .. Len(t)
        PROVE  /\ u.queue[t[i]] = q
               /\ u.prev[t[i]] = At(t, i - 1)
               /\ u.next[t[i]] = At(t, i + 1)
    <3>1. CASE i = 1
      <4>1. At(t, i - 1) = NoLink /\ At(t, i + 1) = head
        <5>1. CASE Len(s) = 0
          BY <1>2, <3>1, <5>1 DEF At
        <5>2. CASE Len(s) # 0
          <6>1. 1 \in 1 .. Len(s) /\ t[1 + 1] = s[1] /\ 1 + 1 \in 1 .. Len(t)
            BY <1>2, <5>2
          <6> QED BY <3>1, <6>1 DEF At
        <5> QED BY <5>1, <5>2
      <4>2. u.queue[l] = q /\ u.next[l] = head /\ u.prev[l] = NoLink
        BY <1>1, <1>3 DEF Heaps
      <4> QED BY <1>2, <3>1, <4>1, <4>2
    <3>2. CASE i # 1
      <4> DEFINE j == i - 1
      <4>1. j \in 1 .. Len(s) /\ t[i] = s[j] /\ i = j + 1
        BY <1>2, <3>2
      <4>2. /\ h.queue[s[j]] = q /\ h.prev[s[j]] = At(s, j - 1) /\ h.next[s[j]] = At(s, j + 1)
            /\ s[j] \in Links /\ s[j] # l
        BY <1>1, <1>4, <4>1 DEF Linked
      <4>3. s[j] = head <=> j = 1
        BY <1>1, <1>2, <4>1 DEF At, Distinct
      <4>4. /\ u.queue[s[j]] = q /\ u.next[s[j]] = At(s, j + 1)
            /\ u.prev[s[j]] = IF j = 1 THEN l ELSE At(s, j - 1)
        BY <1>1, <1>3, <4>2, <4>3 DEF Heaps
      <4>5. At(t, i + 1) = At(s, j + 1)
        <5>1. i + 1 \in 1 .. Len(t) <=> j + 1 \in 1 .. Len(s)
          BY <1>2, <4>1
        <5>2. j + 1 \in 1 .. Len(s) => t[i + 1] = s[j + 1]
          BY <1>2, <4>1
        <5> QED BY <5>1, <5>2 DEF At
      <4>6. At(t, i - 1) = IF j = 1 THEN l ELSE At(s, j - 1)
        <5>1. j # 1 => j - 1 \in 1 .. Len(s) /\ t[i - 1] = s[j - 1]
          BY <1>2, <4>1
        <5>2. i - 1 \in 1 .. Len(t) /\ (j = 1 => t[i - 1] = l)
          BY <1>2, <4>1
        <5> QED BY <5>1, <5>2 DEF At
      <4> QED BY <4>1, <4>4, <4>5, <4>6
    <3> QED BY <3>1, <3>2
  <2> QED BY <2>1, <2>2, <2>3 DEF Linked
<1>8. ASSUME NEW r \in AllQueues, r # q
      PROVE  Linked(u, r, c[r]) /\ Distinct(c[r])
  <2>1. Linked(h, r, c[r]) /\ Distinct(c[r])
    BY DEF Rep
  <2>2. /\ u.last[r] = h.last[r] /\ u.first[r] = h.first[r] /\ u.nitems[r] = h.nitems[r]
    BY <1>1, <1>3, <1>8 DEF Heaps
  <2>3. ASSUME NEW i \in 1 .. Len(c[r])
        PROVE  /\ u.queue[c[r][i]] = h.queue[c[r][i]]
               /\ u.next[c[r][i]] = h.next[c[r][i]] /\ u.prev[c[r][i]] = h.prev[c[r][i]]
    <3>1. c[r][i] \in Links /\ h.queue[c[r][i]] = r /\ c[r][i] # l
      BY <1>4, <2>1 DEF Linked
    <3>2. \A j \in 1 .. Len(s) : s[j] # c[r][i]
      BY <1>1, <1>8, <3>1 DEF Linked
    <3>3. c[r][i] # head
      BY <1>2, <1>4, <3>1, <3>2 DEF At
    <3> QED BY <1>1, <1>3, <3>1, <3>3 DEF Heaps
  <2> QED BY <2>1, <2>2, <2>3 DEF Linked
<1>9. ASSUME NEW x \in Links \ (out \ {l})
      PROVE  \E r \in AllQueues : \E i \in 1 .. Len(d[r]) : d[r][i] = x
  <2>1. CASE x = l
    <3>1. 1 \in 1 .. Len(d[q]) /\ d[q][1] = x
      BY <1>2, <1>5, <2>1
    <3> QED BY <3>1
  <2>2. CASE x # l
    <3>1. PICK r \in AllQueues : \E i \in 1 .. Len(c[r]) : c[r][i] = x
      BY <2>2 DEF Rep
    <3>2. PICK i \in 1 .. Len(c[r]) : c[r][i] = x
      BY <3>1
    <3>3. CASE r = q
      <4>1. i + 1 \in 1 .. Len(d[r]) /\ d[r][i + 1] = x
        BY <1>2, <1>5, <3>2, <3>3
      <4> QED BY <4>1
    <3>4. CASE r # q
      BY <1>5, <3>2, <3>4
    <3> QED BY <3>3, <3>4
  <2> QED BY <2>1, <2>2
<1>10. ASSUME NEW r \in AllQueues, NEW i \in 1 .. Len(d[r])
       PROVE  d[r][i] \notin out \ {l}
  <2>1. \A j \in 1 .. Len(c[r]) : c[r][j] \notin out
    BY DEF Rep
  <2>2. CASE r # q
    BY <1>5, <2>1, <2>2
  <2>3. CASE r = q
    BY <1>2, <1>5, <2>1, <2>3
  <2> QED BY <2>2, <2>3
<1>11. \A r \in AllQueues : Linked(u, r, d[r]) /\ Distinct(d[r])
  BY <1>5, <1>6, <1>7, <1>8
<1> QED BY <1>1, <1>3, <1>5, <1>9, <1>10, <1>11 DEF Rep, u, d, t

-----------------------------------------------------------------------------
(* The routines of queue.c that process.c and synch.o call.                *)

\* A removed link is the last of freeLinks, and the others of its queue stay
\* in order (queue.c 128-152).
Removed(u, h, c, q, k) ==
  /\ Rep(u, [[c EXCEPT ![q] = Without(c[q], k)] EXCEPT
               ![FreeLinks] = Append(c[FreeLinks], c[q][k])], {})
  /\ u.queue = [h.queue EXCEPT ![c[q][k]] = FreeLinks]
  /\ u.object = h.object /\ u.failed = h.failed
  /\ u.nitems[FreeLinks] = h.nitems[FreeLinks] + 1

LEMMA RemoveLemma ==
  ASSUME NEW h, NEW c, Rep(h, c, {}), NEW q \in Queues, NEW k \in 1 .. Len(c[q])
  PROVE  Removed(AQueueRemove(h, c[q][k]), h, c, q, k)
<1> DEFINE l == c[q][k]
           e == [c EXCEPT ![q] = Without(c[q], k)]
           out == {} \cup {l}
           b == Detached(h, q, l)
           u == AQueueInsertLast(b, FreeLinks, l)
<1>1. /\ q \in AllQueues /\ FreeLinks \in AllQueues /\ q # FreeLinks /\ q # NoQueue
      /\ c \in Chains
  BY QueueAssumption DEF AllQueues, Rep
<1>2. l \in Links /\ l # NoLink /\ h.queue[l] = q
  <2>1. Linked(h, q, c[q])
    BY <1>1 DEF Rep
  <2>2. l \in Links /\ NoLink \notin Links
    BY <1>1, Ends
  <2> QED BY <2>1, <2>2 DEF Linked
<1>3. AQueueRemove(h, l) = u
  BY <1>1, <1>2 DEF AQueueRemove
<1>4. Rep(b, e, out)
  BY <1>1, DetachLemma
<1>5. /\ e[FreeLinks] = c[FreeLinks] /\ l \in out
  BY <1>1 DEF Chains
<1>6. /\ b.queue = h.queue /\ b.object = h.object /\ b.failed = h.failed
      /\ b.nitems = [h.nitems EXCEPT ![q] = h.nitems[q] - 1]
  <2>1. h \in Heaps
    BY DEF Rep
  <2>2. l \in Links
    BY <1>2
  <2>3. Shortened(b, h, q, l)
    BY <1>1, <2>1, <2>2, DetachedFields
  <2> HIDE DEF b
  <2> QED BY <2>3 DEF Shortened
<1> HIDE DEF b, e, out
<1>7. Rep(u, [e EXCEPT ![FreeLinks] = Append(c[FreeLinks], l)], out \ {l})
  <2>1. Rep(u, [e EXCEPT ![FreeLinks] = Append(e[FreeLinks], l)], out \ {l})
    BY <1>1, <1>4, <1>5, InsertLastLemma
  <2> QED BY <1>5, <2>1
<1>8. Lengthened(u, b, FreeLinks, c[FreeLinks], l)
  BY <1>1, <1>4, <1>5, InsertLastFields
<1> HIDE DEF u
<1>9. out \ {l} = {}
  BY DEF out
<1>10. /\ u.queue = [h.queue EXCEPT ![l] = FreeLinks]
       /\ u.object = h.object /\ u.failed = h.failed
  BY <1>6, <1>8 DEF Lengthened
<1>11. u.nitems[FreeLinks] = h.nitems[FreeLinks] + 1
  <2>1. h.nitems[FreeLinks] = Len(c[FreeLinks])
    BY <1>1, Ends
  <2>2. b \in Heaps
    BY <1>4 DEF Rep
  <2>3. u.nitems[FreeLinks] = Len(c[FreeLinks]) + 1
    BY <1>1, <1>8, <2>2 DEF Lengthened, Heaps
  <2> QED BY <2>1, <2>3
<1> QED BY <1>3, <1>7, <1>9, <1>10, <1>11 DEF e, Removed

\* The fields of a link that is in no queue may be anything.
Reset(h, l, obj) ==
  [h EXCEPT !.next[l] = NoLink, !.prev[l] = NoLink,
            !.queue[l] = NoQueue, !.object[l] = obj]

LEMMA ResetLemma ==
  ASSUME NEW h, NEW c, NEW out, Rep(h, c, out), NEW l \in out, NEW obj \in Proc
  PROVE  /\ Rep(Reset(h, l, obj), c, out)
         /\ Reset(h, l, obj).failed = h.failed /\ Reset(h, l, obj).nitems = h.nitems
         /\ Reset(h, l, obj).queue = [h.queue EXCEPT ![l] = NoQueue]
         /\ Reset(h, l, obj).object = [h.object EXCEPT ![l] = obj]
<1>1. /\ h \in Heaps /\ c \in Chains /\ out \subseteq Links /\ l \in Links
      /\ \A q \in AllQueues : Linked(h, q, c[q]) /\ Distinct(c[q])
      /\ \A x \in Links \ out : \E q \in AllQueues : \E i \in 1 .. Len(c[q]) : c[q][i] = x
      /\ \A q \in AllQueues : \A i \in 1 .. Len(c[q]) : c[q][i] \notin out
  BY DEF Rep
<1>2. PICK next, prev, queue, object :
        /\ next = [h.next EXCEPT ![l] = NoLink] /\ prev = [h.prev EXCEPT ![l] = NoLink]
        /\ queue = [h.queue EXCEPT ![l] = NoQueue] /\ object = [h.object EXCEPT ![l] = obj]
  OBVIOUS
<1> DEFINE u == Reset(h, l, obj)
<1>3. u = [h EXCEPT !.next = next, !.prev = prev, !.queue = queue, !.object = object]
  BY <1>2 DEF Reset
<1>4. /\ next \in [Links -> LinkOrNone] /\ prev \in [Links -> LinkOrNone]
      /\ queue \in [Links -> AllQueues \cup {NoQueue}]
      /\ object \in [Links -> Proc \cup {NoProc}]
  BY <1>1, <1>2 DEF Heaps, LinkOrNone
<1> HIDE DEF u
<1>5. u \in Heaps
  BY <1>1, <1>3, <1>4 DEF Heaps
<1>6. /\ u.next = next /\ u.prev = prev /\ u.queue = queue /\ u.object = object
      /\ u.first = h.first /\ u.last = h.last /\ u.nitems = h.nitems
      /\ u.failed = h.failed
  BY <1>1, <1>3 DEF Heaps
<1>7. ASSUME NEW q \in AllQueues
      PROVE  Linked(u, q, c[q])
  <2>1. ASSUME NEW i \in 1 .. Len(c[q])
        PROVE  /\ u.queue[c[q][i]] = h.queue[c[q][i]]
               /\ u.next[c[q][i]] = h.next[c[q][i]] /\ u.prev[c[q][i]] = h.prev[c[q][i]]
    <3>1. c[q][i] \in Links /\ c[q][i] # l
      BY <1>1, Ends
    <3> QED BY <1>1, <1>2, <1>6, <3>1 DEF Heaps
  <2>2. Linked(h, q, c[q])
    BY <1>1
  <2> QED BY <1>6, <2>1, <2>2 DEF Linked
<1>8. Rep(u, c, out)
  BY <1>1, <1>5, <1>7 DEF Rep
<1> QED BY <1>2, <1>6, <1>8 DEF u

\* new is the answer of AQueueAllocLink, and l the link it took.
Allocated(new, h, c, obj, l) ==
  /\ new.link = l /\ l = c[FreeLinks][1] /\ l \in Links /\ 1 \in 1 .. Len(c[FreeLinks])
  /\ h.queue[l] = FreeLinks
  /\ Rep(new.heap, [c EXCEPT ![FreeLinks] = Without(c[FreeLinks], 1)], {l})
  /\ new.heap.failed = h.failed
  /\ new.heap.queue = [h.queue EXCEPT ![l] = NoQueue]
  /\ new.heap.object = [h.object EXCEPT ![l] = obj]
  /\ new.heap.nitems[FreeLinks] = h.nitems[FreeLinks] - 1

\* The first free link is in no queue afterwards (queue.c 88-120).
LEMMA AllocLemma ==
  ASSUME NEW h, NEW c, Rep(h, c, {}), h.nitems[FreeLinks] # 0, NEW obj \in Proc
  PROVE  Allocated(AQueueAllocLink(h, obj), h, c, obj, c[FreeLinks][1])
<1> DEFINE q == FreeLinks
           l == c[q][1]
           e == [c EXCEPT ![q] = Without(c[q], 1)]
           b == Detached(h, q, l)
           u == Reset(b, l, obj)
           new == AQueueAllocLink(h, obj)
<1>1. /\ q \in AllQueues /\ h \in Heaps /\ 1 \in 1 .. Len(c[q]) /\ l \in Links
      /\ l # NoLink /\ h.first[q] = l /\ h.queue[l] = q
  <2>1. q \in AllQueues
    BY DEF AllQueues
  <2> QED BY <2>1, Ends
<1>2. new = [heap |-> u, link |-> l]
  BY <1>1 DEF AQueueAllocLink, Reset
<1>3. Rep(b, e, {l})
  <2>1. Rep(b, e, {} \cup {l})
    BY <1>1, DetachLemma
  <2>2. {} \cup {l} = {l}
    OBVIOUS
  <2> HIDE DEF b, e, l
  <2> QED BY <2>1, <2>2
<1>4. Shortened(b, h, q, l)
  BY <1>1, DetachedFields
<1> HIDE DEF b, e
<1>5. /\ b.queue = h.queue /\ b.object = h.object /\ b.failed = h.failed
      /\ b.nitems[q] = h.nitems[q] - 1
  BY <1>1, <1>4 DEF Shortened, Heaps
<1>6. /\ Rep(u, e, {l}) /\ u.failed = b.failed /\ u.nitems = b.nitems
      /\ u.queue = [b.queue EXCEPT ![l] = NoQueue]
      /\ u.object = [b.object EXCEPT ![l] = obj]
  <2>1. l \in {l}
    OBVIOUS
  <2> QED BY <1>3, <2>1, ResetLemma
<1> HIDE DEF u, new
<1>7. new.heap = u /\ new.link = l
  BY <1>2
<1> QED BY <1>1, <1>5, <1>6, <1>7 DEF Allocated, new, e

\* u is h after a link was allocated for obj and put into q.
Entered(u, h, q, l, obj) ==
  /\ u.failed = h.failed
  /\ u.queue = [h.queue EXCEPT ![l] = q]
  /\ u.object = [h.object EXCEPT ![l] = obj]
  /\ u.nitems[FreeLinks] = h.nitems[FreeLinks] - 1

LEMMA EnteredFields ==
  ASSUME NEW h, NEW c, Rep(h, c, {}), NEW obj, NEW l, NEW new, NEW u,
         NEW s, NEW q \in Queues, Allocated(new, h, c, obj, l),
         Lengthened(u, new.heap, q, s, l) \/ Preceded(u, new.heap, q, s, l)
  PROVE  Entered(u, h, q, l, obj)
<1> DEFINE g == new.heap
<1>1. /\ g \in Heaps /\ h \in Heaps /\ g.failed = h.failed /\ l \in Links
      /\ g.queue = [h.queue EXCEPT ![l] = NoQueue]
      /\ g.object = [h.object EXCEPT ![l] = obj]
      /\ g.nitems[FreeLinks] = h.nitems[FreeLinks] - 1
  BY DEF Allocated, Rep
<1> HIDE DEF g
<1>2. /\ u.failed = g.failed /\ u.queue = [g.queue EXCEPT ![l] = q]
      /\ u.object = g.object /\ u.nitems = [g.nitems EXCEPT ![q] = Len(s) + 1]
  BY DEF Lengthened, Preceded, g
<1>3. u.queue = [h.queue EXCEPT ![l] = q]
  BY <1>1, <1>2 DEF Heaps
<1>4. u.nitems[FreeLinks] = g.nitems[FreeLinks]
  BY <1>1, <1>2, QueueAssumption DEF Heaps, AllQueues
<1> QED BY <1>1, <1>2, <1>3, <1>4 DEF Entered

\* The new link is the last one of q.
LEMMA AllocInsertLast ==
  ASSUME NEW h, NEW c, Rep(h, c, {}), h.nitems[FreeLinks] # 0,
         NEW obj \in Proc, NEW q \in Queues
  PROVE  LET new == AQueueAllocLink(h, obj)
             l == c[FreeLinks][1]
             u == AQueueInsertLast(new.heap, q, new.link)
             d == [[c EXCEPT ![FreeLinks] = Without(c[FreeLinks], 1)] EXCEPT
                     ![q] = Append(c[q], l)]
         IN  /\ new.link = l /\ l \in Links /\ h.queue[l] = FreeLinks
             /\ new.heap.failed = h.failed
             /\ Rep(u, d, {}) /\ Entered(u, h, q, l, obj)
<1> DEFINE new == AQueueAllocLink(h, obj)
           l == c[FreeLinks][1]
           e == [c EXCEPT ![FreeLinks] = Without(c[FreeLinks], 1)]
           u == AQueueInsertLast(new.heap, q, l)
<1>1. Allocated(new, h, c, obj, l)
  BY AllocLemma
<1>2. q \in AllQueues /\ q # FreeLinks /\ e[q] = c[q]
  BY QueueAssumption DEF AllQueues, Rep, Chains
<1>3. Rep(new.heap, e, {l}) /\ l \in {l} /\ {l} \ {l} = {}
  BY <1>1 DEF Allocated
<1> HIDE DEF new, e, l
<1>4. Rep(u, [e EXCEPT ![q] = Append(e[q], l)], {l} \ {l})
  BY <1>2, <1>3, InsertLastLemma
<1>5. Lengthened(u, new.heap, q, e[q], l)
  BY <1>2, <1>3, InsertLastFields
<1> HIDE DEF u
<1>6. Entered(u, h, q, l, obj)
  BY <1>1, <1>5, EnteredFields
<1>7. new.link = l /\ l \in Links /\ h.queue[l] = FreeLinks /\ new.heap.failed = h.failed
  BY <1>1 DEF Allocated
<1> QED BY <1>2, <1>3, <1>4, <1>6, <1>7 DEF new, e, l, u

\* The new link is the first one of q.
LEMMA AllocInsertFirst ==
  ASSUME NEW h, NEW c, Rep(h, c, {}), h.nitems[FreeLinks] # 0,
         NEW obj \in Proc, NEW q \in Queues
  PROVE  LET new == AQueueAllocLink(h, obj)
             l == c[FreeLinks][1]
             u == AQueueInsertFirst(new.heap, q, new.link)
             d == [[c EXCEPT ![FreeLinks] = Without(c[FreeLinks], 1)] EXCEPT
                     ![q] = <<l>> \o c[q]]
         IN  /\ new.link = l /\ l \in Links /\ h.queue[l] = FreeLinks
             /\ new.heap.failed = h.failed
             /\ Rep(u, d, {}) /\ Entered(u, h, q, l, obj)
<1> DEFINE new == AQueueAllocLink(h, obj)
           l == c[FreeLinks][1]
           e == [c EXCEPT ![FreeLinks] = Without(c[FreeLinks], 1)]
           u == AQueueInsertFirst(new.heap, q, l)
<1>1. Allocated(new, h, c, obj, l)
  BY AllocLemma
<1>2. q \in AllQueues /\ q # FreeLinks /\ e[q] = c[q]
  BY QueueAssumption DEF AllQueues, Rep, Chains
<1>3. Rep(new.heap, e, {l}) /\ l \in {l} /\ {l} \ {l} = {}
  BY <1>1 DEF Allocated
<1> HIDE DEF new, e, l
<1>4. Rep(u, [e EXCEPT ![q] = <<l>> \o e[q]], {l} \ {l})
  BY <1>2, <1>3, InsertFirstLemma
<1>5. Preceded(u, new.heap, q, e[q], l)
  BY <1>2, <1>3, InsertFirstFields
<1> HIDE DEF u
<1>6. Entered(u, h, q, l, obj)
  BY <1>1, <1>5, EnteredFields
<1>7. new.link = l /\ l \in Links /\ h.queue[l] = FreeLinks /\ new.heap.failed = h.failed
  BY <1>1 DEF Allocated
<1> QED BY <1>2, <1>3, <1>4, <1>6, <1>7 DEF new, e, l, u

\* Moving the first link of a queue behind the last one turns the queue by one
\* place, and leaves a queue of one link as it is (queue.c 250-284).
Turned(u, h, c, q) ==
  /\ Rep(u, [c EXCEPT ![q] = Append(Tail(c[q]), c[q][1])], {})
  /\ u.queue = h.queue /\ u.object = h.object /\ u.failed = h.failed
  /\ u.nitems[FreeLinks] = h.nitems[FreeLinks]

LEMMA MoveLemma ==
  ASSUME NEW h, NEW c, Rep(h, c, {}), NEW q \in Queues, Len(c[q]) # 0
  PROVE  Turned(AQueueMoveAfter(h, q, h.last[q], h.first[q]), h, c, q)
<1> DEFINE s == c[q]
           n == Len(c[q])
           l == c[q][1]
           t == Append(Tail(s), l)
           u == AQueueMoveAfter(h, q, h.last[q], h.first[q])
<1>1. /\ q \in AllQueues /\ q # FreeLinks /\ h \in Heaps /\ c \in Chains
      /\ s \in Seq(Links) /\ n \in Nat \ {0} /\ 1 \in 1 .. n /\ n \in 1 .. n
      /\ Distinct(s)
  BY QueueAssumption DEF AllQueues, Rep, Chains
<1>2. /\ h.first[q] = l /\ h.last[q] = s[n] /\ l \in Links /\ s[n] \in Links
      /\ h.queue[l] = q /\ h.queue[s[n]] = q /\ l # NoLink /\ s[n] # NoLink
  BY <1>1, Ends
<1>3. MovesWithin(h, q, s[n], l)
  BY <1>2 DEF MovesWithin
<1>4. CASE n = 1
  <2>1. u = h
    BY <1>2, <1>4 DEF AQueueMoveAfter
  <2>2. t = s
    <3>1. s = <<l>>
      BY <1>1, <1>4
    <3> HIDE DEF s, l
    <3>2. Append(Tail(<<l>>), l) = <<l>>
      OBVIOUS
    <3> QED BY <3>1, <3>2
  <2>3. [c EXCEPT ![q] = s] = c
    BY <1>1 DEF Chains
  <2> HIDE DEF u, t
  <2>4. [c EXCEPT ![q] = t] = c
    BY <2>2, <2>3
  <2> QED BY <2>1, <2>4 DEF u, t, Turned
<1>5. CASE n # 1
  <2> DEFINE b == Detached(h, q, l)
             e == [c EXCEPT ![q] = Without(c[q], 1)]
             v == AQueueInsertLast(b, q, l)
  <2>1. l # s[n]
    BY <1>1, <1>5 DEF Distinct
  <2>2. Rep(b, e, {l})
    <3>1. Rep(b, e, {} \cup {l}) /\ {} \cup {l} = {l}
      BY <1>1, DetachLemma
    <3> HIDE DEF b, e, l
    <3> QED BY <3>1
  <2>3. Shortened(b, h, q, l)
    BY <1>1, <1>2, DetachedFields
  <2> HIDE DEF b
  <2>4. /\ b.last[q] = s[n] /\ b.queue = h.queue /\ b.object = h.object
        /\ b.failed = h.failed /\ b.nitems[FreeLinks] = h.nitems[FreeLinks]
        /\ b \in Heaps
    <3>1. b.last = [h.last EXCEPT ![q] = IF h.last[q] = l THEN h.prev[l] ELSE h.last[q]]
      BY <2>3 DEF Shortened
    <3>2. b.last[q] = s[n]
      BY <1>1, <1>2, <2>1, <3>1 DEF Heaps
    <3>3. b.nitems = [h.nitems EXCEPT ![q] = h.nitems[q] - 1]
      BY <2>3 DEF Shortened
    <3>4. b.nitems[FreeLinks] = h.nitems[FreeLinks]
      BY <1>1, <3>3 DEF Heaps, AllQueues
    <3> QED BY <2>3, <3>2, <3>4 DEF Shortened
  <2>5. u = v
    BY <1>2, <1>3, <2>1, <2>4 DEF AQueueMoveAfter, AQueueInsertLast, b
  <2>6. e[q] = Tail(s)
    <3>1. Without(s, 1) = Tail(s)
      BY <1>1 DEF Without
    <3> QED BY <1>1, <3>1 DEF Chains
  <2>7. Rep(v, [e EXCEPT ![q] = Append(e[q], l)], {l} \ {l})
    BY <1>1, <2>2, InsertLastLemma
  <2>8. Lengthened(v, b, q, e[q], l)
    BY <1>1, <2>2, InsertLastFields
  <2> HIDE DEF v
  <2>9. [e EXCEPT ![q] = Append(e[q], l)] = [c EXCEPT ![q] = t]
    BY <1>1, <2>6 DEF Chains
  <2>10. /\ v.queue = h.queue /\ v.object = h.object /\ v.failed = h.failed
         /\ v.nitems[FreeLinks] = h.nitems[FreeLinks]
    <3>1. v.queue = [h.queue EXCEPT ![l] = q] /\ v.object = h.object /\ v.failed = h.failed
      BY <2>4, <2>8 DEF Lengthened
    <3>2. v.queue = h.queue
      BY <1>1, <1>2, <3>1 DEF Heaps
    <3>3. v.nitems = [b.nitems EXCEPT ![q] = Len(e[q]) + 1]
      BY <2>8 DEF Lengthened
    <3>4. v.nitems[FreeLinks] = h.nitems[FreeLinks]
      BY <1>1, <2>4, <3>3 DEF Heaps, AllQueues
    <3> QED BY <3>1, <3>2, <3>4
  <2>11. {l} \ {l} = {}
    OBVIOUS
  <2> HIDE DEF u, e, t, l
  <2> QED BY <2>5, <2>7, <2>9, <2>10, <2>11 DEF u, t, l, Turned
<1> QED BY <1>4, <1>5

-----------------------------------------------------------------------------
(* The process table: what the links of the PCBs are for.                  *)

Status == {"free", "runnable", "waiting", "zombie"}

\* The queue of processes that a status names.
QueueOf(status) ==
  IF status = "free" THEN "freepcbs"
  ELSE IF status = "runnable" THEN "runQueue"
  ELSE IF status = "waiting" THEN "waitQueue" ELSE "zombieQueue"

Kernels ==
  [heap : Heaps, link : [Proc -> LinkOrNone], status : [Proc -> Status],
   current : Proc \cup {NoProc}, halted : BOOLEAN]

\* The queues of the kernel are the sequences c.  Each process but those of
\* off has a link of its own, in the queue that its status names, and the
\* queues of processes hold no other link.
Good(k, c, off) ==
  /\ k \in Kernels /\ Rep(k.heap, c, {}) /\ ~k.heap.failed
  /\ \A p \in Proc \ off : /\ k.link[p] \in Links
                           /\ k.heap.object[k.link[p]] = p
                           /\ k.heap.queue[k.link[p]] = QueueOf(k.status[p])
  /\ \A l \in Links : k.heap.queue[l] \in ProcessQueues =>
                        /\ k.heap.object[l] \in Proc \ off
                        /\ k.link[k.heap.object[l]] = l
  /\ \A l \in Links : k.heap.queue[l] \in Waits => k.heap.object[l] \in Proc

\* The processes that the links of a sequence stand for.
Objs(h, s) == [i \in 1 .. Len(s) |-> h.object[s[i]]]
View(h, c) == [q \in ProcessQueues |-> Objs(h, c[q])]

\* The process that a link makes wait in an object, none for other links.
WaitLinks(h) == [l \in Links |-> IF h.queue[l] \in Waits THEN h.object[l] ELSE NoProc]

\* The queues of processes are v and the sleepers in objects are w.
State(k, v, w, off) ==
  \E c : Good(k, c, off) /\ v = View(k.heap, c) /\ w = WaitLinks(k.heap)

TakeOut(v, q, j) == [v EXCEPT ![q] = Without(v[q], j)]
PutLast(v, q, p) == [v EXCEPT ![q] = Append(v[q], p)]
PutFirst(v, q, p) == [v EXCEPT ![q] = <<p>> \o v[q]]

LEMMA QueueNames ==
  /\ ProcessQueues \subseteq Queues /\ Waits \subseteq Queues
  /\ Queues \subseteq AllQueues /\ FreeLinks \in AllQueues
  /\ FreeLinks \notin ProcessQueues /\ FreeLinks \notin Waits
  /\ NoQueue \notin AllQueues
  /\ \A q \in ProcessQueues : q \notin Waits
  /\ \A s : QueueOf(s) \in ProcessQueues
  BY QueuesAssumption, QueueAssumption DEF AllQueues, QueueOf, ProcessQueues

\* The links of a queue of processes are those of different processes.
LEMMA OwnLinks ==
  ASSUME NEW k, NEW c, NEW off, Good(k, c, off), NEW q \in ProcessQueues
  PROVE  /\ c[q] \in Seq(Links) /\ Len(c[q]) \in Nat /\ k.heap.nitems[q] = Len(c[q])
         /\ \A i \in 1 .. Len(c[q]) :
              /\ c[q][i] \in Links /\ k.heap.queue[c[q][i]] = q
              /\ k.heap.object[c[q][i]] \in Proc \ off
              /\ k.link[k.heap.object[c[q][i]]] = c[q][i]
         /\ \A i, j \in 1 .. Len(c[q]) :
              k.heap.object[c[q][i]] = k.heap.object[c[q][j]] => i = j
         /\ Len(c[q]) # 0 => k.heap.first[q] = c[q][1]
<1>1. q \in AllQueues /\ Rep(k.heap, c, {})
  BY QueueNames DEF Good
<1>2. /\ Linked(k.heap, q, c[q]) /\ Distinct(c[q])
      /\ \A l \in Links : k.heap.queue[l] \in ProcessQueues =>
                            /\ k.heap.object[l] \in Proc \ off
                            /\ k.link[k.heap.object[l]] = l
  BY <1>1 DEF Rep, Good
<1>3. /\ c[q] \in Seq(Links) /\ Len(c[q]) \in Nat /\ k.heap.nitems[q] = Len(c[q])
      /\ Len(c[q]) # 0 => k.heap.first[q] = c[q][1]
      /\ \A i \in 1 .. Len(c[q]) : c[q][i] \in Links
  BY <1>1, Ends
<1>4. ASSUME NEW i \in 1 .. Len(c[q])
      PROVE  /\ c[q][i] \in Links /\ k.heap.queue[c[q][i]] = q
             /\ k.heap.object[c[q][i]] \in Proc \ off
             /\ k.link[k.heap.object[c[q][i]]] = c[q][i]
  <2>1. c[q][i] \in Links /\ k.heap.queue[c[q][i]] = q
    BY <1>2, <1>3 DEF Linked
  <2> QED BY <1>2, <2>1
<1>5. ASSUME NEW i \in 1 .. Len(c[q]), NEW j \in 1 .. Len(c[q]),
             k.heap.object[c[q][i]] = k.heap.object[c[q][j]]
      PROVE  i = j
  <2>1. c[q][i] = c[q][j]
    BY <1>4, <1>5
  <2> QED BY <1>2, <2>1 DEF Distinct
<1> QED BY <1>3, <1>4, <1>5

\* The places of a queue of the view.
LEMMA ViewFacts ==
  ASSUME NEW k, NEW v, NEW w, NEW off, State(k, v, w, off)
  PROVE  /\ k \in Kernels /\ ~k.heap.failed
         /\ v \in [ProcessQueues -> Seq(Proc)] /\ w \in [Links -> Proc \cup {NoProc}]
         /\ \A q \in ProcessQueues :
              /\ k.heap.nitems[q] = Len(v[q])
              /\ Len(v[q]) # 0 => FirstObject(k, q) = v[q][1]
              /\ \A i \in 1 .. Len(v[q]) :
                   v[q][i] \in Proc \ off /\ QueueOf(k.status[v[q][i]]) = q
              /\ \A i, j \in 1 .. Len(v[q]) : v[q][i] = v[q][j] => i = j
<1>1. PICK c : Good(k, c, off) /\ v = View(k.heap, c) /\ w = WaitLinks(k.heap)
  BY DEF State
<1>2. /\ k \in Kernels /\ ~k.heap.failed
      /\ \A p \in Proc \ off : k.heap.queue[k.link[p]] = QueueOf(k.status[p])
      /\ \A l \in Links : k.heap.queue[l] \in Waits => k.heap.object[l] \in Proc
  BY <1>1 DEF Good
<1>3. w \in [Links -> Proc \cup {NoProc}]
  BY <1>1, <1>2 DEF WaitLinks
<1>4. ASSUME NEW q \in ProcessQueues
      PROVE  /\ v[q] \in Seq(Proc) /\ k.heap.nitems[q] = Len(v[q])
             /\ Len(v[q]) # 0 => FirstObject(k, q) = v[q][1]
             /\ \A i \in 1 .. Len(v[q]) :
                  v[q][i] \in Proc \ off /\ QueueOf(k.status[v[q][i]]) = q
             /\ \A i, j \in 1 .. Len(v[q]) : v[q][i] = v[q][j] => i = j
  <2>1. v[q] = [i \in 1 .. Len(c[q]) |-> k.heap.object[c[q][i]]]
    BY <1>1 DEF View, Objs
  <2>2. /\ Len(c[q]) \in Nat /\ k.heap.nitems[q] = Len(c[q])
        /\ \A i \in 1 .. Len(c[q]) :
             /\ c[q][i] \in Links /\ k.heap.queue[c[q][i]] = q
             /\ k.heap.object[c[q][i]] \in Proc \ off
             /\ k.link[k.heap.object[c[q][i]]] = c[q][i]
        /\ \A i, j \in 1 .. Len(c[q]) :
             k.heap.object[c[q][i]] = k.heap.object[c[q][j]] => i = j
        /\ Len(c[q]) # 0 => k.heap.first[q] = c[q][1]
    BY <1>1, OwnLinks
  <2>3. v[q] \in Seq(Proc) /\ Len(v[q]) = Len(c[q])
    BY <2>1, <2>2
  <2>4. \A i \in 1 .. Len(v[q]) : /\ v[q][i] = k.heap.object[c[q][i]]
                                  /\ v[q][i] \in Proc \ off
                                  /\ QueueOf(k.status[v[q][i]]) = q
    BY <1>2, <2>1, <2>2, <2>3
  <2>5. Len(v[q]) # 0 => FirstObject(k, q) = v[q][1]
    BY <2>1, <2>2, <2>3 DEF FirstObject
  <2> QED BY <2>2, <2>3, <2>4, <2>5
<1>5. v \in [ProcessQueues -> Seq(Proc)]
  BY <1>1, <1>4 DEF View
<1> QED BY <1>2, <1>3, <1>4, <1>5

\* AQueueRemove(&pcb->l) takes the process out of the queue that its status
\* names; the others keep their order, and a link is free.
Left(u, k, v, w, off, p, q) ==
  /\ \E j \in 1 .. Len(v[q]) :
       v[q][j] = p /\ State(u, TakeOut(v, q, j), w, off \cup {p})
  /\ u.status = k.status /\ u.current = k.current /\ u.halted = k.halted
  /\ u.heap.nitems[FreeLinks] = k.heap.nitems[FreeLinks] + 1

LEMMA LeaveLemma ==
  ASSUME NEW k, NEW v, NEW w, NEW off, State(k, v, w, off), NEW p \in Proc \ off
  PROVE  Left(Leave(k, p), k, v, w, off, p, QueueOf(k.status[p]))
<1> DEFINE q == QueueOf(k.status[p])
           l == k.link[p]
           h == k.heap
           g == AQueueRemove(h, l)
           u == Leave(k, p)
<1>1. PICK c : Good(k, c, off) /\ v = View(h, c) /\ w = WaitLinks(h)
  BY DEF State
<1>2. /\ k \in Kernels /\ h \in Heaps /\ Rep(h, c, {}) /\ ~h.failed /\ c \in Chains
      /\ l \in Links /\ h.object[l] = p /\ h.queue[l] = q
      /\ q \in ProcessQueues /\ q \in Queues /\ q \in AllQueues /\ q # FreeLinks
  BY <1>1, QueueNames DEF Good, Rep
<1>3. PICK j \in 1 .. Len(c[q]) : c[q][j] = l
  <2>1. PICK r \in AllQueues : \E i \in 1 .. Len(c[r]) : c[r][i] = l
    BY <1>2 DEF Rep
  <2>2. h.queue[l] = r
    BY <1>2, <2>1 DEF Rep, Linked
  <2> QED BY <1>2, <2>1, <2>2
<1> DEFINE d == [[c EXCEPT ![q] = Without(c[q], j)] EXCEPT
                   ![FreeLinks] = Append(c[FreeLinks], l)]
<1> HIDE DEF q
<1>4. /\ Rep(g, d, {}) /\ g.queue = [h.queue EXCEPT ![l] = FreeLinks]
      /\ g.object = h.object /\ g.failed = h.failed
      /\ g.nitems[FreeLinks] = h.nitems[FreeLinks] + 1
  <2>1. Removed(g, h, c, q, j)
    BY <1>2, <1>3, RemoveLemma
  <2> HIDE DEF g, h, l
  <2> QED BY <1>3, <2>1 DEF Removed
<1>4a. d[q] = Without(c[q], j) /\ \A r \in ProcessQueues : r # q => d[r] = c[r]
  BY <1>2, QueueNames DEF Chains
<1> HIDE DEF d
<1>5. u = [k EXCEPT !.heap = g, !.link = [k.link EXCEPT ![p] = NoLink]]
  BY DEF Leave
<1> HIDE DEF u, g
<1>6. /\ u \in Kernels /\ u.heap = g /\ u.link = [k.link EXCEPT ![p] = NoLink]
      /\ u.status = k.status /\ u.current = k.current /\ u.halted = k.halted
  <2>1. g \in Heaps
    BY <1>4 DEF Rep
  <2> QED BY <1>2, <1>5, <2>1 DEF Kernels, LinkOrNone
<1>7. \A x \in Links : g.queue[x] = IF x = l THEN FreeLinks ELSE h.queue[x]
  BY <1>2, <1>4 DEF Heaps
<1>8. Good(u, d, off \cup {p})
  <2>1. ASSUME NEW x \in Proc \ (off \cup {p})
        PROVE  /\ u.link[x] \in Links /\ g.object[u.link[x]] = x
               /\ g.queue[u.link[x]] = QueueOf(u.status[x])
    <3>1. /\ k.link[x] \in Links /\ h.object[k.link[x]] = x
          /\ h.queue[k.link[x]] = QueueOf(k.status[x])
      BY <1>1 DEF Good
    <3>2. u.link[x] = k.link[x]
      BY <1>2, <1>6 DEF Kernels
    <3>3. k.link[x] # l
      BY <1>2, <3>1
    <3> QED BY <1>4, <1>6, <1>7, <3>1, <3>2, <3>3
  <2>2. ASSUME NEW x \in Links, g.queue[x] \in ProcessQueues
        PROVE  g.object[x] \in Proc \ (off \cup {p}) /\ u.link[g.object[x]] = x
    <3>1. x # l /\ h.queue[x] \in ProcessQueues
      BY <1>7, <2>2, QueueNames
    <3>2. h.object[x] \in Proc \ off /\ k.link[h.object[x]] = x
      BY <1>1, <3>1 DEF Good
    <3>3. h.object[x] # p
      BY <3>1, <3>2
    <3> QED BY <1>2, <1>4, <1>6, <3>2, <3>3 DEF Kernels
  <2>3. ASSUME NEW x \in Links, g.queue[x] \in Waits
        PROVE  g.object[x] \in Proc
    BY <1>1, <1>4, <1>7, <2>3, QueueNames DEF Good
  <2> QED BY <1>2, <1>4, <1>6, <2>1, <2>2, <2>3 DEF Good
<1>9. WaitLinks(g) = w
  <2>1. \A x \in Links : (g.queue[x] \in Waits <=> h.queue[x] \in Waits)
    BY <1>2, <1>7, QueueNames
  <2> QED BY <1>1, <1>4, <2>1 DEF WaitLinks
<1>10. /\ v[q] = Objs(h, c[q]) /\ Len(v[q]) = Len(c[q]) /\ Len(c[q]) \in Nat
       /\ c[q] \in Seq(Links) /\ v \in [ProcessQueues -> Seq(Proc)]
  <2>1. c[q] \in Seq(Links) /\ Len(c[q]) \in Nat
    BY <1>2 DEF Chains
  <2> QED BY <1>1, <1>2, <2>1, ViewFacts DEF View, Objs
<1>11. v[q][j] = p
  BY <1>2, <1>3, <1>10 DEF Objs
<1>12. View(g, d) = [v EXCEPT ![q] = Without(v[q], j)]
  <2>1. ASSUME NEW r \in ProcessQueues
        PROVE  Objs(g, d[r]) = IF r = q THEN Without(v[q], j) ELSE v[r]
    <3>1. CASE r # q
      <4>1. d[r] = c[r]
        BY <1>4a, <3>1
      <4> QED BY <1>1, <1>4, <3>1, <4>1 DEF View, Objs
    <3>2. CASE r = q
      <4>1. d[r] = Without(c[q], j)
        BY <1>4a, <3>2
      <4>2. /\ Len(d[r]) = Len(c[q]) - 1
            /\ \A i \in 1 .. Len(c[q]) - 1 :
                 d[r][i] = IF i < j THEN c[q][i] ELSE c[q][i + 1]
        BY <1>3, <1>10, <4>1, WithoutLemma
      <4>3. \A i \in 1 .. Len(c[q]) - 1 :
              g.object[d[r][i]] = IF i < j THEN v[q][i] ELSE v[q][i + 1]
        <5>1. \A i \in 1 .. Len(c[q]) : g.object[c[q][i]] = v[q][i]
          BY <1>4, <1>10 DEF Objs
        <5>2. \A i \in 1 .. Len(c[q]) - 1 : i \in 1 .. Len(c[q]) /\ i + 1 \in 1 .. Len(c[q])
          BY <1>3
        <5> QED BY <4>2, <5>1, <5>2
      <4>4. Objs(g, d[r]) = [i \in 1 .. Len(c[q]) - 1 |-> g.object[d[r][i]]]
        BY <4>2 DEF Objs
      <4>5. Without(v[q], j)
              = [i \in 1 .. Len(c[q]) - 1 |-> IF i < j THEN v[q][i] ELSE v[q][i + 1]]
        BY <1>10 DEF Without
      <4> QED BY <3>2, <4>3, <4>4, <4>5
    <3> QED BY <3>1, <3>2
  <2> QED BY <1>2, <1>10, <2>1 DEF View
<1>13. State(u, [v EXCEPT ![q] = Without(v[q], j)], w, off \cup {p})
  BY <1>6, <1>8, <1>9, <1>12 DEF State
<1> QED BY <1>3, <1>4, <1>6, <1>10, <1>11, <1>13 DEF u, q, h, Left, TakeOut

\* A process that was on no queue gets a link in the one its status names.
InQueueNow(u, g, d, k, off, p, l) ==
  /\ Good(u, d, off \ {p}) /\ WaitLinks(g) = WaitLinks(k.heap)
  /\ u.heap = g /\ u.status = k.status /\ u.current = k.current
  /\ u.halted = k.halted
  /\ g.nitems[FreeLinks] = k.heap.nitems[FreeLinks] - 1
  /\ \A x \in Links : k.heap.queue[x] # FreeLinks => g.object[x] = k.heap.object[x]
  /\ g.object[l] = p

LEMMA EnteredKernel ==
  ASSUME NEW k, NEW c, NEW off, Good(k, c, off), NEW p \in Proc, p \in off,
         NEW l \in Links, k.heap.queue[l] = FreeLinks,
         NEW g, NEW d, Rep(g, d, {}), Entered(g, k.heap, QueueOf(k.status[p]), l, p),
         NEW u, u = [k EXCEPT !.heap = g, !.link[p] = l]
  PROVE  InQueueNow(u, g, d, k, off, p, l)
<1> DEFINE h == k.heap
           q == QueueOf(k.status[p])
<1>1. /\ k \in Kernels /\ h \in Heaps /\ ~h.failed /\ q \in ProcessQueues /\ q \in AllQueues
      /\ h.queue[l] = FreeLinks
  BY QueueNames DEF Good, Rep
<1> HIDE DEF q
<1>2. /\ g \in Heaps /\ g.failed = h.failed
      /\ g.queue = [h.queue EXCEPT ![l] = q] /\ g.object = [h.object EXCEPT ![l] = p]
      /\ g.nitems[FreeLinks] = h.nitems[FreeLinks] - 1
  BY DEF Entered, Rep, q
<1> HIDE DEF h
<1>3. \A x \in Links : /\ g.queue[x] = IF x = l THEN q ELSE h.queue[x]
                       /\ g.object[x] = IF x = l THEN p ELSE h.object[x]
  BY <1>1, <1>2 DEF Heaps
<1>5. /\ u \in Kernels /\ u.heap = g /\ u.link = [k.link EXCEPT ![p] = l]
      /\ u.status = k.status /\ u.current = k.current /\ u.halted = k.halted
  <2>1. PICK link : link = [k.link EXCEPT ![p] = l]
    OBVIOUS
  <2>2. u = [k EXCEPT !.heap = g, !.link = link]
    BY <2>1
  <2>3. link \in [Proc -> LinkOrNone]
    BY <1>1, <2>1 DEF Kernels, LinkOrNone
  <2>4. u \in Kernels
    BY <1>1, <1>2, <2>2, <2>3 DEF Kernels
  <2> QED BY <1>1, <2>1, <2>2, <2>4 DEF Kernels
<1>6. \A x \in Proc : u.link[x] = IF x = p THEN l ELSE k.link[x]
  BY <1>1, <1>5 DEF Kernels
<1>7. ASSUME NEW x \in Proc \ (off \ {p})
      PROVE  /\ u.link[x] \in Links /\ g.object[u.link[x]] = x
             /\ g.queue[u.link[x]] = QueueOf(u.status[x])
  <2>1. CASE x = p
    BY <1>3, <1>5, <1>6, <2>1 DEF q
  <2>2. CASE x # p
    <3>1. x \in Proc \ off
      BY <2>2
    <3>2. /\ k.link[x] \in Links /\ h.object[k.link[x]] = x
          /\ h.queue[k.link[x]] = QueueOf(k.status[x])
      BY <3>1 DEF Good, h
    <3>3. k.link[x] # l
      BY <1>1, <3>2, QueueNames
    <3> QED BY <1>3, <1>5, <1>6, <2>2, <3>2, <3>3
  <2> QED BY <2>1, <2>2
<1>8. ASSUME NEW x \in Links, g.queue[x] \in ProcessQueues
      PROVE  g.object[x] \in Proc \ (off \ {p}) /\ u.link[g.object[x]] = x
  <2>1. CASE x = l
    BY <1>3, <1>6, <2>1
  <2>2. CASE x # l
    <3>1. h.queue[x] \in ProcessQueues /\ g.object[x] = h.object[x]
      BY <1>3, <1>8, <2>2
    <3>2. h.object[x] \in Proc \ off /\ k.link[h.object[x]] = x
      BY <3>1 DEF Good, h
    <3> QED BY <1>6, <3>1, <3>2
  <2> QED BY <2>1, <2>2
<1>9. \A x \in Links : /\ (g.queue[x] \in Waits <=> h.queue[x] \in Waits)
                       /\ g.queue[x] \in Waits => g.object[x] = h.object[x]
  BY <1>1, <1>3, QueueNames
<1>10. ASSUME NEW x \in Links, g.queue[x] \in Waits
       PROVE  g.object[x] \in Proc
  <2>1. h.queue[x] \in Waits
    BY <1>9, <1>10
  <2>2. h.object[x] \in Proc
    BY <2>1 DEF Good, h
  <2> QED BY <1>9, <1>10, <2>2
<1>11. WaitLinks(g) = WaitLinks(h)
  BY <1>9 DEF WaitLinks
<1>12. Good(u, d, off \ {p})
  <2>1. u \in Kernels /\ Rep(u.heap, d, {}) /\ ~u.heap.failed
    BY <1>1, <1>2, <1>5
  <2>2. \A x \in Proc \ (off \ {p}) : /\ u.link[x] \in Links
                                     /\ u.heap.object[u.link[x]] = x
                                     /\ u.heap.queue[u.link[x]] = QueueOf(u.status[x])
    BY <1>5, <1>7
  <2>3. \A x \in Links : u.heap.queue[x] \in ProcessQueues =>
                            /\ u.heap.object[x] \in Proc \ (off \ {p})
                            /\ u.link[u.heap.object[x]] = x
    BY <1>5, <1>8
  <2>4. \A x \in Links : u.heap.queue[x] \in Waits => u.heap.object[x] \in Proc
    BY <1>5, <1>10
  <2> QED BY <2>1, <2>2, <2>3, <2>4 DEF Good
<1>13. \A x \in Links : h.queue[x] # FreeLinks => g.object[x] = h.object[x]
  BY <1>1, <1>3
<1> QED BY <1>2, <1>3, <1>5, <1>11, <1>12, <1>13 DEF h, InQueueNow

LEMMA LeaveKernel ==
  ASSUME NEW k, NEW v, NEW w, State(k, v, w, {}), NEW p \in Proc
  PROVE  Leave(k, p) \in Kernels
<1>1. p \in Proc \ {}
  OBVIOUS
<1>2. Left(Leave(k, p), k, v, w, {}, p, QueueOf(k.status[p]))
  BY <1>1, LeaveLemma
<1>3. PICK v2 : State(Leave(k, p), v2, w, {} \cup {p})
  BY <1>2 DEF Left
<1> QED BY <1>3, ViewFacts

\* u is k with the queues v, and with one link less that is free.
Joined(u, k, v, w, off) ==
  /\ State(u, v, w, off)
  /\ u.status = k.status /\ u.current = k.current /\ u.halted = k.halted
  /\ u.heap.nitems[FreeLinks] = k.heap.nitems[FreeLinks] - 1

\* The new link is at the end of the queue: the process is its last.
LEMMA EnterLastLemma ==
  ASSUME NEW k, NEW v, NEW w, NEW off, State(k, v, w, off),
         NEW p \in Proc, p \in off, k.heap.nitems[FreeLinks] # 0
  PROVE  Joined(EnterLast(k, p, QueueOf(k.status[p])), k,
                PutLast(v, QueueOf(k.status[p]), p), w, off \ {p})
<1> DEFINE q == QueueOf(k.status[p])
           h == k.heap
           new == AQueueAllocLink(h, p)
           g == AQueueInsertLast(new.heap, q, new.link)
           u == EnterLast(k, p, q)
<1>1. PICK c : Good(k, c, off) /\ v = View(h, c) /\ w = WaitLinks(h)
  BY DEF State
<1> DEFINE l == c[FreeLinks][1]
           d == [[c EXCEPT ![FreeLinks] = Without(c[FreeLinks], 1)] EXCEPT
                   ![q] = Append(c[q], l)]
<1>2. q \in ProcessQueues /\ q \in Queues /\ Rep(h, c, {}) /\ ~h.failed /\ c \in Chains
  BY <1>1, QueueNames DEF Good, Rep
<1>3. /\ new.link = l /\ l \in Links /\ h.queue[l] = FreeLinks
      /\ new.heap.failed = h.failed /\ Rep(g, d, {}) /\ Entered(g, h, q, l, p)
  BY <1>2, AllocInsertLast
<1>4. u = [k EXCEPT !.heap = g, !.link[p] = l]
  BY <1>2, <1>3 DEF EnterLast
<1>5. d[q] = Append(c[q], l) /\ \A r \in ProcessQueues : r # q => d[r] = c[r]
  BY <1>2, QueueNames DEF Chains
<1> HIDE DEF u, g, d, l
<1>6. /\ Good(u, d, off \ {p}) /\ WaitLinks(g) = WaitLinks(h)
      /\ u.heap = g /\ u.status = k.status /\ u.current = k.current
      /\ u.halted = k.halted
      /\ g.nitems[FreeLinks] = h.nitems[FreeLinks] - 1
      /\ \A x \in Links : h.queue[x] # FreeLinks => g.object[x] = h.object[x]
      /\ g.object[l] = p
  <2>1. InQueueNow(u, g, d, k, off, p, l)
    BY <1>1, <1>3, <1>4, EnteredKernel
  <2> QED BY <2>1 DEF InQueueNow
<1> HIDE DEF q, h
<1>7. ASSUME NEW r \in ProcessQueues
      PROVE  /\ c[r] \in Seq(Links) /\ Len(c[r]) \in Nat
             /\ v[r] \in Seq(Proc) /\ Len(v[r]) = Len(c[r])
             /\ \A i \in 1 .. Len(c[r]) : v[r][i] = g.object[c[r][i]]
  <2>1. v[r] = [i \in 1 .. Len(c[r]) |-> h.object[c[r][i]]]
    BY <1>1 DEF View, Objs
  <2>2. /\ c[r] \in Seq(Links) /\ Len(c[r]) \in Nat
        /\ \A i \in 1 .. Len(c[r]) : c[r][i] \in Links /\ h.queue[c[r][i]] = r
    BY <1>1, OwnLinks DEF h
  <2>3. \A i \in 1 .. Len(c[r]) : g.object[c[r][i]] = h.object[c[r][i]]
    BY <1>6, <2>2, QueueNames
  <2>4. v[r] \in Seq(Proc)
    BY ViewFacts
  <2>5. Len(v[r]) = Len(c[r])
    BY <2>1, <2>2, <2>4
  <2> QED BY <2>1, <2>2, <2>3, <2>4, <2>5
<1>8. View(g, d) = [v EXCEPT ![q] = Append(v[q], p)]
  <2>1. ASSUME NEW r \in ProcessQueues
        PROVE  [i \in 1 .. Len(d[r]) |-> g.object[d[r][i]]]
                 = IF r = q THEN Append(v[q], p) ELSE v[r]
    <3>1. CASE r # q
      <4>1. /\ d[r] = c[r] /\ Len(v[r]) = Len(c[r]) /\ v[r] \in Seq(Proc)
            /\ \A i \in 1 .. Len(c[r]) : v[r][i] = g.object[c[r][i]]
        BY <1>5, <1>7, <3>1
      <4> QED BY <3>1, <4>1
    <3>2. CASE r = q
      <4>1. /\ Len(d[r]) = Len(c[q]) + 1
            /\ \A i \in 1 .. Len(d[r]) :
                 d[r][i] = IF i = Len(c[q]) + 1 THEN l ELSE c[q][i]
        BY <1>2, <1>5, <1>7, <3>2
      <4>2. /\ v[q] \in Seq(Proc) /\ Len(v[q]) = Len(c[q]) /\ Len(c[q]) \in Nat
            /\ \A i \in 1 .. Len(c[q]) : v[q][i] = g.object[c[q][i]]
        BY <1>2, <1>7
      <4>3. \A i \in 1 .. Len(c[q]) + 1 :
              g.object[d[r][i]] = IF i = Len(c[q]) + 1 THEN p ELSE v[q][i]
        <5>1. \A i \in 1 .. Len(c[q]) + 1 :
                d[r][i] = IF i = Len(c[q]) + 1 THEN l ELSE c[q][i]
          BY <4>1
        <5>2. \A i \in 1 .. Len(c[q]) + 1 : i # Len(c[q]) + 1 => i \in 1 .. Len(c[q])
          BY <4>2
        <5> HIDE DEF d, g
        <5> QED BY <1>6, <4>2, <5>1, <5>2
      <4> DEFINE a == Append(v[q], p)
      <4>4. /\ a \in Seq(Proc) /\ Len(a) = Len(c[q]) + 1
            /\ \A i \in 1 .. Len(c[q]) + 1 :
                 a[i] = IF i = Len(c[q]) + 1 THEN p ELSE v[q][i]
        BY <4>2
      <4> HIDE DEF a
      <4>5. \A i \in 1 .. Len(d[r]) : g.object[d[r][i]] = a[i]
        BY <4>1, <4>2, <4>3, <4>4
      <4>6. a = [i \in 1 .. Len(d[r]) |-> a[i]]
        BY <4>1, <4>4
      <4> QED BY <3>2, <4>5, <4>6 DEF a
    <3> QED BY <3>1, <3>2
  <2>2. v \in [ProcessQueues -> Seq(Proc)]
    BY ViewFacts
  <2>3. View(g, d) = [r \in ProcessQueues |-> [i \in 1 .. Len(d[r]) |-> g.object[d[r][i]]]]
    BY DEF View, Objs
  <2> QED BY <1>2, <2>1, <2>2, <2>3
<1>9. State(u, [v EXCEPT ![q] = Append(v[q], p)], w, off \ {p})
  BY <1>1, <1>6, <1>8 DEF State
<1> QED BY <1>6, <1>9 DEF u, q, h, Joined, PutLast, PutFirst

\* The new link is at the front of the queue: the process is its first.
LEMMA EnterFirstLemma ==
  ASSUME NEW k, NEW v, NEW w, NEW off, State(k, v, w, off),
         NEW p \in Proc, p \in off, k.heap.nitems[FreeLinks] # 0
  PROVE  Joined(EnterFirst(k, p, QueueOf(k.status[p])), k,
                PutFirst(v, QueueOf(k.status[p]), p), w, off \ {p})
<1> DEFINE q == QueueOf(k.status[p])
           h == k.heap
           new == AQueueAllocLink(h, p)
           g == AQueueInsertFirst(new.heap, q, new.link)
           u == EnterFirst(k, p, q)
<1>1. PICK c : Good(k, c, off) /\ v = View(h, c) /\ w = WaitLinks(h)
  BY DEF State
<1> DEFINE l == c[FreeLinks][1]
           d == [[c EXCEPT ![FreeLinks] = Without(c[FreeLinks], 1)] EXCEPT
                   ![q] = <<l>> \o c[q]]
<1>2. q \in ProcessQueues /\ q \in Queues /\ Rep(h, c, {}) /\ ~h.failed /\ c \in Chains
  BY <1>1, QueueNames DEF Good, Rep
<1>3. /\ new.link = l /\ l \in Links /\ h.queue[l] = FreeLinks
      /\ new.heap.failed = h.failed /\ Rep(g, d, {}) /\ Entered(g, h, q, l, p)
  BY <1>2, AllocInsertFirst
<1>4. u = [k EXCEPT !.heap = g, !.link[p] = l]
  BY <1>2, <1>3 DEF EnterFirst
<1>5. d[q] = <<l>> \o c[q] /\ \A r \in ProcessQueues : r # q => d[r] = c[r]
  BY <1>2, QueueNames DEF Chains
<1> HIDE DEF u, g, d, l
<1>6. /\ Good(u, d, off \ {p}) /\ WaitLinks(g) = WaitLinks(h)
      /\ u.heap = g /\ u.status = k.status /\ u.current = k.current
      /\ u.halted = k.halted
      /\ g.nitems[FreeLinks] = h.nitems[FreeLinks] - 1
      /\ \A x \in Links : h.queue[x] # FreeLinks => g.object[x] = h.object[x]
      /\ g.object[l] = p
  <2>1. InQueueNow(u, g, d, k, off, p, l)
    BY <1>1, <1>3, <1>4, EnteredKernel
  <2> QED BY <2>1 DEF InQueueNow
<1> HIDE DEF q, h
<1>7. ASSUME NEW r \in ProcessQueues
      PROVE  /\ c[r] \in Seq(Links) /\ Len(c[r]) \in Nat
             /\ v[r] \in Seq(Proc) /\ Len(v[r]) = Len(c[r])
             /\ \A i \in 1 .. Len(c[r]) : v[r][i] = g.object[c[r][i]]
  <2>1. v[r] = [i \in 1 .. Len(c[r]) |-> h.object[c[r][i]]]
    BY <1>1 DEF View, Objs
  <2>2. /\ c[r] \in Seq(Links) /\ Len(c[r]) \in Nat
        /\ \A i \in 1 .. Len(c[r]) : c[r][i] \in Links /\ h.queue[c[r][i]] = r
    BY <1>1, OwnLinks DEF h
  <2>3. \A i \in 1 .. Len(c[r]) : g.object[c[r][i]] = h.object[c[r][i]]
    BY <1>6, <2>2, QueueNames
  <2>4. v[r] \in Seq(Proc)
    BY ViewFacts
  <2>5. Len(v[r]) = Len(c[r])
    BY <2>1, <2>2, <2>4
  <2> QED BY <2>1, <2>2, <2>3, <2>4, <2>5
<1>8. View(g, d) = [v EXCEPT ![q] = <<p>> \o v[q]]
  <2>1. ASSUME NEW r \in ProcessQueues
        PROVE  [i \in 1 .. Len(d[r]) |-> g.object[d[r][i]]]
                 = IF r = q THEN <<p>> \o v[q] ELSE v[r]
    <3>1. CASE r # q
      <4>1. /\ d[r] = c[r] /\ Len(v[r]) = Len(c[r]) /\ v[r] \in Seq(Proc)
            /\ \A i \in 1 .. Len(c[r]) : v[r][i] = g.object[c[r][i]]
        BY <1>5, <1>7, <3>1
      <4> QED BY <3>1, <4>1
    <3>2. CASE r = q
      <4>1. /\ Len(d[r]) = Len(c[q]) + 1
            /\ \A i \in 1 .. Len(d[r]) :
                 d[r][i] = IF i = 1 THEN l ELSE c[q][i - 1]
        BY <1>2, <1>5, <1>7, <3>2
      <4>2. /\ v[q] \in Seq(Proc) /\ Len(v[q]) = Len(c[q]) /\ Len(c[q]) \in Nat
            /\ \A i \in 1 .. Len(c[q]) : v[q][i] = g.object[c[q][i]]
        BY <1>2, <1>7
      <4>3. \A i \in 1 .. Len(c[q]) + 1 :
              g.object[d[r][i]] = IF i = 1 THEN p ELSE v[q][i - 1]
        <5>1. \A i \in 1 .. Len(c[q]) + 1 : i # 1 => i - 1 \in 1 .. Len(c[q])
          BY <4>2
        <5> QED BY <1>6, <4>1, <4>2, <5>1
      <4> DEFINE a == <<p>> \o v[q]
      <4>4. /\ a \in Seq(Proc) /\ Len(a) = Len(c[q]) + 1
            /\ \A i \in 1 .. Len(c[q]) + 1 :
                 a[i] = IF i = 1 THEN p ELSE v[q][i - 1]
        BY <4>2
      <4> HIDE DEF a
      <4>5. \A i \in 1 .. Len(d[r]) : g.object[d[r][i]] = a[i]
        BY <4>1, <4>2, <4>3, <4>4
      <4>6. a = [i \in 1 .. Len(d[r]) |-> a[i]]
        BY <4>1, <4>4
      <4> QED BY <3>2, <4>5, <4>6 DEF a
    <3> QED BY <3>1, <3>2
  <2>2. v \in [ProcessQueues -> Seq(Proc)]
    BY ViewFacts
  <2>3. View(g, d) = [r \in ProcessQueues |-> [i \in 1 .. Len(d[r]) |-> g.object[d[r][i]]]]
    BY DEF View, Objs
  <2> QED BY <1>2, <2>1, <2>2, <2>3
<1>9. State(u, [v EXCEPT ![q] = <<p>> \o v[q]], w, off \ {p})
  BY <1>1, <1>6, <1>8 DEF State
<1> QED BY <1>6, <1>9 DEF u, q, h, Joined, PutLast, PutFirst

-----------------------------------------------------------------------------
(* A process changes its queue and its status.                             *)

\* u is k with the queues v and the status s for p.
Moved(u, k, v, w, p, s) ==
  /\ State(u, v, w, {}) /\ u.status = [k.status EXCEPT ![p] = s]
  /\ u.current = k.current /\ u.halted = k.halted

LEMMA SetStatusLemma ==
  ASSUME NEW k, NEW v, NEW w, NEW off, State(k, v, w, off),
         NEW p \in Proc, p \in off, NEW s \in Status
  PROVE  LET u == SetStatus(k, p, s) IN
         /\ State(u, v, w, off) /\ u.status = [k.status EXCEPT ![p] = s]
         /\ u.status[p] = s /\ u.heap = k.heap
         /\ u.current = k.current /\ u.halted = k.halted
<1> DEFINE u == SetStatus(k, p, s)
<1>1. PICK c : Good(k, c, off) /\ v = View(k.heap, c) /\ w = WaitLinks(k.heap)
  BY DEF State
<1>2. PICK status : status = [k.status EXCEPT ![p] = s]
  OBVIOUS
<1>3. k \in Kernels
  BY <1>1 DEF Good
<1>4. status \in [Proc -> Status] /\ status[p] = s
      /\ \A x \in Proc : x # p => status[x] = k.status[x]
  BY <1>2, <1>3 DEF Kernels
<1>5. u = [k EXCEPT !.status = status]
  BY <1>2 DEF SetStatus
<1> HIDE DEF u
<1>6. /\ u \in Kernels /\ u.heap = k.heap /\ u.link = k.link /\ u.status = status
      /\ u.current = k.current /\ u.halted = k.halted
  BY <1>3, <1>4, <1>5 DEF Kernels
<1>7. ASSUME NEW x \in Proc \ off
      PROVE  u.status[x] = k.status[x]
  BY <1>4, <1>6
<1>8. Good(u, c, off)
  <2>1. \A x \in Proc \ off : /\ u.link[x] \in Links /\ u.heap.object[u.link[x]] = x
                              /\ u.heap.queue[u.link[x]] = QueueOf(u.status[x])
    BY <1>1, <1>6, <1>7 DEF Good
  <2> QED BY <1>1, <1>6, <2>1 DEF Good
<1>9. State(u, v, w, off)
  BY <1>1, <1>6, <1>8 DEF State
<1> QED BY <1>2, <1>4, <1>6, <1>9 DEF u

\* The routines that set the status first do the same.
LEMMA StatusFirst ==
  ASSUME NEW k \in Kernels, NEW p \in Proc, NEW s \in Status
  PROVE  Leave(SetStatus(k, p, s), p) = SetStatus(Leave(k, p), p, s)
<1>1. PICK status, link, g :
        /\ status = [k.status EXCEPT ![p] = s] /\ link = [k.link EXCEPT ![p] = NoLink]
        /\ g = AQueueRemove(k.heap, k.link[p])
  OBVIOUS
<1>2. SetStatus(k, p, s) = [k EXCEPT !.status = status]
  BY <1>1 DEF SetStatus
<1>3. Leave(k, p) = [k EXCEPT !.heap = g, !.link = link]
  BY <1>1 DEF Leave
<1> DEFINE a == [k EXCEPT !.status = status]
           b == [k EXCEPT !.heap = g, !.link = link]
<1>4. a.heap = k.heap /\ a.link = k.link /\ b.status = k.status
  BY DEF Kernels
<1>5. Leave(a, p) = [a EXCEPT !.heap = g, !.link = link]
  BY <1>1, <1>4 DEF Leave
<1>6. SetStatus(b, p, s) = [b EXCEPT !.status = status]
  BY <1>1, <1>4 DEF SetStatus
<1>7. [a EXCEPT !.heap = g, !.link = link] = [b EXCEPT !.status = status]
  BY DEF Kernels
<1> QED BY <1>2, <1>3, <1>5, <1>6, <1>7

LEMMA SetStatusTwice ==
  ASSUME NEW k \in Kernels, NEW p, NEW s, NEW t
  PROVE  SetStatus(SetStatus(k, p, s), p, t) = SetStatus(k, p, t)
<1>1. PICK f, g : /\ f = [k.status EXCEPT ![p] = s] /\ g = [k.status EXCEPT ![p] = t]
                  /\ g = [f EXCEPT ![p] = t]
  <2>1. k.status \in [Proc -> Status]
    BY DEF Kernels
  <2> QED BY <2>1
<1>2. SetStatus(k, p, s) = [k EXCEPT !.status = f] /\ SetStatus(k, p, t) = [k EXCEPT !.status = g]
  BY <1>1 DEF SetStatus
<1> DEFINE u == [k EXCEPT !.status = f]
<1>3. u.status = f
  BY DEF Kernels
<1>4. SetStatus(u, p, t) = [u EXCEPT !.status = g]
  BY <1>1, <1>3 DEF SetStatus
<1>5. [u EXCEPT !.status = g] = [k EXCEPT !.status = g]
  BY DEF Kernels
<1> QED BY <1>2, <1>4, <1>5

\* What a process is taken out of, and a link is free for what it enters.
OutOf(u, k, v, w, p, s, q) ==
  /\ \E j \in 1 .. Len(v[q]) : v[q][j] = p /\ State(u, TakeOut(v, q, j), w, {p})
  /\ u.heap.nitems[FreeLinks] # 0
  /\ u.status = [k.status EXCEPT ![p] = s] /\ u.status[p] = s
  /\ u.current = k.current /\ u.halted = k.halted

LEMMA TakenOut ==
  ASSUME NEW k, NEW v, NEW w, State(k, v, w, {}), NEW p \in Proc, NEW s \in Status
  PROVE  OutOf(SetStatus(Leave(k, p), p, s), k, v, w, p, s, QueueOf(k.status[p]))
<1> DEFINE q == QueueOf(k.status[p])
           a == Leave(k, p)
           u == SetStatus(a, p, s)
<1>1. p \in Proc \ {} /\ {} \cup {p} = {p} /\ p \in {p}
  OBVIOUS
<1>2. Left(a, k, v, w, {}, p, q)
  BY <1>1, LeaveLemma
<1>3. PICK j \in 1 .. Len(v[q]) : v[q][j] = p /\ State(a, TakeOut(v, q, j), w, {p})
  BY <1>1, <1>2 DEF Left
<1>6. /\ a.status = k.status /\ a.current = k.current /\ a.halted = k.halted
      /\ a.heap.nitems[FreeLinks] = k.heap.nitems[FreeLinks] + 1
  BY <1>2 DEF Left
<1>4. a.heap.nitems[FreeLinks] # 0
  <2>1. PICK c : Rep(k.heap, c, {})
    BY DEF State, Good
  <2>2. k.heap.nitems[FreeLinks] = Len(c[FreeLinks]) /\ Len(c[FreeLinks]) \in Nat
    BY <2>1, Ends, QueueNames
  <2> QED BY <1>6, <2>2
<1> HIDE DEF a
<1>5. /\ State(u, TakeOut(v, q, j), w, {p}) /\ u.status = [a.status EXCEPT ![p] = s]
      /\ u.status[p] = s /\ u.heap = a.heap
      /\ u.current = a.current /\ u.halted = a.halted
  BY <1>1, <1>3, SetStatusLemma
<1> HIDE DEF u
<1> QED BY <1>3, <1>4, <1>5, <1>6 DEF u, a, OutOf

\* AQueueRemove, a new status, AQueueAllocLink and AQueueInsertLast.
LEMMA RequeueLast ==
  ASSUME NEW k, NEW v, NEW w, State(k, v, w, {}), NEW p \in Proc, NEW s \in Status
  PROVE  \E j \in 1 .. Len(v[QueueOf(k.status[p])]) :
           /\ v[QueueOf(k.status[p])][j] = p
           /\ Moved(EnterLast(SetStatus(Leave(k, p), p, s), p, QueueOf(s)), k,
                    PutLast(TakeOut(v, QueueOf(k.status[p]), j), QueueOf(s), p), w, p, s)
<1> DEFINE q == QueueOf(k.status[p])
           a == SetStatus(Leave(k, p), p, s)
           u == EnterLast(a, p, QueueOf(s))
<1>1. OutOf(a, k, v, w, p, s, q)
  BY TakenOut
<1> HIDE DEF a, q
<1>2. PICK j \in 1 .. Len(v[q]) : v[q][j] = p /\ State(a, TakeOut(v, q, j), w, {p})
  BY <1>1 DEF OutOf
<1>3. /\ a.heap.nitems[FreeLinks] # 0 /\ a.status = [k.status EXCEPT ![p] = s]
      /\ a.status[p] = s /\ a.current = k.current /\ a.halted = k.halted
  BY <1>1 DEF OutOf
<1> DEFINE t == TakeOut(v, q, j)
<1> HIDE DEF t
<1>4. State(a, t, w, {p}) /\ p \in {p} /\ {p} \ {p} = {}
  BY <1>2 DEF t
<1>5. Joined(EnterLast(a, p, QueueOf(a.status[p])), a, PutLast(t, QueueOf(a.status[p]), p), w, {p} \ {p})
  BY <1>3, <1>4, EnterLastLemma
<1>6. Joined(u, a, PutLast(t, QueueOf(s), p), w, {})
  BY <1>3, <1>4, <1>5
<1> HIDE DEF u
<1>7. Moved(u, k, PutLast(t, QueueOf(s), p), w, p, s)
  BY <1>3, <1>6 DEF Joined, Moved
<1> QED BY <1>2, <1>7 DEF u, a, q, t

\* The same with AQueueInsertFirst.
LEMMA RequeueFirst ==
  ASSUME NEW k, NEW v, NEW w, State(k, v, w, {}), NEW p \in Proc, NEW s \in Status
  PROVE  \E j \in 1 .. Len(v[QueueOf(k.status[p])]) :
           /\ v[QueueOf(k.status[p])][j] = p
           /\ Moved(EnterFirst(SetStatus(Leave(k, p), p, s), p, QueueOf(s)), k,
                    PutFirst(TakeOut(v, QueueOf(k.status[p]), j), QueueOf(s), p), w, p, s)
<1> DEFINE q == QueueOf(k.status[p])
           a == SetStatus(Leave(k, p), p, s)
           u == EnterFirst(a, p, QueueOf(s))
<1>1. OutOf(a, k, v, w, p, s, q)
  BY TakenOut
<1> HIDE DEF a, q
<1>2. PICK j \in 1 .. Len(v[q]) : v[q][j] = p /\ State(a, TakeOut(v, q, j), w, {p})
  BY <1>1 DEF OutOf
<1>3. /\ a.heap.nitems[FreeLinks] # 0 /\ a.status = [k.status EXCEPT ![p] = s]
      /\ a.status[p] = s /\ a.current = k.current /\ a.halted = k.halted
  BY <1>1 DEF OutOf
<1> DEFINE t == TakeOut(v, q, j)
<1> HIDE DEF t
<1>4. State(a, t, w, {p}) /\ p \in {p} /\ {p} \ {p} = {}
  BY <1>2 DEF t
<1>5. Joined(EnterFirst(a, p, QueueOf(a.status[p])), a, PutFirst(t, QueueOf(a.status[p]), p), w, {p} \ {p})
  BY <1>3, <1>4, EnterFirstLemma
<1>6. Joined(u, a, PutFirst(t, QueueOf(s), p), w, {})
  BY <1>3, <1>4, <1>5
<1> HIDE DEF u
<1>7. Moved(u, k, PutFirst(t, QueueOf(s), p), w, p, s)
  BY <1>3, <1>6 DEF Joined, Moved
<1> QED BY <1>2, <1>7 DEF u, a, q, t

-----------------------------------------------------------------------------
(* The routines of process.c are those of module Process.                  *)

\* The state of module Process for queues of processes v.
Table(k, v) ==
  [status |-> k.status, free |-> v["freepcbs"], run |-> v["runQueue"],
   waiting |-> Elements(v["waitQueue"]), zombies |-> v["zombieQueue"],
   current |-> k.current, halted |-> k.halted]

LEMMA ElementsAppend ==
  ASSUME NEW s \in Seq(Proc), NEW p
  PROVE  Elements(Append(s, p)) = Elements(s) \cup {p}
<1> DEFINE t == Append(s, p)
<1>1. Len(s) \in Nat /\ DOMAIN s = 1 .. Len(s)
  OBVIOUS
<1>2. /\ DOMAIN t = 1 .. Len(s) + 1 /\ t[Len(s) + 1] = p
      /\ \A i \in 1 .. Len(s) : t[i] = s[i]
  <2>1. s \in Seq(Proc \cup {p})
    OBVIOUS
  <2> QED BY <1>1, <2>1
<1> HIDE DEF t
<1>3. \A i \in 1 .. Len(s) + 1 : i # Len(s) + 1 => i \in 1 .. Len(s)
  BY <1>1
<1>4. Len(s) + 1 \in DOMAIN t /\ \A i \in 1 .. Len(s) : i \in DOMAIN t
  BY <1>2, <1>1
<1>5. Elements(t) \subseteq Elements(s) \cup {p}
  BY <1>2, <1>1, <1>3 DEF Elements
<1>6. Elements(s) \cup {p} \subseteq Elements(t)
  BY <1>2, <1>1, <1>4 DEF Elements
<1> QED BY <1>5, <1>6 DEF t

LEMMA UnlinkLemma ==
  ASSUME NEW s \in Seq(Proc), NEW j \in 1 .. Len(s),
         \A i, m \in 1 .. Len(s) : s[i] = s[m] => i = m
  PROVE  /\ Abstract!Unlink(s, s[j]) = Without(s, j)
         /\ Elements(Without(s, j)) = Elements(s) \ {s[j]}
         /\ j = 1 => Without(s, j) = Tail(s)
<1>1. Len(s) \in Nat /\ DOMAIN s = 1 .. Len(s)
  OBVIOUS
<1>2. (CHOOSE i \in DOMAIN s : s[i] = s[j]) = j
  BY <1>1
<1>3. Abstract!Unlink(s, s[j]) = Without(s, j)
  BY <1>2 DEF Abstract!Unlink, Without
<1>4. /\ Len(Without(s, j)) = Len(s) - 1 /\ DOMAIN Without(s, j) = 1 .. Len(s) - 1
      /\ \A i \in 1 .. Len(s) - 1 : Without(s, j)[i] = IF i < j THEN s[i] ELSE s[i + 1]
  BY WithoutLemma DEF Without
<1>5. Elements(Without(s, j)) = Elements(s) \ {s[j]}
  <2>1. ASSUME NEW x \in Elements(Without(s, j))
        PROVE  x \in Elements(s) \ {s[j]}
    <3>1. PICK i \in 1 .. Len(s) - 1 : Without(s, j)[i] = x
      BY <1>4, <2>1 DEF Elements
    <3>2. CASE i < j
      <4>1. i \in 1 .. Len(s) /\ i # j /\ x = s[i]
        BY <1>1, <1>4, <3>1, <3>2
      <4> QED BY <1>1, <4>1 DEF Elements
    <3>3. CASE ~(i < j)
      <4>1. i + 1 \in 1 .. Len(s) /\ i + 1 # j /\ x = s[i + 1]
        BY <1>1, <1>4, <3>1, <3>3
      <4> QED BY <1>1, <4>1 DEF Elements
    <3> QED BY <3>2, <3>3
  <2>2. ASSUME NEW x \in Elements(s) \ {s[j]}
        PROVE  x \in Elements(Without(s, j))
    <3>1. PICK i \in 1 .. Len(s) : s[i] = x
      BY <1>1 DEF Elements
    <3>2. i # j
      BY <3>1
    <3>3. CASE i < j
      <4>1. i \in 1 .. Len(s) - 1 /\ Without(s, j)[i] = x
        BY <1>1, <1>4, <3>1, <3>3
      <4> QED BY <1>4, <4>1 DEF Elements
    <3>4. CASE i > j
      <4>1. i - 1 \in 1 .. Len(s) - 1 /\ Without(s, j)[i - 1] = x
        BY <1>1, <1>4, <3>1, <3>4
      <4> QED BY <1>4, <4>1 DEF Elements
    <3> QED BY <1>1, <3>2, <3>3, <3>4
  <2> QED BY <2>1, <2>2
<1>6. ASSUME j = 1
      PROVE  Without(s, j) = Tail(s)
  <2>1. Len(s) \in Nat \ {0}
    BY <1>1
  <2>2. Without(s, 1) = Tail(s)
    <3> DEFINE t == Tail(s)
    <3>1. /\ t \in Seq(Proc) /\ Len(t) = Len(s) - 1
          /\ \A i \in 1 .. Len(s) - 1 : t[i] = s[i + 1]
      BY <2>1
    <3> HIDE DEF t
    <3>2. t = [i \in 1 .. Len(s) - 1 |-> t[i]]
      BY <2>1, <3>1
    <3>3. Without(s, 1) = [i \in 1 .. Len(s) - 1 |-> s[i + 1]]
      BY <2>1 DEF Without
    <3> QED BY <3>1, <3>2, <3>3 DEF t
  <2> QED BY <1>6, <2>2
<1> QED BY <1>3, <1>5, <1>6

\* Where a process is found by its status.
LEMMA PlaceLemma ==
  ASSUME NEW k, NEW v, NEW w, State(k, v, w, {}), NEW q \in ProcessQueues,
         NEW j \in 1 .. Len(v[q])
  PROVE  /\ v[q] \in Seq(Proc) /\ v[q][j] \in Proc
         /\ QueueOf(k.status[v[q][j]]) = q
         /\ Abstract!Unlink(v[q], v[q][j]) = Without(v[q], j)
         /\ Elements(Without(v[q], j)) = Elements(v[q]) \ {v[q][j]}
         /\ j = 1 => Without(v[q], j) = Tail(v[q])
<1>1. /\ v[q] \in Seq(Proc)
      /\ \A i \in 1 .. Len(v[q]) : v[q][i] \in Proc /\ QueueOf(k.status[v[q][i]]) = q
      /\ \A i, m \in 1 .. Len(v[q]) : v[q][i] = v[q][m] => i = m
  BY ViewFacts
<1>2. v[q][j] \in Proc /\ QueueOf(k.status[v[q][j]]) = q
  BY <1>1
<1> QED BY <1>1, <1>2, UnlinkLemma

LEMMA StatusNames ==
  /\ "free" \in Status /\ "runnable" \in Status /\ "waiting" \in Status /\ "zombie" \in Status
  /\ QueueOf("free") = "freepcbs" /\ QueueOf("runnable") = "runQueue"
  /\ QueueOf("waiting") = "waitQueue" /\ QueueOf("zombie") = "zombieQueue"
  /\ "freepcbs" \in ProcessQueues /\ "runQueue" \in ProcessQueues
  /\ "waitQueue" \in ProcessQueues /\ "zombieQueue" \in ProcessQueues
  /\ \A s \in Status : /\ QueueOf(s) = "freepcbs" => s = "free"
                       /\ QueueOf(s) = "runQueue" => s = "runnable"
                       /\ QueueOf(s) = "waitQueue" => s = "waiting"
                       /\ QueueOf(s) = "zombieQueue" => s = "zombie"
  BY DEF Status, QueueOf, ProcessQueues

\* ProcessSuspend (process.c 238-260).
LEMMA SuspendLemma ==
  ASSUME NEW k, NEW v, NEW w, State(k, v, w, {}), NEW p \in Proc,
         k.status[p] = "runnable"
  PROVE  \E v2 : /\ Moved(ProcessSuspend(k, p), k, v2, w, p, "waiting")
                 /\ v2["zombieQueue"] = v["zombieQueue"]
                 /\ Table(ProcessSuspend(k, p), v2) = Abstract!Suspend(Table(k, v), p)
<1> DEFINE u == ProcessSuspend(k, p)
<1>1. k \in Kernels /\ v \in [ProcessQueues -> Seq(Proc)]
  BY ViewFacts
<1>2. u = EnterLast(SetStatus(Leave(k, p), p, "waiting"), p, QueueOf("waiting"))
  BY <1>1, StatusFirst, StatusNames DEF ProcessSuspend
<1> HIDE DEF u
<1>3. PICK j \in 1 .. Len(v["runQueue"]) :
        /\ v["runQueue"][j] = p
        /\ Moved(u, k, PutLast(TakeOut(v, "runQueue", j), "waitQueue", p), w, p, "waiting")
  <2>1. \E j \in 1 .. Len(v[QueueOf(k.status[p])]) :
          /\ v[QueueOf(k.status[p])][j] = p
          /\ Moved(EnterLast(SetStatus(Leave(k, p), p, "waiting"), p, QueueOf("waiting")), k,
                   PutLast(TakeOut(v, QueueOf(k.status[p]), j), QueueOf("waiting"), p),
                   w, p, "waiting")
    BY RequeueLast, StatusNames
  <2> QED BY <1>2, <2>1, StatusNames
<1> DEFINE v2 == PutLast(TakeOut(v, "runQueue", j), "waitQueue", p)
<1>4. /\ v2["runQueue"] = Without(v["runQueue"], j)
      /\ v2["waitQueue"] = Append(v["waitQueue"], p)
      /\ v2["freepcbs"] = v["freepcbs"] /\ v2["zombieQueue"] = v["zombieQueue"]
  <2>1. \A x \in ProcessQueues :
          v2[x] = IF x = "runQueue" THEN Without(v["runQueue"], j)
                  ELSE IF x = "waitQueue" THEN Append(v["waitQueue"], p) ELSE v[x]
    BY <1>1, StatusNames DEF PutLast, TakeOut
  <2> QED BY <2>1, StatusNames
<1> HIDE DEF v2
<1>5. Abstract!Unlink(v["runQueue"], p) = Without(v["runQueue"], j)
  BY <1>3, PlaceLemma, StatusNames
<1>6. Elements(Append(v["waitQueue"], p)) = Elements(v["waitQueue"]) \cup {p}
  BY <1>1, StatusNames, ElementsAppend
<1>7. /\ u.status = [k.status EXCEPT ![p] = "waiting"]
      /\ u.current = k.current /\ u.halted = k.halted
  BY <1>3 DEF Moved
<1>8. Table(u, v2) = Abstract!Suspend(Table(k, v), p)
  <2>1. Abstract!Suspend(Table(k, v), p)
          = [Table(k, v) EXCEPT
               !.status = [k.status EXCEPT ![p] = "waiting"],
               !.run = Without(v["runQueue"], j),
               !.waiting = Elements(v["waitQueue"]) \cup {p}]
    BY <1>5 DEF Table, Abstract!Suspend
  <2> QED BY <1>4, <1>6, <1>7, <2>1 DEF Table
<1> QED BY <1>3, <1>4, <1>8 DEF u, v2

\* ProcessWakeup (process.c 272-295).
LEMMA WakeupLemma ==
  ASSUME NEW k, NEW v, NEW w, State(k, v, w, {}), NEW p \in Proc,
         k.status[p] = "waiting"
  PROVE  \E v2 : /\ Moved(ProcessWakeup(k, p), k, v2, w, p, "runnable")
                 /\ v2["zombieQueue"] = v["zombieQueue"]
                 /\ v2["runQueue"] = Append(v["runQueue"], p)
                 /\ p \in Elements(v["waitQueue"])
                 /\ Table(ProcessWakeup(k, p), v2) = Abstract!Wakeup(Table(k, v), p)
<1> DEFINE u == ProcessWakeup(k, p)
<1>1. k \in Kernels /\ v \in [ProcessQueues -> Seq(Proc)]
  BY ViewFacts
<1>2. u = EnterLast(SetStatus(Leave(k, p), p, "runnable"), p, QueueOf("runnable"))
  BY <1>1, StatusFirst, StatusNames DEF ProcessWakeup
<1> HIDE DEF u
<1>3. PICK j \in 1 .. Len(v["waitQueue"]) :
        /\ v["waitQueue"][j] = p
        /\ Moved(u, k, PutLast(TakeOut(v, "waitQueue", j), "runQueue", p), w, p, "runnable")
  <2>1. \E j \in 1 .. Len(v[QueueOf(k.status[p])]) :
          /\ v[QueueOf(k.status[p])][j] = p
          /\ Moved(EnterLast(SetStatus(Leave(k, p), p, "runnable"), p, QueueOf("runnable")), k,
                   PutLast(TakeOut(v, QueueOf(k.status[p]), j), QueueOf("runnable"), p),
                   w, p, "runnable")
    BY RequeueLast, StatusNames
  <2> QED BY <1>2, <2>1, StatusNames
<1> DEFINE v2 == PutLast(TakeOut(v, "waitQueue", j), "runQueue", p)
<1>4. /\ v2["waitQueue"] = Without(v["waitQueue"], j)
      /\ v2["runQueue"] = Append(v["runQueue"], p)
      /\ v2["freepcbs"] = v["freepcbs"] /\ v2["zombieQueue"] = v["zombieQueue"]
  <2>1. \A x \in ProcessQueues :
          v2[x] = IF x = "waitQueue" THEN Without(v["waitQueue"], j)
                  ELSE IF x = "runQueue" THEN Append(v["runQueue"], p) ELSE v[x]
    BY <1>1, StatusNames DEF PutLast, TakeOut
  <2> QED BY <2>1, StatusNames
<1> HIDE DEF v2
<1>5. Elements(Without(v["waitQueue"], j)) = Elements(v["waitQueue"]) \ {p}
  BY <1>3, PlaceLemma, StatusNames
<1>6. p \in Elements(v["waitQueue"])
  <2>1. v["waitQueue"] \in Seq(Proc)
    BY <1>1, StatusNames
  <2> QED BY <1>3, <2>1 DEF Elements
<1>7. /\ u.status = [k.status EXCEPT ![p] = "runnable"]
      /\ u.current = k.current /\ u.halted = k.halted
  BY <1>3 DEF Moved
<1>8. Table(u, v2) = Abstract!Wakeup(Table(k, v), p)
  <2>1. Abstract!Wakeup(Table(k, v), p)
          = [Table(k, v) EXCEPT
               !.status = [k.status EXCEPT ![p] = "runnable"],
               !.waiting = Elements(v["waitQueue"]) \ {p},
               !.run = Append(v["runQueue"], p)]
    BY DEF Table, Abstract!Wakeup
  <2> QED BY <1>4, <1>5, <1>7, <2>1 DEF Table
<1> QED BY <1>3, <1>4, <1>6, <1>8 DEF u, v2

\* ProcessDestroy (process.c 306-325).
LEMMA DestroyLemma ==
  ASSUME NEW k, NEW v, NEW w, State(k, v, w, {}), NEW p \in Proc,
         k.status[p] = "runnable"
  PROVE  \E v2 : /\ Moved(ProcessDestroy(k, p), k, v2, w, p, "zombie")
                 /\ v2["zombieQueue"] = <<p>> \o v["zombieQueue"]
                 /\ Table(ProcessDestroy(k, p), v2) = Abstract!Destroy(Table(k, v), p)
<1> DEFINE u == ProcessDestroy(k, p)
<1>1. k \in Kernels /\ v \in [ProcessQueues -> Seq(Proc)]
  BY ViewFacts
<1>2. u = EnterFirst(SetStatus(Leave(k, p), p, "zombie"), p, QueueOf("zombie"))
  BY <1>1, StatusFirst, StatusNames DEF ProcessDestroy
<1> HIDE DEF u
<1>3. PICK j \in 1 .. Len(v["runQueue"]) :
        /\ v["runQueue"][j] = p
        /\ Moved(u, k, PutFirst(TakeOut(v, "runQueue", j), "zombieQueue", p), w, p, "zombie")
  <2>1. \E j \in 1 .. Len(v[QueueOf(k.status[p])]) :
          /\ v[QueueOf(k.status[p])][j] = p
          /\ Moved(EnterFirst(SetStatus(Leave(k, p), p, "zombie"), p, QueueOf("zombie")), k,
                   PutFirst(TakeOut(v, QueueOf(k.status[p]), j), QueueOf("zombie"), p),
                   w, p, "zombie")
    BY RequeueFirst, StatusNames
  <2> QED BY <1>2, <2>1, StatusNames
<1> DEFINE v2 == PutFirst(TakeOut(v, "runQueue", j), "zombieQueue", p)
<1>4. /\ v2["runQueue"] = Without(v["runQueue"], j)
      /\ v2["zombieQueue"] = <<p>> \o v["zombieQueue"]
      /\ v2["freepcbs"] = v["freepcbs"] /\ v2["waitQueue"] = v["waitQueue"]
  <2>1. \A x \in ProcessQueues :
          v2[x] = IF x = "runQueue" THEN Without(v["runQueue"], j)
                  ELSE IF x = "zombieQueue" THEN <<p>> \o v["zombieQueue"] ELSE v[x]
    BY <1>1, StatusNames DEF PutFirst, TakeOut
  <2> QED BY <2>1, StatusNames
<1> HIDE DEF v2
<1>5. Abstract!Unlink(v["runQueue"], p) = Without(v["runQueue"], j)
  BY <1>3, PlaceLemma, StatusNames
<1>6. /\ u.status = [k.status EXCEPT ![p] = "zombie"]
      /\ u.current = k.current /\ u.halted = k.halted
  BY <1>3 DEF Moved
<1>7. Table(u, v2) = Abstract!Destroy(Table(k, v), p)
  <2>1. Abstract!Destroy(Table(k, v), p)
          = [Table(k, v) EXCEPT
               !.status = [k.status EXCEPT ![p] = "zombie"],
               !.run = Without(v["runQueue"], j),
               !.zombies = <<p>> \o v["zombieQueue"]]
    BY <1>5 DEF Table, Abstract!Destroy
  <2> QED BY <1>4, <1>6, <2>1 DEF Table
<1> QED BY <1>3, <1>4, <1>7 DEF u, v2

\* The first process of a queue goes to the end of another, or of the same.
LEMMA HeadLemma ==
  ASSUME NEW k, NEW v, NEW w, State(k, v, w, {}), NEW q \in ProcessQueues,
         Len(v[q]) # 0, NEW s \in Status
  PROVE  LET p == FirstObject(k, q)
             u == EnterLast(SetStatus(Leave(k, p), p, s), p, QueueOf(s))
             r == QueueOf(s)
         IN  /\ p \in Proc /\ p = Head(v[q]) /\ QueueOf(k.status[p]) = q /\ v[q] # <<>>
             /\ \E v2 : /\ Moved(u, k, v2, w, p, s)
                        /\ \A x \in ProcessQueues :
                             v2[x] = IF x = r
                                     THEN Append(IF q = r THEN Tail(v[q]) ELSE v[r], p)
                                     ELSE IF x = q THEN Tail(v[q]) ELSE v[x]
<1> DEFINE p == FirstObject(k, q)
           r == QueueOf(s)
           u == EnterLast(SetStatus(Leave(k, p), p, s), p, r)
<1>1. /\ v \in [ProcessQueues -> Seq(Proc)] /\ v[q] \in Seq(Proc)
      /\ p = v[q][1] /\ 1 \in 1 .. Len(v[q])
      /\ \A i, j \in 1 .. Len(v[q]) : v[q][i] = v[q][j] => i = j
  BY ViewFacts
<1>2. p \in Proc /\ QueueOf(k.status[p]) = q /\ Without(v[q], 1) = Tail(v[q])
  <2>1. v[q][1] \in Proc /\ QueueOf(k.status[v[q][1]]) = q
    BY <1>1, PlaceLemma
  <2>2. Without(v[q], 1) = Tail(v[q])
    BY <1>1, UnlinkLemma
  <2> HIDE DEF p
  <2> QED BY <1>1, <2>1, <2>2
<1>3. p = Head(v[q]) /\ v[q] # <<>>
  BY <1>1
<1> HIDE DEF p
<1>4. PICK j \in 1 .. Len(v[q]) :
        v[q][j] = p /\ Moved(u, k, PutLast(TakeOut(v, q, j), r, p), w, p, s)
  BY <1>2, RequeueLast
<1>5. j = 1
  BY <1>1, <1>4
<1>6. r \in ProcessQueues
  BY QueueNames
<1> DEFINE v2 == PutLast(TakeOut(v, q, 1), r, p)
<1> HIDE DEF r
<1>7. \A x \in ProcessQueues :
        v2[x] = IF x = r THEN Append(IF q = r THEN Tail(v[q]) ELSE v[r], p)
                ELSE IF x = q THEN Tail(v[q]) ELSE v[x]
  BY <1>1, <1>2, <1>6 DEF PutLast, TakeOut
<1> HIDE DEF u, v2
<1> QED BY <1>2, <1>3, <1>4, <1>5, <1>7 DEF p, r, u, v2

\* What no queue depends on.
LEMMA CurrentLemma ==
  ASSUME NEW k, NEW v, NEW w, NEW off, State(k, v, w, off), NEW p \in Proc \cup {NoProc}
  PROVE  LET u == [k EXCEPT !.current = p] IN
         /\ State(u, v, w, off) /\ u.status = k.status /\ u.current = p
         /\ u.halted = k.halted /\ u.heap = k.heap
<1> DEFINE u == [k EXCEPT !.current = p]
<1>1. PICK c : Good(k, c, off) /\ v = View(k.heap, c) /\ w = WaitLinks(k.heap)
  BY DEF State
<1>2. k \in Kernels
  BY <1>1 DEF Good
<1>3. /\ u \in Kernels /\ u.heap = k.heap /\ u.link = k.link /\ u.status = k.status
      /\ u.current = p /\ u.halted = k.halted
  BY <1>2 DEF Kernels
<1> HIDE DEF u
<1>4. Good(u, c, off)
  BY <1>1, <1>3 DEF Good
<1>5. State(u, v, w, off)
  BY <1>1, <1>3, <1>4 DEF State
<1> QED BY <1>3, <1>5 DEF u

LEMMA HaltLemma ==
  ASSUME NEW k, NEW v, NEW w, State(k, v, w, {})
  PROVE  State(Halt(k), v, w, {}) /\ Table(Halt(k), v) = Abstract!Halt(Table(k, v))
<1> DEFINE u == Halt(k)
<1>1. PICK c : Good(k, c, {}) /\ v = View(k.heap, c) /\ w = WaitLinks(k.heap)
  BY DEF State
<1>2. k \in Kernels
  BY <1>1 DEF Good
<1>3. /\ u \in Kernels /\ u.heap = k.heap /\ u.link = k.link /\ u.status = k.status
      /\ u.current = k.current /\ u.halted = TRUE
  BY <1>2 DEF Kernels, Halt
<1> HIDE DEF u
<1>4. Good(u, c, {})
  BY <1>1, <1>3 DEF Good
<1>5. State(u, v, w, {})
  BY <1>1, <1>3, <1>4 DEF State
<1>6. Table(u, v) = Abstract!Halt(Table(k, v))
  <2>1. Abstract!Halt(Table(k, v)) = [Table(k, v) EXCEPT !.halted = TRUE]
    BY DEF Abstract!Halt
  <2>2. Table(u, v) = [Table(k, v) EXCEPT !.halted = u.halted]
    BY <1>3 DEF Table
  <2> QED BY <1>3, <2>1, <2>2
<1> QED BY <1>5, <1>6 DEF u

\* The queue of a process count says whether it is empty.
LEMMA EmptyLemma ==
  ASSUME NEW k, NEW v, NEW w, NEW off, State(k, v, w, off), NEW q \in ProcessQueues
  PROVE  (Empty(k, q) <=> v[q] = <<>>) /\ (v[q] = <<>> <=> Len(v[q]) = 0)
<1>1. k.heap.nitems[q] = Len(v[q]) /\ v[q] \in Seq(Proc)
  BY ViewFacts
<1>2. v[q] = <<>> <=> Len(v[q]) = 0
  BY <1>1
<1> QED BY <1>1, <1>2 DEF Empty

\* ProcessFork: no PCB is left, the executable cannot be loaded, or the process
\* goes to the end of the run queue (process.c 351-560).
LEMMA ForkLemma ==
  ASSUME NEW k, NEW v, NEW w, State(k, v, w, {}), NEW loads \in BOOLEAN
  PROVE  \E v2 : /\ State(ProcessFork(k, loads), v2, w, {})
                 /\ Table(ProcessFork(k, loads), v2)
                      = IF loads THEN Abstract!Fork(Table(k, v))
                        ELSE Abstract!ForkNoCode(Table(k, v))
<1> DEFINE t == Table(k, v)
           p == FirstObject(k, "freepcbs")
           taken == SetStatus(Leave(k, p), p, "runnable")
           u == ProcessFork(k, loads)
<1>1. t.free = v["freepcbs"] /\ t.current = k.current /\ k \in Kernels
  BY ViewFacts DEF Table
<1>2. CASE v["freepcbs"] = <<>>
  <2>1. u = Halt(k)
    BY <1>2, EmptyLemma, StatusNames DEF ProcessFork
  <2>2. Abstract!Fork(t) = Abstract!Halt(t) /\ Abstract!ForkNoCode(t) = Abstract!Halt(t)
    BY <1>1, <1>2 DEF Abstract!Fork, Abstract!ForkNoCode
  <2> HIDE DEF u, t
  <2>3. State(Halt(k), v, w, {}) /\ Table(Halt(k), v) = Abstract!Halt(t)
    BY HaltLemma DEF t
  <2> QED BY <2>1, <2>2, <2>3 DEF u, t
<1>3. CASE v["freepcbs"] # <<>>
  <2>1. ~Empty(k, "freepcbs") /\ Len(v["freepcbs"]) # 0
    BY <1>3, EmptyLemma, StatusNames
  <2>2. CASE loads
    <3> DEFINE a == EnterLast(taken, p, "runQueue")
    <3>1. u = [a EXCEPT !.current = IF a.current = NoProc THEN p ELSE a.current]
      BY <2>1, <2>2 DEF ProcessFork
    <3>2. /\ p \in Proc /\ p = Head(v["freepcbs"])
          /\ \E v2 : /\ Moved(a, k, v2, w, p, "runnable")
                     /\ \A x \in ProcessQueues :
                          v2[x] = IF x = "runQueue" THEN Append(v["runQueue"], p)
                                  ELSE IF x = "freepcbs" THEN Tail(v["freepcbs"]) ELSE v[x]
      BY <2>1, HeadLemma, StatusNames
    <3> HIDE DEF a, u, p
    <3>3. PICK v2 : /\ Moved(a, k, v2, w, p, "runnable")
                    /\ \A x \in ProcessQueues :
                         v2[x] = IF x = "runQueue" THEN Append(v["runQueue"], p)
                                 ELSE IF x = "freepcbs" THEN Tail(v["freepcbs"]) ELSE v[x]
      BY <3>2
    <3>4. /\ State(a, v2, w, {}) /\ a.status = [k.status EXCEPT ![p] = "runnable"]
          /\ a.current = k.current /\ a.halted = k.halted
      BY <3>3 DEF Moved
    <3> DEFINE r == IF a.current = NoProc THEN p ELSE a.current
    <3>5. r \in Proc \cup {NoProc}
      BY <1>1, <3>2, <3>4 DEF Kernels
    <3> HIDE DEF r
    <3>6. /\ State(u, v2, w, {}) /\ u.status = a.status /\ u.current = r
          /\ u.halted = a.halted
      BY <3>1, <3>4, <3>5, CurrentLemma DEF r
    <3>7. Table(u, v2) = Abstract!Fork(t)
      <4>1. /\ v2["runQueue"] = Append(v["runQueue"], p)
            /\ v2["freepcbs"] = Tail(v["freepcbs"])
            /\ v2["waitQueue"] = v["waitQueue"] /\ v2["zombieQueue"] = v["zombieQueue"]
        BY <3>3, StatusNames
      <4>2. Abstract!Fork(t) = [t EXCEPT
                                  !.free = Tail(v["freepcbs"]),
                                  !.status = [k.status EXCEPT ![p] = "runnable"],
                                  !.run = Append(v["runQueue"], p),
                                  !.current = IF k.current = NoProc THEN p ELSE k.current]
        BY <1>3, <3>2 DEF Abstract!Fork, Table
      <4>3. u.status = [k.status EXCEPT ![p] = "runnable"]
            /\ u.current = (IF k.current = NoProc THEN p ELSE k.current)
            /\ u.halted = k.halted
        BY <3>4, <3>6 DEF r
      <4> HIDE DEF u
      <4> QED BY <4>1, <4>2, <4>3 DEF Table
    <3> QED BY <2>2, <3>6, <3>7 DEF u
  <2>3. CASE ~loads
    <3> DEFINE b == SetStatus(Leave(k, p), p, "free")
               a == EnterLast(b, p, "freepcbs")
    <3>1. u = a
      <4>1. u = EnterLast(SetStatus(taken, p, "free"), p, "freepcbs")
        BY <2>1, <2>3 DEF ProcessFork, ProcessFreeResources
      <4>2. SetStatus(taken, p, "free") = b
        <5>1. p \in Proc
          BY <2>1, HeadLemma, StatusNames
        <5>2. Leave(k, p) \in Kernels
          BY <5>1, LeaveKernel
        <5> HIDE DEF p
        <5> QED BY <5>2, SetStatusTwice
      <4> QED BY <4>1, <4>2
    <3>2. /\ p \in Proc /\ p = Head(v["freepcbs"]) /\ QueueOf(k.status[p]) = "freepcbs"
          /\ \E v2 : /\ Moved(a, k, v2, w, p, "free")
                     /\ \A x \in ProcessQueues :
                          v2[x] = IF x = "freepcbs" THEN Append(Tail(v["freepcbs"]), p)
                                  ELSE v[x]
      BY <2>1, HeadLemma, StatusNames
    <3> HIDE DEF a, u, p
    <3>3. PICK v2 : /\ Moved(a, k, v2, w, p, "free")
                    /\ \A x \in ProcessQueues :
                         v2[x] = IF x = "freepcbs" THEN Append(Tail(v["freepcbs"]), p)
                                 ELSE v[x]
      BY <3>2
    <3>4. /\ State(a, v2, w, {}) /\ a.status = [k.status EXCEPT ![p] = "free"]
          /\ a.current = k.current /\ a.halted = k.halted
      BY <3>3 DEF Moved
    <3>5. a.status = k.status
      <4>1. k.status \in [Proc -> Status] /\ k.status[p] = "free"
        BY <1>1, <3>2, StatusNames DEF Kernels
      <4> QED BY <3>2, <3>4, <4>1
    <3>6. Table(a, v2) = Abstract!ForkNoCode(t)
      <4>1. /\ v2["freepcbs"] = Append(Tail(v["freepcbs"]), p)
            /\ v2["waitQueue"] = v["waitQueue"] /\ v2["zombieQueue"] = v["zombieQueue"]
            /\ v2["runQueue"] = v["runQueue"]
        BY <3>3, StatusNames
      <4>2. Abstract!ForkNoCode(t) = [t EXCEPT !.free = Append(Tail(v["freepcbs"]), p)]
        BY <1>3, <3>2 DEF Abstract!ForkNoCode, Abstract!MoveFrontToEnd, Table
      <4> QED BY <3>4, <3>5, <4>1, <4>2 DEF Table
    <3> QED BY <2>3, <3>1, <3>4, <3>6 DEF u
  <2> QED BY <2>2, <2>3
<1> QED BY <1>2, <1>3

\* The front of the run queue goes to its end.
LEMMA TurnLemma ==
  ASSUME NEW k, NEW v, NEW w, State(k, v, w, {}), v["runQueue"] # <<>>
  PROVE  LET u == [k EXCEPT !.heap = AQueueMoveAfter(@, "runQueue", @.last["runQueue"],
                                                    @.first["runQueue"])]
         IN  /\ State(u, [v EXCEPT !["runQueue"] = Abstract!MoveFrontToEnd(v["runQueue"])], w, {})
             /\ u.status = k.status /\ u.current = k.current /\ u.halted = k.halted
<1> DEFINE q == "runQueue"
           h == k.heap
           g == AQueueMoveAfter(h, q, h.last[q], h.first[q])
           u == [k EXCEPT !.heap = g]
           r == Abstract!MoveFrontToEnd(v[q])
<1>1. PICK c : Good(k, c, {}) /\ v = View(h, c) /\ w = WaitLinks(h)
  BY DEF State
<1>2. /\ k \in Kernels /\ Rep(h, c, {}) /\ ~h.failed /\ q \in ProcessQueues /\ q \in Queues
      /\ c \in Chains /\ q \in AllQueues
  BY <1>1, QueueNames, StatusNames DEF Good, Rep
<1>3. /\ v \in [ProcessQueues -> Seq(Proc)] /\ Len(v[q]) # 0
      /\ Len(v[q]) = Len(c[q])
  <2>1. k.heap.nitems[q] = Len(v[q]) /\ k.heap.nitems[q] = Len(c[q])
    BY <1>1, <1>2, ViewFacts, OwnLinks
  <2>2. Len(v[q]) # 0
    BY <1>2, EmptyLemma
  <2> QED BY <2>1, <2>2, ViewFacts
<1> DEFINE d == [c EXCEPT ![q] = Append(Tail(c[q]), c[q][1])]
<1>4. Turned(g, h, c, q)
  BY <1>2, <1>3, MoveLemma
<1> HIDE DEF g, h
<1>5. /\ Rep(g, d, {}) /\ g.queue = h.queue /\ g.object = h.object /\ g.failed = h.failed
      /\ g \in Heaps
  BY <1>4 DEF Turned, Rep
<1>6. /\ u \in Kernels /\ u.heap = g /\ u.link = k.link /\ u.status = k.status
      /\ u.current = k.current /\ u.halted = k.halted
  BY <1>2, <1>5 DEF Kernels
<1> HIDE DEF u
<1>7. Good(u, d, {})
  BY <1>1, <1>2, <1>5, <1>6 DEF Good, h
<1>8. WaitLinks(g) = w
  BY <1>1, <1>5 DEF WaitLinks
<1>9. ASSUME NEW x \in ProcessQueues
      PROVE  Objs(g, d[x]) = IF x = q THEN r ELSE v[x]
  <2>1. v[x] = Objs(h, c[x])
    BY <1>1 DEF View
  <2>2. CASE x # q
    <3>1. d[x] = c[x]
      BY <1>2, <2>2, QueueNames DEF Chains
    <3> QED BY <1>5, <2>1, <2>2, <3>1 DEF Objs
  <2>3. CASE x = q
    <3> DEFINE n == Len(c[q])
               e == Append(Tail(c[q]), c[q][1])
    <3>1. c[q] \in Seq(Links) /\ n \in Nat \ {0} /\ c[q][1] \in Links
      BY <1>2, <1>3 DEF Chains
    <3>2. /\ d[x] = e /\ Len(e) = n
          /\ \A i \in 1 .. n : e[i] = IF i = n THEN c[q][1] ELSE c[q][i + 1]
      BY <1>2, <2>3, <3>1 DEF Chains
    <3>3. v[q] \in Seq(Proc) /\ Len(v[q]) = n /\ v[q][1] \in Proc
          /\ \A i \in 1 .. n : v[q][i] = g.object[c[q][i]]
      <4>1. v[q] \in Seq(Proc) /\ Len(v[q]) = n
        BY <1>2, <1>3
      <4> QED BY <1>5, <2>1, <2>3, <3>1, <4>1 DEF Objs
    <3> HIDE DEF e
    <3>4. /\ r \in Seq(Proc) /\ Len(r) = n
          /\ \A i \in 1 .. n : r[i] = IF i = n THEN v[q][1] ELSE v[q][i + 1]
      BY <3>1, <3>3 DEF Abstract!MoveFrontToEnd
    <3> HIDE DEF r
    <3>5. \A i \in 1 .. n : g.object[e[i]] = r[i]
      <4>1. \A i \in 1 .. n : i # n => i + 1 \in 1 .. n
        BY <3>1
      <4>2. 1 \in 1 .. n
        BY <3>1
      <4> QED BY <3>2, <3>3, <3>4, <4>1, <4>2
    <3>6. r = [i \in 1 .. n |-> r[i]]
      BY <3>1, <3>4
    <3> QED BY <2>3, <3>2, <3>5, <3>6 DEF Objs
  <2> QED BY <2>2, <2>3
<1>10. View(g, d) = [v EXCEPT ![q] = r]
  <2> HIDE DEF d, r
  <2>1. View(g, d) = [x \in ProcessQueues |-> IF x = q THEN r ELSE v[x]]
    BY <1>9 DEF View
  <2>2. [v EXCEPT ![q] = r] = [x \in ProcessQueues |-> IF x = q THEN r ELSE v[x]]
    BY <1>3
  <2> QED BY <2>1, <2>2
<1>11. State(u, [v EXCEPT ![q] = r], w, {})
  BY <1>6, <1>7, <1>8, <1>10 DEF State
<1> QED BY <1>6, <1>11 DEF u, g, h, r

\* The loop over the zombies, for none or one: there are never more.
LEMMA ZombieLoop ==
  ASSUME NEW k, k.heap.nitems["zombieQueue"] \in {0, 1}
  PROVE  FreeZombies(k) = IF k.heap.nitems["zombieQueue"] = 0 THEN k
                          ELSE ProcessFreeResources(Leave(k, FirstObject(k, "zombieQueue")),
                                                    FirstObject(k, "zombieQueue"))
<1> DEFINE N == k.heap.nitems["zombieQueue"]
           freed == ProcessFreeResources(Leave(k, FirstObject(k, "zombieQueue")),
                                         FirstObject(k, "zombieQueue"))
           Loop(g) == [n \in 0 .. N |->
                        IF n = 0 THEN k
                        ELSE LET p == FirstObject(g[n - 1], "zombieQueue")
                             IN  ProcessFreeResources(Leave(g[n - 1], p), p)]
           f == CHOOSE g : g = Loop(g)
<1>1. FreeZombies(k) = f[N]
  BY DEF FreeZombies
<1>2. \E g : g = Loop(g)
  <2> DEFINE g == [n \in 0 .. N |-> IF n = 0 THEN k ELSE freed]
  <2>1. ASSUME NEW n \in 0 .. N
        PROVE  g[n] = Loop(g)[n]
    <3>1. CASE n = 0
      BY <3>1
    <3>2. CASE n # 0
      <4>1. n = 1 /\ 0 \in 0 .. N /\ n - 1 = 0
        BY <3>2
      <4>2. g[n - 1] = k
        BY <4>1
      <4> QED BY <3>2, <4>2
    <3> QED BY <3>1, <3>2
  <2>2. g = Loop(g)
    BY <2>1
  <2> QED BY <2>2
<1>3. f = Loop(f)
  BY <1>2
<1> HIDE DEF f
<1>4. f[0] = k
  BY <1>3
<1>5. N = 1 => f[1] = freed
  <2>1. ASSUME N = 1
        PROVE  f[1] = freed
    <3>1. 1 \in 0 .. N /\ 1 - 1 = 0
      BY <2>1
    <3> QED BY <1>3, <1>4, <3>1
  <2> QED BY <2>1
<1> QED BY <1>1, <1>4, <1>5

LEMMA FreeZombiesLemma ==
  ASSUME NEW k, NEW v, NEW w, State(k, v, w, {}), Len(v["zombieQueue"]) \in {0, 1}
  PROVE  \E v2 : /\ State(FreeZombies(k), v2, w, {})
                 /\ Table(FreeZombies(k), v2) = Abstract!FreeZombies(Table(k, v))
<1> DEFINE z == v["zombieQueue"]
           t == Table(k, v)
           p == FirstObject(k, "zombieQueue")
<1>1. /\ v \in [ProcessQueues -> Seq(Proc)] /\ z \in Seq(Proc) /\ k \in Kernels
      /\ v["freepcbs"] \in Seq(Proc) /\ k.heap.nitems["zombieQueue"] = Len(z)
      /\ k.status \in [Proc -> Status]
  <2>1. /\ v \in [ProcessQueues -> Seq(Proc)] /\ k \in Kernels
        /\ k.heap.nitems["zombieQueue"] = Len(z)
    BY ViewFacts, StatusNames
  <2> QED BY <2>1, StatusNames DEF Kernels
<1>2. Abstract!Proc = Proc /\ \A s : Abstract!Elements(s) = Elements(s)
  BY DEF Abstract!Proc, Proc, Abstract!Elements, Elements
<1>3. CASE Len(z) = 0
  <2>1. FreeZombies(k) = k
    BY <1>1, <1>3, ZombieLoop
  <2>2. z = <<>> /\ Elements(z) = {} /\ v["freepcbs"] \o z = v["freepcbs"]
    <3> HIDE DEF z
    <3>1. z = <<>>
      BY <1>1, <1>3
    <3>2. Elements(<<>>) = {}
      BY DEF Elements
    <3>3. v["freepcbs"] \o <<>> = v["freepcbs"]
      BY <1>1
    <3> QED BY <3>1, <3>2, <3>3
  <2>3. [x \in Proc |-> IF x \in Elements(z) THEN "free" ELSE k.status[x]] = k.status
    BY <1>1, <2>2
  <2> HIDE DEF z
  <2>4. Abstract!FreeZombies(t) = [t EXCEPT !.status = k.status, !.free = v["freepcbs"],
                                            !.zombies = z]
    BY <1>2, <2>2, <2>3 DEF Abstract!FreeZombies, Table, z
  <2>5. Abstract!FreeZombies(t) = t
    BY <2>4 DEF Table, z
  <2> QED BY <2>1, <2>5
<1>4. CASE Len(z) = 1
  <2> DEFINE a == EnterLast(SetStatus(Leave(k, p), p, "free"), p, "freepcbs")
  <2>1. FreeZombies(k) = a
    BY <1>1, <1>4, ZombieLoop DEF ProcessFreeResources
  <2>2. /\ p \in Proc /\ p = Head(z)
        /\ \E v2 : /\ Moved(a, k, v2, w, p, "free")
                   /\ \A x \in ProcessQueues :
                        v2[x] = IF x = "freepcbs" THEN Append(v["freepcbs"], p)
                                ELSE IF x = "zombieQueue" THEN Tail(z) ELSE v[x]
    BY <1>4, HeadLemma, StatusNames
  <2> HIDE DEF a, p
  <2>3. PICK v2 : /\ Moved(a, k, v2, w, p, "free")
                  /\ \A x \in ProcessQueues :
                       v2[x] = IF x = "freepcbs" THEN Append(v["freepcbs"], p)
                               ELSE IF x = "zombieQueue" THEN Tail(z) ELSE v[x]
    BY <2>2
  <2>4. /\ State(a, v2, w, {}) /\ a.status = [k.status EXCEPT ![p] = "free"]
        /\ a.current = k.current /\ a.halted = k.halted
    BY <2>3 DEF Moved
  <2> HIDE DEF z
  <2>5. /\ z = <<p>> /\ Elements(z) = {p} /\ Tail(z) = <<>>
        /\ v["freepcbs"] \o z = Append(v["freepcbs"], p)
    <3>1. z = <<p>>
      BY <1>1, <1>4, <2>2
    <3>2. Elements(<<p>>) = {p} /\ Tail(<<p>>) = <<>>
      BY DEF Elements
    <3>3. v["freepcbs"] \o <<p>> = Append(v["freepcbs"], p)
      BY <1>1, <2>2
    <3> QED BY <3>1, <3>2, <3>3
  <2>6. /\ v2["freepcbs"] = Append(v["freepcbs"], p) /\ v2["zombieQueue"] = <<>>
        /\ v2["waitQueue"] = v["waitQueue"] /\ v2["runQueue"] = v["runQueue"]
    BY <2>3, <2>5, StatusNames
  <2>7. [x \in Proc |-> IF x \in Elements(z) THEN "free" ELSE k.status[x]] = a.status
    BY <1>1, <2>2, <2>4, <2>5
  <2>8. Abstract!FreeZombies(t) = [t EXCEPT !.status = a.status,
                                            !.free = Append(v["freepcbs"], p),
                                            !.zombies = <<>>]
    BY <1>2, <2>5, <2>7 DEF Abstract!FreeZombies, Table, z
  <2>9. Table(a, v2) = Abstract!FreeZombies(t)
    BY <2>4, <2>6, <2>8 DEF Table
  <2> QED BY <2>1, <2>4, <2>9
<1> QED BY <1>3, <1>4

\* ProcessSchedule: the front of the run queue goes to its end, the next one
\* runs, and the zombie becomes free; without one to run the system stops
\* (process.c 179-227).
LEMMA ScheduleLemma ==
  ASSUME NEW k, NEW v, NEW w, State(k, v, w, {}), Len(v["zombieQueue"]) \in {0, 1}
  PROVE  \E v2 : /\ State(ProcessSchedule(k), v2, w, {})
                 /\ Table(ProcessSchedule(k), v2) = Abstract!Schedule(Table(k, v))
<1> DEFINE t == Table(k, v)
           u == ProcessSchedule(k)
<1>1. t.run = v["runQueue"] /\ v \in [ProcessQueues -> Seq(Proc)] /\ v["runQueue"] \in Seq(Proc)
  <2>1. v \in [ProcessQueues -> Seq(Proc)]
    BY ViewFacts
  <2> QED BY <2>1, StatusNames DEF Table
<1>2. CASE v["runQueue"] = <<>>
  <2>1. u = Halt(k)
    BY <1>2, EmptyLemma, StatusNames DEF ProcessSchedule
  <2>2. Abstract!Schedule(t) = Abstract!Halt(t)
    BY <1>1, <1>2 DEF Abstract!Schedule
  <2> HIDE DEF u, t
  <2>3. State(Halt(k), v, w, {}) /\ Table(Halt(k), v) = Abstract!Halt(t)
    BY HaltLemma DEF t
  <2> QED BY <2>1, <2>2, <2>3 DEF u, t
<1>3. CASE v["runQueue"] # <<>>
  <2> DEFINE turned == [k EXCEPT !.heap = AQueueMoveAfter(@, "runQueue", @.last["runQueue"],
                                                         @.first["runQueue"])]
             p == FirstObject(turned, "runQueue")
             a == [turned EXCEPT !.current = p]
             r == Abstract!MoveFrontToEnd(v["runQueue"])
             v1 == [v EXCEPT !["runQueue"] = r]
  <2>1. u = FreeZombies(a)
    BY <1>3, EmptyLemma, StatusNames DEF ProcessSchedule
  <2>2. /\ State(turned, v1, w, {})
        /\ turned.status = k.status /\ turned.current = k.current /\ turned.halted = k.halted
    BY <1>3, TurnLemma
  <2> HIDE DEF turned, u
  <2>3. r \in Seq(Proc) /\ Len(r) # 0
    <3>1. /\ Len(v["runQueue"]) \in Nat \ {0} /\ Head(v["runQueue"]) \in Proc
          /\ Tail(v["runQueue"]) \in Seq(Proc)
      BY <1>1, <1>3
    <3> QED BY <3>1 DEF Abstract!MoveFrontToEnd
  <2>4. /\ v1["runQueue"] = r /\ v1["freepcbs"] = v["freepcbs"]
        /\ v1["waitQueue"] = v["waitQueue"] /\ v1["zombieQueue"] = v["zombieQueue"]
    BY <1>1, StatusNames
  <2> HIDE DEF v1, r
  <2>5. p = Head(r) /\ p \in Proc
    <3>1. p = v1["runQueue"][1] /\ 1 \in 1 .. Len(r)
      BY <2>2, <2>3, <2>4, ViewFacts, StatusNames
    <3> QED BY <2>3, <2>4, <3>1
  <2> HIDE DEF p
  <2>6. /\ State(a, v1, w, {}) /\ a.status = k.status /\ a.current = p
        /\ a.halted = k.halted
    <3>1. p \in Proc \cup {NoProc}
      BY <2>5
    <3>2. /\ State(a, v1, w, {}) /\ a.status = turned.status /\ a.current = p
          /\ a.halted = turned.halted
      BY <2>2, <3>1, CurrentLemma
    <3> QED BY <2>2, <3>2
  <2> HIDE DEF a
  <2>7. PICK v2 : /\ State(FreeZombies(a), v2, w, {})
                  /\ Table(FreeZombies(a), v2) = Abstract!FreeZombies(Table(a, v1))
    BY <2>4, <2>6, FreeZombiesLemma
  <2>8. Abstract!Schedule(t) = Abstract!FreeZombies([t EXCEPT !.run = r, !.current = p])
    BY <1>1, <1>3, <2>5 DEF Abstract!Schedule, r
  <2>9. Table(a, v1) = [t EXCEPT !.run = r, !.current = p]
    <3> DEFINE b == [t EXCEPT !.run = r]
    <3>1. b = [status |-> k.status, free |-> v["freepcbs"], run |-> r,
               waiting |-> Elements(v["waitQueue"]), zombies |-> v["zombieQueue"],
               current |-> k.current, halted |-> k.halted]
      BY DEF Table
    <3>2. Table(a, v1)
            = [status |-> k.status, free |-> v["freepcbs"], run |-> r,
               waiting |-> Elements(v["waitQueue"]), zombies |-> v["zombieQueue"],
               current |-> p, halted |-> k.halted]
      BY <2>4, <2>6 DEF Table
    <3>3. [b EXCEPT !.current = p] = [t EXCEPT !.run = r, !.current = p]
      OBVIOUS
    <3> HIDE DEF b
    <3>4. Table(a, v1) = [b EXCEPT !.current = p]
      BY <3>1, <3>2
    <3> QED BY <3>3, <3>4
  <2> QED BY <2>1, <2>7, <2>8, <2>9 DEF u
<1> QED BY <1>2, <1>3

-----------------------------------------------------------------------------
(* Links of sleepers in objects, and why the pool suffices.                *)

\* Every sleeper of an object is suspended and has one link there.
WaitsOK(k, w) ==
  /\ \A l \in Links : w[l] # NoProc => k.status[w[l]] = "waiting"
  /\ \A l, m \in Links : w[l] # NoProc /\ w[l] = w[m] => l = m

\* A process that is not suspended finds a free link: the links of all others
\* are one for each PCB and one for each process but this one, which is less
\* than the pool has.
LEMMA FreeLinkLeft ==
  ASSUME NEW k, NEW v, NEW w, State(k, v, w, {}), WaitsOK(k, w),
         NEW p \in Proc, k.status[p] # "waiting"
  PROVE  k.heap.nitems[FreeLinks] # 0
<1> DEFINE h == k.heap
           D == 1 .. Len(LinkPool)
           T == (0 .. 2 * NumProcs - 1) \ {NumProcs + p}
           use == [i \in D |-> IF h.queue[LinkPool[i]] \in ProcessQueues
                               THEN h.object[LinkPool[i]]
                               ELSE NumProcs + h.object[LinkPool[i]]]
<1>1. PICK c : Good(k, c, {}) /\ w = WaitLinks(h)
  BY DEF State
<1>2. Rep(h, c, {}) /\ FreeLinks \in AllQueues
  BY <1>1, QueueNames DEF Good
<1>3. SUFFICES ASSUME Len(c[FreeLinks]) = 0 PROVE FALSE
  BY <1>2, Ends
<1>4. ASSUME NEW l \in Links
      PROVE  h.queue[l] \in ProcessQueues \cup Waits
  <2>1. PICK r \in AllQueues : \E i \in 1 .. Len(c[r]) : c[r][i] = l
    BY <1>2 DEF Rep
  <2>2. r # FreeLinks /\ h.queue[l] = r
    BY <1>2, <1>3, <2>1 DEF Rep, Linked
  <2> QED BY <2>2, QueuesAssumption DEF AllQueues
<1>5. ASSUME NEW l \in Links, h.queue[l] \in ProcessQueues
      PROVE  h.object[l] \in Proc /\ k.link[h.object[l]] = l
  BY <1>1, <1>5 DEF Good
<1>6. ASSUME NEW l \in Links, h.queue[l] \notin ProcessQueues
      PROVE  h.object[l] \in Proc /\ w[l] = h.object[l] /\ h.object[l] # p
  <2>1. h.queue[l] \in Waits
    BY <1>4, <1>6
  <2>2. h.object[l] \in Proc /\ w[l] = h.object[l]
    BY <1>1, <2>1 DEF Good, WaitLinks
  <2>3. w[l] # NoProc
    BY <2>2, ObjectAssumption
  <2> QED BY <2>2, <2>3 DEF WaitsOK
<1>7. /\ Len(LinkPool) \in Nat /\ NumProcs \in Nat \ {0} /\ Len(LinkPool) >= 2 * NumProcs
      /\ \A i \in D : LinkPool[i] \in Links
      /\ \A i, j \in D : LinkPool[i] = LinkPool[j] => i = j
  BY PoolAssumption, SizeAssumption, LinksAssumption
<1> HIDE DEF h
<1>8. use \in [D -> T]
  <2>1. ASSUME NEW i \in D
        PROVE  (IF h.queue[LinkPool[i]] \in ProcessQueues
                THEN h.object[LinkPool[i]] ELSE NumProcs + h.object[LinkPool[i]]) \in T
    <3>1. LinkPool[i] \in Links
      BY <1>7
    <3>2. CASE h.queue[LinkPool[i]] \in ProcessQueues
      <4> DEFINE o == h.object[LinkPool[i]]
      <4>1. o \in Proc
        BY <1>5, <3>1, <3>2
      <4> HIDE DEF o
      <4>2. o \in T
        BY <1>7, <4>1 DEF Proc
      <4> QED BY <3>2, <4>2 DEF o
    <3>3. CASE h.queue[LinkPool[i]] \notin ProcessQueues
      <4> DEFINE o == h.object[LinkPool[i]]
      <4>1. o \in Proc /\ o # p
        BY <1>6, <3>1, <3>3
      <4> HIDE DEF o
      <4>2. NumProcs + o \in T
        BY <1>7, <4>1 DEF Proc
      <4> QED BY <3>3, <4>2 DEF o
    <3> QED BY <3>2, <3>3
  <2> QED BY <2>1
<1>9. /\ IsFiniteSet(D) /\ Cardinality(D) = Len(LinkPool)
      /\ IsFiniteSet(T) /\ Cardinality(T) = 2 * NumProcs - 1
  <2>1. IsFiniteSet(D) /\ Cardinality(D) = Len(LinkPool)
    <3> DEFINE n == Len(LinkPool)
    <3>1. n \in Nat /\ n \in Int /\ 1 \in Int
      BY <1>7
    <3> HIDE DEF n
    <3>2. IsFiniteSet(1 .. n) /\ Cardinality(1 .. n) = IF 1 > n THEN 0 ELSE n - 1 + 1
      BY <3>1, FS_Interval, Zenon
    <3>3. (IF 1 > n THEN 0 ELSE n - 1 + 1) = n
      BY <3>1
    <3> QED BY <3>2, <3>3 DEF n
  <2> DEFINE A == 0 .. 2 * NumProcs - 1
  <2>2. IsFiniteSet(A) /\ Cardinality(A) = 2 * NumProcs
    BY <1>7, FS_Interval
  <2>3. NumProcs + p \in A
    BY <1>7 DEF Proc
  <2> HIDE DEF A
  <2>4. IsFiniteSet(A \ {NumProcs + p}) /\ Cardinality(A \ {NumProcs + p}) = 2 * NumProcs - 1
    BY <2>2, <2>3, FS_RemoveElement
  <2> QED BY <2>1, <2>4 DEF A
<1>10. Cardinality(T) < Cardinality(D)
  BY <1>7, <1>9
<1> HIDE DEF T, use
<1>11. PICK i, j \in D : i # j /\ use[i] = use[j]
  BY <1>8, <1>9, <1>10, FS_PigeonHole
<1>12. LinkPool[i] \in Links /\ LinkPool[j] \in Links /\ LinkPool[i] # LinkPool[j]
  BY <1>7, <1>11
<1> DEFINE l == LinkPool[i]
           m == LinkPool[j]
<1>13. /\ use[i] = IF h.queue[l] \in ProcessQueues THEN h.object[l] ELSE NumProcs + h.object[l]
       /\ use[j] = IF h.queue[m] \in ProcessQueues THEN h.object[m] ELSE NumProcs + h.object[m]
  BY DEF use
<1> HIDE DEF l, m
<1>14. h.object[l] \in Proc /\ h.object[m] \in Proc
  BY <1>5, <1>6, <1>12 DEF l, m
<1>15. /\ h.queue[l] \in ProcessQueues <=> h.queue[m] \in ProcessQueues
       /\ h.object[l] = h.object[m]
  <2> DEFINE a == h.object[l]
             b == h.object[m]
  <2>1. a \in 0 .. NumProcs - 1 /\ b \in 0 .. NumProcs - 1 /\ NumProcs \in Nat
    BY <1>7, <1>14 DEF Proc
  <2> HIDE DEF a, b
  <2>2. a # NumProcs + b /\ NumProcs + a # b /\ (NumProcs + a = NumProcs + b => a = b)
    BY <2>1
  <2>3. /\ use[i] = IF h.queue[l] \in ProcessQueues THEN a ELSE NumProcs + a
        /\ use[i] = IF h.queue[m] \in ProcessQueues THEN b ELSE NumProcs + b
    BY <1>11, <1>13 DEF a, b
  <2>4. (h.queue[l] \in ProcessQueues <=> h.queue[m] \in ProcessQueues) /\ a = b
    BY <2>2, <2>3, Zenon
  <2> QED BY <2>4 DEF a, b
<1>16. CASE h.queue[l] \in ProcessQueues
  BY <1>5, <1>12, <1>15, <1>16 DEF l, m
<1>17. CASE h.queue[l] \notin ProcessQueues
  <2>1. w[l] = h.object[l] /\ w[m] = h.object[m] /\ l \in Links /\ m \in Links
    BY <1>6, <1>12, <1>15, <1>17 DEF l, m
  <2>2. w[l] # NoProc /\ w[l] = w[m]
    BY <1>14, <1>15, <2>1, ObjectAssumption
  <2> QED BY <1>12, <2>1, <2>2 DEF WaitsOK, l, m
<1> QED BY <1>16, <1>17

\* u is k with the queues v and the sleepers w.
Same(u, k, v, w) ==
  /\ State(u, v, w, {})
  /\ u.status = k.status /\ u.current = k.current /\ u.halted = k.halted

\* What a change of heaps keeps, when it moves links between freeLinks and
\* the queue of an object only.
LEMMA SameProcesses ==
  ASSUME NEW k, NEW c, Good(k, c, {}), NEW g, NEW d, Rep(g, d, {}),
         ~g.failed,
         \A q \in ProcessQueues : d[q] = c[q],
         \A l \in Links : g.queue[l] # k.heap.queue[l] =>
                            /\ g.queue[l] \notin ProcessQueues
                            /\ k.heap.queue[l] \notin ProcessQueues,
         \A l \in Links : g.queue[l] \in ProcessQueues => g.object[l] = k.heap.object[l],
         \A l \in Links : g.queue[l] \in Waits => g.object[l] \in Proc
  PROVE  Same([k EXCEPT !.heap = g], k, View(k.heap, c), WaitLinks(g))
<1> DEFINE h == k.heap
           u == [k EXCEPT !.heap = g]
<1>1. k \in Kernels /\ Rep(h, c, {}) /\ g \in Heaps
  BY DEF Good, Rep
<1>2. /\ u \in Kernels /\ u.heap = g /\ u.link = k.link /\ u.status = k.status
      /\ u.current = k.current /\ u.halted = k.halted
  BY <1>1 DEF Kernels
<1> HIDE DEF u, h
<1>3. ASSUME NEW x \in Links, g.queue[x] \in ProcessQueues \/ h.queue[x] \in ProcessQueues
      PROVE  g.queue[x] = h.queue[x] /\ g.object[x] = h.object[x]
  BY <1>3 DEF h
<1>4. ASSUME NEW p \in Proc \ {}
      PROVE  /\ u.link[p] \in Links /\ g.object[u.link[p]] = p
             /\ g.queue[u.link[p]] = QueueOf(u.status[p])
  <2>1. /\ k.link[p] \in Links /\ h.object[k.link[p]] = p
        /\ h.queue[k.link[p]] = QueueOf(k.status[p])
    BY DEF Good, h
  <2>2. h.queue[k.link[p]] \in ProcessQueues
    BY <2>1, QueueNames
  <2> QED BY <1>2, <1>3, <2>1, <2>2
<1>5. ASSUME NEW x \in Links, g.queue[x] \in ProcessQueues
      PROVE  g.object[x] \in Proc \ {} /\ u.link[g.object[x]] = x
  <2>1. h.queue[x] \in ProcessQueues /\ g.object[x] = h.object[x]
    BY <1>3, <1>5
  <2>2. h.object[x] \in Proc \ {} /\ k.link[h.object[x]] = x
    BY <2>1 DEF Good, h
  <2> QED BY <1>2, <2>1, <2>2
<1>6. Good(u, d, {})
  BY <1>2, <1>4, <1>5 DEF Good
<1>7. View(g, d) = View(h, c)
  <2>1. ASSUME NEW q \in ProcessQueues
        PROVE  Objs(g, d[q]) = Objs(h, c[q])
    <3>1. \A i \in 1 .. Len(c[q]) :
            c[q][i] \in Links /\ h.queue[c[q][i]] = q
      BY OwnLinks DEF h
    <3>2. \A i \in 1 .. Len(c[q]) : g.object[c[q][i]] = h.object[c[q][i]]
      BY <1>3, <3>1
    <3> QED BY <3>2 DEF Objs
  <2> QED BY <2>1 DEF View
<1>8. State(u, View(h, c), WaitLinks(g), {})
  BY <1>2, <1>6, <1>7 DEF State
<1> QED BY <1>2, <1>8 DEF Same, u, h

\* A link of the queue of an object for p, as WaitIn inserts it.
QueueIn(k, q, p) ==
  [k EXCEPT !.heap = AQueueInsertLast(AQueueAllocLink(k.heap, p).heap, q,
                                      AQueueAllocLink(k.heap, p).link)]

Slept(u, k, v, w, p) ==
  /\ \E l \in Links : w[l] = NoProc /\ State(u, v, [w EXCEPT ![l] = p], {})
  /\ u.status = k.status /\ u.current = k.current /\ u.halted = k.halted

LEMMA QueueInLemma ==
  ASSUME NEW k, NEW v, NEW w, State(k, v, w, {}), k.heap.nitems[FreeLinks] # 0,
         NEW p \in Proc, NEW q \in Waits
  PROVE  /\ ~AQueueAllocLink(k.heap, p).heap.failed
         /\ Slept(QueueIn(k, q, p), k, v, w, p)
<1> DEFINE h == k.heap
           new == AQueueAllocLink(h, p)
           g == AQueueInsertLast(new.heap, q, new.link)
           u == [k EXCEPT !.heap = g]
<1>1. PICK c : Good(k, c, {}) /\ v = View(h, c) /\ w = WaitLinks(h)
  BY DEF State
<1> DEFINE l == c[FreeLinks][1]
           d == [[c EXCEPT ![FreeLinks] = Without(c[FreeLinks], 1)] EXCEPT
                   ![q] = Append(c[q], l)]
<1>2. /\ Rep(h, c, {}) /\ ~h.failed /\ h \in Heaps /\ c \in Chains /\ q \in Queues
      /\ q \in AllQueues /\ q # FreeLinks
  BY <1>1, QueueNames DEF Good, Rep
<1>3. /\ l \in Links /\ h.queue[l] = FreeLinks /\ new.heap.failed = h.failed
      /\ Rep(g, d, {}) /\ Entered(g, h, q, l, p)
  BY <1>2, AllocInsertLast
<1>4. \A r \in ProcessQueues : d[r] = c[r]
  BY <1>2, QueueNames DEF Chains
<1> HIDE DEF l, d, g, new, h
<1>5. ~g.failed /\ g.queue = [h.queue EXCEPT ![l] = q] /\ g.object = [h.object EXCEPT ![l] = p]
  BY <1>2, <1>3 DEF Entered
<1>6. \A x \in Links : /\ g.queue[x] = IF x = l THEN q ELSE h.queue[x]
                       /\ g.object[x] = IF x = l THEN p ELSE h.object[x]
  BY <1>2, <1>5 DEF Heaps
<1>7. /\ \A x \in Links : g.queue[x] # h.queue[x] =>
                            /\ g.queue[x] \notin ProcessQueues
                            /\ h.queue[x] \notin ProcessQueues
      /\ \A x \in Links : g.queue[x] \in ProcessQueues => g.object[x] = h.object[x]
  BY <1>3, <1>6, QueueNames
<1>8. ASSUME NEW x \in Links, g.queue[x] \in Waits
      PROVE  g.object[x] \in Proc
  BY <1>1, <1>6, <1>8 DEF Good, h
<1>9. Same(u, k, View(h, c), WaitLinks(g))
  BY <1>1, <1>3, <1>4, <1>5, <1>7, <1>8, SameProcesses DEF h
<1>10. WaitLinks(g) = [w EXCEPT ![l] = p] /\ w[l] = NoProc
  BY <1>1, <1>3, <1>6, QueueNames DEF WaitLinks
<1> HIDE DEF u
<1>11. Slept(u, k, v, w, p)
  BY <1>1, <1>3, <1>9, <1>10 DEF Slept, Same
<1> QED BY <1>2, <1>3, <1>11 DEF QueueIn, u, g, new, h

\* The first link of the queue of an object is taken away, as WakeFirst does.
QueueOut(k, q) == [k EXCEPT !.heap = AQueueRemove(@, @.first[q])]

Roused(u, k, v, w, p) ==
  /\ p \in Proc
  /\ \E l \in Links : w[l] = p /\ State(u, v, [w EXCEPT ![l] = NoProc], {})
  /\ u.status = k.status /\ u.current = k.current /\ u.halted = k.halted

LEMMA QueueOutLemma ==
  ASSUME NEW k, NEW v, NEW w, State(k, v, w, {}), NEW q \in Waits, ~Empty(k, q)
  PROVE  Roused(QueueOut(k, q), k, v, w, FirstObject(k, q))
<1> DEFINE h == k.heap
           g == AQueueRemove(h, h.first[q])
           u == [k EXCEPT !.heap = g]
           p == FirstObject(k, q)
<1>1. PICK c : Good(k, c, {}) /\ v = View(h, c) /\ w = WaitLinks(h)
  BY DEF State
<1> DEFINE l == c[q][1]
           d == [[c EXCEPT ![q] = Without(c[q], 1)] EXCEPT
                   ![FreeLinks] = Append(c[FreeLinks], l)]
<1>2. /\ Rep(h, c, {}) /\ ~h.failed /\ h \in Heaps /\ c \in Chains /\ q \in Queues
      /\ q \in AllQueues /\ q # FreeLinks
  BY <1>1, QueueNames DEF Good, Rep
<1>3. /\ Len(c[q]) \in Nat /\ Len(c[q]) # 0 /\ h.first[q] = l /\ l \in Links /\ h.queue[l] = q
  BY <1>2, Ends DEF Empty
<1>4. Removed(g, h, c, q, 1)
  <2>1. 1 \in 1 .. Len(c[q])
    BY <1>3
  <2>2. Removed(AQueueRemove(h, c[q][1]), h, c, q, 1)
    BY <1>2, <2>1, RemoveLemma
  <2> QED BY <1>3, <2>2
<1>5. /\ Rep(g, d, {}) /\ g.queue = [h.queue EXCEPT ![l] = FreeLinks]
      /\ g.object = h.object /\ g.failed = h.failed
  <2> HIDE DEF g, h
  <2> QED BY <1>4 DEF Removed
<1>6. \A r \in ProcessQueues : d[r] = c[r]
  BY <1>2, QueueNames DEF Chains
<1>7. p = h.object[l]
  BY <1>3 DEF FirstObject
<1> HIDE DEF l, d, g, h, p
<1>8. \A x \in Links : g.queue[x] = IF x = l THEN FreeLinks ELSE h.queue[x]
  BY <1>2, <1>5 DEF Heaps
<1>9. /\ \A x \in Links : g.queue[x] # h.queue[x] =>
                            /\ g.queue[x] \notin ProcessQueues
                            /\ h.queue[x] \notin ProcessQueues
      /\ \A x \in Links : g.queue[x] \in ProcessQueues => g.object[x] = h.object[x]
  BY <1>3, <1>5, <1>8, QueueNames
<1>10. ASSUME NEW x \in Links, g.queue[x] \in Waits
       PROVE  g.object[x] \in Proc
  BY <1>1, <1>5, <1>8, <1>10, QueueNames DEF Good, h
<1>11. Same(u, k, View(h, c), WaitLinks(g))
  <2>1. ~g.failed /\ Rep(g, d, {}) /\ Good(k, c, {})
    BY <1>1, <1>2, <1>5
  <2> QED BY <1>6, <1>9, <1>10, <2>1, SameProcesses DEF h
<1>12. p \in Proc /\ w[l] = p
  BY <1>1, <1>3, <1>7 DEF Good, h, WaitLinks
<1>13. WaitLinks(g) = [w EXCEPT ![l] = NoProc]
  BY <1>1, <1>5, <1>8, QueueNames DEF WaitLinks
<1> HIDE DEF u
<1>14. Roused(u, k, v, w, p)
  BY <1>1, <1>3, <1>11, <1>12, <1>13 DEF Roused, Same
<1> QED BY <1>14 DEF QueueOut, u, g, h, p

-----------------------------------------------------------------------------
(* Loops and recursive functions over the numbers up to a bound.           *)

\* The order of the naturals, as a set of pairs.
LessThan == {p \in Nat \X Nat : p[1] < p[2]}

\* A set with 0 that has the next of each of its numbers has all up to n: the
\* least number it lacks would be the next of one that it has.
LEMMA CountUp ==
  ASSUME NEW n \in Nat, NEW S, 0 \in S, \A i \in 0 .. n : i \in S /\ i # n => i + 1 \in S
  PROVE  \A i \in 0 .. n : i \in S
<1> DEFINE B == {i \in 0 .. n : i \notin S}
<1>1. SUFFICES ASSUME B # {} PROVE FALSE
  OBVIOUS
<1>2. IsWellFoundedOn(LessThan, Nat)
  BY NatLessThanWellFounded DEF OpToRel, LessThan
<1>3. B \subseteq Nat
  OBVIOUS
<1>4. PICK m \in B : \A i \in B : ~ (<<i, m>> \in LessThan)
  BY <1>1, <1>2, <1>3, WFMin
<1>5. m \in 0 .. n /\ m \notin S /\ m # 0
  BY <1>4
<1>6. m - 1 \in 0 .. n /\ m - 1 # n /\ (m - 1) + 1 = m
  BY <1>5
<1>7. m - 1 \notin B
  <2>1. <<m - 1, m>> \in LessThan
    BY <1>5, <1>6 DEF LessThan
  <2> QED BY <1>4, <2>1
<1> QED BY <1>5, <1>6, <1>7

\* The first links of a sequence.
Prefix(s, i) == [j \in 1 .. i |-> s[j]]

LEMMA PrefixLemma ==
  ASSUME NEW S, NEW s \in Seq(S)
  PROVE  /\ Prefix(s, 0) = <<>> /\ Prefix(s, Len(s)) = s
         /\ \A i \in 1 .. Len(s) : /\ Prefix(s, i) = Append(Prefix(s, i - 1), s[i])
                                   /\ Prefix(s, i)[i] = s[i]
                                   /\ i = 1 => Prefix(s, i) = <<s[i]>>
<1>1. Len(s) \in Nat /\ \A i \in 1 .. Len(s) : s[i] \in S
  OBVIOUS
<1>2. Prefix(s, 0) = <<>>
  BY DEF Prefix
<1>3. Prefix(s, Len(s)) = s
  BY DEF Prefix
<1>4. ASSUME NEW i \in 1 .. Len(s)
      PROVE  /\ Prefix(s, i) = Append(Prefix(s, i - 1), s[i])
             /\ Prefix(s, i)[i] = s[i]
             /\ i = 1 => Prefix(s, i) = <<s[i]>>
  <2> DEFINE p == Prefix(s, i - 1)
             a == Append(p, s[i])
  <2>1. i - 1 \in Nat /\ i \in Nat /\ \A j \in 1 .. i - 1 : s[j] \in S
    BY <1>1
  <2>2. p \in Seq(S) /\ Len(p) = i - 1 /\ \A j \in 1 .. i - 1 : p[j] = s[j]
    BY <2>1 DEF Prefix
  <2> HIDE DEF p
  <2>3. a \in Seq(S) /\ Len(a) = i /\ \A j \in 1 .. i : a[j] = s[j]
    BY <1>1, <2>1, <2>2
  <2> HIDE DEF a
  <2>4. a = [j \in 1 .. i |-> a[j]]
    BY <2>1, <2>3
  <2>5. a = Prefix(s, i)
    BY <2>3, <2>4 DEF Prefix
  <2>6. Prefix(s, i)[i] = s[i]
    BY <2>1 DEF Prefix
  <2>7. i = 1 => Prefix(s, i) = <<s[i]>>
    BY DEF Prefix
  <2> QED BY <2>5, <2>6, <2>7 DEF a, p
<1> QED BY <1>2, <1>3, <1>4

\* Walking from first along the next pointers finds the links of the queue.
LEMMA ChainLemma ==
  ASSUME NEW h, NEW c, NEW out, Rep(h, c, out), NEW q \in AllQueues
  PROVE  Chain(h, q) = c[q]
<1> DEFINE n == h.nitems[q]
           s == c[q]
           Loop(g) == [i \in 0 .. n |->
                        IF i = 0 THEN <<>>
                        ELSE IF i = 1 THEN <<h.first[q]>>
                        ELSE Append(g[i - 1], h.next[g[i - 1][i - 1]])]
           f == CHOOSE g : g = Loop(g)
<1>1. Chain(h, q) = f[n]
  BY DEF Chain
<1>2. /\ s \in Seq(Links) /\ n = Len(s) /\ n \in Nat
      /\ Len(s) # 0 => h.first[q] = s[1]
  BY Ends
<1>3. \A i \in 1 .. n : i # n => h.next[s[i]] = s[i + 1]
  <2>1. \A i \in 1 .. n : h.next[s[i]] = At(s, i + 1)
    BY <1>2 DEF Rep, Linked
  <2>2. \A i \in 1 .. n : i # n => At(s, i + 1) = s[i + 1]
    BY <1>2 DEF At
  <2> QED BY <2>1, <2>2
<1> HIDE DEF n, s
\* One turn of the loop adds the next link.
<1>4. ASSUME NEW g, NEW i \in 0 .. n, i # 0, g[i - 1] = Prefix(s, i - 1)
      PROVE  Loop(g)[i] = Prefix(s, i)
  <2>1. i \in 1 .. Len(s)
    BY <1>2, <1>4
  <2>2. CASE i = 1
    <3>1. Loop(g)[i] = <<h.first[q]>>
      BY <2>2
    <3>2. h.first[q] = s[i]
      BY <1>2, <2>1, <2>2
    <3>3. Prefix(s, i) = <<s[i]>>
      BY <1>2, <2>1, <2>2, PrefixLemma
    <3> QED BY <3>1, <3>2, <3>3
  <2>3. CASE i # 1
    <3>1. i - 1 \in 1 .. Len(s) /\ i - 1 # n /\ (i - 1) + 1 = i
      BY <1>2, <2>1, <2>3
    <3>2. Loop(g)[i] = Append(Prefix(s, i - 1), h.next[Prefix(s, i - 1)[i - 1]])
      BY <1>4, <2>3
    <3>3. h.next[Prefix(s, i - 1)[i - 1]] = s[i]
      BY <1>2, <1>3, <3>1, PrefixLemma
    <3>4. Prefix(s, i) = Append(Prefix(s, i - 1), s[i])
      BY <1>2, <2>1, PrefixLemma
    <3> QED BY <3>2, <3>3, <3>4
  <2> QED BY <2>2, <2>3
<1>5. \E g : g = Loop(g)
  <2> DEFINE g == [i \in 0 .. n |-> Prefix(s, i)]
  <2>1. ASSUME NEW i \in 0 .. n
        PROVE  Loop(g)[i] = Prefix(s, i)
    <3>1. CASE i = 0
      BY <1>2, <3>1, PrefixLemma
    <3>2. CASE i # 0
      <4>1. i - 1 \in 0 .. n
        BY <1>2, <3>2
      <4>2. g[i - 1] = Prefix(s, i - 1)
        BY <4>1
      <4> HIDE DEF g, Loop
      <4> QED BY <1>4, <3>2, <4>2
    <3> QED BY <3>1, <3>2
  <2>2. g = Loop(g)
    BY <2>1
  <2> QED BY <2>2
<1>6. f = Loop(f)
  <2> HIDE DEF Loop
  <2> QED BY <1>5
<1> HIDE DEF f
<1> DEFINE S == {i \in 0 .. n : f[i] = Prefix(s, i)}
<1>7. 0 \in S
  <2>1. 0 \in 0 .. n
    BY <1>2
  <2>2. f[0] = <<>>
    BY <1>6, <2>1
  <2> QED BY <1>2, <2>1, <2>2, PrefixLemma
<1>8. ASSUME NEW i \in 0 .. n, i \in S, i # n
      PROVE  i + 1 \in S
  <2>1. i + 1 \in 0 .. n /\ i + 1 # 0 /\ (i + 1) - 1 = i
    BY <1>2, <1>8
  <2>2. f[(i + 1) - 1] = Prefix(s, (i + 1) - 1)
    BY <1>8, <2>1
  <2> HIDE DEF Loop
  <2>3. Loop(f)[i + 1] = Prefix(s, i + 1)
    BY <1>4, <2>1, <2>2
  <2> QED BY <1>6, <2>1, <2>3
<1> HIDE DEF S
<1>9. n \in S
  <2>1. \A i \in 0 .. n : i \in S
    BY <1>2, <1>7, <1>8, CountUp
  <2> QED BY <1>2, <2>1
<1>10. f[n] = Prefix(s, n)
  BY <1>9 DEF S
<1> QED BY <1>1, <1>2, <1>10, PrefixLemma DEF s

-----------------------------------------------------------------------------
(* What a kernel whose queues are sequences satisfies.                     *)

LEMMA QueueIsSequence ==
  ASSUME NEW k, NEW v, NEW w, State(k, v, w, {}), NEW q \in ProcessQueues
  PROVE  Objects(k.heap, q) = v[q]
<1>1. PICK c : Good(k, c, {}) /\ v = View(k.heap, c)
  BY DEF State
<1>2. Rep(k.heap, c, {}) /\ q \in AllQueues
  BY <1>1, QueueNames DEF Good
<1>3. Chain(k.heap, q) = c[q] /\ c[q] \in Seq(Links)
  BY <1>2, ChainLemma, Ends
<1>4. DOMAIN c[q] = 1 .. Len(c[q])
  BY <1>3
<1> QED BY <1>1, <1>3, <1>4 DEF Objects, View, Objs

LEMMA WellLinkedLemma ==
  ASSUME NEW h, NEW c, Rep(h, c, {})
  PROVE  /\ \A q \in AllQueues : WellLinkedQueue(h, q)
         /\ \A l \in Links : h.queue[l] \in AllQueues
<1>1. ASSUME NEW l \in Links
      PROVE  \E q \in AllQueues : h.queue[l] = q /\ \E i \in 1 .. Len(c[q]) : c[q][i] = l
  <2>1. PICK q \in AllQueues : \E i \in 1 .. Len(c[q]) : c[q][i] = l
    BY DEF Rep
  <2>2. \A i \in 1 .. Len(c[q]) : h.queue[c[q][i]] = q
    BY DEF Rep, Linked
  <2> QED BY <2>1, <2>2
<1>2. ASSUME NEW q \in AllQueues
      PROVE  WellLinkedQueue(h, q)
  <2> DEFINE s == c[q]
             Beside(i) == IF i \in DOMAIN s THEN s[i] ELSE NoLink
  <2>1. /\ Chain(h, q) = s /\ s \in Seq(Links) /\ Linked(h, q, s)
        /\ \A i \in 1 .. Len(s) : s[i] \in Links
    <3>1. Linked(h, q, s)
      BY DEF Rep
    <3> QED BY <3>1, ChainLemma, Ends
  <2>2. DOMAIN s = 1 .. Len(s)
    BY <2>1
  <2>3. \A i : Beside(i) = At(s, i)
    BY <2>2 DEF At
  <2>4. \A l \in Links : h.queue[l] = q => \E i \in DOMAIN s : s[i] = l
    BY <1>1, <2>2
  <2> HIDE DEF Beside
  <2>5. /\ \A i \in DOMAIN s : /\ s[i] \in Links
                               /\ h.queue[s[i]] = q
                               /\ h.prev[s[i]] = Beside(i - 1)
                               /\ h.next[s[i]] = Beside(i + 1)
        /\ h.first[q] = Beside(1) /\ h.last[q] = Beside(Len(s))
    <3> HIDE DEF s
    <3> QED BY <2>1, <2>2, <2>3 DEF Linked
  <2> HIDE DEF s
  <2> QED BY <2>1, <2>4, <2>5 DEF WellLinkedQueue, Beside
<1> QED BY <1>1, <1>2

\* No queue has more links than there are.
LEMMA NoLongQueue ==
  ASSUME NEW h, NEW c, Rep(h, c, {}), NEW q \in AllQueues
  PROVE  h.nitems[q] \in 0 .. Len(LinkPool)
<1> DEFINE s == c[q]
           D == 1 .. Len(s)
           T == 1 .. Len(LinkPool)
           place == [i \in D |-> CHOOSE j \in T : LinkPool[j] = s[i]]
<1>1. /\ h.nitems[q] = Len(s) /\ Len(s) \in Nat /\ Distinct(s)
      /\ \A i \in D : s[i] \in Links
  <2>1. Distinct(s)
    BY DEF Rep
  <2> QED BY <2>1, Ends
<1>2. Len(LinkPool) \in Nat /\ DOMAIN LinkPool = T
  BY PoolAssumption
<1>3. \A i \in D : \E j \in T : LinkPool[j] = s[i]
  BY <1>1, <1>2 DEF Links
<1>4. \A i \in D : place[i] \in T /\ LinkPool[place[i]] = s[i]
  BY <1>3
<1>5. place \in [D -> T]
  BY <1>4
<1>6. /\ IsFiniteSet(D) /\ Cardinality(D) = Len(s)
      /\ IsFiniteSet(T) /\ Cardinality(T) = Len(LinkPool)
  <2> HIDE DEF s
  <2>1. 1 \in Int /\ Len(s) \in Int /\ Len(LinkPool) \in Int
    BY <1>1, <1>2
  <2>2. IsFiniteSet(D) /\ Cardinality(D) = IF 1 > Len(s) THEN 0 ELSE Len(s) - 1 + 1
    BY <2>1, FS_Interval
  <2>3. /\ IsFiniteSet(T)
        /\ Cardinality(T) = IF 1 > Len(LinkPool) THEN 0 ELSE Len(LinkPool) - 1 + 1
    BY <2>1, FS_Interval
  <2> QED BY <1>1, <1>2, <2>2, <2>3
<1> HIDE DEF place
<1>7. ~(Len(LinkPool) < Len(s))
  <2>1. ASSUME Len(LinkPool) < Len(s)
        PROVE  FALSE
    <3>1. \E i, j \in D : i # j /\ place[i] = place[j]
      <4> HIDE DEF D, T
      <4> QED BY <1>5, <1>6, <2>1, FS_PigeonHole
    <3>2. PICK i, j \in D : i # j /\ place[i] = place[j]
      BY <3>1
    <3> QED BY <1>1, <1>4, <3>2 DEF Distinct
  <2> QED BY <2>1
<1> QED BY <1>1, <1>2, <1>7

-----------------------------------------------------------------------------
(* The start.                                                              *)

\* freeLinks has the first n links of the pool, the other queues have none.
FirstLinks(n) ==
  [q \in AllQueues |-> IF q = FreeLinks THEN Prefix(LinkPool, n) ELSE <<>>]
LinksAfter(n) == {LinkPool[j] : j \in n + 1 .. Len(LinkPool)}

Fresh(h, n) == Rep(h, FirstLinks(n), LinksAfter(n)) /\ ~h.failed

LEMMA UnlinkedLemma == Fresh(Unlinked, 0)
<1> DEFINE h == Unlinked
           c == FirstLinks(0)
<1>1. h \in Heaps /\ ~h.failed
  <2>1. /\ NoLink \in LinkOrNone /\ NoQueue \in AllQueues \cup {NoQueue}
        /\ NoObject \in Proc \cup {NoProc}
    BY ObjectAssumption DEF LinkOrNone
  <2> QED BY <2>1 DEF Unlinked, Heaps
<1>2. c = [q \in AllQueues |-> <<>>]
  <2>1. Prefix(LinkPool, 0) = <<>>
    BY PoolAssumption, PrefixLemma
  <2> QED BY <2>1 DEF FirstLinks
<1> HIDE DEF c
<1>3. LinksAfter(0) = Links
  <2>1. DOMAIN LinkPool = 0 + 1 .. Len(LinkPool)
    BY PoolAssumption
  <2> QED BY <2>1 DEF LinksAfter, Links
<1>4. ASSUME NEW q \in AllQueues
      PROVE  Linked(h, q, c[q]) /\ Distinct(c[q]) /\ Len(c[q]) = 0
  <2>1. c[q] = <<>> /\ Len(<<>>) = 0 /\ 1 .. 0 = {}
    BY <1>2
  <2>2. h.nitems[q] = 0 /\ h.first[q] = NoLink /\ h.last[q] = NoLink
    BY DEF Unlinked
  <2>3. \A i : At(<<>>, i) = NoLink
    BY DEF At
  <2> HIDE DEF h
  <2> QED BY <2>1, <2>2, <2>3 DEF Linked, Distinct
<1>5. c \in Chains
  BY <1>2 DEF Chains
<1>6. \A q \in AllQueues : \A i \in 1 .. Len(c[q]) : c[q][i] \notin Links
  <2>1. \A i : i \notin 1 .. 0
    OBVIOUS
  <2> QED BY <1>4, <2>1
<1> HIDE DEF h
<1> QED BY <1>1, <1>3, <1>4, <1>5, <1>6 DEF Rep, h, c, Fresh

\* One turn of the loop that puts the links into freeLinks.
LEMMA FillLemma ==
  ASSUME NEW n \in 0 .. Len(LinkPool), n # Len(LinkPool),
         NEW h, Fresh(h, n)
  PROVE  Fresh(AQueueInsertLast(h, FreeLinks, LinkPool[n + 1]), n + 1)
<1> DEFINE c == FirstLinks(n)
           l == LinkPool[n + 1]
           u == AQueueInsertLast(h, FreeLinks, l)
<1>0. Rep(h, c, LinksAfter(n)) /\ ~h.failed
  BY DEF Fresh
<1>1. /\ Len(LinkPool) \in Nat /\ n \in Nat /\ n + 1 \in 1 .. Len(LinkPool)
      /\ \A i \in 1 .. Len(LinkPool) : LinkPool[i] \in Links
      /\ \A i, j \in 1 .. Len(LinkPool) : LinkPool[i] = LinkPool[j] => i = j
  BY PoolAssumption
<1>2. l \in LinksAfter(n)
  BY <1>1 DEF LinksAfter
<1>3. LinksAfter(n) \ {l} = LinksAfter(n + 1)
  <2>1. \A j \in n + 1 .. Len(LinkPool) : (LinkPool[j] = l <=> j = n + 1)
    BY <1>1
  <2>2. \A j : j \in (n + 1) + 1 .. Len(LinkPool) <=> j \in n + 1 .. Len(LinkPool) /\ j # n + 1
    BY <1>1
  <2> QED BY <2>1, <2>2 DEF LinksAfter
<1>4. [c EXCEPT ![FreeLinks] = Append(c[FreeLinks], l)] = FirstLinks(n + 1)
  <2>1. Prefix(LinkPool, n + 1) = Append(Prefix(LinkPool, n), l)
    <3>1. (n + 1) - 1 = n
      BY <1>1
    <3> QED BY <1>1, <3>1, PoolAssumption, PrefixLemma
  <2> QED BY <2>1 DEF FirstLinks, AllQueues
<1>5. FreeLinks \in AllQueues
  BY DEF AllQueues
<1> HIDE DEF c, l
<1>6. Rep(u, [c EXCEPT ![FreeLinks] = Append(c[FreeLinks], l)], LinksAfter(n) \ {l})
  BY <1>0, <1>2, <1>5, InsertLastLemma
<1>7. Lengthened(u, h, FreeLinks, c[FreeLinks], l)
  BY <1>0, <1>2, <1>5, InsertLastFields
<1> HIDE DEF u
<1>8. ~u.failed
  BY <1>0, <1>7 DEF Lengthened
<1> QED BY <1>3, <1>4, <1>6, <1>8 DEF u, l, Fresh

\* The loop of AQueueModuleInit puts all links into freeLinks, in the order
\* of the pool (queue.c 38-57).
LEMMA FreeLinksFilled == Fresh(AQueueModuleInit, Len(LinkPool))
<1> DEFINE N == Len(LinkPool)
           Put(h, i) == AQueueInsertLast(h, FreeLinks, LinkPool[i])
           Loop(g) == [i \in 0 .. N |-> IF i = 0 THEN Unlinked ELSE Put(g[i - 1], i)]
           f == CHOOSE g : g = Loop(g)
           T == {n \in 0 .. N : \E g : \A i \in 0 .. n : g[i] = IF i = 0 THEN Unlinked
                                                                ELSE Put(g[i - 1], i)}
<1>1. AQueueModuleInit = f[N]
  BY DEF AQueueModuleInit
<1>2. N \in Nat
  BY PoolAssumption
<1> HIDE DEF N, Put
<1>3. N \in T
  <2>1. 0 \in T
    <3> DEFINE g == [i \in 0 .. 0 |-> Unlinked]
    <3>1. \A i \in 0 .. 0 : g[i] = IF i = 0 THEN Unlinked ELSE Put(g[i - 1], i)
      OBVIOUS
    <3>2. 0 \in 0 .. N
      BY <1>2
    <3> HIDE DEF g
    <3> QED BY <3>1, <3>2
  <2>2. ASSUME NEW n \in 0 .. N, n \in T, n # N
        PROVE  n + 1 \in T
    <3>1. PICK g : \A i \in 0 .. n : g[i] = IF i = 0 THEN Unlinked ELSE Put(g[i - 1], i)
      BY <2>2
    <3> DEFINE e == [i \in 0 .. n + 1 |-> IF i = n + 1 THEN Put(g[n], i) ELSE g[i]]
    <3>2. ASSUME NEW i \in 0 .. n + 1
          PROVE  e[i] = IF i = 0 THEN Unlinked ELSE Put(e[i - 1], i)
      <4>1. CASE i = n + 1
        <5>1. i - 1 = n /\ n \in 0 .. n + 1 /\ n # n + 1 /\ i # 0
          BY <1>2, <4>1
        <5>2. e[i] = Put(g[n], i) /\ e[i - 1] = g[n]
          BY <4>1, <5>1
        <5> QED BY <5>1, <5>2
      <4>2. CASE i # n + 1
        <5>1. i \in 0 .. n /\ e[i] = g[i]
          BY <1>2, <4>2
        <5>2. i # 0 => i - 1 \in 0 .. n + 1 /\ i - 1 # n + 1
          BY <1>2, <4>2
        <5>3. i # 0 => e[i - 1] = g[i - 1]
          BY <5>2
        <5> HIDE DEF e
        <5> QED BY <3>1, <5>1, <5>3
      <4> QED BY <4>1, <4>2
    <3> HIDE DEF e
    <3>3. n + 1 \in 0 .. N
      BY <1>2, <2>2
    <3> QED BY <3>2, <3>3
  <2> HIDE DEF T
  <2>3. \A i \in 0 .. N : i \in T
    BY <1>2, <2>1, <2>2, CountUp
  <2> QED BY <1>2, <2>3
<1>4. f = Loop(f)
  <2>1. PICK g : \A i \in 0 .. N : g[i] = IF i = 0 THEN Unlinked ELSE Put(g[i - 1], i)
    BY <1>3
  <2> DEFINE e == [i \in 0 .. N |-> g[i]]
  <2>2. ASSUME NEW i \in 0 .. N
        PROVE  Loop(e)[i] = g[i]
    <3>1. i # 0 => i - 1 \in 0 .. N
      BY <1>2
    <3>2. i # 0 => e[i - 1] = g[i - 1]
      BY <3>1
    <3> HIDE DEF e
    <3> QED BY <2>1, <3>2
  <2>3. e = Loop(e)
    BY <2>2
  <2> HIDE DEF Loop
  <2> QED BY <2>3
<1> HIDE DEF f, T
<1> DEFINE S == {i \in 0 .. N : Fresh(f[i], i)}
<1>5. 0 \in S
  <2>1. 0 \in 0 .. N
    BY <1>2
  <2>2. f[0] = Unlinked
    BY <1>4, <2>1
  <2> QED BY <2>1, <2>2, UnlinkedLemma
<1>6. ASSUME NEW i \in 0 .. N, i \in S, i # N
      PROVE  i + 1 \in S
  <2>1. i + 1 \in 0 .. N /\ i + 1 # 0 /\ (i + 1) - 1 = i
    BY <1>2, <1>6
  <2>2. f[i + 1] = Put(f[i], i + 1)
    BY <1>4, <2>1
  <2>3. Fresh(f[i], i)
    BY <1>6
  <2>4. Fresh(Put(f[i], i + 1), i + 1)
    BY <1>6, <2>3, FillLemma DEF Put, N
  <2> QED BY <2>1, <2>2, <2>4
<1> HIDE DEF S
<1>7. N \in S
  <2>1. \A i \in 0 .. N : i \in S
    BY <1>2, <1>5, <1>6, CountUp
  <2> QED BY <1>2, <2>1
<1> QED BY <1>1, <1>7 DEF S, N

\* The first n PCBs are in freepcbs, the last of them in front.
FirstPCBs(n) ==
  [q \in ProcessQueues |-> IF q = "freepcbs" THEN [i \in 1 .. n |-> n - i] ELSE <<>>]

NoSleepers == [l \in Links |-> NoProc]

Booting(k, n) ==
  /\ State(k, FirstPCBs(n), NoSleepers, n .. NumProcs - 1)
  /\ k.heap.nitems[FreeLinks] = Len(LinkPool) - n
  /\ k.status = [p \in Proc |-> "free"] /\ k.current = NoProc /\ k.halted = FALSE

NoPCBs ==
  [heap |-> AQueueModuleInit, link |-> [p \in Proc |-> NoLink],
   status |-> [p \in Proc |-> "free"], current |-> NoProc, halted |-> FALSE]

LEMMA NoPCBsLemma == Booting(NoPCBs, 0)
<1> DEFINE k == NoPCBs
           h == AQueueModuleInit
           c == FirstLinks(Len(LinkPool))
<1>1. Rep(h, c, LinksAfter(Len(LinkPool))) /\ ~h.failed
  BY FreeLinksFilled DEF Fresh
<1>2. /\ k.heap = h /\ k.link = [p \in Proc |-> NoLink] /\ k.status = [p \in Proc |-> "free"]
      /\ k.current = NoProc /\ k.halted = FALSE
  BY DEF NoPCBs
<1>3. k \in Kernels
  <2>1. h \in Heaps
    BY <1>1 DEF Rep
  <2> HIDE DEF h
  <2>2. "free" \in Status /\ NoLink \in LinkOrNone
    BY StatusNames DEF LinkOrNone
  <2> QED BY <2>1, <2>2 DEF Kernels, NoPCBs, h
<1> HIDE DEF k, h
<1>4. LinksAfter(Len(LinkPool)) = {}
  <2>1. \A j : j \notin Len(LinkPool) + 1 .. Len(LinkPool)
    BY PoolAssumption
  <2> QED BY <2>1 DEF LinksAfter
<1>5. /\ c[FreeLinks] = LinkPool /\ FreeLinks \in AllQueues
      /\ \A q \in AllQueues : q # FreeLinks => c[q] = <<>>
  BY PoolAssumption, PrefixLemma DEF FirstLinks, AllQueues
<1> HIDE DEF c
<1>6. ASSUME NEW l \in Links
      PROVE  h.queue[l] = FreeLinks
  <2>1. PICK q \in AllQueues : \E i \in 1 .. Len(c[q]) : c[q][i] = l
    BY <1>1, <1>4 DEF Rep
  <2>2. h.queue[l] = q
    BY <1>1, <2>1 DEF Rep, Linked
  <2>3. q = FreeLinks
    <3>1. c[q] = <<>> => Len(c[q]) = 0 /\ 1 .. 0 = {}
      OBVIOUS
    <3> QED BY <1>5, <2>1, <3>1
  <2> QED BY <2>2, <2>3
<1>7. Good(k, c, 0 .. NumProcs - 1)
  <2>1. \A p \in Proc \ (0 .. NumProcs - 1) : FALSE
    BY DEF Proc
  <2> QED BY <1>1, <1>2, <1>3, <1>4, <1>6, <2>1, QueueNames DEF Good
<1>8. View(h, c) = FirstPCBs(0)
  <2>1. ASSUME NEW q \in ProcessQueues
        PROVE  Objs(h, c[q]) = <<>> /\ FirstPCBs(0)[q] = <<>>
    <3>1. c[q] = <<>>
      BY <1>5, QueueNames
    <3>2. Objs(h, <<>>) = <<>>
      BY DEF Objs
    <3>3. [i \in 1 .. 0 |-> 0 - i] = <<>>
      OBVIOUS
    <3> QED BY <3>1, <3>2, <3>3 DEF FirstPCBs
  <2> QED BY <2>1 DEF View, FirstPCBs
<1>9. WaitLinks(h) = NoSleepers
  BY <1>6, QueueNames DEF WaitLinks, NoSleepers
<1>10. h.nitems[FreeLinks] = Len(LinkPool) - 0
  <2>1. h.nitems[FreeLinks] = Len(LinkPool)
    BY <1>1, <1>5 DEF Rep, Linked
  <2> QED BY <2>1, PoolAssumption
<1>11. State(k, FirstPCBs(0), NoSleepers, 0 .. NumProcs - 1)
  BY <1>2, <1>7, <1>8, <1>9 DEF State
<1> QED BY <1>2, <1>10, <1>11 DEF Booting, k

\* One turn of the loop of ProcessModuleInit gives a PCB its link and puts it
\* in front of the free ones.
LEMMA BootLemma ==
  ASSUME NEW n \in 0 .. NumProcs, n # NumProcs, NEW k, Booting(k, n)
  PROVE  Booting(EnterFirst(k, n, "freepcbs"), n + 1)
<1> DEFINE v == FirstPCBs(n)
           u == EnterFirst(k, n, "freepcbs")
           off == n .. NumProcs - 1
<1>1. /\ State(k, v, NoSleepers, off)
      /\ k.heap.nitems[FreeLinks] = Len(LinkPool) - n
      /\ k.status = [p \in Proc |-> "free"] /\ k.current = NoProc /\ k.halted = FALSE
  BY DEF Booting
<1>2. /\ NumProcs \in Nat /\ n \in Nat /\ n < NumProcs /\ Len(LinkPool) \in Nat
      /\ Len(LinkPool) >= 2 * NumProcs
  BY SizeAssumption, LinksAssumption, PoolAssumption
<1>3. n \in Proc /\ n \in off /\ k.status[n] = "free" /\ k.heap.nitems[FreeLinks] # 0
  BY <1>1, <1>2 DEF Proc
<1>4. off \ {n} = n + 1 .. NumProcs - 1
  BY <1>2
<1>5. PutFirst(v, "freepcbs", n) = FirstPCBs(n + 1)
  <2> DEFINE a == [i \in 1 .. n |-> n - i]
             b == <<n>> \o a
             d == [i \in 1 .. n + 1 |-> (n + 1) - i]
  <2>1. a \in Seq(Nat) /\ Len(a) = n /\ \A i \in 1 .. n : a[i] = n - i
    <3>1. \A i \in 1 .. n : n - i \in Nat
      BY <1>2
    <3> QED BY <1>2, <3>1
  <2> HIDE DEF a
  <2>2. b \in Seq(Nat) /\ Len(b) = n + 1 /\ \A i \in 1 .. n + 1 : b[i] = (n + 1) - i
    <3>1. <<n>> \in Seq(Nat) /\ Len(<<n>>) = 1 /\ <<n>>[1] = n
      BY <1>2
    <3>2. b \in Seq(Nat) /\ Len(b) = n + 1
      BY <1>2, <2>1, <3>1
    <3>3. ASSUME NEW i \in 1 .. n + 1
          PROVE  b[i] = (n + 1) - i
      <4>1. CASE i = 1
        <5>1. b[1] = n
          BY <1>2, <2>1
        <5> QED BY <1>2, <4>1, <5>1
      <4>2. CASE i # 1
        <5>1. i - 1 \in 1 .. n /\ a[i - 1] = n - (i - 1)
          BY <1>2, <2>1, <4>2
        <5>2. b[i] = a[i - 1]
          BY <1>2, <2>1, <4>2
        <5> HIDE DEF b
        <5> QED BY <1>2, <5>1, <5>2
      <4> QED BY <4>1, <4>2
    <3> QED BY <3>2, <3>3
  <2> HIDE DEF b
  <2>3. b = [i \in 1 .. n + 1 |-> b[i]]
    BY <1>2, <2>2
  <2>4. b = d
    BY <2>2, <2>3
  <2>5. v["freepcbs"] = a
    BY StatusNames DEF FirstPCBs, a
  <2>6. FirstPCBs(n + 1) = [v EXCEPT !["freepcbs"] = d]
    BY StatusNames DEF FirstPCBs
  <2> HIDE DEF v, d
  <2> QED BY <2>4, <2>5, <2>6 DEF PutFirst, b
<1>6. Joined(u, k, PutFirst(v, "freepcbs", n), NoSleepers, off \ {n})
  <2> HIDE DEF off, v
  <2>1. Joined(EnterFirst(k, n, QueueOf(k.status[n])), k,
               PutFirst(v, QueueOf(k.status[n]), n), NoSleepers, off \ {n})
    BY <1>1, <1>3, EnterFirstLemma
  <2> QED BY <1>3, <2>1, StatusNames
<1> HIDE DEF u, v, off
<1>7. Joined(u, k, FirstPCBs(n + 1), NoSleepers, n + 1 .. NumProcs - 1)
  BY <1>4, <1>5, <1>6
<1>8. Len(LinkPool) - n - 1 = Len(LinkPool) - (n + 1)
  BY <1>2
<1> QED BY <1>1, <1>7, <1>8 DEF Joined, Booting, u

\* The loop of ProcessModuleInit puts all PCBs into freepcbs (process.c
\* 64-95).
LEMMA PCBsBooted == Booting(ProcessModuleInit, NumProcs)
<1> DEFINE N == NumProcs
           Put(h, i) == EnterFirst(h, i - 1, "freepcbs")
           Loop(g) == [i \in 0 .. N |-> IF i = 0 THEN NoPCBs ELSE Put(g[i - 1], i)]
           f == CHOOSE g : g = Loop(g)
           T == {n \in 0 .. N : \E g : \A i \in 0 .. n : g[i] = IF i = 0 THEN NoPCBs
                                                                ELSE Put(g[i - 1], i)}
<1>1. ProcessModuleInit = f[N]
  BY DEF ProcessModuleInit, NoPCBs
<1>2. N \in Nat
  BY SizeAssumption
<1> HIDE DEF N, Put
<1>3. N \in T
  <2>1. 0 \in T
    <3> DEFINE g == [i \in 0 .. 0 |-> NoPCBs]
    <3>1. \A i \in 0 .. 0 : g[i] = IF i = 0 THEN NoPCBs ELSE Put(g[i - 1], i)
      OBVIOUS
    <3>2. 0 \in 0 .. N
      BY <1>2
    <3> HIDE DEF g
    <3> QED BY <3>1, <3>2
  <2>2. ASSUME NEW n \in 0 .. N, n \in T, n # N
        PROVE  n + 1 \in T
    <3>1. PICK g : \A i \in 0 .. n : g[i] = IF i = 0 THEN NoPCBs ELSE Put(g[i - 1], i)
      BY <2>2
    <3> DEFINE e == [i \in 0 .. n + 1 |-> IF i = n + 1 THEN Put(g[n], i) ELSE g[i]]
    <3>2. ASSUME NEW i \in 0 .. n + 1
          PROVE  e[i] = IF i = 0 THEN NoPCBs ELSE Put(e[i - 1], i)
      <4>1. CASE i = n + 1
        <5>1. i - 1 = n /\ n \in 0 .. n + 1 /\ n # n + 1 /\ i # 0
          BY <1>2, <4>1
        <5>2. e[i] = Put(g[n], i) /\ e[i - 1] = g[n]
          BY <4>1, <5>1
        <5> QED BY <5>1, <5>2
      <4>2. CASE i # n + 1
        <5>1. i \in 0 .. n /\ e[i] = g[i]
          BY <1>2, <4>2
        <5>2. i # 0 => i - 1 \in 0 .. n + 1 /\ i - 1 # n + 1
          BY <1>2, <4>2
        <5>3. i # 0 => e[i - 1] = g[i - 1]
          BY <5>2
        <5> HIDE DEF e
        <5> QED BY <3>1, <5>1, <5>3
      <4> QED BY <4>1, <4>2
    <3> HIDE DEF e
    <3>3. n + 1 \in 0 .. N
      BY <1>2, <2>2
    <3> QED BY <3>2, <3>3
  <2> HIDE DEF T
  <2>3. \A i \in 0 .. N : i \in T
    BY <1>2, <2>1, <2>2, CountUp
  <2> QED BY <1>2, <2>3
<1>4. f = Loop(f)
  <2>1. PICK g : \A i \in 0 .. N : g[i] = IF i = 0 THEN NoPCBs ELSE Put(g[i - 1], i)
    BY <1>3
  <2> DEFINE e == [i \in 0 .. N |-> g[i]]
  <2>2. ASSUME NEW i \in 0 .. N
        PROVE  Loop(e)[i] = g[i]
    <3>1. i # 0 => i - 1 \in 0 .. N
      BY <1>2
    <3>2. i # 0 => e[i - 1] = g[i - 1]
      BY <3>1
    <3> HIDE DEF e
    <3> QED BY <2>1, <3>2
  <2>3. e = Loop(e)
    BY <2>2
  <2> HIDE DEF Loop
  <2> QED BY <2>3
<1> HIDE DEF f, T
<1> DEFINE S == {i \in 0 .. N : Booting(f[i], i)}
<1>5. 0 \in S
  <2>1. 0 \in 0 .. N
    BY <1>2
  <2>2. f[0] = NoPCBs
    BY <1>4, <2>1
  <2> QED BY <2>1, <2>2, NoPCBsLemma
<1>6. ASSUME NEW i \in 0 .. N, i \in S, i # N
      PROVE  i + 1 \in S
  <2>1. i + 1 \in 0 .. N /\ i + 1 # 0 /\ (i + 1) - 1 = i
    BY <1>2, <1>6
  <2>2. f[i + 1] = Put(f[i], i + 1)
    BY <1>4, <2>1
  <2>3. Booting(f[i], i)
    BY <1>6
  <2>4. Booting(Put(f[i], i + 1), i + 1)
    BY <1>6, <2>1, <2>3, BootLemma DEF Put, N
  <2> QED BY <2>1, <2>2, <2>4
<1> HIDE DEF S
<1>7. N \in S
  <2>1. \A i \in 0 .. N : i \in S
    BY <1>2, <1>5, <1>6, CountUp
  <2> QED BY <1>2, <2>1
<1> QED BY <1>1, <1>7 DEF S, N

\* ProcessModuleInit leaves the process table that module Process starts with.
LEMMA ModuleInitLemma ==
  /\ State(ProcessModuleInit, FirstPCBs(NumProcs), NoSleepers, {})
  /\ Table(ProcessModuleInit, FirstPCBs(NumProcs)) = Abstract!ModuleInit
<1> DEFINE k == ProcessModuleInit
           v == FirstPCBs(NumProcs)
<1>1. /\ State(k, v, NoSleepers, NumProcs .. NumProcs - 1)
      /\ k.status = [p \in Proc |-> "free"] /\ k.current = NoProc /\ k.halted = FALSE
  BY PCBsBooted DEF Booting
<1>2. NumProcs .. NumProcs - 1 = {}
  BY SizeAssumption
<1>3. /\ v["freepcbs"] = [i \in 1 .. NumProcs |-> NumProcs - i]
      /\ v["runQueue"] = <<>> /\ v["waitQueue"] = <<>> /\ v["zombieQueue"] = <<>>
  BY StatusNames DEF FirstPCBs
<1>4. Elements(<<>>) = {} /\ Abstract!Proc = Proc
  BY DEF Elements, Abstract!Proc, Proc
<1> HIDE DEF k, v
<1>5. Table(k, v) = Abstract!ModuleInit
  BY <1>1, <1>3, <1>4 DEF Table, Abstract!ModuleInit
<1> QED BY <1>1, <1>2, <1>5 DEF k, v

-----------------------------------------------------------------------------
(* The invariant, and the steps of module Process that the handlers take.  *)

Fine(k, v, w) == State(k, v, w, {}) /\ WaitsOK(k, w) /\ Abstract!Settled(Table(k, v))

\* Between two handlers the kernel stands for the process table t.
Reached(k, t) == \E v, w : Fine(k, v, w) /\ Table(k, v) = t

IInv == jiffies \in 0 .. Quantum /\ \E t : Reached(kernel, t)

\* No suspended process gets another status.
KeepsSleepers(k, status) ==
  \A p \in Proc : k.status[p] = "waiting" => status[p] = "waiting"

LEMMA WaitsKept ==
  ASSUME NEW k, NEW v, NEW w, State(k, v, w, {}), WaitsOK(k, w),
         NEW u, KeepsSleepers(k, u.status)
  PROVE  WaitsOK(u, w)
<1>1. w \in [Links -> Proc \cup {NoProc}]
  BY ViewFacts
<1>2. \A l \in Links : w[l] # NoProc => w[l] \in Proc
  BY <1>1
<1> QED BY <1>2 DEF WaitsOK, KeepsSleepers

\* Scheduling leaves the process that it names in front, and wakes nobody.
Turning(t, k) == Abstract!Settled(t) /\ KeepsSleepers(k, t.status)

LEMMA ScheduleSettles ==
  ASSUME NEW k, NEW v, NEW w, State(k, v, w, {})
  PROVE  Turning(Abstract!Schedule(Table(k, v)), k)
<1> DEFINE t == Table(k, v)
           r == v["runQueue"]
           z == v["zombieQueue"]
           turned == Abstract!MoveFrontToEnd(r)
           u == Abstract!Schedule(t)
           status == [p \in Abstract!Proc |-> IF p \in Abstract!Elements(z)
                                              THEN "free" ELSE k.status[p]]
<1>1. /\ v \in [ProcessQueues -> Seq(Proc)] /\ r \in Seq(Proc) /\ z \in Seq(Proc)
  <2>1. v \in [ProcessQueues -> Seq(Proc)]
    BY ViewFacts
  <2> QED BY <2>1, StatusNames
<1>2. Abstract!Proc = Proc /\ \A s : Abstract!Elements(s) = Elements(s)
  BY DEF Abstract!Proc, Proc, Abstract!Elements, Elements
<1>3. CASE r = <<>>
  <2>1. u = [t EXCEPT !.halted = TRUE]
    BY <1>3 DEF Abstract!Schedule, Abstract!Halt, Table
  <2>2. u.halted = TRUE /\ u.status = k.status
    BY <2>1 DEF Table
  <2> HIDE DEF u
  <2>3. Turning(u, k)
    BY <2>2 DEF Turning, Abstract!Settled, KeepsSleepers
  <2> QED BY <2>3 DEF u
<1>4. CASE r # <<>>
  <2> DEFINE a == [t EXCEPT !.run = turned]
             b == [a EXCEPT !.current = Head(turned)]
  <2>1. u = Abstract!FreeZombies(b)
    BY <1>4 DEF Abstract!Schedule, Table
  <2>2. turned # <<>>
    <3>1. Tail(r) \in Seq(Proc) /\ Head(r) \in Proc
      BY <1>1, <1>4
    <3>2. Len(turned) # 0
      BY <3>1 DEF Abstract!MoveFrontToEnd
    <3> QED BY <3>2
  <2> HIDE DEF turned, u
  <2>3. b = [status |-> k.status, free |-> v["freepcbs"], run |-> turned,
             waiting |-> Elements(v["waitQueue"]), zombies |-> z,
             current |-> Head(turned), halted |-> k.halted]
    <3>1. a = [status |-> k.status, free |-> v["freepcbs"], run |-> turned,
               waiting |-> Elements(v["waitQueue"]), zombies |-> z,
               current |-> k.current, halted |-> k.halted]
      BY DEF Table
    <3> HIDE DEF a
    <3> QED BY <3>1
  <2> HIDE DEF b
  <2>4. /\ u.run = turned /\ u.current = Head(turned) /\ u.zombies = <<>>
        /\ u.status = status
    BY <2>1, <2>3 DEF Abstract!FreeZombies
  <2>5. KeepsSleepers(k, status)
    <3>1. ASSUME NEW p \in Proc, k.status[p] = "waiting"
          PROVE  status[p] = "waiting"
      <4>1. p \notin Elements(z)
        <5>1. \A i \in 1 .. Len(z) : QueueOf(k.status[z[i]]) = "zombieQueue"
          BY ViewFacts, StatusNames
        <5>2. DOMAIN z = 1 .. Len(z)
          BY <1>1
        <5>3. QueueOf(k.status[p]) # "zombieQueue"
          BY <3>1 DEF QueueOf
        <5> QED BY <5>1, <5>2, <5>3 DEF Elements
      <4> QED BY <1>2, <3>1, <4>1
    <3> QED BY <3>1 DEF KeepsSleepers
  <2>6. Abstract!Settled(u)
    BY <2>2, <2>4 DEF Abstract!Settled
  <2> HIDE DEF status
  <2>7. Turning(u, k)
    BY <2>4, <2>5, <2>6 DEF Turning
  <2> QED BY <2>7 DEF u
<1> QED BY <1>3, <1>4

LEMMA TurnTaken ==
  ASSUME NEW k, NEW v, NEW w, State(k, v, w, {}), WaitsOK(k, w),
         Len(v["zombieQueue"]) \in {0, 1}
  PROVE  Reached(ProcessSchedule(k), Abstract!Schedule(Table(k, v)))
<1> DEFINE u == ProcessSchedule(k)
           t == Abstract!Schedule(Table(k, v))
<1>1. PICK v2 : State(u, v2, w, {}) /\ Table(u, v2) = t
  BY ScheduleLemma
<1>2. Abstract!Settled(t) /\ KeepsSleepers(k, t.status)
  BY ScheduleSettles DEF Turning
<1> HIDE DEF t, u
<1>3. u.status = t.status
  BY <1>1 DEF Table
<1>4. WaitsOK(u, w)
  BY <1>2, <1>3, WaitsKept
<1>5. Fine(u, v2, w)
  BY <1>1, <1>2, <1>4 DEF Fine
<1> QED BY <1>1, <1>5 DEF Reached, t, u

\* While the system runs its process is in front of the run queue, and there
\* is a link for what it will wait for.
LEMMA RunningFacts ==
  ASSUME NEW k, NEW v, NEW w, Fine(k, v, w), ~k.halted
  PROVE  /\ v["runQueue"] # <<>> /\ v["runQueue"] \in Seq(Proc)
         /\ v["zombieQueue"] = <<>> /\ k.current = Head(v["runQueue"])
         /\ k.current \in Proc /\ k.status[k.current] = "runnable"
         /\ k.heap.nitems[FreeLinks] # 0
         /\ k.status \in [Proc -> Status]
<1> DEFINE t == Table(k, v)
           r == v["runQueue"]
<1>1. State(k, v, w, {}) /\ WaitsOK(k, w) /\ Abstract!Settled(t)
  BY DEF Fine
<1>2. r # <<>> /\ v["zombieQueue"] = <<>> /\ k.current = Head(r)
  BY <1>1 DEF Abstract!Settled, Table
<1>3. r \in Seq(Proc) /\ k \in Kernels
  <2>1. v \in [ProcessQueues -> Seq(Proc)] /\ k \in Kernels
    BY <1>1, ViewFacts
  <2> QED BY <2>1, StatusNames
<1>4. Len(r) # 0 /\ 1 \in 1 .. Len(r) /\ Head(r) = r[1]
  <2> HIDE DEF r
  <2> QED BY <1>2, <1>3
<1>5. r[1] \in Proc /\ QueueOf(k.status[r[1]]) = "runQueue"
  BY <1>1, <1>4, ViewFacts, StatusNames
<1>6. k.status \in [Proc -> Status]
  BY <1>3 DEF Kernels
<1> HIDE DEF r
<1>7. k.current \in Proc /\ k.status[k.current] = "runnable"
  BY <1>2, <1>4, <1>5, <1>6, StatusNames
<1>8. k.heap.nitems[FreeLinks] # 0
  BY <1>1, <1>7, FreeLinkLeft
<1> QED BY <1>2, <1>3, <1>6, <1>7, <1>8 DEF r

\* The yield trap, and the timer interrupt at the end of a quantum.
LEMMA YieldStep ==
  ASSUME NEW k, NEW t, Reached(k, t), ~k.halted
  PROVE  Reached(ProcessSchedule(k), Abstract!Schedule(t))
<1>1. PICK v, w : Fine(k, v, w) /\ Table(k, v) = t
  BY DEF Reached
<1>2. Len(v["zombieQueue"]) \in {0, 1}
  BY <1>1, RunningFacts
<1>3. State(k, v, w, {}) /\ WaitsOK(k, w)
  BY <1>1 DEF Fine
<1> QED BY <1>1, <1>2, <1>3, TurnTaken

\* The current process is suspended and the next one runs; the sleepers in
\* objects are w.
LEMMA SuspendTurn ==
  ASSUME NEW k, NEW v, NEW w, State(k, v, w, {}), NEW p \in Proc,
         k.status \in [Proc -> Status], k.status[p] = "runnable",
         v["zombieQueue"] = <<>>, WaitsOK(SetStatus(k, p, "waiting"), w)
  PROVE  Reached(ProcessSchedule(ProcessSuspend(k, p)),
                 Abstract!Schedule(Abstract!Suspend(Table(k, v), p)))
<1> DEFINE u == ProcessSuspend(k, p)
           s == SetStatus(k, p, "waiting")
<1>1. PICK v2 : /\ Moved(u, k, v2, w, p, "waiting")
                /\ v2["zombieQueue"] = v["zombieQueue"]
                /\ Table(u, v2) = Abstract!Suspend(Table(k, v), p)
  BY SuspendLemma
<1>2. s.status = [k.status EXCEPT ![p] = "waiting"]
  <2>1. k \in Kernels
    BY ViewFacts
  <2> QED BY <2>1 DEF SetStatus, Kernels
<1> HIDE DEF u, s
<1>3. State(u, v2, w, {}) /\ u.status = s.status
  BY <1>1, <1>2 DEF Moved
<1>4. WaitsOK(u, w)
  BY <1>3 DEF WaitsOK, s
<1>5. Len(v2["zombieQueue"]) \in {0, 1}
  BY <1>1
<1> QED BY <1>1, <1>3, <1>4, <1>5, TurnTaken DEF u

\* A process that no link stands for may be suspended, or anything else may
\* become of it: the links of the others stay right.
LEMMA StatusKeepsWaits ==
  ASSUME NEW k \in Kernels, NEW w, WaitsOK(k, w), NEW p \in Proc,
         k.status[p] # "waiting", NEW u, NEW s, u.status = [k.status EXCEPT ![p] = s]
  PROVE  /\ WaitsOK(u, w)
         /\ \A l \in Links : w[l] # p
<1>1. \A l \in Links : w[l] # p
  BY ObjectAssumption DEF WaitsOK
<1>2. \A l \in Links : u.status[w[l]] = k.status[w[l]]
  BY <1>1 DEF Kernels
<1> QED BY <1>1, <1>2 DEF WaitsOK

LEMMA SleepStep ==
  ASSUME NEW k, NEW t, Reached(k, t), ~k.halted
  PROVE  Reached(ProcessSchedule(ProcessSuspend(k, k.current)),
                 Abstract!Schedule(Abstract!Suspend(t, t.current)))
<1>1. PICK v, w : Fine(k, v, w) /\ Table(k, v) = t
  BY DEF Reached
<1> DEFINE p == k.current
           s == SetStatus(k, p, "waiting")
<1>2. /\ p \in Proc /\ k.status[p] = "runnable" /\ v["zombieQueue"] = <<>>
      /\ k.status \in [Proc -> Status]
  BY <1>1, RunningFacts
<1>3. State(k, v, w, {}) /\ WaitsOK(k, w)
  BY <1>1 DEF Fine
<1>4. k \in Kernels
  BY <1>3, ViewFacts
<1>5. s.status = [k.status EXCEPT ![p] = "waiting"]
  BY <1>4 DEF SetStatus, Kernels
<1>6. t.current = p
  BY <1>1 DEF Table
<1> HIDE DEF p
<1>7. WaitsOK(SetStatus(k, p, "waiting"), w)
  BY <1>2, <1>3, <1>4, <1>5, StatusKeepsWaits
<1>8. Reached(ProcessSchedule(ProcessSuspend(k, p)),
              Abstract!Schedule(Abstract!Suspend(Table(k, v), p)))
  BY <1>2, <1>3, <1>7, SuspendTurn
<1> QED BY <1>1, <1>6, <1>8 DEF p

LEMMA ExitStep ==
  ASSUME NEW k, NEW t, Reached(k, t), ~k.halted
  PROVE  Reached(ProcessSchedule(ProcessDestroy(k, k.current)),
                 Abstract!Schedule(Abstract!Destroy(t, t.current)))
<1>1. PICK v, w : Fine(k, v, w) /\ Table(k, v) = t
  BY DEF Reached
<1> DEFINE p == k.current
           u == ProcessDestroy(k, p)
<1>2. /\ p \in Proc /\ k.status[p] = "runnable" /\ v["zombieQueue"] = <<>>
  BY <1>1, RunningFacts
<1>3. State(k, v, w, {}) /\ WaitsOK(k, w)
  BY <1>1 DEF Fine
<1>4. t.current = p
  BY <1>1 DEF Table
<1> HIDE DEF p
<1>5. PICK v2 : /\ Moved(u, k, v2, w, p, "zombie")
                /\ v2["zombieQueue"] = <<p>> \o v["zombieQueue"]
                /\ Table(u, v2) = Abstract!Destroy(Table(k, v), p)
  BY <1>2, <1>3, DestroyLemma
<1> HIDE DEF u
<1>6. State(u, v2, w, {}) /\ u.status = [k.status EXCEPT ![p] = "zombie"] /\ k \in Kernels
  BY <1>3, <1>5, ViewFacts DEF Moved
<1>7. WaitsOK(u, w)
  BY <1>2, <1>3, <1>6, StatusKeepsWaits
<1>8. Len(v2["zombieQueue"]) \in {0, 1}
  BY <1>2, <1>5
<1> QED BY <1>1, <1>4, <1>5, <1>6, <1>7, <1>8, TurnTaken DEF u, p

\* A wait in an object: its queue gets a link of the process, which sleeps.
LEMMA WaitStep ==
  ASSUME NEW k, NEW t, Reached(k, t), ~k.halted, NEW q \in Waits
  PROVE  /\ ~AQueueAllocLink(k.heap, k.current).heap.failed
         /\ Reached(ProcessSchedule(ProcessSuspend(QueueIn(k, q, k.current), k.current)),
                    Abstract!Schedule(Abstract!Suspend(t, t.current)))
<1>1. PICK v, w : Fine(k, v, w) /\ Table(k, v) = t
  BY DEF Reached
<1> DEFINE p == k.current
           u == QueueIn(k, q, p)
           s == SetStatus(u, p, "waiting")
<1>2. /\ p \in Proc /\ k.status[p] = "runnable" /\ v["zombieQueue"] = <<>>
      /\ k.heap.nitems[FreeLinks] # 0
  BY <1>1, RunningFacts
<1>3. State(k, v, w, {}) /\ WaitsOK(k, w)
  BY <1>1 DEF Fine
<1>4. ~AQueueAllocLink(k.heap, p).heap.failed /\ Slept(u, k, v, w, p)
  BY <1>2, <1>3, QueueInLemma
<1>5. t.current = p
  BY <1>1 DEF Table
<1> HIDE DEF p, u
<1>6. PICK l \in Links : w[l] = NoProc /\ State(u, v, [w EXCEPT ![l] = p], {})
  BY <1>4 DEF Slept
<1> DEFINE x == [w EXCEPT ![l] = p]
<1>7. u.status = k.status /\ u.current = k.current /\ u.halted = k.halted
  BY <1>4 DEF Slept
<1>8. u \in Kernels /\ k \in Kernels /\ w \in [Links -> Proc \cup {NoProc}]
  BY <1>3, <1>6, ViewFacts
<1>9. s.status = [k.status EXCEPT ![p] = "waiting"] /\ u.status \in [Proc -> Status]
  BY <1>7, <1>8 DEF SetStatus, Kernels
<1> HIDE DEF s
<1>10. WaitsOK(s, w) /\ \A m \in Links : w[m] # p
  BY <1>2, <1>3, <1>8, <1>9, StatusKeepsWaits
<1>11. \A m \in Links : x[m] = IF m = l THEN p ELSE w[m]
  BY <1>8
<1>12. s.status[p] = "waiting"
  BY <1>2, <1>8, <1>9 DEF Kernels
<1> HIDE DEF x
<1>13. WaitsOK(s, x)
  BY <1>10, <1>11, <1>12 DEF WaitsOK
<1>14. Table(u, v) = t
  BY <1>1, <1>7 DEF Table
<1>15. Reached(ProcessSchedule(ProcessSuspend(u, p)),
               Abstract!Schedule(Abstract!Suspend(Table(u, v), p)))
  BY <1>2, <1>6, <1>7, <1>9, <1>13, SuspendTurn DEF s, x
<1> QED BY <1>4, <1>5, <1>14, <1>15 DEF p, u

\* A signal or a release: the first sleeper of an object is woken up.
LEMMA WakeStep ==
  ASSUME NEW k, NEW t, Reached(k, t), NEW q \in Waits, ~Empty(k, q)
  PROVE  /\ FirstObject(k, q) \in t.waiting
         /\ Reached(ProcessWakeup(QueueOut(k, q), FirstObject(k, q)),
                    Abstract!Wakeup(t, FirstObject(k, q)))
<1>1. PICK v, w : Fine(k, v, w) /\ Table(k, v) = t
  BY DEF Reached
<1> DEFINE p == FirstObject(k, q)
           a == QueueOut(k, q)
           u == ProcessWakeup(a, p)
           r == v["runQueue"]
<1>2. State(k, v, w, {}) /\ WaitsOK(k, w) /\ Abstract!Settled(t)
  BY <1>1 DEF Fine
<1>3. Roused(a, k, v, w, p)
  BY <1>2, QueueOutLemma
<1> HIDE DEF p, a
<1>4. /\ p \in Proc /\ a.status = k.status /\ a.current = k.current /\ a.halted = k.halted
  BY <1>3 DEF Roused
<1>5. PICK l \in Links : w[l] = p /\ State(a, v, [w EXCEPT ![l] = NoProc], {})
  BY <1>3 DEF Roused
<1> DEFINE x == [w EXCEPT ![l] = NoProc]
<1>6. /\ a \in Kernels /\ w \in [Links -> Proc \cup {NoProc}] /\ r \in Seq(Proc)
      /\ k.status \in [Proc -> Status]
  <2>1. a \in Kernels /\ w \in [Links -> Proc \cup {NoProc}] /\ v \in [ProcessQueues -> Seq(Proc)]
    BY <1>2, <1>5, ViewFacts
  <2> QED BY <1>4, <2>1, StatusNames DEF Kernels
<1>7. k.status[p] = "waiting" /\ p # NoProc
  BY <1>2, <1>4, <1>5, ObjectAssumption DEF WaitsOK
<1>8. PICK v2 : /\ Moved(u, a, v2, x, p, "runnable")
                /\ v2["zombieQueue"] = v["zombieQueue"]
                /\ v2["runQueue"] = Append(r, p)
                /\ p \in Elements(v["waitQueue"])
                /\ Table(u, v2) = Abstract!Wakeup(Table(a, v), p)
  <2> HIDE DEF x
  <2>1. State(a, v, x, {}) /\ a.status[p] = "waiting"
    BY <1>4, <1>5, <1>7 DEF x
  <2> QED BY <1>4, <2>1, WakeupLemma
<1> HIDE DEF u
<1>9. Table(a, v) = t
  BY <1>1, <1>4 DEF Table
<1>10. \A m \in Links : x[m] = IF m = l THEN NoProc ELSE w[m]
  BY <1>6
<1> HIDE DEF x
<1>11. /\ State(u, v2, x, {}) /\ u.status = [k.status EXCEPT ![p] = "runnable"]
       /\ u.current = k.current /\ u.halted = k.halted
  BY <1>4, <1>8 DEF Moved
<1>12. WaitsOK(u, x)
  <2>1. ASSUME NEW m \in Links, x[m] # NoProc
        PROVE  w[m] # NoProc /\ x[m] = w[m] /\ w[m] # p /\ w[m] \in Proc
    <3>1. x[m] = w[m] /\ m # l
      BY <1>10, <2>1
    <3>2. w[m] # p
      BY <1>2, <1>5, <1>7, <3>1 DEF WaitsOK
    <3> QED BY <1>6, <2>1, <3>1, <3>2
  <2>2. ASSUME NEW m \in Links, x[m] # NoProc
        PROVE  u.status[x[m]] = "waiting"
    <3>1. k.status[w[m]] = "waiting"
      BY <1>2, <2>1, <2>2 DEF WaitsOK
    <3> QED BY <1>6, <1>11, <2>1, <2>2, <3>1
  <2>3. ASSUME NEW m \in Links, NEW n \in Links, x[m] # NoProc, x[m] = x[n]
        PROVE  m = n
    <3>1. w[m] # NoProc /\ w[m] = w[n]
      BY <2>1, <2>3
    <3> QED BY <1>2, <3>1 DEF WaitsOK
  <2> QED BY <2>2, <2>3 DEF WaitsOK
<1>13. Abstract!Settled(Table(u, v2))
  <2>1. ASSUME ~k.halted
        PROVE  r # <<>> /\ k.current = Head(r) /\ v["zombieQueue"] = <<>>
    BY <1>1, <2>1, RunningFacts
  <2> HIDE DEF r
  <2>2. r # <<>> => Append(r, p) # <<>> /\ Head(Append(r, p)) = Head(r)
    BY <1>4, <1>6
  <2> QED BY <1>8, <1>11, <2>1, <2>2 DEF Abstract!Settled, Table
<1>14. Reached(u, Abstract!Wakeup(t, p))
  BY <1>8, <1>9, <1>11, <1>12, <1>13 DEF Reached, Fine
<1>15. p \in t.waiting
  BY <1>1, <1>8 DEF Table
<1> QED BY <1>14, <1>15 DEF u, a, p

\* What a fork makes of the process table, with or without a program to load.
Forked(t, loads) == IF loads THEN Abstract!Fork(t) ELSE Abstract!ForkNoCode(t)

\* It does not touch the processes that sleep.
LEMMA ForkKeeps ==
  ASSUME NEW k, NEW v, NEW w, State(k, v, w, {}), NEW loads \in BOOLEAN
  PROVE  KeepsSleepers(k, Forked(Table(k, v), loads).status)
<1> DEFINE t == Table(k, v)
           z == v["freepcbs"]
           u == Forked(t, loads)
<1>1. z \in Seq(Proc) /\ k.status \in [Proc -> Status] /\ t.free = z /\ t.status = k.status
  <2>1. v \in [ProcessQueues -> Seq(Proc)] /\ k \in Kernels
    BY ViewFacts
  <2> QED BY <2>1, StatusNames DEF Kernels, Table
<1>2. CASE z = <<>>
  <2>1. u.status = k.status
    BY <1>1, <1>2 DEF Forked, Abstract!Fork, Abstract!ForkNoCode, Abstract!Halt, Table
  <2> HIDE DEF u
  <2>2. KeepsSleepers(k, u.status)
    BY <2>1 DEF KeepsSleepers
  <2> QED BY <2>2 DEF u
<1>3. CASE z # <<>>
  <2> DEFINE p == Head(z)
             status == [k.status EXCEPT ![p] = "runnable"]
  <2>1. p \in Proc /\ QueueOf(k.status[p]) = "freepcbs"
    <3>1. Len(z) # 0 /\ 1 \in 1 .. Len(z) /\ p = z[1]
      <4> HIDE DEF z
      <4> QED BY <1>1, <1>3
    <3>2. z[1] \in Proc /\ QueueOf(k.status[z[1]]) = "freepcbs"
      BY <3>1, ViewFacts, StatusNames
    <3> QED BY <3>1, <3>2
  <2>2. k.status[p] # "waiting"
    BY <2>1 DEF QueueOf
  <2> HIDE DEF z, p
  <2>3. u.status = IF loads THEN status ELSE k.status
    <3>1. CASE loads
      <4>1. u = Abstract!Fork(t)
        BY <3>1 DEF Forked
      <4> HIDE DEF u
      <4>2. u.status = status
        BY <1>3, <4>1 DEF Abstract!Fork, Table, p, z
      <4> QED BY <3>1, <4>2
    <3>2. CASE ~loads
      <4>1. u = Abstract!ForkNoCode(t)
        BY <3>2 DEF Forked
      <4> HIDE DEF u
      <4>2. u.status = k.status
        BY <1>3, <4>1 DEF Abstract!ForkNoCode, Table, z
      <4> QED BY <3>2, <4>2
    <3> QED BY <3>1, <3>2
  <2> HIDE DEF u
  <2>4. KeepsSleepers(k, u.status)
    BY <1>1, <2>1, <2>2, <2>3 DEF KeepsSleepers
  <2> QED BY <2>4 DEF u
<1> QED BY <1>2, <1>3

\* It leaves the current process in front, or makes the first process current.
LEMMA ForkSettles ==
  ASSUME NEW k, NEW v, NEW w, State(k, v, w, {}), NEW loads \in BOOLEAN,
         v["zombieQueue"] = <<>>,
         \/ /\ v["runQueue"] # <<>> /\ k.current = Head(v["runQueue"])
            /\ k.current \in Proc
         \/ v["runQueue"] = <<>> /\ k.current = NoProc /\ loads
  PROVE  Abstract!Settled(Forked(Table(k, v), loads))
<1> DEFINE t == Table(k, v)
           z == v["freepcbs"]
           r == v["runQueue"]
           u == Forked(t, loads)
           p == Head(z)
<1>1. z \in Seq(Proc) /\ r \in Seq(Proc)
  <2>1. v \in [ProcessQueues -> Seq(Proc)]
    BY ViewFacts
  <2> QED BY <2>1, StatusNames
<1>2. CASE z = <<>>
  <2>1. u = [t EXCEPT !.halted = TRUE]
    BY <1>2 DEF Forked, Abstract!Fork, Abstract!ForkNoCode, Abstract!Halt, Table
  <2>2. u.halted = TRUE
    BY <2>1 DEF Table
  <2> HIDE DEF u
  <2>3. Abstract!Settled(u)
    BY <2>2 DEF Abstract!Settled
  <2> QED BY <2>3 DEF u
<1>3. CASE z # <<>> /\ loads
  <2>1. u = Abstract!Fork(t)
    BY <1>3 DEF Forked
  <2>2. p \in Proc
    BY <1>1, <1>3
  <2> HIDE DEF u, p, r, z
  <2>3. /\ u.run = Append(r, p) /\ u.zombies = <<>> /\ u.halted = k.halted
        /\ u.current = IF k.current = NoProc THEN p ELSE k.current
    <3> DEFINE run == Append(r, p)
               current == IF k.current = NoProc THEN p ELSE k.current
               status == [k.status EXCEPT ![p] = "runnable"]
               free == Tail(z)
    <3>1. u = [t EXCEPT !.free = free, !.status = status, !.run = run, !.current = current]
      BY <1>3, <2>1 DEF Abstract!Fork, Table, p, r, z
    <3> HIDE DEF run, status, current, free
    <3>2. /\ u.run = run /\ u.zombies = v["zombieQueue"] /\ u.halted = k.halted
          /\ u.current = current
      BY <3>1 DEF Table
    <3> QED BY <3>2 DEF run, current
  <2>4. Append(r, p) # <<>> /\ Head(Append(r, p)) = IF r = <<>> THEN p ELSE Head(r)
    <3> DEFINE a == Append(r, p)
    <3>1. /\ a \in Seq(Proc) /\ Len(a) = Len(r) + 1 /\ Len(r) \in Nat
          /\ Len(r) = 0 <=> r = <<>>
      BY <1>1, <2>2
    <3>2. a[1] = IF Len(r) = 0 THEN p ELSE r[1]
      BY <1>1, <2>2
    <3>3. Len(r) # 0 => Head(r) = r[1]
      BY <1>1
    <3> HIDE DEF a
    <3>4. Head(a) = a[1] /\ a # <<>>
      BY <3>1
    <3> QED BY <3>1, <3>2, <3>3, <3>4 DEF a
  <2>5. u.current = Head(Append(r, p))
    BY <2>3, <2>4, ObjectAssumption DEF r
  <2>6. Abstract!Settled(u)
    BY <2>3, <2>4, <2>5 DEF Abstract!Settled
  <2> QED BY <2>6 DEF u
<1>4. CASE z # <<>> /\ ~loads
  <2>1. u = Abstract!ForkNoCode(t)
    BY <1>4 DEF Forked
  <2> HIDE DEF u
  <2>2. u = [t EXCEPT !.free = Abstract!MoveFrontToEnd(z)]
    BY <1>4, <2>1 DEF Abstract!ForkNoCode, Table
  <2>3. u.run = r /\ u.zombies = <<>> /\ u.halted = k.halted /\ u.current = k.current
    BY <2>2 DEF Table
  <2>4. Abstract!Settled(u)
    BY <1>4, <2>3 DEF Abstract!Settled
  <2> QED BY <2>4 DEF u
<1> QED BY <1>2, <1>3, <1>4

LEMMA ForkReaches ==
  ASSUME NEW k, NEW v, NEW w, State(k, v, w, {}), WaitsOK(k, w), NEW loads \in BOOLEAN,
         Abstract!Settled(Forked(Table(k, v), loads))
  PROVE  Reached(ProcessFork(k, loads), Forked(Table(k, v), loads))
<1> DEFINE u == ProcessFork(k, loads)
           t == Forked(Table(k, v), loads)
<1>1. PICK v2 : State(u, v2, w, {}) /\ Table(u, v2) = t
  BY ForkLemma DEF Forked
<1>2. KeepsSleepers(k, t.status)
  BY ForkKeeps
<1> HIDE DEF u, t
<1>3. u.status = t.status
  BY <1>1 DEF Table
<1>4. WaitsOK(u, w)
  BY <1>2, <1>3, WaitsKept
<1>5. Fine(u, v2, w)
  BY <1>1, <1>4 DEF Fine, t
<1> QED BY <1>1, <1>5 DEF Reached, u, t

\* The fork trap.
LEMMA ForkStep ==
  ASSUME NEW k, NEW t, Reached(k, t), ~k.halted, NEW loads \in BOOLEAN
  PROVE  Reached(ProcessFork(k, loads), Forked(t, loads))
<1>1. PICK v, w : Fine(k, v, w) /\ Table(k, v) = t
  BY DEF Reached
<1>2. State(k, v, w, {}) /\ WaitsOK(k, w)
  BY <1>1 DEF Fine
<1>3. Abstract!Settled(Forked(Table(k, v), loads))
  <2>1. /\ v["runQueue"] # <<>> /\ k.current = Head(v["runQueue"])
        /\ k.current \in Proc /\ v["zombieQueue"] = <<>>
    BY <1>1, RunningFacts
  <2> QED BY <1>2, <2>1, ForkSettles
<1> QED BY <1>1, <1>2, <1>3, ForkReaches

\* The start: the first process is forked.
LEMMA InitStep ==
  Reached(ProcessFork(ProcessModuleInit, TRUE), Abstract!Fork(Abstract!ModuleInit))
<1> DEFINE k == ProcessModuleInit
           v == FirstPCBs(NumProcs)
           w == NoSleepers
<1>1. State(k, v, w, {}) /\ Table(k, v) = Abstract!ModuleInit
  BY ModuleInitLemma
<1>2. WaitsOK(k, w)
  BY DEF WaitsOK, NoSleepers
<1>3. /\ v["runQueue"] = <<>> /\ v["zombieQueue"] = <<>>
  BY StatusNames DEF FirstPCBs
<1> HIDE DEF k, v, w
<1>4. k.current = NoProc
  <2>1. Table(k, v).current = k.current
    BY DEF Table
  <2>2. Abstract!ModuleInit.current = NoProc
    BY DEF Abstract!ModuleInit
  <2> QED BY <1>1, <2>1, <2>2
<1>5. Abstract!Settled(Forked(Table(k, v), TRUE))
  BY <1>1, <1>3, <1>4, ForkSettles
<1>6. Reached(ProcessFork(k, TRUE), Forked(Table(k, v), TRUE))
  BY <1>1, <1>2, <1>5, ForkReaches
<1> QED BY <1>1, <1>6 DEF Forked, k

-----------------------------------------------------------------------------
(* The theorems.                                                           *)

\* The process table that the queues of a kernel are read as.
TableOf(k) ==
  [status  |-> k.status,
   free    |-> Objects(k.heap, "freepcbs"),
   run     |-> Objects(k.heap, "runQueue"),
   waiting |-> Elements(Objects(k.heap, "waitQueue")),
   zombies |-> Objects(k.heap, "zombieQueue"),
   current |-> k.current,
   halted  |-> k.halted]

LEMMA ReachedFacts ==
  ASSUME NEW k, NEW t, Reached(k, t)
  PROVE  TableOf(k) = t /\ ~k.heap.failed /\ k.halted = t.halted /\ k.current = t.current
<1>1. PICK v, w : State(k, v, w, {}) /\ Table(k, v) = t
  BY DEF Reached, Fine
<1>2. ~k.heap.failed
  BY <1>1, ViewFacts
<1>3. /\ Objects(k.heap, "freepcbs") = v["freepcbs"]
      /\ Objects(k.heap, "runQueue") = v["runQueue"]
      /\ Objects(k.heap, "waitQueue") = v["waitQueue"]
      /\ Objects(k.heap, "zombieQueue") = v["zombieQueue"]
  BY <1>1, QueueIsSequence, StatusNames
<1>4. TableOf(k) = Table(k, v)
  BY <1>3 DEF TableOf, Table
<1>5. Table(k, v).halted = k.halted /\ Table(k, v).current = k.current
  BY DEF Table
<1> QED BY <1>1, <1>2, <1>4, <1>5

\* The start of process.c is the start of module Process, and makes the
\* invariant true.
LEMMA InitReaches ==
  ASSUME Init
  PROVE  IInv /\ Abstract!Init
<1>1. Reached(kernel, Abstract!Fork(Abstract!ModuleInit)) /\ jiffies = 0
  BY InitStep DEF Init
<1>2. TableOf(kernel) = Abstract!Fork(Abstract!ModuleInit)
  BY <1>1, ReachedFacts
<1>3. Abstract!Init
  BY <1>1, <1>2 DEF Abstract!Init, TableOf
<1>4. jiffies \in 0 .. Quantum
  BY <1>1, SizeAssumption
<1> QED BY <1>1, <1>3, <1>4 DEF IInv

\* Every trap and interrupt is one of module Process, and keeps the invariant.
LEMMA NextReaches ==
  ASSUME IInv, Next
  PROVE  IInv' /\ Abstract!Next
<1>1. PICK t : Reached(kernel, t)
  BY DEF IInv
<1>2. jiffies \in 0 .. Quantum /\ Quantum \in Nat
  BY SizeAssumption DEF IInv
<1>3. /\ TableOf(kernel) = t /\ ~kernel.heap.failed
      /\ kernel.halted = t.halted /\ kernel.current = t.current
  BY <1>1, ReachedFacts
<1>4. Stopped <=> kernel.halted
  BY <1>3 DEF Stopped
<1>5. ASSUME NEW x, Reached(kernel', x)
      PROVE  (\E y : Reached(kernel, y))' /\ TableOf(kernel)' = x
  <2>1. TableOf(kernel') = x
    BY <1>5, ReachedFacts
  <2> QED BY <1>5, <2>1 DEF TableOf
<1>6. 0 \in 0 .. Quantum
  BY <1>2
<1>7. ASSUME ProcessCreate PROVE IInv' /\ Abstract!Next
  <2>1. PICK loads \in BOOLEAN : kernel' = ProcessFork(kernel, loads)
    BY <1>7 DEF ProcessCreate
  <2>2. Reached(kernel', Forked(t, loads)) /\ ~kernel.halted /\ jiffies' = jiffies
    BY <1>1, <1>4, <1>7, <2>1, ForkStep DEF ProcessCreate
  <2>3. IInv'
    BY <1>2, <1>5, <2>2 DEF IInv
  <2>4. Abstract!ProcessCreate
    <3>1. TableOf(kernel)' = Abstract!Fork(t) \/ TableOf(kernel)' = Abstract!ForkNoCode(t)
      BY <1>5, <2>2 DEF Forked
    <3> QED BY <1>3, <2>2, <3>1 DEF Abstract!ProcessCreate, Abstract!Running, TableOf
  <2> QED BY <2>3, <2>4 DEF Abstract!Next
<1>8. ASSUME Exit PROVE IInv' /\ Abstract!Next
  <2>1. Reached(kernel', Abstract!Schedule(Abstract!Destroy(t, t.current)))
        /\ ~kernel.halted /\ jiffies' = 0
    BY <1>1, <1>4, <1>8, ExitStep DEF Exit, ClkReset, Current
  <2>2. IInv'
    BY <1>5, <1>6, <2>1 DEF IInv
  <2>3. Abstract!Exit
    <3>1. TableOf(kernel)' = Abstract!Schedule(Abstract!Destroy(t, t.current))
      BY <1>5, <2>1
    <3> QED BY <1>3, <2>1, <3>1
         DEF Abstract!Exit, Abstract!Running, Abstract!Current, Abstract!ClkReset, TableOf
  <2> QED BY <2>2, <2>3 DEF Abstract!Next
<1>9. ASSUME Yield PROVE IInv' /\ Abstract!Next
  <2>1. Reached(kernel', Abstract!Schedule(t)) /\ ~kernel.halted /\ jiffies' = 0
    BY <1>1, <1>4, <1>9, YieldStep DEF Yield, ClkReset
  <2>2. IInv'
    BY <1>5, <1>6, <2>1 DEF IInv
  <2>3. Abstract!Yield
    <3>1. TableOf(kernel)' = Abstract!Schedule(t)
      BY <1>5, <2>1
    <3> QED BY <1>3, <2>1, <3>1
         DEF Abstract!Yield, Abstract!Running, Abstract!ClkReset, TableOf
  <2> QED BY <2>2, <2>3 DEF Abstract!Next
<1>10. ASSUME Reached(kernel', Abstract!Schedule(Abstract!Suspend(t, t.current))),
              ~kernel.halted, jiffies' = 0
       PROVE  IInv' /\ Abstract!Next
  <2>1. IInv'
    BY <1>5, <1>6, <1>10 DEF IInv
  <2>2. Abstract!Sleep
    <3>1. TableOf(kernel)' = Abstract!Schedule(Abstract!Suspend(t, t.current))
      BY <1>5, <1>10
    <3> QED BY <1>3, <1>10, <3>1
         DEF Abstract!Sleep, Abstract!Running, Abstract!Current, Abstract!ClkReset, TableOf
  <2> QED BY <2>1, <2>2 DEF Abstract!Next
<1>11. ASSUME Sleep PROVE IInv' /\ Abstract!Next
  <2>1. Reached(kernel', Abstract!Schedule(Abstract!Suspend(t, t.current)))
        /\ ~kernel.halted /\ jiffies' = 0
    BY <1>1, <1>4, <1>11, SleepStep DEF Sleep, ClkReset, Current
  <2> QED BY <1>10, <2>1
<1>12. ASSUME NEW q \in Waits, WaitIn(q) PROVE IInv' /\ Abstract!Next
  <2>1. ~kernel.halted /\ jiffies' = 0
    BY <1>4, <1>12 DEF WaitIn, ClkReset
  <2>2. /\ ~AQueueAllocLink(kernel.heap, kernel.current).heap.failed
        /\ Reached(ProcessSchedule(ProcessSuspend(QueueIn(kernel, q, kernel.current),
                                                  kernel.current)),
                   Abstract!Schedule(Abstract!Suspend(t, t.current)))
    BY <1>1, <2>1, WaitStep
  <2>3. kernel' = ProcessSchedule(ProcessSuspend(QueueIn(kernel, q, kernel.current),
                                                 kernel.current))
    BY <1>12, <2>2 DEF WaitIn, QueueIn, Current
  <2> QED BY <1>10, <2>1, <2>2, <2>3
<1>13. ASSUME NEW q \in Waits, WakeFirst(q) PROVE IInv' /\ Abstract!Next
  <2> DEFINE p == FirstObject(kernel, q)
  <2>1. /\ ~kernel.halted /\ jiffies' = jiffies /\ ~Empty(kernel, q)
        /\ kernel' = ProcessWakeup(QueueOut(kernel, q), p)
    BY <1>4, <1>13 DEF WakeFirst, QueueOut
  <2>2. p \in t.waiting /\ Reached(kernel', Abstract!Wakeup(t, p))
    BY <1>1, <2>1, WakeStep
  <2> HIDE DEF p
  <2>3. IInv'
    BY <1>2, <1>5, <2>1, <2>2 DEF IInv
  <2>4. Abstract!WakeOne(p)
    <3>1. TableOf(kernel)' = Abstract!Wakeup(t, p)
      BY <1>5, <2>2
    <3> QED BY <1>3, <2>1, <3>1 DEF Abstract!WakeOne, Abstract!Running, TableOf
  <2>5. p \in TableOf(kernel).waiting
    BY <1>3, <2>2
  <2> QED BY <2>3, <2>4, <2>5 DEF Abstract!Next, TableOf
<1>14. ASSUME Tick PROVE IInv' /\ Abstract!Next
  <2>1. ~kernel.halted
    BY <1>4, <1>14 DEF Tick
  <2>2. CASE jiffies + 1 > Quantum
    <3>1. Reached(kernel', Abstract!Schedule(t)) /\ jiffies' = 0
      BY <1>1, <1>14, <2>1, <2>2, YieldStep DEF Tick
    <3>2. IInv'
      BY <1>5, <1>6, <3>1 DEF IInv
    <3>3. Abstract!Tick
      <4>1. TableOf(kernel)' = Abstract!Schedule(t)
        BY <1>5, <3>1
      <4> QED BY <1>3, <2>1, <2>2, <3>1, <4>1 DEF Abstract!Tick, Abstract!Running, TableOf
    <3> QED BY <3>2, <3>3 DEF Abstract!Next
  <2>3. CASE ~(jiffies + 1 > Quantum)
    <3>1. kernel' = kernel /\ jiffies' = jiffies + 1
      BY <1>14, <2>3 DEF Tick
    <3>2. IInv'
      <4>1. jiffies' \in 0 .. Quantum
        BY <1>2, <2>3, <3>1
      <4> QED BY <1>1, <3>1, <4>1 DEF IInv
    <3>3. Abstract!Tick
      BY <1>3, <2>1, <2>3, <3>1 DEF Abstract!Tick, Abstract!Running, TableOf
    <3> QED BY <3>2, <3>3 DEF Abstract!Next
  <2> QED BY <2>2, <2>3
<1> QED BY <1>7, <1>8, <1>9, <1>11, <1>12, <1>13, <1>14 DEF Next

LEMMA InvariantFacts ==
  ASSUME IInv
  PROVE  TypeOK /\ WellLinked /\ QueuesNeverFail /\ LinkIsOwn
<1> DEFINE k == kernel
           h == kernel.heap
<1>1. PICK t : Reached(k, t)
  BY DEF IInv
<1>2. PICK v, w : State(k, v, w, {})
  BY <1>1 DEF Reached, Fine
<1>3. PICK c : Good(k, c, {})
  BY <1>2 DEF State
<1>4. k \in Kernels /\ Rep(h, c, {}) /\ ~h.failed /\ h \in Heaps
  BY <1>3 DEF Good, Rep
<1>5. TypeOK
  <2> HIDE DEF h
  <2>1. DOMAIN h = {"next", "prev", "queue", "object", "first", "last", "nitems", "failed"}
    <3>1. h = [next |-> h.next, prev |-> h.prev, queue |-> h.queue, object |-> h.object,
               first |-> h.first, last |-> h.last, nitems |-> h.nitems,
               failed |-> h.failed]
      BY <1>4 DEF Heaps
    <3> QED BY <3>1
  <2>2. /\ h.next \in [Links -> LinkOrNone] /\ h.prev \in [Links -> LinkOrNone]
        /\ h.queue \in [Links -> AllQueues \cup {NoQueue}]
        /\ h.object \in [Links -> Proc \cup {NoProc}]
        /\ h.first \in [AllQueues -> LinkOrNone] /\ h.last \in [AllQueues -> LinkOrNone]
        /\ h.nitems \in [AllQueues -> Int]
    BY <1>4 DEF Heaps
  <2>3. h.nitems \in [AllQueues -> 0 .. Len(LinkPool)]
    <3>1. \A q \in AllQueues : h.nitems[q] \in 0 .. Len(LinkPool)
      BY <1>4, NoLongQueue
    <3> QED BY <2>2, <3>1
  <2>4. /\ k.link \in [Proc -> LinkOrNone] /\ k.current \in Proc \cup {NoProc}
        /\ k.halted \in BOOLEAN
    BY <1>4 DEF Kernels
  <2>5. jiffies \in 0 .. Quantum
    BY DEF IInv
  <2> QED BY <2>1, <2>2, <2>3, <2>4, <2>5 DEF TypeOK, LinkOrNone, h
<1>6. WellLinked
  BY <1>4, WellLinkedLemma DEF WellLinked
<1>7. LinkIsOwn
  <2>1. ASSUME NEW p \in Proc
        PROVE  /\ k.link[p] # NoLink /\ h.object[k.link[p]] = p
               /\ h.queue[k.link[p]] \in ProcessQueues
    <3>1. p \in Proc \ {}
      OBVIOUS
    <3>2. /\ k.link[p] \in Links /\ h.object[k.link[p]] = p
          /\ h.queue[k.link[p]] = QueueOf(k.status[p])
      BY <1>3, <3>1 DEF Good
    <3> QED BY <3>2, QueueNames, PoolAssumption
  <2> QED BY <2>1 DEF LinkIsOwn
<1> QED BY <1>4, <1>5, <1>6, <1>7 DEF QueuesNeverFail

LEMMA StutterKeeps ==
  ASSUME IInv, UNCHANGED vars
  PROVE  IInv' /\ UNCHANGED Abstract!vars
<1>1. kernel' = kernel /\ jiffies' = jiffies
  BY DEF vars
<1> QED BY <1>1 DEF IInv, Abstract!vars

LEMMA InvariantHolds == Spec => []IInv
<1>1. Init => IInv
  BY InitReaches
<1>2. IInv /\ [Next]_vars => IInv'
  BY NextReaches, StutterKeeps
<1> QED BY <1>1, <1>2, PTL DEF Spec

\* The fields of the links, queues and PCBs are what queue.c and process.c
\* declare, and no queue counts more links than the pool has.
THEOREM TypeCorrect == Spec => []TypeOK
<1>1. IInv => TypeOK
  BY InvariantFacts
<1> QED BY <1>1, InvariantHolds, PTL

\* Between two handlers all pointers and counts of queue.c agree: every queue
\* can be walked in both directions and no link of the pool is lost, whatever
\* was inserted in front, behind, moved or removed (queue.c 88-284).
THEOREM AlwaysWellLinked == Spec => []WellLinked
<1>1. IInv => WellLinked
  BY InvariantFacts
<1> QED BY <1>1, InvariantHolds, PTL

\* No operation on queues ever fails, so the fatal errors that process.c
\* raises for them cannot happen: two links for each PCB are enough.
THEOREM QueuesNeverFailHolds == Spec => []QueuesNeverFail
<1>1. IInv => QueuesNeverFail
  BY InvariantFacts
<1> QED BY <1>1, InvariantHolds, PTL

\* The link that a PCB points to is its own and in a queue of processes: what
\* Suspend, Wakeup and Destroy remove is never the link of another process,
\* nor the one that its own process has in an object (process.c 238-325).
THEOREM LinkAlwaysOwn == Spec => []LinkIsOwn
<1>1. IInv => LinkIsOwn
  BY InvariantFacts
<1> QED BY <1>1, InvariantHolds, PTL

\* The process table in doubly linked queues implements module Process: each
\* trap and interrupt leaves the queues in the order, and the processor with
\* the process, that the sequences of that module have (process.c 64-560).
THEOREM ImplementsProcessHolds == Spec => ImplementsProcess
<1>1. Init => Abstract!Init
  BY InitReaches
<1>2. IInv /\ [Next]_vars => [Abstract!Next]_Abstract!vars
  BY NextReaches, StutterKeeps
<1> QED BY <1>1, <1>2, InvariantHolds, PTL DEF Spec, ImplementsProcess
=============================================================================

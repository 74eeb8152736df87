---------------------------- MODULE LoggersProofs ----------------------------
(***************************************************************************)
(* What LogSinks promises of a message before it reaches a sink, for any   *)
(* loggers, names, levels, queues and children: the registry agrees with   *)
(* itself, the ring is a bounded queue that drops the oldest, a logger     *)
(* serves every sink of each message whatever its sinks throw, the filter  *)
(* of repeated messages counts all that it leaves out, a formatter shows   *)
(* each message's own time; and that frames are read back as they were     *)
(* sent.                                                                   *)
(***************************************************************************)
EXTENDS LogSinks, FiniteSetTheorems, SequenceTheorems, TLAPS

-----------------------------------------------------------------------------
(* The ring against the bounded queue it implements.                       *)

(* What the slots of the rings hold.                                       *)
RingItems == Items \cup {None}

Rings == DOMAIN ring = Queues /\ ring = [k \in Queues |-> ring[k]]
         /\ \A k \in Queues : Queue!IsRing(ring[k], RingItems)

(* The calls in terms of the sequence of what is queued.                   *)
LEMMA ContentsAre ==
  ASSUME NEW S, NEW q, Queue!IsRing(q, S)
  PROVE  /\ Queue!Contents(q) \in Seq(S) /\ Len(Queue!Contents(q)) = Queue!Size(q) /\ Queue!Size(q) \in Nat
         /\ \A i \in 1 .. Queue!Size(q) : Queue!Contents(q)[i] = Queue!At(q, i - 1)
<1>1. Queue!Size(q) \in Nat /\ \A i \in 0 .. Queue!Size(q) - 1 : Queue!At(q, i) \in S BY Queue!RingSize
<1>2. \A i \in 1 .. Queue!Size(q) : i - 1 \in 0 .. Queue!Size(q) - 1 BY <1>1
<1>3. Queue!Contents(q) \in [1 .. Queue!Size(q) -> S] BY <1>1, <1>2 DEF Queue!Contents
<1> QED BY <1>1, <1>3 DEF Queue!Contents

LEMMA PushAppends ==
  ASSUME NEW S, NEW q, Queue!IsRing(q, S), q.max > 0, NEW x \in S
  PROVE  Queue!Contents(Queue!PushBack(q, x)) = IF Queue!Full(q) THEN Tail(Append(Queue!Contents(q), x)) ELSE Append(Queue!Contents(q), x)
<1> DEFINE r == Queue!PushBack(q, x)
           s == Queue!Contents(q)
           a == Append(s, x)
<1>1. /\ Queue!IsRing(r, S)
      /\ ~Queue!Full(q) => /\ Queue!Size(r) = Queue!Size(q) + 1
                     /\ \A i \in 0 .. Queue!Size(q) : Queue!At(r, i) = IF i = Queue!Size(q) THEN x ELSE Queue!At(q, i)
      /\ Queue!Full(q) => /\ Queue!Size(r) = Queue!Size(q)
                    /\ \A i \in 0 .. Queue!Size(q) - 1 : Queue!At(r, i) = IF i = Queue!Size(q) - 1 THEN x ELSE Queue!At(q, i + 1)
  BY Queue!Pushed
<1>2. s \in Seq(S) /\ Len(s) = Queue!Size(q) /\ Queue!Size(q) \in Nat /\ \A i \in 1 .. Queue!Size(q) : s[i] = Queue!At(q, i - 1)
  BY ContentsAre
<1>3. /\ Queue!Contents(r) \in Seq(S) /\ Len(Queue!Contents(r)) = Queue!Size(r) /\ Queue!Size(r) \in Nat
      /\ \A i \in 1 .. Queue!Size(r) : Queue!Contents(r)[i] = Queue!At(r, i - 1)
  <2> HIDE DEF r
  <2> QED BY <1>1, ContentsAre
<1>4. /\ a \in Seq(S) /\ Len(a) = Queue!Size(q) + 1
      /\ \A i \in 1 .. Queue!Size(q) + 1 : a[i] = IF i = Queue!Size(q) + 1 THEN x ELSE s[i]
  <2> HIDE DEF s
  <2> QED BY <1>2
<1>5. CASE ~Queue!Full(q)
  <2>1. Len(Queue!Contents(r)) = Len(a) BY <1>1, <1>3, <1>4, <1>5
  <2>2. ASSUME NEW i \in 1 .. Len(a) PROVE Queue!Contents(r)[i] = a[i]
    <3>1. i \in 1 .. Queue!Size(q) + 1 /\ i - 1 \in 0 .. Queue!Size(q) BY <1>2, <1>4
    <3>2. Queue!Contents(r)[i] = IF i - 1 = Queue!Size(q) THEN x ELSE Queue!At(q, i - 1) BY <1>1, <1>3, <1>5, <3>1
    <3>3. a[i] = IF i = Queue!Size(q) + 1 THEN x ELSE s[i] BY <1>4, <3>1
    <3>4. i # Queue!Size(q) + 1 => s[i] = Queue!At(q, i - 1) BY <1>2, <3>1
    <3> HIDE DEF a, r, s
    <3> QED BY <1>2, <3>1, <3>2, <3>3, <3>4
  <2> HIDE DEF a, r
  <2>3. Queue!Contents(r) = a BY <1>3, <1>4, <2>1, <2>2, SeqEqual
  <2> QED BY <1>5, <2>3 DEF a, r
<1>6. CASE Queue!Full(q)
  <2> HIDE DEF a, r, s
  <2>1. /\ Tail(a) \in Seq(S) /\ Len(Tail(a)) = Queue!Size(q)
        /\ \A i \in 1 .. Queue!Size(q) : Tail(a)[i] = a[i + 1]
    BY <1>2, <1>4
  <2>2. Len(Queue!Contents(r)) = Len(Tail(a)) BY <1>1, <1>3, <1>6, <2>1
  <2>3. ASSUME NEW i \in 1 .. Len(Tail(a)) PROVE Queue!Contents(r)[i] = Tail(a)[i]
    <3>1. i \in 1 .. Queue!Size(q) /\ i - 1 \in 0 .. Queue!Size(q) - 1 /\ i + 1 \in 1 .. Queue!Size(q) + 1
      BY <1>2, <2>1
    <3>2. Queue!Contents(r)[i] = IF i - 1 = Queue!Size(q) - 1 THEN x ELSE Queue!At(q, i - 1 + 1) BY <1>1, <1>3, <1>6, <3>1
    <3>3. Tail(a)[i] = IF i + 1 = Queue!Size(q) + 1 THEN x ELSE s[i + 1] BY <1>4, <2>1, <3>1
    <3>4. i # Queue!Size(q) => i + 1 \in 1 .. Queue!Size(q) BY <1>2, <3>1
    <3>5. i # Queue!Size(q) => s[i + 1] = Queue!At(q, i + 1 - 1) BY <1>2, <3>4
    <3>6. i - 1 + 1 = i /\ i + 1 - 1 = i BY <3>1
    <3> QED BY <1>2, <3>1, <3>2, <3>3, <3>5, <3>6
  <2>4. Queue!Contents(r) = Tail(a) BY <1>3, <2>1, <2>2, <2>3, SeqEqual
  <2> QED BY <1>6, <2>4 DEF a, r, s
<1> QED BY <1>5, <1>6

LEMMA PopTakesHead ==
  ASSUME NEW S, NEW q, Queue!IsRing(q, S), ~Queue!Empty(q)
  PROVE  Queue!Contents(q) # <<>> /\ Queue!Contents(Queue!PopFront(q)) = Tail(Queue!Contents(q))
<1> DEFINE r == Queue!PopFront(q)
           s == Queue!Contents(q)
<1>1. /\ Queue!IsRing(r, S) /\ Queue!Size(r) = Queue!Size(q) - 1 /\ Queue!Size(q) \in Nat \ {0}
      /\ \A i \in 0 .. Queue!Size(q) - 2 : Queue!At(r, i) = Queue!At(q, i + 1)
  BY Queue!Popped
<1>2. s \in Seq(S) /\ Len(s) = Queue!Size(q) /\ \A i \in 1 .. Queue!Size(q) : s[i] = Queue!At(q, i - 1)
  BY ContentsAre
<1>3. /\ Queue!Contents(r) \in Seq(S) /\ Len(Queue!Contents(r)) = Queue!Size(r)
      /\ \A i \in 1 .. Queue!Size(r) : Queue!Contents(r)[i] = Queue!At(r, i - 1)
  <2> HIDE DEF r
  <2> QED BY <1>1, ContentsAre
<1> HIDE DEF r, s
<1>4. s # <<>> /\ Tail(s) \in Seq(S) /\ Len(Tail(s)) = Queue!Size(q) - 1 /\ \A i \in 1 .. Queue!Size(q) - 1 : Tail(s)[i] = s[i + 1]
  BY <1>1, <1>2
<1>5. ASSUME NEW i \in 1 .. Queue!Size(q) - 1 PROVE Queue!Contents(r)[i] = Tail(s)[i]
  <2>1. i - 1 \in 0 .. Queue!Size(q) - 2 /\ i + 1 \in 1 .. Queue!Size(q) /\ i - 1 + 1 = i /\ i + 1 - 1 = i BY <1>1
  <2>2. Queue!Contents(r)[i] = Queue!At(q, i - 1 + 1) BY <1>1, <1>3, <2>1
  <2>3. Tail(s)[i] = Queue!At(q, i + 1 - 1) BY <1>2, <1>4, <2>1
  <2> QED BY <2>1, <2>2, <2>3
<1>6. Queue!Contents(r) = Tail(s) BY <1>1, <1>3, <1>4, <1>5, SeqEqual
<1> QED BY <1>4, <1>6 DEF r, s

LEMMA EmptyRings ==
  /\ Queue!IsRing(Queue!Disabled, RingItems) /\ Queue!Abstract(Queue!Disabled) = Queue!Bounded!Off
  /\ \A n \in Nat : Queue!IsRing(Queue!New(n, None), RingItems) /\ Queue!Abstract(Queue!New(n, None)) = Queue!Bounded!Made(n)
<1>1. Queue!IsRing(Queue!Disabled, RingItems) /\ Queue!Size(Queue!Disabled) = 0
  BY DEF Queue!IsRing, Queue!Disabled, Queue!Size
<1>2. Queue!Abstract(Queue!Disabled) = Queue!Bounded!Off
  <2>1. Queue!Contents(Queue!Disabled) = <<>> BY <1>1 DEF Queue!Contents
  <2> QED BY <2>1 DEF Queue!Abstract, Queue!Bounded!Off, Queue!Bounded!Made, Queue!Disabled
<1>3. ASSUME NEW n \in Nat
      PROVE  Queue!IsRing(Queue!New(n, None), RingItems) /\ Queue!Abstract(Queue!New(n, None)) = Queue!Bounded!Made(n)
  <2> DEFINE q == Queue!New(n, None)
  <2>1. q.max = n + 1 /\ q.head = 0 /\ q.tail = 0 /\ q.overrun = 0 /\ q.v = [i \in 0 .. n |-> None]
    BY DEF Queue!New
  <2>2. Queue!IsRing(q, RingItems)
    <3>1. q = [max |-> q.max, head |-> q.head, tail |-> q.tail, overrun |-> q.overrun, v |-> q.v]
      BY DEF Queue!New
    <3> HIDE DEF q
    <3> QED BY <2>1, <3>1 DEF Queue!IsRing, RingItems
  <2>3. Queue!Size(q) = 0
    <3> HIDE DEF q
    <3> QED BY <2>1 DEF Queue!Size
  <2>4. Queue!Contents(q) = <<>> BY <2>3 DEF Queue!Contents
  <2>5. Queue!Abstract(q) = Queue!Bounded!Made(n)
    <3> HIDE DEF q
    <3> QED BY <2>1, <2>4 DEF Queue!Abstract, Queue!Bounded!Made
  <2> QED BY <2>2, <2>5
<1> QED BY <1>1, <1>2, <1>3

(* One call on a ring is the call on its abstraction.                      *)
Holding(room, items, lost) == [room |-> room, items |-> items, lost |-> lost]

LEMMA AbstractHolds ==
  ASSUME NEW q
  PROVE  Queue!Abstract(q) = Holding(q.max - 1, Queue!Contents(q), q.overrun)
BY Zenon DEF Queue!Abstract, Holding

LEMMA AllFields ==
  ASSUME NEW c, c = [f \in {"room", "items", "lost"} |-> c[f]]
  PROVE  c = Holding(c.room, c.items, c.lost)
<1> DEFINE F == {"room", "items", "lost"}
           d == Holding(c.room, c.items, c.lost)
<1>1. d = [x \in F |-> d[x]] /\ d.room = c.room /\ d.items = c.items /\ d.lost = c.lost
  BY DEF Holding
<1> HIDE DEF d
<1>2. \A x \in F : c[x] = d[x] BY <1>1
<1>3. c = d BY <1>1, <1>2
<1> QED BY <1>3 DEF d

LEMMA AbstractFields ==
  ASSUME NEW q
  PROVE  /\ Queue!Abstract(q).room = q.max - 1
         /\ Queue!Abstract(q).items = Queue!Contents(q) /\ Queue!Abstract(q).lost = q.overrun
BY Zenon DEF Queue!Abstract

LEMMA PushAbstract ==
  ASSUME NEW q, Queue!IsRing(q, RingItems), NEW x \in RingItems
  PROVE  LET a == Queue!Abstract(q)
             r == Queue!PushBack(q, x)
         IN /\ Queue!IsRing(r, RingItems)
            /\ a.room < 0 => r = q
            /\ a.room >= 0 /\ Len(a.items) >= a.room =>
                 Queue!Abstract(r) = Holding(a.room, Tail(Append(a.items, x)), a.lost + 1)
            /\ a.room >= 0 /\ ~(Len(a.items) >= a.room) =>
                 Queue!Abstract(r) = Holding(a.room, Append(a.items, x), a.lost)
<1> DEFINE a == Queue!Abstract(q)
           r == Queue!PushBack(q, x)
<1>1. q.max \in Nat BY DEF Queue!IsRing
<1>2. a.room = q.max - 1 /\ a.items = Queue!Contents(q) /\ a.lost = q.overrun BY AbstractFields
<1>3. CASE ~(q.max > 0)
  <2>1. r = q BY <1>1, <1>3 DEF Queue!PushBack
  <2>2. a.room < 0
    <3> HIDE DEF a
    <3> QED BY <1>1, <1>2, <1>3
  <2> HIDE DEF a, r
  <2>3. Queue!IsRing(r, RingItems) /\ ~(a.room >= 0) BY <1>1, <1>2, <1>3, <2>1
  <2> QED BY <2>1, <2>3 DEF a, r
<1>4. CASE q.max > 0
  <2>1. /\ Queue!IsRing(r, RingItems) /\ r.max = q.max
        /\ r.overrun = IF Queue!Full(q) THEN q.overrun + 1 ELSE q.overrun
    BY <1>1, <1>4, Queue!Pushed
  <2>2. Queue!Contents(r) = IF Queue!Full(q) THEN Tail(Append(Queue!Contents(q), x)) ELSE Append(Queue!Contents(q), x)
    BY <1>4, PushAppends
  <2>3. Len(Queue!Contents(q)) = Queue!Size(q) BY ContentsAre
  <2>4. Queue!Size(q) \in Nat /\ Queue!Size(q) < q.max /\ (Queue!Full(q) <=> Queue!Size(q) = q.max - 1) BY <1>4, Queue!RingSize
  <2>5. Queue!Full(q) <=> Len(a.items) >= a.room
    <3> HIDE DEF a
    <3> QED BY <1>1, <1>2, <1>4, <2>3, <2>4
  <2>6. ~(a.room < 0)
    <3> HIDE DEF a
    <3> QED BY <1>1, <1>2, <1>4
  <2>7. Queue!Abstract(r) = Holding(a.room, Queue!Contents(r), r.overrun)
    <3>1. Queue!Abstract(r) = Holding(r.max - 1, Queue!Contents(r), r.overrun) BY AbstractHolds
    <3> HIDE DEF a, r
    <3> QED BY <1>2, <2>1, <3>1
  <2>8. CASE Queue!Full(q)
    <3>1. Queue!Contents(r) = Tail(Append(a.items, x)) /\ r.overrun = a.lost + 1
      BY <1>2, <2>1, <2>2, <2>8
    <3>2. Queue!Abstract(r) = Holding(a.room, Tail(Append(a.items, x)), a.lost + 1)
      BY <2>7, <3>1
    <3> HIDE DEF a, r
    <3> QED BY <2>1, <2>5, <2>6, <2>8, <3>2 DEF a, r
  <2>9. CASE ~Queue!Full(q)
    <3>1. Queue!Contents(r) = Append(a.items, x) /\ r.overrun = a.lost
      BY <1>2, <2>1, <2>2, <2>9
    <3>2. Queue!Abstract(r) = Holding(a.room, Append(a.items, x), a.lost)
      BY <2>7, <3>1
    <3> HIDE DEF a, r
    <3> QED BY <2>1, <2>5, <2>6, <2>9, <3>2 DEF a, r
  <2> QED BY <2>8, <2>9
<1> QED BY <1>1, <1>3, <1>4

LEMMA PopAbstract ==
  ASSUME NEW q, Queue!IsRing(q, RingItems), ~Queue!Empty(q)
  PROVE  LET a == Queue!Abstract(q)
         IN /\ Queue!IsRing(Queue!PopFront(q), RingItems)
            /\ a.items # <<>>
            /\ Queue!Abstract(Queue!PopFront(q)) = Holding(a.room, Tail(a.items), a.lost)
<1> DEFINE a == Queue!Abstract(q)
           r == Queue!PopFront(q)
<1>1. Queue!IsRing(r, RingItems) /\ r.max = q.max /\ r.overrun = q.overrun
  BY Queue!Popped
<1>2. Queue!Contents(q) # <<>> /\ Queue!Contents(r) = Tail(Queue!Contents(q))
  BY PopTakesHead
<1>3. a.items = Queue!Contents(q) /\ a.lost = q.overrun /\ a.room = q.max - 1
  BY AbstractFields
<1>4. Queue!Abstract(r) = Holding(r.max - 1, Queue!Contents(r), r.overrun)
  BY AbstractHolds
<1> HIDE DEF a, r
<1>5. Queue!Abstract(r) = Holding(a.room, Tail(a.items), a.lost)
  BY <1>1, <1>2, <1>3, <1>4
<1> QED BY <1>1, <1>2, <1>3, <1>5 DEF a, r

LEMMA NextRings ==
  ASSUME MaxSize \in Nat, Rings, [Queue!Next]_ring
  PROVE  Rings' /\ [Queue!Bounded!Next]_([k \in Queues |-> Queue!Abstract(ring[k])])
<1> DEFINE queue == [k \in Queues |-> Queue!Abstract(ring[k])]
<1>0. CASE UNCHANGED ring
  BY <1>0 DEF Rings
<1>1. ASSUME NEW k \in Queues, NEW x \in Items, ring' = [ring EXCEPT ![k] = Queue!PushBack(@, x)]
      PROVE  Rings' /\ Queue!Bounded!Put(k, x)
  <2> DEFINE a == Queue!Abstract(ring[k])
             r == Queue!PushBack(ring[k], x)
             over == Len(a.items) >= a.room
  <2>1. /\ Queue!IsRing(r, RingItems)
        /\ a.room < 0 => r = ring[k]
        /\ a.room >= 0 /\ over =>
             Queue!Abstract(r) = Holding(a.room, Tail(Append(a.items, x)), a.lost + 1)
        /\ a.room >= 0 /\ ~over =>
             Queue!Abstract(r) = Holding(a.room, Append(a.items, x), a.lost)
        /\ a.room < 0 \/ a.room >= 0
    <3>1. Queue!IsRing(ring[k], RingItems) /\ x \in RingItems BY DEF RingItems, Rings
    <3>2. a.room = ring[k].max - 1 /\ ring[k].max \in Nat BY <3>1, AbstractFields DEF Queue!IsRing
    <3>3. a.room < 0 \/ a.room >= 0
      <4> HIDE DEF a
      <4> QED BY <3>2
    <3> QED BY <3>1, <3>3, PushAbstract
  <2> HIDE DEF r
  <2>2. ring' = [ring EXCEPT ![k] = r] BY <1>1 DEF r
  <2>3. Rings' BY <2>1, <2>2 DEF Rings
  <2>4. queue' = [queue EXCEPT ![k] = Queue!Abstract(r)] BY <2>2 DEF Rings
  <2>5. queue[k] = a OBVIOUS
  <2>6. CASE a.room < 0
    <3>1. queue' = queue BY <2>1, <2>2, <2>6 DEF Rings
    <3> QED BY <2>3, <2>5, <2>6, <3>1 DEF Queue!Bounded!Put
  <2>7. CASE a.room >= 0
    <3>1. ~(a.room < 0)
      <4>1. a.room = ring[k].max - 1 /\ ring[k].max \in Nat BY AbstractFields DEF Queue!IsRing, Rings
      <4> HIDE DEF a
      <4> QED BY <2>7, <4>1
    <3>2. queue' = [queue EXCEPT ![k].items = IF over THEN Tail(Append(@, x)) ELSE Append(@, x),
                                 ![k].lost = IF over THEN @ + 1 ELSE @]
      <4> DEFINE s == IF over THEN Tail(Append(a.items, x)) ELSE Append(a.items, x)
                 n == IF over THEN a.lost + 1 ELSE a.lost
      <4>1. a = Holding(a.room, a.items, a.lost) BY AbstractHolds, AbstractFields
      <4> HIDE DEF a, over, queue
      <4>2. Queue!Abstract(r) = Holding(a.room, s, n) BY <2>1, <2>7
      <4> HIDE DEF s, n
      <4>3. [a EXCEPT !.items = s, !.lost = n] = Holding(a.room, s, n)
        <5> DEFINE c == [a EXCEPT !.items = s, !.lost = n]
        <5>1. c = [f \in {"room", "items", "lost"} |-> c[f]] /\ c.room = a.room /\ c.items = s /\ c.lost = n
          BY <4>1 DEF Holding
        <5> HIDE DEF c
        <5>2. c = Holding(a.room, s, n) BY <5>1, AllFields
        <5> QED BY <5>2 DEF c
      <4>4. queue' = [queue EXCEPT ![k].items = s, ![k].lost = n] BY <2>4, <2>5, <4>2, <4>3
      <4> QED BY <2>5, <4>4 DEF s, n
    <3> QED BY <2>3, <2>5, <3>1, <3>2 DEF Queue!Bounded!Put
  <2> QED BY <2>1, <2>6, <2>7
<1>2. ASSUME NEW k \in Queues, ~Queue!Empty(ring[k]), ring' = [ring EXCEPT ![k] = Queue!PopFront(@)]
      PROVE  Rings' /\ Queue!Bounded!Take(k)
  <2> DEFINE a == Queue!Abstract(ring[k])
  <2>1. /\ Queue!IsRing(Queue!PopFront(ring[k]), RingItems) /\ a.items # <<>>
        /\ Queue!Abstract(Queue!PopFront(ring[k])) = Holding(a.room, Tail(a.items), a.lost)
    BY <1>2, PopAbstract DEF Rings
  <2>2. Rings' BY <1>2, <2>1 DEF Rings
  <2>3. queue' = [queue EXCEPT ![k] = Holding(a.room, Tail(a.items), a.lost)]
    BY <1>2, <2>1 DEF Rings
  <2>4. queue[k] = a OBVIOUS
  <2>5. queue' = [queue EXCEPT ![k].items = Tail(@)]
    <3> DEFINE s == Tail(a.items)
    <3>1. a = Holding(a.room, a.items, a.lost) BY AbstractHolds, AbstractFields
    <3> HIDE DEF a, queue, s
    <3>2. [a EXCEPT !.items = s] = Holding(a.room, s, a.lost)
      <4> DEFINE c == [a EXCEPT !.items = s]
      <4>1. c = [f \in {"room", "items", "lost"} |-> c[f]] /\ c.room = a.room /\ c.items = s /\ c.lost = a.lost
        BY <3>1 DEF Holding
      <4> HIDE DEF c
      <4>2. c = Holding(a.room, s, a.lost) BY <4>1, AllFields
      <4> QED BY <4>2 DEF c
    <3>3. queue' = [queue EXCEPT ![k].items = s] BY <2>3, <2>4, <3>2 DEF s
    <3> QED BY <2>4, <3>3 DEF s
  <2> QED BY <2>1, <2>2, <2>4, <2>5 DEF Queue!Bounded!Take, a, queue
<1>3. ASSUME NEW k \in Queues, NEW n \in 0 .. MaxSize, ring' = [ring EXCEPT ![k] = Queue!New(n, None)]
      PROVE  Rings' /\ Queue!Bounded!Make(k, n)
  <2>1. Queue!IsRing(Queue!New(n, None), RingItems) /\ Queue!Abstract(Queue!New(n, None)) = Queue!Bounded!Made(n)
    BY EmptyRings
  <2>2. Rings' BY <1>3, <2>1 DEF Rings
  <2>3. queue' = [queue EXCEPT ![k] = Queue!Bounded!Made(n)] BY <1>3, <2>1 DEF Rings
  <2> QED BY <2>2, <2>3 DEF Queue!Bounded!Make
<1>4. ASSUME NEW k \in Queues, NEW j \in Queues, ring' = [ring EXCEPT ![k] = ring[j]]
      PROVE  Rings' /\ Queue!Bounded!Copy(j, k)
  <2>1. Rings' BY <1>4 DEF Rings
  <2>2. queue' = [queue EXCEPT ![k] = queue[j]] BY <1>4 DEF Rings
  <2> QED BY <2>1, <2>2 DEF Queue!Bounded!Copy
<1>5. ASSUME NEW k \in Queues, NEW j \in Queues \ {k},
             ring' = [ring EXCEPT ![k] = ring[j], ![j] = Queue!MovedFrom(ring[j])]
      PROVE  Rings' /\ Queue!Bounded!Move(j, k)
  <2>1. ring' = [ring EXCEPT ![k] = ring[j], ![j] = Queue!Disabled] BY <1>5 DEF Queue!MovedFrom
  <2>2. Rings' BY <2>1, EmptyRings DEF Rings
  <2>3. queue' = [queue EXCEPT ![k] = queue[j], ![j] = Queue!Bounded!Off] BY <2>1, EmptyRings DEF Rings
  <2> QED BY <2>2, <2>3 DEF Queue!Bounded!Move
<1>6. CASE Queue!Next
  <2>1. PICK k \in Queues :
          \/ \E x \in Items : ring' = [ring EXCEPT ![k] = Queue!PushBack(@, x)]
          \/ ~Queue!Empty(ring[k]) /\ ring' = [ring EXCEPT ![k] = Queue!PopFront(@)]
          \/ \E n \in 0 .. MaxSize : ring' = [ring EXCEPT ![k] = Queue!New(n, None)]
          \/ \E j \in Queues : ring' = [ring EXCEPT ![k] = ring[j]]
          \/ \E j \in Queues \ {k} : ring' = [ring EXCEPT ![k] = ring[j], ![j] = Queue!MovedFrom(ring[j])]
    BY <1>6 DEF Queue!Next
  <2> HIDE DEF queue
  <2>2. Rings' /\ Queue!Bounded!Next
    BY <1>1, <1>2, <1>3, <1>4, <1>5, <2>1 DEF Queue!Bounded!Next
  <2> QED BY <2>2
<1> QED BY <1>0, <1>6

LEMMA FullIsNoRoom ==
  ASSUME Rings
  PROVE  Queue!FullMeansNoRoom
<1> SUFFICES ASSUME NEW k \in Queues
             PROVE  Queue!Full(ring[k]) <=> Queue!PushBack(ring[k], None).overrun > ring[k].overrun
  BY DEF Queue!FullMeansNoRoom
<1> DEFINE q == ring[k]
<1>1. Queue!IsRing(q, RingItems) /\ None \in RingItems /\ q.overrun \in Nat /\ q.max \in Nat
  BY DEF Rings, RingItems, Queue!IsRing
<1>2. CASE q.max = 0 BY <1>1, <1>2 DEF Queue!Full, Queue!PushBack
<1>3. CASE q.max > 0
  <2>1. Queue!PushBack(q, None).overrun = IF Queue!Full(q) THEN q.overrun + 1 ELSE q.overrun
    <3> HIDE DEF q
    <3> QED BY <1>1, <1>3, Queue!Pushed
  <2> QED BY <1>1, <2>1
<1> QED BY <1>1, <1>2, <1>3

LEMMA LastRawIsLast ==
  ASSUME MaxSize \in Nat, Rings
  PROVE  Queue!LastAreLast
<1> SUFFICES ASSUME NEW k \in Queues, NEW lim \in 0 .. MaxSize + 1
             PROVE  LET s == Queue!Contents(ring[k])
                    IN Queue!LastRaw(ring[k], lim) =
                         IF lim = 0 \/ lim > Len(s) THEN s ELSE SubSeq(s, Len(s) - lim + 1, Len(s))
  BY DEF Queue!LastAreLast
<1> DEFINE q == ring[k]
           s == Queue!Contents(q)
           n == IF lim > 0 /\ lim < Queue!Size(q) THEN lim ELSE Queue!Size(q)
<1>1. /\ s \in Seq(RingItems) /\ Len(s) = Queue!Size(q) /\ Queue!Size(q) \in Nat
      /\ \A i \in 1 .. Queue!Size(q) : s[i] = Queue!At(q, i - 1)
  BY ContentsAre DEF Rings
<1>2. Queue!LastRaw(q, lim) = [i \in 1 .. n |-> Queue!At(q, Queue!Size(q) - n + i - 1)]
  BY DEF Queue!LastRaw
<1>3. s = [i \in 1 .. Queue!Size(q) |-> Queue!At(q, i - 1)] BY DEF Queue!Contents
<1>4. CASE lim = 0 \/ lim > Len(s)
  <2>1. n = Queue!Size(q) BY <1>1, <1>4
  <2>2. \A i \in 1 .. Queue!Size(q) : Queue!Size(q) - Queue!Size(q) + i - 1 = i - 1 BY <1>1
  <2> HIDE DEF q, n
  <2>3. Queue!LastRaw(q, lim) = s BY <1>2, <1>3, <2>1, <2>2
  <2> QED BY <1>4, <2>3 DEF q
<1>5. CASE ~(lim = 0 \/ lim > Len(s))
  <2>1. n = lim /\ lim \in 1 .. Queue!Size(q) BY <1>1, <1>5
  <2> HIDE DEF q, n, s
  <2>2. SubSeq(s, Len(s) - lim + 1, Len(s)) = [i \in 1 .. lim |-> s[Queue!Size(q) - lim + 1 + i - 1]]
    BY <1>1, <2>1, SMTT(40)
  <2>3. \A i \in 1 .. lim : /\ Queue!Size(q) - lim + 1 + i - 1 \in 1 .. Queue!Size(q)
                            /\ Queue!Size(q) - lim + 1 + i - 1 - 1 = Queue!Size(q) - lim + i - 1
    BY <1>1, <2>1
  <2>4. \A i \in 1 .. lim : s[Queue!Size(q) - lim + 1 + i - 1] = Queue!At(q, Queue!Size(q) - lim + i - 1)
    BY <1>1, <2>3
  <2>5. Queue!LastRaw(q, lim) = SubSeq(s, Len(s) - lim + 1, Len(s))
    BY <1>2, <2>1, <2>2, <2>4
  <2> QED BY <1>5, <2>5 DEF q, s
<1> QED BY <1>4, <1>5

(* circular_q is a bounded queue that drops the oldest, for any capacity.  *)
THEOREM RingsAreQueues ==
  ASSUME MaxSize \in Nat
  PROVE  Queue!Spec => Queue!ImplementsBoundedQueue /\ [](Queue!FullMeansNoRoom /\ Queue!LastAreLast)
<1>1. Queue!Init => Rings /\ Queue!Bounded!Init
  BY EmptyRings DEF Queue!Init, Rings, Queue!Bounded!Init
<1>2. Rings /\ [Queue!Next]_ring => Rings' /\ [Queue!Bounded!Next]_([k \in Queues |-> Queue!Abstract(ring[k])])
  BY NextRings
<1>3. Rings => Queue!FullMeansNoRoom /\ Queue!LastAreLast
  BY FullIsNoRoom, LastRawIsLast
<1> QED BY <1>1, <1>2, <1>3, PTL DEF Queue!Spec, Queue!ImplementsBoundedQueue, Queue!Bounded!Spec

-----------------------------------------------------------------------------
(* The logger.                                                             *)

(* The sinks of a logger are different ones; the levels are any.           *)
LoggerConstants ==
  /\ TraceSize \in Nat /\ MaxCalls \in Nat
  /\ None \notin Threads /\ None \notin Nat
  /\ Sinks \in Seq(Log!SinkSet)
  /\ \A i, j \in DOMAIN Sinks : Sinks[i] = Sinks[j] => i = j

(* A thread's list of steps is sorted by what they do: what it has left is *)
(* known from the set of its steps, and its next one comes first.          *)
RankOf(p) ==
  CASE p.op = "sink" -> 1 [] p.op = "flush?" -> 2 [] p.op = "flush" -> 3
    [] p.op = "trace" -> 4 [] p.op = "pop" -> 5 [] OTHER -> 6

Ops == {"sink", "flush?", "flush", "trace", "return", "lock", "each", "pop"}
Steps == [op : Ops, sink : Log!SinkSet \cup {None}, msg : Log!Messages \cup {None}]

Before(a, b) ==
  \/ RankOf(a) < RankOf(b)
  \/ RankOf(a) = RankOf(b) /\ a.op \in {"sink", "flush"} /\ a.sink # b.sink

Sorted(S) == \A i, j \in 1 .. Len(S) : i < j => Before(S[i], S[j])

StepsOf(S) == {S[i] : i \in 1 .. Len(S)}
Pending == [t \in Threads |-> StepsOf(todo[t])]

(* What a call can have left.                                              *)
WellFormed(P) ==
  /\ P \subseteq Steps
  /\ \A p \in P : p.op = "sink" => p.sink \in Log!SinkSet
  /\ \A p \in P : p.op = "flush" => p.sink \in Log!SinkSet
  /\ \A p \in P : p.op \in {"trace", "return"} => p.msg \in Log!Messages
  /\ \A p, e \in P : p.op = "flush?" => e.op # "flush"
  /\ \A p \in P : p.op = "pop" => \E e \in P : e.op = "each"
  /\ \A p, e \in P : p.op \in {"sink", "flush?", "trace"} /\ e.op = "return" => p.msg = e.msg
  /\ \A p \in P : p.op = "sink" /\ p.msg # None => \E e \in P : e.op \in {"return", "pop"}
  /\ \A p, e \in P : p.op = "sink" /\ e.op = "return" => \E f \in P : f.op = "flush?"

InRing(m) == \E i \in 0 .. Log!Size(trace) - 1 : Log!At(trace, i) = m

(* Types; only messages of calls are returned or in the backtrace.         *)
DataInv ==
  /\ calls \in 0 .. MaxCalls /\ levelOf \in [Log!Messages -> Log!Levels \cup {None}]
  /\ tried \in [Log!SinkSet -> [Log!Messages -> Nat]]
  /\ errors \in Nat
  /\ unflushed \in [Log!SinkSet -> SUBSET (Log!Messages \cup {None})]
  /\ returned \subseteq 1 .. calls
  /\ Log!IsRing(trace, Log!Messages \cup {None})
  /\ \A i \in 0 .. Log!Size(trace) - 1 : Log!At(trace, i) \in 1 .. calls

TodoOK == todo \in [Threads -> Seq(Steps)] /\ \A t \in Threads : Sorted(todo[t])
TodoInv == TodoOK /\ \A t \in Threads : WellFormed(Pending[t])

(* Who dumps holds the lock, and pops only what is there.                  *)
LockInv ==
  /\ trace_lock \in Threads \cup {None}
  /\ \A t \in Threads : \A p \in Pending[t] : p.op \in {"each", "pop"} => trace_lock = t
  /\ \A t \in Threads : \A p \in Pending[t] : p.op = "pop" => Log!Size(trace) > 0
  /\ \A t \in Threads : trace_lock = t => \E p \in Pending[t] : p.op = "each"

Enabled(m) == levelOf[m] >= level_

(* A message is one thread's until it returns, and in the backtrace only   *)
(* after its sinks had it; a dump gives the sinks the oldest.              *)
OwnedInv ==
  /\ \A t \in Threads : \A p \in Pending[t] : p.op \in {"trace", "return"} => p.msg \in (1 .. calls) \ returned
  /\ \A t \in Threads : \A p \in Pending[t] : p.op = "return" => Enabled(p.msg)
  /\ \A t, u \in Threads : \A p \in Pending[t], r \in Pending[u] :
       p.op \in {"trace", "return"} /\ r.op \in {"trace", "return"} /\ p.msg = r.msg => t = u
  /\ \A t \in Threads : \A p \in Pending[t] : p.op = "trace" => ~InRing(p.msg)
  /\ \A t \in Threads : \A p, e \in Pending[t] : p.op = "sink" /\ e.op = "return" => ~InRing(p.msg)
  /\ \A t \in Threads : \A p, e \in Pending[t] : p.op = "sink" /\ e.op = "pop" => p.msg = Log!At(trace, 0)

(* Every sink that takes an enabled message has been given it, or is still *)
(* to be given it by the call it belongs to.                               *)
HasTried(m, P) == \A s \in Log!SinkSet : Log!ShouldLog(s, m) => tried[s][m] > 0 \/ Log!Step("sink", s, m) \in P

ServedInv ==
  /\ \A t \in Threads : \A p \in Pending[t] :
       p.op \in {"trace", "return"} /\ Enabled(p.msg) => HasTried(p.msg, Pending[t])
  /\ \A i \in 0 .. Log!Size(trace) - 1 : Enabled(Log!At(trace, i)) => HasTried(Log!At(trace, i), {})
  /\ Log!EverySinkTried
  /\ \A m \in returned : Enabled(m)

Severe(m) == levelOf[m] >= flush_level /\ levelOf[m] # MaxLevel

(* A severe message that a sink was given once, by its call, is flushed or *)
(* its flush is to come; a later dump makes it twice.                      *)
FlushComes(m, P) ==
  \A s \in Log!SinkSet \ broken : tried[s][m] = 1 /\ m \in unflushed[s] =>
    \E f \in P : f.op = "flush?" \/ (f.op = "flush" /\ f.sink = s)

FlushedInv ==
  /\ \A t \in Threads : \A p \in Pending[t] : p.op = "return" /\ Severe(p.msg) => FlushComes(p.msg, Pending[t])
  /\ Log!SevereIsFlushed
  /\ \A s \in Log!SinkSet, m \in Log!Messages : m > calls => tried[s][m] = 0

LEMMA RankIsNat == \A p : RankOf(p) \in 1 .. 6
BY DEF RankOf

LEMMA Removed ==
  ASSUME NEW S \in Seq(Steps), S # <<>>, Sorted(S)
  PROVE  /\ Head(S) \in StepsOf(S) /\ Head(S) \in Steps
         /\ Tail(S) \in Seq(Steps) /\ Sorted(Tail(S))
         /\ StepsOf(Tail(S)) = StepsOf(S) \ {Head(S)}
         /\ \A b \in StepsOf(S) : b # Head(S) => Before(Head(S), b)
<1>1. /\ Len(S) \in Nat \ {0} /\ Head(S) = S[1] /\ Tail(S) \in Seq(Steps) /\ Len(Tail(S)) = Len(S) - 1
      /\ \A i \in 1 .. Len(S) - 1 : Tail(S)[i] = S[i + 1]
      /\ \A i \in 1 .. Len(S) : S[i] \in Steps
  OBVIOUS
<1>2. \A i \in 2 .. Len(S) : Before(S[1], S[i]) BY <1>1 DEF Sorted
<1>3. ~Before(S[1], S[1]) BY RankIsNat DEF Before
<1>4. \A i \in 2 .. Len(S) : i - 1 \in 1 .. Len(S) - 1 /\ Tail(S)[i - 1] = S[i] BY <1>1
<1>5. Sorted(Tail(S))
  <2> SUFFICES ASSUME NEW i \in 1 .. Len(S) - 1, NEW j \in 1 .. Len(S) - 1, i < j
               PROVE  Before(S[i + 1], S[j + 1])
    BY <1>1 DEF Sorted
  <2>1. i + 1 \in 1 .. Len(S) /\ j + 1 \in 1 .. Len(S) /\ i + 1 < j + 1 BY <1>1
  <2> QED BY <2>1 DEF Sorted
<1>6. \A p \in StepsOf(S) : p = S[1] \/ \E i \in 2 .. Len(S) : p = S[i] BY <1>1 DEF StepsOf
<1>7. StepsOf(Tail(S)) \subseteq StepsOf(S) \ {S[1]}
  <2> SUFFICES ASSUME NEW i \in 1 .. Len(S) - 1 PROVE S[i + 1] \in StepsOf(S) \ {S[1]} BY <1>1 DEF StepsOf
  <2>1. i + 1 \in 2 .. Len(S) /\ i + 1 \in 1 .. Len(S) BY <1>1
  <2> QED BY <1>2, <1>3, <2>1 DEF StepsOf
<1>8. StepsOf(S) \ {S[1]} \subseteq StepsOf(Tail(S))
  <2> SUFFICES ASSUME NEW i \in 2 .. Len(S) PROVE S[i] \in StepsOf(Tail(S)) BY <1>6
  <2> QED BY <1>1, <1>4 DEF StepsOf
<1>9. Head(S) \in StepsOf(S) /\ Head(S) \in Steps BY <1>1 DEF StepsOf
<1>10. \A b \in StepsOf(S) : b # S[1] => Before(S[1], b) BY <1>2, <1>6
<1>11. StepsOf(Tail(S)) = StepsOf(S) \ {S[1]} BY <1>7, <1>8
<1> QED BY <1>1, <1>5, <1>9, <1>10, <1>11

LEMMA Extended ==
  ASSUME NEW S \in Seq(Steps), NEW T \in Seq(Steps), Sorted(S), Sorted(T),
         \A a \in StepsOf(S), b \in StepsOf(T) : Before(a, b)
  PROVE  S \o T \in Seq(Steps) /\ Sorted(S \o T) /\ StepsOf(S \o T) = StepsOf(S) \cup StepsOf(T)
<1> DEFINE r == S \o T
<1>1. /\ r \in Seq(Steps) /\ Len(r) = Len(S) + Len(T) /\ Len(S) \in Nat /\ Len(T) \in Nat
      /\ \A i \in 1 .. Len(S) : r[i] = S[i]
      /\ \A i \in 1 .. Len(T) : r[Len(S) + i] = T[i]
      /\ \A i \in 1 .. Len(r) : i > Len(S) => i - Len(S) \in 1 .. Len(T) /\ r[i] = T[i - Len(S)]
  OBVIOUS
<1> HIDE DEF r
<1>2. \A i \in 1 .. Len(S) : i \in 1 .. Len(r) BY <1>1
<1>3. \A i \in 1 .. Len(T) : Len(S) + i \in 1 .. Len(r) BY <1>1
<1>4. StepsOf(r) = StepsOf(S) \cup StepsOf(T)
  <2>1. StepsOf(S) \subseteq StepsOf(r) BY <1>1, <1>2 DEF StepsOf
  <2>2. StepsOf(T) \subseteq StepsOf(r)
    <3> SUFFICES ASSUME NEW i \in 1 .. Len(T) PROVE T[i] \in StepsOf(r) BY DEF StepsOf
    <3>1. T[i] = r[Len(S) + i] /\ Len(S) + i \in 1 .. Len(r) BY <1>1, <1>3
    <3> QED BY <3>1 DEF StepsOf
  <2>3. ASSUME NEW i \in 1 .. Len(r) PROVE r[i] \in StepsOf(S) \cup StepsOf(T)
    <3>1. CASE i > Len(S) BY <1>1, <3>1 DEF StepsOf
    <3>2. CASE i <= Len(S) BY <1>1, <3>2 DEF StepsOf
    <3> QED BY <1>1, <3>1, <3>2
  <2>4. StepsOf(r) \subseteq StepsOf(S) \cup StepsOf(T) BY <2>3 DEF StepsOf
  <2> QED BY <2>1, <2>2, <2>4
<1>5. Sorted(r)
  <2> SUFFICES ASSUME NEW i \in 1 .. Len(r), NEW j \in 1 .. Len(r), i < j PROVE Before(r[i], r[j]) BY DEF Sorted
  <2>1. CASE i > Len(S)
    <3>1. i - Len(S) \in 1 .. Len(T) /\ r[i] = T[i - Len(S)] BY <1>1, <2>1
    <3>2. j - Len(S) \in 1 .. Len(T) /\ r[j] = T[j - Len(S)] BY <1>1, <2>1
    <3>3. i - Len(S) < j - Len(S) BY <1>1
    <3> QED BY <3>1, <3>2, <3>3 DEF Sorted
  <2>2. CASE i <= Len(S) /\ j > Len(S)
    <3>1. i \in 1 .. Len(S) /\ r[i] = S[i] BY <1>1, <2>2
    <3>2. j - Len(S) \in 1 .. Len(T) /\ r[j] = T[j - Len(S)] BY <1>1, <2>2
    <3>3. r[i] \in StepsOf(S) /\ r[j] \in StepsOf(T) BY <3>1, <3>2 DEF StepsOf
    <3> QED BY <3>3
  <2>3. CASE j <= Len(S)
    <3>1. i \in 1 .. Len(S) /\ j \in 1 .. Len(S) BY <1>1, <2>3
    <3> QED BY <1>1, <3>1 DEF Sorted
  <2> QED BY <1>1, <2>1, <2>2, <2>3
<1> QED BY <1>1, <1>4, <1>5 DEF r

SinkSteps(m) == {Log!Step("sink", s, m) : s \in Log!SinkSet}
FlushSteps == {Log!Step("flush", s, None) : s \in Log!SinkSet}

LEMMA StepFields ==
  \A op, s, m : Log!Step(op, s, m).op = op /\ Log!Step(op, s, m).sink = s /\ Log!Step(op, s, m).msg = m
                /\ (op \in Ops /\ s \in Log!SinkSet \cup {None} /\ m \in Log!Messages \cup {None}
                     => Log!Step(op, s, m) \in Steps)
BY DEF Log!Step, Steps

LEMMA IsStep == \A p \in Steps : p = Log!Step(p.op, p.sink, p.msg)
BY DEF Log!Step, Steps

LEMMA OneStep ==
  ASSUME NEW p \in Steps
  PROVE  <<p>> \in Seq(Steps) /\ Sorted(<<p>>) /\ StepsOf(<<p>>) = {p}
BY DEF Sorted, StepsOf

LEMMA ForSinksAre ==
  ASSUME LoggerConstants, NEW op \in {"sink", "flush"}, NEW m \in Log!Messages \cup {None}
  PROVE  /\ Log!ForSinks(op, m) \in Seq(Steps) /\ Sorted(Log!ForSinks(op, m))
         /\ StepsOf(Log!ForSinks(op, m)) = {Log!Step(op, s, m) : s \in Log!SinkSet}
<1> DEFINE S == Log!ForSinks(op, m)
<1>1. DOMAIN Sinks = 1 .. Len(Sinks) /\ Len(Sinks) \in Nat /\ \A i \in DOMAIN Sinks : Sinks[i] \in Log!SinkSet
  BY DEF LoggerConstants, Log!SinkSet
<1>2. S \in [1 .. Len(Sinks) -> Steps] /\ \A i \in 1 .. Len(Sinks) : S[i] = Log!Step(op, Sinks[i], m)
  BY <1>1, StepFields DEF Log!ForSinks, Ops
<1>3. S \in Seq(Steps) /\ Len(S) = Len(Sinks) BY <1>1, <1>2
<1> HIDE DEF S
<1>4. Sorted(S)
  <2> SUFFICES ASSUME NEW i \in 1 .. Len(S), NEW j \in 1 .. Len(S), i < j PROVE Before(S[i], S[j]) BY DEF Sorted
  <2>1. Sinks[i] # Sinks[j] BY <1>1, <1>3 DEF LoggerConstants
  <2> QED BY <1>2, <1>3, <2>1, StepFields DEF Before, RankOf
<1>5. StepsOf(S) = {Log!Step(op, s, m) : s \in Log!SinkSet} BY <1>1, <1>2, <1>3 DEF StepsOf, Log!SinkSet
<1> QED BY <1>3, <1>4, <1>5 DEF S

LEMMA SinkItIs ==
  ASSUME LoggerConstants, NEW m \in Log!Messages \cup {None}
  PROVE  /\ Log!SinkIt(m) \in Seq(Steps) /\ Sorted(Log!SinkIt(m))
         /\ StepsOf(Log!SinkIt(m)) = SinkSteps(m) \cup {Log!Step("flush?", None, m)}
<1> DEFINE f == Log!Step("flush?", None, m)
           S == Log!ForSinks("sink", m)
<1>1. f \in Steps /\ f.op = "flush?" BY StepFields DEF Ops
<1>2. S \in Seq(Steps) /\ Sorted(S) /\ StepsOf(S) = SinkSteps(m) BY ForSinksAre DEF SinkSteps
<1>3. <<f>> \in Seq(Steps) /\ Sorted(<<f>>) /\ StepsOf(<<f>>) = {f} BY <1>1, OneStep
<1>4. \A a \in SinkSteps(m) : Before(a, f) BY <1>1, StepFields DEF SinkSteps, Before, RankOf
<1>5. Log!SinkIt(m) = S \o <<f>> BY DEF Log!SinkIt
<1>6. S \o <<f>> \in Seq(Steps) /\ Sorted(S \o <<f>>) /\ StepsOf(S \o <<f>>) = StepsOf(S) \cup StepsOf(<<f>>)
  <2> HIDE DEF S, f
  <2>1. \A a \in StepsOf(S), b \in StepsOf(<<f>>) : Before(a, b) BY <1>2, <1>3, <1>4
  <2> QED BY <1>2, <1>3, <2>1, Extended
<1> QED BY <1>2, <1>3, <1>5, <1>6

(* What a thread is about to do comes before all it has left.              *)
IsNext(t, h) ==
  /\ h \in Pending[t] /\ h \in Steps /\ Head(todo[t]) = h /\ todo[t] # <<>>
  /\ Tail(todo[t]) \in Seq(Steps) /\ Sorted(Tail(todo[t])) /\ StepsOf(Tail(todo[t])) = Pending[t] \ {h}
  /\ \A b \in Pending[t] : b # h => Before(h, b)

Turns(t, P) == Pending' = [Pending EXCEPT ![t] = P] /\ todo' \in [Threads -> Seq(Steps)]
               /\ \A u \in Threads : Sorted(todo'[u])

LEMMA HasFirst ==
  ASSUME TodoOK, NEW t \in Threads, todo[t] # <<>>
  PROVE  IsNext(t, Head(todo[t]))
<1> DEFINE S == todo[t]
<1>1. S \in Seq(Steps) /\ S # <<>> /\ Sorted(S) /\ Pending[t] = StepsOf(S) BY DEF TodoOK, Pending
<1>2. /\ Head(S) \in StepsOf(S) /\ Head(S) \in Steps
      /\ Tail(S) \in Seq(Steps) /\ Sorted(Tail(S))
      /\ StepsOf(Tail(S)) = StepsOf(S) \ {Head(S)}
      /\ \A b \in StepsOf(S) : b # Head(S) => Before(Head(S), b)
  <2> HIDE DEF S
  <2> QED BY <1>1, Removed
<1> QED BY <1>1, <1>2 DEF IsNext

LEMMA Turned ==
  ASSUME TodoOK, NEW t \in Threads, NEW S \in Seq(Steps), Sorted(S), todo' = [todo EXCEPT ![t] = S]
  PROVE  Turns(t, StepsOf(S))
<1>1. todo' \in [Threads -> Seq(Steps)] /\ \A u \in Threads : todo'[u] = IF u = t THEN S ELSE todo[u]
  BY DEF TodoOK
<1>2. \A u \in Threads : Sorted(todo'[u]) BY <1>1 DEF TodoOK
<1>3. Pending' = [Pending EXCEPT ![t] = StepsOf(S)] BY <1>1 DEF Pending
<1> QED BY <1>1, <1>2, <1>3 DEF Turns

(* A step is done, or a call ends with all it had left.                    *)
LEMMA DoneTurns ==
  ASSUME TodoOK, NEW t \in Threads, todo[t] # <<>>, Log!Done(t)
  PROVE  Turns(t, Pending[t] \ {Head(todo[t])})
<1>1. IsNext(t, Head(todo[t])) BY HasFirst
<1> DEFINE S == Tail(todo[t])
<1>2. S \in Seq(Steps) /\ Sorted(S) /\ StepsOf(S) = Pending[t] \ {Head(todo[t])} BY <1>1 DEF IsNext
<1>3. todo' = [todo EXCEPT ![t] = S] BY DEF Log!Done
<1>4. Turns(t, StepsOf(S))
  <2> HIDE DEF S
  <2> QED BY <1>2, <1>3, Turned
<1> QED BY <1>2, <1>4

LEMMA ThenTurns ==
  ASSUME TodoOK, NEW t \in Threads, todo[t] # <<>>, NEW X \in Seq(Steps), Sorted(X), Log!Then(t, X),
         \A a \in StepsOf(X), b \in Pending[t] \ {Head(todo[t])} : Before(a, b)
  PROVE  Turns(t, StepsOf(X) \cup (Pending[t] \ {Head(todo[t])}))
<1>1. IsNext(t, Head(todo[t])) BY HasFirst
<1> DEFINE S == Tail(todo[t])
<1>2. S \in Seq(Steps) /\ Sorted(S) /\ StepsOf(S) = Pending[t] \ {Head(todo[t])} BY <1>1 DEF IsNext
<1>3. todo' = [todo EXCEPT ![t] = X \o S] BY DEF Log!Then
<1> HIDE DEF S
<1>4. X \o S \in Seq(Steps) /\ Sorted(X \o S) /\ StepsOf(X \o S) = StepsOf(X) \cup StepsOf(S) BY <1>2, Extended
<1> DEFINE r == X \o S
<1>5. Turns(t, StepsOf(r))
  <2>1. r \in Seq(Steps) /\ Sorted(r) /\ todo' = [todo EXCEPT ![t] = r] BY <1>3, <1>4
  <2> HIDE DEF r
  <2> QED BY <2>1, Turned
<1> QED BY <1>2, <1>4, <1>5

LEMMA NoSteps == <<>> \in Seq(Steps) /\ Sorted(<<>>) /\ StepsOf(<<>>) = {}
BY DEF Sorted, StepsOf

LEMMA ThrowTurns ==
  ASSUME TodoOK, NEW t \in Threads, todo[t] # <<>>, Log!Thrown(t)
  PROVE  \/ Turns(t, Pending[t] \ {Head(todo[t])}) /\ UNCHANGED trace_lock
         \/ Turns(t, {}) /\ Log!Unwind(t)
<1>1. CASE Log!Done(t) /\ UNCHANGED trace_lock BY <1>1, DoneTurns
<1>2. CASE todo' = [todo EXCEPT ![t] = <<>>] /\ Log!Unwind(t)
  <2>1. Turns(t, StepsOf(<<>>)) BY <1>2, NoSteps, Turned
  <2> QED BY <1>2, <2>1, NoSteps
<1> QED BY <1>1, <1>2 DEF Log!Thrown, Log!AfterThrow, Log!Done

LEMMA Keeps ==
  ASSUME TodoInv, NEW t \in Threads, NEW P, Turns(t, P), WellFormed(P)
  PROVE  TodoInv'
BY DEF TodoInv, TodoOK, Turns, Pending

LEMMA RestIsWellFormed ==
  ASSUME TodoInv, NEW t \in Threads, NEW h, IsNext(t, h)
  PROVE  WellFormed(Pending[t] \ {h})
BY DEF TodoInv, WellFormed, IsNext, Before, RankOf

LEMMA LastAlone ==
  ASSUME TodoInv, NEW t \in Threads, NEW h, IsNext(t, h), h.op \in {"return", "each", "lock"}
  PROVE  Pending[t] = {h}
BY RankIsNat DEF IsNext, Before, RankOf

(* What the steps of a call are when it begins.                            *)
LoggedSteps(m, log_enabled, traced) ==
  (IF log_enabled THEN SinkSteps(m) \cup {Log!Step("flush?", None, m), Log!Step("return", None, m)} ELSE {})
  \cup (IF traced THEN {Log!Step("trace", None, m)} ELSE {})

LEMMA StartTurns ==
  ASSUME TodoInv, NEW t \in Threads, NEW S \in Seq(Steps), Sorted(S), Log!Start(t, S)
  PROVE  Pending[t] = {} /\ Turns(t, StepsOf(S)) /\ calls < MaxCalls /\ calls' = calls + 1
<1>1. Turns(t, StepsOf(S)) BY Turned DEF Log!Start, TodoInv
<1>2. Pending[t] = {} BY NoSteps DEF Pending, Log!Start
<1> QED BY <1>1, <1>2 DEF Log!Start

LEMMA LogTurns ==
  ASSUME LoggerConstants, TodoInv, calls \in Nat, NEW t \in Threads, NEW lvl \in Log!Levels, Log!Log(t, lvl)
  PROVE  /\ Pending[t] = {} /\ calls < MaxCalls /\ calls' = calls + 1
         /\ lvl >= level_ \/ enabled
         /\ Turns(t, LoggedSteps(calls + 1, lvl >= level_, enabled))
<1> DEFINE m == calls + 1
           e == lvl >= level_
           X == IF e THEN Log!SinkIt(m) ELSE <<>>
           Y == IF enabled THEN <<Log!Step("trace", None, m)>> ELSE <<>>
           Z == IF e THEN <<Log!Step("return", None, m)>> ELSE <<>>
<1>1. m \in Log!Messages BY DEF Log!Log, Log!Start, Log!Messages, LoggerConstants
<1>2. /\ Log!Step("trace", None, m) \in Steps /\ Log!Step("return", None, m) \in Steps
      /\ Log!Step("trace", None, m).op = "trace" /\ Log!Step("return", None, m).op = "return"
      /\ Log!Step("flush?", None, m).op = "flush?" /\ \A s : Log!Step("sink", s, m).op = "sink"
  BY <1>1, StepFields DEF Ops
<1>3. X \in Seq(Steps) /\ Sorted(X)
      /\ StepsOf(X) = IF e THEN SinkSteps(m) \cup {Log!Step("flush?", None, m)} ELSE {}
  BY <1>1, SinkItIs, NoSteps
<1>4. Y \in Seq(Steps) /\ Sorted(Y) /\ StepsOf(Y) = IF enabled THEN {Log!Step("trace", None, m)} ELSE {}
  BY <1>2, OneStep, NoSteps
<1>5. Z \in Seq(Steps) /\ Sorted(Z) /\ StepsOf(Z) = IF e THEN {Log!Step("return", None, m)} ELSE {}
  BY <1>2, OneStep, NoSteps
<1>6. /\ \A a \in StepsOf(X) : RankOf(a) <= 2
      /\ \A a \in StepsOf(Y) : RankOf(a) = 4
      /\ \A a \in StepsOf(Z) : RankOf(a) = 6
  BY <1>2, <1>3, <1>4, <1>5 DEF RankOf, SinkSteps
<1>7. Log!Start(t, X \o Y \o Z) /\ (e \/ enabled) BY DEF Log!Log
<1> HIDE DEF X, Y, Z, m
<1>8. X \o Y \in Seq(Steps) /\ Sorted(X \o Y) /\ StepsOf(X \o Y) = StepsOf(X) \cup StepsOf(Y)
  <2>1. \A a \in StepsOf(X), c \in StepsOf(Y) : Before(a, c) BY <1>6, RankIsNat DEF Before
  <2> QED BY <1>3, <1>4, <2>1, Extended
<1> DEFINE W == X \o Y
           V == W \o Z
<1>9. V \in Seq(Steps) /\ Sorted(V) /\ StepsOf(V) = StepsOf(W) \cup StepsOf(Z)
  <2>1. \A a \in StepsOf(W), c \in StepsOf(Z) : Before(a, c) BY <1>6, <1>8, RankIsNat DEF Before
  <2>2. W \in Seq(Steps) /\ Sorted(W) BY <1>8
  <2> HIDE DEF W
  <2> QED BY <1>5, <2>1, <2>2, Extended
<1>10. Pending[t] = {} /\ Turns(t, StepsOf(V)) /\ calls < MaxCalls /\ calls' = calls + 1
  <2>1. Log!Start(t, V) BY <1>7
  <2> HIDE DEF V
  <2> QED BY <1>9, <2>1, StartTurns
<1>11. StepsOf(V) = LoggedSteps(m, e, enabled)
  <2>1. StepsOf(V) = StepsOf(X) \cup StepsOf(Y) \cup StepsOf(Z) BY <1>8, <1>9
  <2> HIDE DEF V
  <2> QED BY <1>3, <1>4, <1>5, <2>1 DEF LoggedSteps
<1> QED BY <1>7, <1>10, <1>11 DEF m

LEMMA FlushTurns ==
  ASSUME LoggerConstants, TodoInv, NEW t \in Threads, Log!Flush(t)
  PROVE  Pending[t] = {} /\ Turns(t, FlushSteps) /\ calls < MaxCalls /\ calls' = calls + 1
<1> DEFINE S == Log!FlushAll
<1>1. S \in Seq(Steps) /\ Sorted(S) /\ StepsOf(S) = FlushSteps BY ForSinksAre DEF Log!FlushAll, FlushSteps
<1>2. Log!Start(t, S) BY DEF Log!Flush
<1> HIDE DEF S
<1> QED BY <1>1, <1>2, StartTurns

LEMMA DumpTurns ==
  ASSUME LoggerConstants, TodoInv, NEW t \in Threads, Log!DumpBacktrace(t)
  PROVE  /\ Pending[t] = {} /\ calls < MaxCalls /\ calls' = calls + 1
         /\ Turns(t, SinkSteps(None) \cup {Log!Step("flush?", None, None), Log!Step("lock", None, None)})
<1> DEFINE X == Log!SinkIt(None)
           p == Log!Step("lock", None, None)
           S == X \o <<p>>
<1>1. X \in Seq(Steps) /\ Sorted(X) /\ StepsOf(X) = SinkSteps(None) \cup {Log!Step("flush?", None, None)} BY SinkItIs
<1>2. p \in Steps /\ p.op = "lock" /\ Log!Step("flush?", None, None).op = "flush?"
        /\ \A s : Log!Step("sink", s, None).op = "sink"
  BY StepFields DEF Ops
<1>3. <<p>> \in Seq(Steps) /\ Sorted(<<p>>) /\ StepsOf(<<p>>) = {p} BY <1>2, OneStep
<1>4. Log!Start(t, S) BY DEF Log!DumpBacktrace
<1> HIDE DEF X, p
<1>5. \A a \in StepsOf(X), b \in StepsOf(<<p>>) : Before(a, b)
  BY <1>1, <1>2, <1>3 DEF SinkSteps, Before, RankOf
<1>6. S \in Seq(Steps) /\ Sorted(S) /\ StepsOf(S) = StepsOf(X) \cup StepsOf(<<p>>) BY <1>1, <1>3, <1>5, Extended
<1> HIDE DEF S
<1>7. Pending[t] = {} /\ Turns(t, StepsOf(S)) /\ calls < MaxCalls /\ calls' = calls + 1 BY <1>4, <1>6, StartTurns
<1>8. StepsOf(S) = SinkSteps(None) \cup {Log!Step("flush?", None, None), Log!Step("lock", None, None)}
  BY <1>1, <1>3, <1>6 DEF p
<1> QED BY <1>7, <1>8

LEMMA SevereTurns ==
  ASSUME LoggerConstants, TodoInv, NEW t \in Threads, Log!FlushIfSevere(t)
  PROVE  \E h \in Steps : IsNext(t, h) /\ h.op = "flush?"
           /\ Turns(t, (IF Log!ShouldFlush(h.msg) THEN FlushSteps ELSE {}) \cup (Pending[t] \ {h}))
<1> DEFINE h == Head(todo[t])
           X == IF Log!ShouldFlush(h.msg) THEN Log!FlushAll ELSE <<>>
<1>1. IsNext(t, h) /\ todo[t] # <<>> /\ h.op = "flush?" BY HasFirst DEF Log!FlushIfSevere, Log!At_, TodoInv
<1>2. X \in Seq(Steps) /\ Sorted(X) /\ StepsOf(X) = IF Log!ShouldFlush(h.msg) THEN FlushSteps ELSE {}
  BY ForSinksAre, NoSteps DEF Log!FlushAll, FlushSteps
<1>3. \A s : Log!Step("flush", s, None).op = "flush" BY StepFields
<1>4. \A a \in StepsOf(X) : a.op = "flush" BY <1>2, <1>3 DEF FlushSteps
<1>5. \A b \in Pending[t] \ {h} : RankOf(b) > 2 BY <1>1, RankIsNat DEF IsNext, Before, RankOf
<1>6. \A b \in Pending[t] \ {h} : b.op # "flush"
  BY <1>1 DEF TodoInv, WellFormed, IsNext
<1>7. \A a \in StepsOf(X), b \in Pending[t] \ {h} : Before(a, b)
  BY <1>1, <1>4, <1>5, <1>6 DEF Before, RankOf
<1>8. Log!Then(t, X) BY DEF Log!FlushIfSevere
<1>9. Turns(t, StepsOf(X) \cup (Pending[t] \ {Head(todo[t])}))
  <2> HIDE DEF X
  <2> QED BY <1>1, <1>2, <1>7, <1>8, ThenTurns DEF TodoInv
<1>10. h \in Steps BY <1>1 DEF IsNext
<1> QED BY <1>1, <1>2, <1>9, <1>10

LEMMA LockTurns ==
  ASSUME LoggerConstants, TodoInv, NEW t \in Threads, Log!DumpBegins(t)
  PROVE  \E h \in Steps : IsNext(t, h) /\ h.op = "lock" /\ Pending[t] = {h} /\ Turns(t, {Log!Step("each", None, None)})
<1> DEFINE h == Head(todo[t])
           e == Log!Step("each", None, None)
           X == <<e>>
<1>1. IsNext(t, h) /\ todo[t] # <<>> /\ h.op = "lock" BY HasFirst DEF Log!DumpBegins, Log!At_, TodoInv
<1>2. Pending[t] = {h} BY <1>1, LastAlone
<1>3. X \in Seq(Steps) /\ Sorted(X) /\ StepsOf(X) = {e}
  <2>1. e \in Steps BY StepFields DEF Ops
  <2> HIDE DEF e
  <2> QED BY <2>1, OneStep
<1>4. Log!Then(t, X) BY DEF Log!DumpBegins
<1>5. Turns(t, StepsOf(X) \cup (Pending[t] \ {Head(todo[t])}))
  <2> HIDE DEF X
  <2> QED BY <1>1, <1>2, <1>3, <1>4, ThenTurns DEF TodoInv
<1>6. h \in Steps BY <1>1 DEF IsNext
<1>7. StepsOf(X) \cup (Pending[t] \ {h}) = {e} BY <1>2, <1>3
<1> HIDE DEF X
<1> QED BY <1>1, <1>2, <1>5, <1>6, <1>7

(* foreach_pop ends with an empty backtrace, or gives its oldest message   *)
(* to the sinks.                                                           *)
LEMMA EachTurns ==
  ASSUME LoggerConstants, TodoInv, DataInv, NEW t \in Threads, Log!DumpEach(t)
  PROVE  \E h \in Steps : IsNext(t, h) /\ h.op = "each" /\ Pending[t] = {h}
           /\ \/ /\ Log!Empty(trace) /\ trace_lock' = None
                 /\ Turns(t, SinkSteps(None) \cup {Log!Step("flush?", None, None)})
              \/ /\ ~Log!Empty(trace) /\ UNCHANGED trace_lock
                 /\ Log!Oldest(trace) = Log!At(trace, 0) /\ Log!At(trace, 0) \in 1 .. calls
                      /\ 0 \in 0 .. Log!Size(trace) - 1
                 /\ Turns(t, SinkSteps(Log!At(trace, 0)) \cup {Log!Step("flush?", None, Log!At(trace, 0)),
                                                           Log!Step("pop", None, None), Log!Step("each", None, None)})
<1> DEFINE h == Head(todo[t])
           e == Log!Step("each", None, None)
           p == Log!Step("pop", None, None)
           m == Log!At(trace, 0)
<1>1. IsNext(t, h) /\ todo[t] # <<>> /\ h.op = "each" /\ h \in Steps
  BY HasFirst DEF Log!DumpEach, Log!At_, TodoInv, IsNext
<1>2. Pending[t] = {h} BY <1>1, LastAlone
<1>3. ASSUME NEW X \in Seq(Steps), Sorted(X), Log!Then(t, X) PROVE Turns(t, StepsOf(X))
  <2>1. Turns(t, StepsOf(X) \cup (Pending[t] \ {Head(todo[t])}))
    <3>1. Pending[t] \ {Head(todo[t])} = {} BY <1>2
    <3> QED BY <1>1, <1>3, <3>1, ThenTurns DEF TodoInv
  <2>2. StepsOf(X) \cup (Pending[t] \ {Head(todo[t])}) = StepsOf(X) BY <1>2
  <2> QED BY <2>1, <2>2
<1>4. CASE Log!Empty(trace)
  <2>1. Log!SinkIt(None) \in Seq(Steps) /\ Sorted(Log!SinkIt(None))
        /\ StepsOf(Log!SinkIt(None)) = SinkSteps(None) \cup {Log!Step("flush?", None, None)}
    BY SinkItIs
  <2>2. Log!Then(t, Log!SinkIt(None)) /\ trace_lock' = None BY <1>4 DEF Log!DumpEach
  <2>3. Turns(t, StepsOf(Log!SinkIt(None))) BY <1>3, <2>1, <2>2
  <2> QED BY <1>1, <1>2, <1>4, <2>1, <2>2, <2>3
<1>5. CASE ~Log!Empty(trace)
  <2>1. Log!Oldest(trace) = m /\ Log!Size(trace) \in Nat \ {0} BY <1>5, Log!Popped DEF DataInv
  <2>2. m \in 1 .. calls /\ m \in Log!Messages /\ 0 \in 0 .. Log!Size(trace) - 1
    BY <2>1 DEF DataInv, Log!Messages, LoggerConstants
  <2> DEFINE A == Log!SinkIt(m)
             B == <<p, e>>
             X == A \o B
  <2>3. A \in Seq(Steps) /\ Sorted(A) /\ StepsOf(A) = SinkSteps(m) \cup {Log!Step("flush?", None, m)}
    <3> HIDE DEF m
    <3> QED BY <2>2, SinkItIs
  <2>4. p \in Steps /\ e \in Steps /\ p.op = "pop" /\ e.op = "each" BY StepFields DEF Ops
  <2>5. B \in Seq(Steps) /\ Sorted(B) /\ StepsOf(B) = {p, e}
    <3> HIDE DEF p, e
    <3>1. B \in Seq(Steps) /\ Len(B) = 2 /\ B[1] = p /\ B[2] = e BY <2>4
    <3>2. Before(p, e) BY <2>4 DEF Before, RankOf
    <3> HIDE DEF B
    <3>3. Sorted(B) BY <3>1, <3>2 DEF Sorted
    <3>4. 1 .. Len(B) = {1, 2} BY <3>1
    <3>5. StepsOf(B) = {p, e} BY <3>1, <3>4 DEF StepsOf
    <3> QED BY <3>1, <3>3, <3>5
  <2>6. \A a \in StepsOf(A) : RankOf(a) <= 2
    <3>1. Log!Step("flush?", None, m).op = "flush?" /\ \A s : Log!Step("sink", s, m).op = "sink" BY StepFields
    <3> QED BY <2>3, <3>1 DEF SinkSteps, RankOf
  <2>7. \A a \in StepsOf(A), b \in StepsOf(B) : Before(a, b)
    <3>1. \A b \in StepsOf(B) : RankOf(b) > 2 BY <2>4, <2>5 DEF RankOf
    <3> QED BY <2>6, <3>1, RankIsNat DEF Before
  <2>8. Log!Then(t, X) /\ UNCHANGED trace_lock BY <1>5, <2>1 DEF Log!DumpEach
  <2> HIDE DEF A, B
  <2>9. X \in Seq(Steps) /\ Sorted(X) /\ StepsOf(X) = StepsOf(A) \cup StepsOf(B) BY <2>3, <2>5, <2>7, Extended
  <2> HIDE DEF X
  <2>10. Turns(t, StepsOf(X)) BY <1>3, <2>8, <2>9
  <2>11. StepsOf(X) = SinkSteps(m) \cup {Log!Step("flush?", None, m), p, e} BY <2>3, <2>5, <2>9
  <2> QED BY <1>1, <1>2, <1>5, <2>1, <2>2, <2>8, <2>10, <2>11
<1> QED BY <1>4, <1>5

(* A sink is given a message, and throws or not.                           *)
LEMMA SinkTurns ==
  ASSUME TodoInv, NEW t \in Threads, Log!SinkLog(t)
  PROVE  \E h \in Steps :
           /\ IsNext(t, h) /\ h.op = "sink" /\ h.sink \in Log!SinkSet /\ h = Log!Step("sink", h.sink, h.msg)
           /\ tried' = IF Log!ShouldLog(h.sink, h.msg) /\ h.msg # None THEN [tried EXCEPT ![h.sink][h.msg] = @ + 1]
                ELSE tried
           /\ \/ /\ Turns(t, Pending[t] \ {h}) /\ UNCHANGED <<errors, trace_lock>>
                 /\ unflushed' = IF Log!ShouldLog(h.sink, h.msg) THEN [unflushed EXCEPT ![h.sink] = @ \cup {h.msg}]
                      ELSE unflushed
              \/ /\ errors' = errors + 1 /\ UNCHANGED unflushed
                 /\ \/ Turns(t, Pending[t] \ {h}) /\ UNCHANGED trace_lock
                    \/ Turns(t, {}) /\ Log!Unwind(t)
<1> DEFINE h == Head(todo[t])
<1>1. todo[t] # <<>> /\ h.op = "sink" BY DEF Log!SinkLog, Log!At_
<1>2. IsNext(t, h) BY <1>1, HasFirst DEF TodoInv
<1>3. h \in Steps /\ h.sink \in Log!SinkSet /\ h = Log!Step("sink", h.sink, h.msg)
  BY <1>1, <1>2, IsStep DEF IsNext, TodoInv, WellFormed
<1>4. tried' = IF Log!ShouldLog(h.sink, h.msg) /\ h.msg # None THEN [tried EXCEPT ![h.sink][h.msg] = @ + 1] ELSE tried
  BY DEF Log!SinkLog
<1>5. CASE Log!Done(t) /\ UNCHANGED <<errors, trace_lock>>
           /\ unflushed' = IF Log!ShouldLog(h.sink, h.msg) THEN [unflushed EXCEPT ![h.sink] = @ \cup {h.msg}]
                ELSE unflushed
  <2>1. Turns(t, Pending[t] \ {h}) BY <1>1, <1>5, DoneTurns DEF TodoInv
  <2> HIDE DEF h
  <2> QED BY <1>1, <1>2, <1>3, <1>4, <1>5, <2>1
<1>6. CASE Log!Thrown(t) /\ UNCHANGED unflushed
  <2>1. \/ Turns(t, Pending[t] \ {h}) /\ UNCHANGED trace_lock
        \/ Turns(t, {}) /\ Log!Unwind(t)
    BY <1>1, <1>6, ThrowTurns DEF TodoInv
  <2>2. errors' = errors + 1 BY <1>6 DEF Log!Thrown
  <2> HIDE DEF h
  <2> QED BY <1>1, <1>2, <1>3, <1>4, <1>6, <2>1, <2>2
<1> QED BY <1>5, <1>6 DEF Log!SinkLog

LEMMA SinkFlushTurns ==
  ASSUME TodoInv, NEW t \in Threads, Log!SinkFlush(t)
  PROVE  \E h \in Steps :
           /\ IsNext(t, h) /\ h.op = "flush" /\ h.sink \in Log!SinkSet
           /\ \/ /\ Turns(t, Pending[t] \ {h}) /\ UNCHANGED <<errors, broken, trace_lock>>
                 /\ unflushed' = [unflushed EXCEPT ![h.sink] = {}]
              \/ /\ errors' = errors + 1 /\ broken' = broken \cup {h.sink} /\ UNCHANGED unflushed
                 /\ \/ Turns(t, Pending[t] \ {h}) /\ UNCHANGED trace_lock
                    \/ Turns(t, {}) /\ Log!Unwind(t)
<1> DEFINE h == Head(todo[t])
<1>1. todo[t] # <<>> /\ h.op = "flush" BY DEF Log!SinkFlush, Log!At_
<1>2. IsNext(t, h) BY <1>1, HasFirst DEF TodoInv
<1>3. h \in Steps /\ h.sink \in Log!SinkSet BY <1>1, <1>2 DEF IsNext, TodoInv, WellFormed
<1>4. CASE Log!Done(t) /\ UNCHANGED <<errors, broken, trace_lock>> /\ unflushed' = [unflushed EXCEPT ![h.sink] = {}]
  <2>1. Turns(t, Pending[t] \ {h}) BY <1>1, <1>4, DoneTurns DEF TodoInv
  <2> HIDE DEF h
  <2> QED BY <1>1, <1>2, <1>3, <1>4, <2>1
<1>5. CASE Log!Thrown(t) /\ broken' = broken \cup {h.sink} /\ UNCHANGED unflushed
  <2>1. \/ Turns(t, Pending[t] \ {h}) /\ UNCHANGED trace_lock
        \/ Turns(t, {}) /\ Log!Unwind(t)
    BY <1>1, <1>5, ThrowTurns DEF TodoInv
  <2>2. errors' = errors + 1 BY <1>5 DEF Log!Thrown
  <2> HIDE DEF h
  <2> QED BY <1>1, <1>2, <1>3, <1>5, <2>1, <2>2
<1> QED BY <1>4, <1>5 DEF Log!SinkFlush

(* What is recorded, given back or removed takes one step.                 *)
LEMMA OneTurns ==
  ASSUME TodoInv, NEW t \in Threads, NEW op, Log!At_(t, op), Log!Done(t)
  PROVE  \E h \in Steps : IsNext(t, h) /\ h.op = op /\ h = Head(todo[t]) /\ Turns(t, Pending[t] \ {h})
<1> DEFINE h == Head(todo[t])
<1>1. todo[t] # <<>> /\ h.op = op BY DEF Log!At_
<1>2. IsNext(t, h) BY <1>1, HasFirst DEF TodoInv
<1>3. h \in Steps BY <1>2 DEF IsNext
<1>4. Turns(t, Pending[t] \ {h}) BY <1>1, DoneTurns DEF TodoInv
<1> QED BY <1>1, <1>2, <1>3, <1>4

LEMMA WellFormedSets ==
  ASSUME LoggerConstants
  PROVE  /\ WellFormed({}) /\ WellFormed(FlushSteps)
         /\ \A m \in Log!Messages, e, b \in BOOLEAN : WellFormed(LoggedSteps(m, e, b))
         /\ WellFormed(SinkSteps(None) \cup {Log!Step("flush?", None, None), Log!Step("lock", None, None)})
         /\ WellFormed(SinkSteps(None) \cup {Log!Step("flush?", None, None)})
         /\ WellFormed({Log!Step("each", None, None)})
         /\ \A m \in Log!Messages : WellFormed(SinkSteps(m)
              \cup {Log!Step("flush?", None, m), Log!Step("pop", None, None), Log!Step("each", None, None)})
<1>1. WellFormed({}) BY DEF WellFormed
<1>2. WellFormed(FlushSteps) BY StepFields DEF WellFormed, FlushSteps, Ops
<1>3. ASSUME NEW m \in Log!Messages, NEW e \in BOOLEAN, NEW b \in BOOLEAN PROVE WellFormed(LoggedSteps(m, e, b))
  BY StepFields DEF WellFormed, LoggedSteps, SinkSteps, Ops
<1>4. WellFormed(SinkSteps(None) \cup {Log!Step("flush?", None, None), Log!Step("lock", None, None)})
  BY StepFields DEF WellFormed, SinkSteps, Ops
<1>5. WellFormed(SinkSteps(None) \cup {Log!Step("flush?", None, None)})
  BY StepFields DEF WellFormed, SinkSteps, Ops
<1>6. WellFormed({Log!Step("each", None, None)})
  BY StepFields DEF WellFormed, Ops
<1>7. ASSUME NEW m \in Log!Messages
      PROVE WellFormed(SinkSteps(m) \cup {Log!Step("flush?", None, m), Log!Step("pop", None, None),
              Log!Step("each", None, None)})
  BY StepFields DEF WellFormed, SinkSteps, Ops
<1> QED BY <1>1, <1>2, <1>3, <1>4, <1>5, <1>6, <1>7

(* Each call of Next that leaves the well-formed steps is one of these.    *)
LEMMA NextTodo ==
  ASSUME LoggerConstants, TodoInv, DataInv, [Log!Next]_(Log!vars)
  PROVE  TodoInv'
<1> USE DEF LoggerConstants
<1>1. ASSUME NEW t \in Threads, NEW lvl \in Log!Levels, Log!Log(t, lvl) PROVE TodoInv'
  <2>1. calls + 1 \in Log!Messages BY <1>1, LogTurns DEF DataInv, Log!Messages
  <2>2. Turns(t, LoggedSteps(calls + 1, lvl >= level_, enabled)) BY <1>1, LogTurns DEF DataInv
  <2>3. WellFormed(LoggedSteps(calls + 1, lvl >= level_, enabled))
    BY <2>1, StepFields DEF WellFormed, LoggedSteps, SinkSteps, Ops
  <2> QED BY <2>2, <2>3, Keeps
<1>2. ASSUME NEW t \in Threads, Log!Flush(t) PROVE TodoInv'
  BY <1>2, FlushTurns, WellFormedSets, Keeps
<1>3. ASSUME NEW t \in Threads, Log!DumpBacktrace(t) PROVE TodoInv'
  BY <1>3, DumpTurns, WellFormedSets, Keeps
<1>4. ASSUME NEW t \in Threads, NEW h, IsNext(t, h), Turns(t, Pending[t] \ {h}) \/ Turns(t, {}) PROVE TodoInv'
  BY <1>4, RestIsWellFormed, WellFormedSets, Keeps
<1>5. ASSUME NEW t \in Threads, Log!SinkLog(t) \/ Log!SinkFlush(t) PROVE TodoInv'
  BY <1>4, <1>5, SinkTurns, SinkFlushTurns
<1>6. ASSUME NEW t \in Threads, Log!FlushIfSevere(t) PROVE TodoInv'
  <2>1. PICK h \in Steps : /\ IsNext(t, h) /\ h.op = "flush?"
           /\ Turns(t, (IF Log!ShouldFlush(h.msg) THEN FlushSteps ELSE {}) \cup (Pending[t] \ {h}))
    BY <1>6, SevereTurns
  <2>2. WellFormed(Pending[t] \ {h}) BY <2>1, RestIsWellFormed
  <2>3. \A b \in Pending[t] \ {h} : b.op \notin {"flush?", "sink"}
    BY <2>1, RankIsNat DEF IsNext, Before, RankOf
  <2>4. \A f \in FlushSteps : f \in Steps /\ f.op = "flush" /\ f.sink \in Log!SinkSet BY StepFields DEF FlushSteps, Ops
  <2>5. WellFormed((IF Log!ShouldFlush(h.msg) THEN FlushSteps ELSE {}) \cup (Pending[t] \ {h}))
    BY <2>2, <2>3, <2>4 DEF WellFormed
  <2> QED BY <2>1, <2>5, Keeps
<1>7. ASSUME NEW t \in Threads, Log!Trace(t) \/ Log!Return(t) \/ Log!DumpPops(t) PROVE TodoInv'
  BY <1>4, <1>7, OneTurns DEF Log!Trace, Log!Return, Log!DumpPops
<1>8. ASSUME NEW t \in Threads, Log!DumpBegins(t) PROVE TodoInv'
  BY <1>8, LockTurns, WellFormedSets, Keeps
<1>9. ASSUME NEW t \in Threads, Log!DumpEach(t) PROVE TodoInv'
  <2>1. \A m \in 1 .. calls : m \in Log!Messages BY DEF DataInv, Log!Messages
  <2> QED BY <1>9, <2>1, EachTurns, WellFormedSets, Keeps
<1>10. CASE UNCHANGED todo
  BY <1>10 DEF TodoInv, TodoOK, Pending
<1> QED BY <1>1, <1>2, <1>3, <1>5, <1>6, <1>7, <1>8, <1>9, <1>10
        DEF Log!Next, Log!Proceed, Log!EnableBacktrace, Log!DisableBacktrace, Log!vars

LEMMA TurnsPending ==
  ASSUME NEW t \in Threads, NEW P, Turns(t, P)
  PROVE  \A u \in Threads : Pending'[u] = IF u = t THEN P ELSE Pending[u]
BY DEF Turns, Pending

(* The lock of the backtrace is held from foreach_pop's begin to its end.  *)
LEMMA NextLock ==
  ASSUME LoggerConstants, TodoInv, DataInv, LockInv, [Log!Next]_(Log!vars)
  PROVE  LockInv'
<1> USE DEF LoggerConstants
<1>1. ASSUME NEW t \in Threads, NEW P, Turns(t, P), UNCHANGED <<trace, trace_lock>>,
             \A p : p.op \in {"each", "pop"} => (p \in P <=> p \in Pending[t])
      PROVE  LockInv'
  <2>1. \A u \in Threads : \A p : p.op \in {"each", "pop"} => (p \in Pending'[u] <=> p \in Pending[u])
    BY <1>1, TurnsPending
  <2> QED BY <1>1, <2>1 DEF LockInv
<1>2. ASSUME NEW t \in Threads, NEW h, IsNext(t, h), h.op \notin {"each", "pop"}, Turns(t, Pending[t] \ {h}),
               UNCHANGED <<trace, trace_lock>>
      PROVE  LockInv'
  BY <1>1, <1>2
<1>3. ASSUME NEW t \in Threads, Turns(t, {}), Log!Unwind(t), UNCHANGED trace PROVE LockInv'
  BY <1>3, TurnsPending DEF LockInv, Log!Unwind
<1>4. ASSUME NEW t \in Threads, NEW lvl \in Log!Levels, Log!Log(t, lvl) PROVE LockInv'
  <2>1. /\ Pending[t] = {} /\ Turns(t, LoggedSteps(calls + 1, lvl >= level_, enabled)) BY <1>4, LogTurns DEF DataInv
  <2>2. \A p \in LoggedSteps(calls + 1, lvl >= level_, enabled) : p.op \notin {"each", "pop"}
    BY StepFields DEF LoggedSteps, SinkSteps
  <2> QED BY <1>1, <1>4, <2>1, <2>2 DEF Log!Log
<1>5. ASSUME NEW t \in Threads, Log!Flush(t) PROVE LockInv'
  <2>1. \A p \in FlushSteps : p.op = "flush" BY StepFields DEF FlushSteps
  <2> QED BY <1>1, <1>5, <2>1, FlushTurns DEF Log!Flush
<1>6. ASSUME NEW t \in Threads, Log!DumpBacktrace(t) PROVE LockInv'
  <2> DEFINE P == SinkSteps(None) \cup {Log!Step("flush?", None, None), Log!Step("lock", None, None)}
  <2>1. \A p \in P : p.op \notin {"each", "pop"} BY StepFields DEF SinkSteps
  <2>2. Turns(t, P) /\ Pending[t] = {} BY <1>6, DumpTurns
  <2> HIDE DEF P
  <2> QED BY <1>1, <1>6, <2>1, <2>2 DEF Log!DumpBacktrace
<1>7. ASSUME NEW t \in Threads, Log!SinkLog(t) \/ Log!SinkFlush(t) PROVE LockInv'
  <2>1. UNCHANGED trace BY <1>7 DEF Log!SinkLog, Log!SinkFlush
  <2>2. CASE Log!SinkLog(t) BY <1>2, <1>3, <2>1, <2>2, SinkTurns
  <2>3. CASE Log!SinkFlush(t) BY <1>2, <1>3, <2>1, <2>3, SinkFlushTurns
  <2> QED BY <1>7, <2>2, <2>3
<1>8. ASSUME NEW t \in Threads, Log!FlushIfSevere(t) PROVE LockInv'
  <2>1. \A p \in FlushSteps : p.op = "flush" BY StepFields DEF FlushSteps
  <2>2. PICK h \in Steps : /\ IsNext(t, h) /\ h.op = "flush?"
           /\ Turns(t, (IF Log!ShouldFlush(h.msg) THEN FlushSteps ELSE {}) \cup (Pending[t] \ {h}))
    BY <1>8, SevereTurns
  <2> DEFINE P == (IF Log!ShouldFlush(h.msg) THEN FlushSteps ELSE {}) \cup (Pending[t] \ {h})
  <2>3. \A p : p.op \in {"each", "pop"} => (p \in P <=> p \in Pending[t]) BY <2>1, <2>2
  <2>4. UNCHANGED <<trace, trace_lock>> BY <1>8 DEF Log!FlushIfSevere
  <2> HIDE DEF P
  <2> QED BY <1>1, <2>2, <2>3, <2>4 DEF P
<1>9. ASSUME NEW t \in Threads, Log!Trace(t) \/ Log!Return(t) PROVE LockInv'
  <2>1. PICK h \in Steps : IsNext(t, h) /\ h.op \in {"trace", "return"} /\ Turns(t, Pending[t] \ {h})
    BY <1>9, OneTurns DEF Log!Trace, Log!Return
  <2>2. CASE UNCHANGED <<trace, trace_lock>> BY <1>2, <2>1, <2>2
  <2>3. CASE trace_lock = None /\ UNCHANGED trace_lock
    BY <2>1, <2>3, TurnsPending DEF LockInv
  <2> QED BY <1>9, <2>2, <2>3 DEF Log!Trace, Log!Return
<1>10. ASSUME NEW t \in Threads, Log!DumpBegins(t) PROVE LockInv'
  <2>1. Turns(t, {Log!Step("each", None, None)}) /\ trace_lock = None /\ trace_lock' = t /\ UNCHANGED trace
    BY <1>10, LockTurns DEF Log!DumpBegins, Log!DumpLocks
  <2>2. Log!Step("each", None, None).op = "each" BY StepFields
  <2> QED BY <2>1, <2>2, TurnsPending DEF LockInv
<1>11. ASSUME NEW t \in Threads, Log!DumpEach(t) PROVE LockInv'
  <2>1. PICK h \in Steps : IsNext(t, h) /\ h.op = "each" /\ Pending[t] = {h}
    BY <1>11, EachTurns
  <2>2. trace_lock = t /\ UNCHANGED trace BY <1>11, <2>1 DEF LockInv, Log!DumpEach
  <2>3. CASE Log!Empty(trace)
    <3> DEFINE P == SinkSteps(None) \cup {Log!Step("flush?", None, None)}
    <3>1. Turns(t, P) /\ trace_lock' = None BY <1>11, <2>3, EachTurns
    <3>2. \A p \in P : p.op \notin {"each", "pop"} BY StepFields DEF SinkSteps
    <3> HIDE DEF P
    <3> QED BY <2>2, <3>1, <3>2, TurnsPending DEF LockInv
  <2>4. CASE ~Log!Empty(trace)
    <3> DEFINE m == Log!At(trace, 0)
               P == SinkSteps(m) \cup {Log!Step("flush?", None, m), Log!Step("pop", None, None),
                    Log!Step("each", None, None)}
    <3>1. Turns(t, P) /\ UNCHANGED trace_lock BY <1>11, <2>4, EachTurns
    <3>2. Log!Step("each", None, None) \in P /\ Log!Step("each", None, None).op = "each" BY StepFields
    <3>3. Log!Size(trace) > 0
      <4> HIDE DEF P, m
      <4>1. Log!Size(trace) \in Nat \ {0} BY <2>4, Log!Popped DEF DataInv
      <4> QED BY <4>1
    <3> HIDE DEF P
    <3> QED BY <2>2, <3>1, <3>2, <3>3, TurnsPending DEF LockInv
  <2> QED BY <2>3, <2>4
<1>12. ASSUME NEW t \in Threads, Log!DumpPops(t) PROVE LockInv'
  <2>1. PICK h \in Steps : IsNext(t, h) /\ h.op = "pop" /\ Turns(t, Pending[t] \ {h})
    BY <1>12, OneTurns DEF Log!DumpPops
  <2>2. \A p \in Pending[t] \ {h} : p.op # "pop" BY <2>1 DEF IsNext, Before, RankOf
  <2>3. trace_lock = t /\ UNCHANGED trace_lock BY <1>12, <2>1 DEF LockInv, IsNext, Log!DumpPops
  <2> QED BY <2>1, <2>2, <2>3, TurnsPending DEF LockInv
<1>13. CASE Log!EnableBacktrace
  BY <1>13 DEF Log!EnableBacktrace, LockInv, Pending
<1>14. CASE UNCHANGED <<todo, trace, trace_lock>>
  BY <1>14 DEF LockInv, Pending
<1> QED BY <1>4, <1>5, <1>6, <1>7, <1>8, <1>9, <1>10, <1>11, <1>12, <1>13, <1>14
        DEF Log!Next, Log!Proceed, Log!DisableBacktrace, Log!vars

(* What the backtrace holds after push_back.                               *)
LEMMA TracePushed ==
  ASSUME LoggerConstants, DataInv, NEW m \in Log!Messages, trace' = Log!PushBack(trace, m)
  PROVE  /\ Log!IsRing(trace, Log!Messages \cup {None})'
         /\ \/ UNCHANGED trace
            \/ /\ Log!Size(trace') = Log!Size(trace) + 1
               /\ \A i \in 0 .. Log!Size(trace) : Log!At(trace', i) = IF i = Log!Size(trace) THEN m
                    ELSE Log!At(trace, i)
            \/ /\ Log!Size(trace') = Log!Size(trace)
               /\ \A i \in 0 .. Log!Size(trace) - 1 : Log!At(trace', i) = IF i = Log!Size(trace) - 1 THEN m
                    ELSE Log!At(trace, i + 1)
<1>1. CASE trace.max = 0 BY <1>1 DEF Log!PushBack, DataInv
<1>2. CASE trace.max # 0
  <2> DEFINE r == Log!PushBack(trace, m)
             S == Log!Messages \cup {None}
  <2>1. Log!IsRing(trace, S) /\ m \in S /\ trace.max > 0 BY <1>2 DEF DataInv, Log!IsRing
  <2>2. /\ Log!IsRing(r, S)
        /\ ~Log!Full(trace) => /\ Log!Size(r) = Log!Size(trace) + 1
                           /\ \A i \in 0 .. Log!Size(trace) : Log!At(r, i) = IF i = Log!Size(trace) THEN m
                                ELSE Log!At(trace, i)
        /\ Log!Full(trace) => /\ Log!Size(r) = Log!Size(trace)
                          /\ \A i \in 0 .. Log!Size(trace) - 1 :
                               Log!At(r, i) = IF i = Log!Size(trace) - 1 THEN m ELSE Log!At(trace, i + 1)
    <3> HIDE DEF S
    <3> QED BY <2>1, Log!Pushed
  <2>3. trace' = r OBVIOUS
  <2> HIDE DEF r
  <2> QED BY <2>2, <2>3
<1> QED BY <1>1, <1>2

LEMMA SizeIsNat ==
  ASSUME DataInv
  PROVE  Log!Size(trace) \in Nat /\ (Log!Empty(trace) <=> Log!Size(trace) = 0)
BY Log!RingSize DEF DataInv

LEMMA TraceHas ==
  ASSUME LoggerConstants, DataInv, NEW m \in Log!Messages, trace' = Log!PushBack(trace, m)
  PROVE  \A i \in 0 .. Log!Size(trace') - 1 :
           Log!At(trace', i) = m \/ \E j \in 0 .. Log!Size(trace) - 1 : Log!At(trace', i) = Log!At(trace, j)
<1>1. Log!Size(trace) \in Nat BY SizeIsNat
<1> SUFFICES ASSUME NEW i \in 0 .. Log!Size(trace') - 1, Log!At(trace', i) # m
             PROVE  \E j \in 0 .. Log!Size(trace) - 1 : Log!At(trace', i) = Log!At(trace, j)
  OBVIOUS
<1>2. CASE UNCHANGED trace BY <1>2
<1>3. CASE /\ Log!Size(trace') = Log!Size(trace) + 1
           /\ \A j \in 0 .. Log!Size(trace) : Log!At(trace', j) = IF j = Log!Size(trace) THEN m ELSE Log!At(trace, j)
  <2>1. i \in 0 .. Log!Size(trace) BY <1>1, <1>3
  <2>2. i \in 0 .. Log!Size(trace) - 1 /\ Log!At(trace', i) = Log!At(trace, i) BY <1>1, <1>3, <2>1
  <2> QED BY <2>2
<1>4. CASE /\ Log!Size(trace') = Log!Size(trace)
           /\ \A j \in 0 .. Log!Size(trace) - 1 : Log!At(trace', j) = IF j = Log!Size(trace) - 1 THEN m
                ELSE Log!At(trace, j + 1)
  <2>1. i \in 0 .. Log!Size(trace) - 1 BY <1>4
  <2>2. i + 1 \in 0 .. Log!Size(trace) - 1 /\ Log!At(trace', i) = Log!At(trace, i + 1) BY <1>1, <1>4, <2>1
  <2> QED BY <2>2
<1> QED BY <1>2, <1>3, <1>4, TracePushed

(* What it holds after pop_front.                                          *)
LEMMA TracePopped ==
  ASSUME DataInv, ~Log!Empty(trace), trace' = Log!PopFront(trace)
  PROVE  /\ Log!IsRing(trace, Log!Messages \cup {None})' /\ Log!Size(trace') = Log!Size(trace) - 1
              /\ Log!Size(trace) \in Nat \ {0}
         /\ \A i \in 0 .. Log!Size(trace') - 1 : i + 1 \in 0 .. Log!Size(trace) - 1
              /\ Log!At(trace', i) = Log!At(trace, i + 1)
<1> DEFINE r == Log!PopFront(trace)
           S == Log!Messages \cup {None}
<1>1. Log!IsRing(trace, S) BY DEF DataInv
<1>2. /\ Log!IsRing(r, S) /\ Log!Size(r) = Log!Size(trace) - 1 /\ Log!Size(trace) \in Nat \ {0}
      /\ \A i \in 0 .. Log!Size(trace) - 2 : Log!At(r, i) = Log!At(trace, i + 1)
  <2> HIDE DEF S
  <2> QED BY <1>1, Log!Popped
<1>3. trace' = r OBVIOUS
<1> HIDE DEF r
<1>4. ASSUME NEW i \in 0 .. Log!Size(r) - 1 PROVE i + 1 \in 0 .. Log!Size(trace) - 1 /\ i \in 0 .. Log!Size(trace) - 2
  BY <1>2
<1> QED BY <1>2, <1>3, <1>4

(* And after enable_backtrace.                                             *)
LEMMA TraceNew ==
  ASSUME LoggerConstants, trace' = Log!New(TraceSize, None)
  PROVE  Log!IsRing(trace, Log!Messages \cup {None})' /\ Log!Size(trace') = 0
<1>1. TraceSize \in Nat BY DEF LoggerConstants
<1>2. Log!IsRing(Log!New(TraceSize, None), Log!Messages \cup {None}) BY <1>1 DEF Log!New, Log!IsRing
<1>3. Log!Size(Log!New(TraceSize, None)) = 0 BY <1>1 DEF Log!New, Log!Size
<1> QED BY <1>2, <1>3

(* Only a thread's next step and the start of its call change what it has  *)
(* left; whose messages are whose stays as it was.                         *)
Known == UNCHANGED level_ /\ calls' \in {calls, calls + 1} /\ \A m \in 1 .. calls : levelOf'[m] = levelOf[m]

Quiet(t, P) ==
  /\ Turns(t, P) /\ Known
  /\ \A p \in P : p.op \in {"trace", "return", "pop"} => p \in Pending[t]
  /\ \A p, e \in P : p.op = "sink" /\ e.op \in {"return", "pop"} => p \in Pending[t]

LEMMA OwnedQuietly ==
  ASSUME DataInv, OwnedInv, NEW t \in Threads, NEW P, Quiet(t, P), UNCHANGED <<trace, returned>>
  PROVE  OwnedInv'
<1>1. \A u \in Threads : \A p \in Pending'[u] : p.op \in {"trace", "return", "pop"} => p \in Pending[u]
  BY TurnsPending DEF Quiet
<1>2. \A u \in Threads : \A p, e \in Pending'[u] : p.op = "sink" /\ e.op \in {"return", "pop"} => p \in Pending[u]
  BY TurnsPending DEF Quiet
<1>3. \A m \in 1 .. calls : m \in 1 .. calls' /\ (Enabled(m) => Enabled(m)') BY DEF Quiet, Known, DataInv, Enabled
<1>4. \A m : InRing(m)' <=> InRing(m) BY DEF InRing
<1>5. UNCHANGED <<returned, Log!At(trace, 0)>> OBVIOUS
<1> QED BY <1>1, <1>2, <1>3, <1>4, <1>5 DEF OwnedInv

(* What is left when a step is done was there before it.                   *)
LEMMA RestIsQuiet ==
  ASSUME NEW t \in Threads, NEW h, Turns(t, Pending[t] \ {h}) \/ Turns(t, {}), Known
  PROVE  \E P \in SUBSET Pending[t] : Quiet(t, P)
BY DEF Quiet

LEMMA NextOwned ==
  ASSUME LoggerConstants, TodoInv, DataInv, LockInv, OwnedInv, [Log!Next]_(Log!vars)
  PROVE  OwnedInv'
<1> USE DEF LoggerConstants
<1>1. ASSUME NEW t \in Threads, NEW lvl \in Log!Levels, Log!Log(t, lvl) PROVE OwnedInv'
  <2> PICK m \in Log!Messages : m = calls + 1 BY <1>1, LogTurns DEF DataInv, Log!Messages
  <2> DEFINE P == LoggedSteps(m, lvl >= level_, enabled)
  <2>1. UNCHANGED <<trace, returned, level_>> BY <1>1 DEF Log!Log
  <2>2. Pending[t] = {} /\ Turns(t, P) /\ calls' = m /\ UNCHANGED <<trace, returned, level_>>
    BY <1>1, <2>1, LogTurns DEF DataInv
  <2>3. levelOf' = [levelOf EXCEPT ![m] = lvl] BY <1>1 DEF Log!Log
  <2>4. \A n \in 1 .. calls : n \in 1 .. calls' /\ n # m /\ levelOf'[n] = levelOf[n] BY <2>2, <2>3 DEF DataInv
  <2>5. levelOf'[m] = lvl BY <2>2, <2>3 DEF DataInv
  <2>6. /\ \A p \in P : p.op # "pop" /\ (p.op \in {"sink", "trace", "return"} => p.msg = m)
        /\ \A p \in P : p.op = "return" => lvl >= level_
    BY StepFields DEF LoggedSteps, SinkSteps
  <2>7. m \notin 1 .. calls /\ m \in 1 .. calls' BY <2>2 DEF DataInv
  <2>8. m \notin returned /\ ~InRing(m) BY <2>7 DEF DataInv, InRing
  <2>9. Enabled(m)' <=> lvl >= level_ BY <2>2, <2>5 DEF Enabled
  <2>10. \A n \in 1 .. calls : Enabled(n)' <=> Enabled(n) BY <2>2, <2>4 DEF Enabled
  <2>11. \A n : InRing(n)' <=> InRing(n) BY <2>2 DEF InRing
  <2>12. \A u \in Threads : Pending'[u] = IF u = t THEN P ELSE Pending[u] BY <2>2, TurnsPending
  <2>13. UNCHANGED <<returned, Log!At(trace, 0)>> BY <2>2
  <2> HIDE DEF P
  <2>14. \A u \in Threads : \A p \in Pending'[u] : p.op \in {"trace", "return"} =>
           IF u = t THEN p.msg = m ELSE p \in Pending[u] /\ p.msg \in 1 .. calls /\ p.msg # m
    BY <2>6, <2>7, <2>12 DEF OwnedInv
  <2>15. \A u \in Threads : \A p \in Pending'[u] : p.op \in {"trace", "return"} => p.msg \in (1 .. calls)' \ returned'
    BY <2>4, <2>7, <2>8, <2>12, <2>13, <2>14 DEF OwnedInv
  <2>16. \A u \in Threads : \A p \in Pending'[u] : p.op = "return" => Enabled(p.msg)'
    BY <2>6, <2>9, <2>10, <2>12, <2>14 DEF OwnedInv
  <2>17. \A u, v \in Threads : \A p \in Pending'[u], r \in Pending'[v] :
       p.op \in {"trace", "return"} /\ r.op \in {"trace", "return"} /\ p.msg = r.msg => u = v
    BY <2>12, <2>14 DEF OwnedInv
  <2>18. \A u \in Threads : \A p \in Pending'[u] : p.op = "trace" => ~InRing(p.msg)'
    BY <2>8, <2>11, <2>12, <2>14 DEF OwnedInv
  <2>19. \A u \in Threads : \A p, e \in Pending'[u] : p.op = "sink" /\ e.op = "return" => ~InRing(p.msg)'
    BY <2>6, <2>8, <2>11, <2>12 DEF OwnedInv
  <2>20. \A u \in Threads : \A p, e \in Pending'[u] : p.op = "sink" /\ e.op = "pop" => p.msg = Log!At(trace, 0)'
    BY <2>6, <2>12, <2>13 DEF OwnedInv
  <2> QED BY <2>15, <2>16, <2>17, <2>18, <2>19, <2>20 DEF OwnedInv
<1>2. ASSUME NEW t \in Threads, Log!Flush(t) PROVE OwnedInv'
  <2>1. \A p \in FlushSteps : p.op = "flush" BY StepFields DEF FlushSteps
  <2>2. Turns(t, FlushSteps) /\ Known /\ UNCHANGED <<trace, returned>> BY <1>2, FlushTurns DEF Log!Flush, Known
  <2> QED BY <2>1, <2>2, OwnedQuietly DEF Quiet
<1>3. ASSUME NEW t \in Threads, Log!DumpBacktrace(t) PROVE OwnedInv'
  <2> DEFINE P == SinkSteps(None) \cup {Log!Step("flush?", None, None), Log!Step("lock", None, None)}
  <2>1. \A p \in P : p.op \in {"sink", "flush?", "lock"} BY StepFields DEF SinkSteps
  <2>2. Turns(t, P) /\ Known /\ UNCHANGED <<trace, returned>> BY <1>3, DumpTurns DEF Log!DumpBacktrace, Known
  <2> HIDE DEF P
  <2> QED BY <2>1, <2>2, OwnedQuietly DEF Quiet
<1>4. ASSUME NEW t \in Threads, Log!SinkLog(t) \/ Log!SinkFlush(t) PROVE OwnedInv'
  <2>1. Known /\ UNCHANGED <<trace, returned>> BY <1>4 DEF Log!SinkLog, Log!SinkFlush, Known, Log!callVars
  <2>2. \E h : Turns(t, Pending[t] \ {h}) \/ Turns(t, {}) BY <1>4, SinkTurns, SinkFlushTurns
  <2> QED BY <2>1, <2>2, RestIsQuiet, OwnedQuietly
<1>5. ASSUME NEW t \in Threads, Log!FlushIfSevere(t) PROVE OwnedInv'
  <2>1. PICK h \in Steps : Turns(t, (IF Log!ShouldFlush(h.msg) THEN FlushSteps ELSE {}) \cup (Pending[t] \ {h}))
    BY <1>5, SevereTurns
  <2>2. \A p \in FlushSteps : p.op = "flush" BY StepFields DEF FlushSteps
  <2>3. Known /\ UNCHANGED <<trace, returned>> BY <1>5 DEF Log!FlushIfSevere, Known, Log!callVars
  <2> QED BY <2>1, <2>2, <2>3, OwnedQuietly DEF Quiet
<1>6. ASSUME NEW t \in Threads, Log!Trace(t) PROVE OwnedInv'
  <2>1. PICK h \in Steps : IsNext(t, h) /\ h.op = "trace" /\ h = Head(todo[t]) /\ Turns(t, Pending[t] \ {h})
    BY <1>6, OneTurns DEF Log!Trace
  <2>2. trace' = Log!PushBack(trace, h.msg) /\ trace_lock = None /\ UNCHANGED <<calls, returned, level_, levelOf>>
    BY <1>6, <2>1 DEF Log!Trace, Log!callVars
  <2>3. h \in Pending[t] /\ h.msg \in Log!Messages BY <2>1 DEF IsNext, TodoInv, WellFormed
  <2>4. \A n : InRing(n)' => n = h.msg \/ InRing(n) BY <2>2, <2>3, TraceHas DEF InRing
  <2>5. \A u \in Threads : \A p \in Pending[u] : p.op # "pop" BY <2>2 DEF LockInv
  <2>6. \A b \in Pending[t] \ {h} : b.op # "sink" /\ b.op # "trace"
    BY <2>1, RankIsNat DEF IsNext, Before, RankOf
  <2>7. \A u \in Threads : \A p \in Pending'[u] : p \in Pending[u] /\ (u = t => p # h) BY <2>1, TurnsPending
  <2>8. \A n : Enabled(n)' <=> Enabled(n) BY <2>2 DEF Enabled
  <2>9. \A u \in Threads : \A p \in Pending'[u] : p.op = "trace" => p.msg # h.msg
    BY <2>1, <2>3, <2>6, <2>7 DEF OwnedInv
  <2>10. \A u \in Threads : \A p, e \in Pending'[u] : p.op = "sink" /\ e.op = "return" => p.msg # h.msg
    <3> SUFFICES ASSUME NEW u \in Threads, NEW p \in Pending'[u], NEW e \in Pending'[u],
                        p.op = "sink", e.op = "return"
                 PROVE  p.msg # h.msg
      OBVIOUS
    <3>1. p \in Pending[u] /\ e \in Pending[u] /\ u # t BY <2>6, <2>7
    <3>2. p.msg = e.msg BY <3>1 DEF TodoInv, WellFormed
    <3> QED BY <2>1, <2>3, <3>1, <3>2 DEF OwnedInv
  <2> QED BY <2>2, <2>4, <2>5, <2>7, <2>8, <2>9, <2>10 DEF OwnedInv
<1>7. ASSUME NEW t \in Threads, Log!Return(t) PROVE OwnedInv'
  <2>1. PICK h \in Steps : IsNext(t, h) /\ h.op = "return" /\ h = Head(todo[t]) /\ Turns(t, Pending[t] \ {h})
    BY <1>7, OneTurns DEF Log!Return
  <2>2. returned' = returned \cup {h.msg} /\ UNCHANGED <<calls, trace, level_, levelOf>>
    BY <1>7, <2>1 DEF Log!Return, Log!callVars
  <2>3. Pending[t] = {h} BY <2>1, LastAlone
  <2>4. \A u \in Threads : \A p \in Pending'[u] : p \in Pending[u] /\ u # t BY <2>1, <2>3, TurnsPending
  <2>5. \A n : (Enabled(n)' <=> Enabled(n)) /\ (InRing(n)' <=> InRing(n)) BY <2>2 DEF Enabled, InRing
  <2>6. \A u \in Threads : \A p \in Pending'[u] : p.op \in {"trace", "return"} => p.msg # h.msg
    BY <2>1, <2>3, <2>4 DEF OwnedInv
  <2>7. UNCHANGED Log!At(trace, 0) BY <2>2
  <2> QED BY <2>2, <2>4, <2>5, <2>6, <2>7 DEF OwnedInv
<1>8. ASSUME NEW t \in Threads, Log!DumpBegins(t) PROVE OwnedInv'
  <2>1. Turns(t, {Log!Step("each", None, None)}) BY <1>8, LockTurns
  <2>2. Log!Step("each", None, None).op = "each" BY StepFields
  <2>3. Known /\ UNCHANGED <<trace, returned>> BY <1>8 DEF Log!DumpBegins, Known, Log!callVars
  <2> QED BY <2>1, <2>3, <2>2, OwnedQuietly DEF Quiet
<1>9. ASSUME NEW t \in Threads, Log!DumpEach(t) PROVE OwnedInv'
  <2>1. Known /\ UNCHANGED <<trace, returned, calls, levelOf, level_>> BY <1>9 DEF Log!DumpEach, Known, Log!callVars
  <2>2. CASE Turns(t, SinkSteps(None) \cup {Log!Step("flush?", None, None)})
    <3> DEFINE P == SinkSteps(None) \cup {Log!Step("flush?", None, None)}
    <3>1. \A p \in P : p.op \in {"sink", "flush?"} BY StepFields DEF SinkSteps
    <3> HIDE DEF P
    <3> QED BY <2>1, <2>2, <3>1, OwnedQuietly DEF Quiet, P
  <2>3. CASE Turns(t, SinkSteps(Log!At(trace, 0)) \cup {Log!Step("flush?", None, Log!At(trace, 0)),
                                                    Log!Step("pop", None, None), Log!Step("each", None, None)})
    <3> DEFINE m == Log!At(trace, 0)
               P == SinkSteps(m) \cup {Log!Step("flush?", None, m), Log!Step("pop", None, None),
                    Log!Step("each", None, None)}
    <3>1. \A p \in P : p.op \in {"sink", "flush?", "pop", "each"} /\ (p.op = "sink" => p.msg = m)
      BY StepFields DEF SinkSteps
    <3>2. \A u \in Threads : Pending'[u] = IF u = t THEN P ELSE Pending[u] BY <2>3, TurnsPending
    <3>3. \A n : (Enabled(n)' <=> Enabled(n)) /\ (InRing(n)' <=> InRing(n)) BY <2>1 DEF Enabled, InRing
    <3>4. m = Log!At(trace, 0)' BY <2>1
    <3> HIDE DEF P
    <3> QED BY <2>1, <3>1, <3>2, <3>3, <3>4 DEF OwnedInv
  <2> QED BY <1>9, <2>2, <2>3, EachTurns
<1>10. ASSUME NEW t \in Threads, Log!DumpPops(t) PROVE OwnedInv'
  <2>1. PICK h \in Steps : IsNext(t, h) /\ h.op = "pop" /\ Turns(t, Pending[t] \ {h})
    BY <1>10, OneTurns DEF Log!DumpPops
  <2>2. trace' = Log!PopFront(trace) /\ UNCHANGED <<calls, returned, level_, levelOf>>
    BY <1>10 DEF Log!DumpPops, Log!callVars
  <2>3. h \in Pending[t] /\ trace_lock = t /\ Log!Size(trace) > 0 BY <2>1 DEF IsNext, LockInv
  <2>4. ~Log!Empty(trace) BY <2>3, SizeIsNat
  <2>5. \A n : InRing(n)' => InRing(n) BY <2>2, <2>4, TracePopped DEF InRing
  <2>6. \A u \in Threads : \A p \in Pending'[u] : p \in Pending[u] /\ (u = t => p # h) BY <2>1, TurnsPending
  <2>7. \A b \in Pending[t] \ {h} : b.op # "pop" BY <2>1 DEF IsNext, Before, RankOf
  <2>8. \A u \in Threads : \A p \in Pending'[u] : p.op # "pop" BY <2>3, <2>6, <2>7 DEF LockInv
  <2>9. \A n : Enabled(n)' <=> Enabled(n) BY <2>2 DEF Enabled
  <2> QED BY <2>2, <2>5, <2>6, <2>8, <2>9 DEF OwnedInv
<1>11. CASE Log!EnableBacktrace
  <2>1. /\ trace' = Log!New(TraceSize, None) /\ trace_lock = None
        /\ UNCHANGED <<calls, returned, level_, levelOf, Pending>>
    BY <1>11 DEF Log!EnableBacktrace, Log!callVars, Pending
  <2>2. \A n : ~InRing(n)' BY <2>1, TraceNew DEF InRing
  <2>3. \A u \in Threads : \A p \in Pending[u] : p.op # "pop" BY <2>1 DEF LockInv
  <2>4. \A n : Enabled(n)' <=> Enabled(n) BY <2>1 DEF Enabled
  <2> QED BY <2>1, <2>2, <2>3, <2>4 DEF OwnedInv
<1>12. CASE UNCHANGED <<Log!callVars, trace, todo, returned>>
  <2>1. UNCHANGED <<Pending, calls, returned, level_, levelOf, trace>> BY <1>12 DEF Log!callVars, Pending
  <2>2. \A n : (Enabled(n)' <=> Enabled(n)) /\ (InRing(n)' <=> InRing(n)) BY <2>1 DEF Enabled, InRing
  <2>3. UNCHANGED Log!At(trace, 0) BY <2>1
  <2> QED BY <2>1, <2>2, <2>3 DEF OwnedInv
<1> QED BY <1>1, <1>2, <1>3, <1>4, <1>5, <1>6, <1>7, <1>8, <1>9, <1>10, <1>11, <1>12
        DEF Log!Next, Log!Proceed, Log!DisableBacktrace, Log!vars

LEMMA NextData ==
  ASSUME LoggerConstants, TodoInv, DataInv, LockInv, OwnedInv, [Log!Next]_(Log!vars)
  PROVE  DataInv'
<1> USE DEF LoggerConstants
<1>1. ASSUME UNCHANGED <<tried, errors, unflushed, returned, trace>>, calls' = calls + 1, calls < MaxCalls,
             levelOf' \in [Log!Messages -> Log!Levels \cup {None}]
      PROVE  DataInv'
  <2>1. calls' \in 0 .. MaxCalls /\ 1 .. calls \subseteq 1 .. calls' BY <1>1 DEF DataInv
  <2>2. \A i \in 0 .. Log!Size(trace) - 1 : Log!At(trace, i) \in 1 .. calls' BY <2>1 DEF DataInv
  <2>3. UNCHANGED Log!Messages BY DEF Log!Messages
  <2> QED BY <1>1, <2>1, <2>2, <2>3 DEF DataInv
<1>2. ASSUME UNCHANGED <<calls, levelOf, returned, trace>>, errors' \in {errors, errors + 1},
             tried' \in [Log!SinkSet -> [Log!Messages -> Nat]],
             unflushed' \in [Log!SinkSet -> SUBSET (Log!Messages \cup {None})]
      PROVE  DataInv'
  BY <1>2 DEF DataInv, Log!Messages
<1>3. ASSUME UNCHANGED <<calls, levelOf, tried, errors, unflushed>>, returned' \subseteq 1 .. calls,
             Log!IsRing(trace, Log!Messages \cup {None})',
               \A i \in 0 .. Log!Size(trace') - 1 : Log!At(trace', i) \in 1 .. calls
      PROVE  DataInv'
  BY <1>3 DEF DataInv, Log!Messages
<1>4. ASSUME NEW t \in Threads, NEW lvl \in Log!Levels, Log!Log(t, lvl) PROVE DataInv'
  <2>1. UNCHANGED <<tried, errors, unflushed, returned, trace>> /\ levelOf' = [levelOf EXCEPT ![calls + 1] = lvl]
    BY <1>4 DEF Log!Log, Log!sinkVars
  <2>2. levelOf' \in [Log!Messages -> Log!Levels \cup {None}] BY <2>1 DEF DataInv
  <2>3. calls' = calls + 1 /\ calls < MaxCalls BY <1>4 DEF Log!Log, Log!Start
  <2> QED BY <1>1, <2>1, <2>2, <2>3
<1>5. ASSUME NEW t \in Threads, Log!Flush(t) \/ Log!DumpBacktrace(t) PROVE DataInv'
  <2>1. UNCHANGED <<tried, errors, unflushed, returned, trace, levelOf>> /\ calls' = calls + 1 /\ calls < MaxCalls
    BY <1>5 DEF Log!Flush, Log!DumpBacktrace, Log!Start, Log!sinkVars
  <2> QED BY <1>1, <2>1 DEF DataInv
<1>6. ASSUME NEW t \in Threads, Log!SinkLog(t) PROVE DataInv'
  <2>1. PICK h \in Steps :
           /\ h.sink \in Log!SinkSet
           /\ tried' = IF Log!ShouldLog(h.sink, h.msg) /\ h.msg # None THEN [tried EXCEPT ![h.sink][h.msg] = @ + 1]
                ELSE tried
           /\ \/ /\ UNCHANGED errors
                 /\ unflushed' = IF Log!ShouldLog(h.sink, h.msg) THEN [unflushed EXCEPT ![h.sink] = @ \cup {h.msg}]
                      ELSE unflushed
              \/ errors' = errors + 1 /\ UNCHANGED unflushed
    BY <1>6, SinkTurns
  <2>2. h.msg \in Log!Messages \cup {None} BY DEF Steps
  <2>3. tried' \in [Log!SinkSet -> [Log!Messages -> Nat]]
    <3>1. CASE Log!ShouldLog(h.sink, h.msg) /\ h.msg # None
      <4>1. h.msg \in Log!Messages /\ tried[h.sink][h.msg] + 1 \in Nat BY <2>1, <2>2, <3>1 DEF DataInv
      <4> QED BY <2>1, <3>1, <4>1 DEF DataInv
    <3>2. CASE ~(Log!ShouldLog(h.sink, h.msg) /\ h.msg # None) BY <2>1, <3>2 DEF DataInv
    <3> QED BY <3>1, <3>2
  <2>4. unflushed' \in [Log!SinkSet -> SUBSET (Log!Messages \cup {None})]
    <3>1. unflushed[h.sink] \cup {h.msg} \in SUBSET (Log!Messages \cup {None}) BY <2>1, <2>2 DEF DataInv
    <3>2. unflushed' \in {unflushed, [unflushed EXCEPT ![h.sink] = @ \cup {h.msg}]} BY <2>1
    <3> QED BY <3>1, <3>2 DEF DataInv
  <2>5. UNCHANGED <<calls, levelOf, returned, trace>> BY <1>6 DEF Log!SinkLog, Log!callVars
  <2> QED BY <1>2, <2>1, <2>3, <2>4, <2>5
<1>7. ASSUME NEW t \in Threads, Log!SinkFlush(t) PROVE DataInv'
  <2>1. PICK h \in Steps : \/ UNCHANGED errors /\ unflushed' = [unflushed EXCEPT ![h.sink] = {}]
                           \/ errors' = errors + 1 /\ UNCHANGED unflushed
    BY <1>7, SinkFlushTurns
  <2>2. unflushed' \in [Log!SinkSet -> SUBSET (Log!Messages \cup {None})] BY <2>1 DEF DataInv
  <2>3. UNCHANGED <<calls, levelOf, returned, trace, tried>> BY <1>7 DEF Log!SinkFlush, Log!callVars
  <2> QED BY <1>2, <2>1, <2>2, <2>3 DEF DataInv
<1>8. ASSUME NEW t \in Threads, Log!Trace(t) PROVE DataInv'
  <2>1. PICK h \in Steps : IsNext(t, h) /\ h.op = "trace" /\ h = Head(todo[t]) BY <1>8, OneTurns DEF Log!Trace
  <2>2. trace' = Log!PushBack(trace, h.msg) /\ UNCHANGED <<calls, levelOf, tried, errors, unflushed, returned>>
    BY <1>8, <2>1 DEF Log!Trace, Log!callVars, Log!sinkVars
  <2>3. h.msg \in 1 .. calls /\ h.msg \in Log!Messages BY <2>1 DEF IsNext, OwnedInv, TodoInv, WellFormed
  <2>4. \A i \in 0 .. Log!Size(trace') - 1 : Log!At(trace', i) \in 1 .. calls BY <2>2, <2>3, TraceHas DEF DataInv
  <2> QED BY <1>3, <2>2, <2>3, <2>4, TracePushed DEF DataInv
<1>9. ASSUME NEW t \in Threads, Log!Return(t) PROVE DataInv'
  <2>1. PICK h \in Steps : IsNext(t, h) /\ h.op = "return" /\ h = Head(todo[t]) BY <1>9, OneTurns DEF Log!Return
  <2>2. returned' = returned \cup {h.msg} /\ UNCHANGED <<calls, levelOf, tried, errors, unflushed, trace>>
    BY <1>9, <2>1 DEF Log!Return, Log!callVars, Log!sinkVars
  <2>3. h.msg \in 1 .. calls BY <2>1 DEF IsNext, OwnedInv
  <2> QED BY <1>3, <2>2, <2>3 DEF DataInv, Log!Messages
<1>10. ASSUME NEW t \in Threads, Log!DumpPops(t) PROVE DataInv'
  <2>1. \E h \in Pending[t] : h.op = "pop" BY <1>10, OneTurns DEF Log!DumpPops, IsNext
  <2>2. trace' = Log!PopFront(trace) /\ UNCHANGED <<calls, levelOf, tried, errors, unflushed, returned>>
    BY <1>10 DEF Log!DumpPops, Log!callVars, Log!sinkVars
  <2>3. ~Log!Empty(trace) BY <2>1, SizeIsNat DEF LockInv
  <2>4. \A i \in 0 .. Log!Size(trace') - 1 : Log!At(trace', i) \in 1 .. calls BY <2>2, <2>3, TracePopped DEF DataInv
  <2> QED BY <1>3, <2>2, <2>3, <2>4, TracePopped DEF DataInv
<1>11. CASE Log!EnableBacktrace
  <2>1. trace' = Log!New(TraceSize, None) /\ UNCHANGED <<calls, levelOf, tried, errors, unflushed, returned>>
    BY <1>11 DEF Log!EnableBacktrace, Log!callVars, Log!sinkVars
  <2>2. Log!IsRing(trace, Log!Messages \cup {None})' /\ Log!Size(trace') = 0 BY <2>1, TraceNew
  <2> QED BY <1>3, <2>1, <2>2 DEF DataInv
<1>12. CASE UNCHANGED <<Log!callVars, Log!sinkVars, trace, returned>>
  BY <1>3, <1>12 DEF Log!callVars, Log!sinkVars, DataInv, Log!Messages
<1> QED BY <1>4, <1>5, <1>6, <1>7, <1>8, <1>9, <1>10, <1>11, <1>12
        DEF Log!Next, Log!Proceed, Log!FlushIfSevere, Log!DumpBegins, Log!DumpEach, Log!DisableBacktrace, Log!vars

(* What a sink has been given stays given, and a message's level its own.  *)
Grown == \A s \in Log!SinkSet, m \in 1 .. calls : tried[s][m] > 0 => tried'[s][m] > 0

LEMMA LevelsKept ==
  ASSUME LoggerConstants, DataInv, Known
  PROVE  /\ \A m \in 1 .. calls : m \in Log!Messages /\ m \in 1 .. calls' /\ Log!LevelOf(m)' = Log!LevelOf(m)
              /\ (Enabled(m)' <=> Enabled(m))
         /\ \A s \in Log!SinkSet, m \in 1 .. calls : Log!ShouldLog(s, m)' <=> Log!ShouldLog(s, m)
<1>1. \A m \in 1 .. calls : m \in Log!Messages /\ m \in 1 .. calls' BY DEF LoggerConstants, Log!Messages, Known, DataInv
<1>2. \A m \in 1 .. calls : Log!LevelOf(m)' = Log!LevelOf(m) BY <1>1 DEF Log!LevelOf, Known, Log!Messages
<1>3. \A m \in 1 .. calls : Enabled(m)' <=> Enabled(m) BY DEF Enabled, Known
<1> QED BY <1>1, <1>2, <1>3 DEF Log!ShouldLog

LEMMA TriedQuietly ==
  ASSUME LoggerConstants, DataInv, OwnedInv, ServedInv, Grown, NEW t \in Threads,
           NEW P, Quiet(t, P), UNCHANGED <<trace, returned>>,
         \A p \in P, b \in Pending[t] \ P :
           p.op \in {"trace", "return"} /\ b.op = "sink" /\ b.msg = p.msg /\ Log!ShouldLog(b.sink, b.msg)
             => tried'[b.sink][b.msg] > 0
  PROVE  ServedInv'
<1>1. Known BY DEF Quiet
<1>2. \A u \in Threads : Pending'[u] = IF u = t THEN P ELSE Pending[u] BY TurnsPending DEF Quiet
<1>3. ASSUME NEW u \in Threads, NEW p \in Pending'[u], p.op \in {"trace", "return"}, Enabled(p.msg)'
      PROVE  HasTried(p.msg, Pending[u])'
  <2>1. p \in Pending[u] /\ p.msg \in 1 .. calls BY <1>2, <1>3 DEF Quiet, OwnedInv
  <2>2. HasTried(p.msg, Pending[u]) BY <1>1, <1>3, <2>1, LevelsKept DEF ServedInv
  <2> SUFFICES ASSUME NEW s \in Log!SinkSet, Log!ShouldLog(s, p.msg)', ~(tried'[s][p.msg] > 0)
               PROVE  Log!Step("sink", s, p.msg) \in Pending'[u]
    BY DEF HasTried
  <2>3. Log!ShouldLog(s, p.msg) /\ ~(tried[s][p.msg] > 0) BY <1>1, <2>1, LevelsKept DEF Grown
  <2>4. Log!Step("sink", s, p.msg) \in Pending[u] BY <2>2, <2>3 DEF HasTried
  <2> DEFINE b == Log!Step("sink", s, p.msg)
  <2>5. b.op = "sink" /\ b.sink = s /\ b.msg = p.msg BY StepFields
  <2> HIDE DEF b
  <2>6. b \in Pending[u] BY <2>4 DEF b
  <2>7. b \in Pending'[u] BY <1>2, <1>3, <2>3, <2>5, <2>6
  <2> QED BY <2>7 DEF b
<1>4. \A i \in 0 .. Log!Size(trace) - 1 : Log!At(trace, i) \in 1 .. calls BY DEF DataInv
<1>5. \A m \in 1 .. calls : HasTried(m, {}) => HasTried(m, {})' BY <1>1, LevelsKept DEF HasTried, Grown
<1>6. \A i \in (0 .. Log!Size(trace) - 1)' : (Enabled(Log!At(trace, i)) => HasTried(Log!At(trace, i), {}))'
  <2> SUFFICES ASSUME NEW i \in 0 .. Log!Size(trace) - 1, NEW m, m = Log!At(trace, i), Enabled(m)'
    PROVE HasTried(m, {})'
    OBVIOUS
  <2>1. m \in 1 .. calls BY <1>4
  <2>2. Enabled(m) BY <1>1, <2>1, LevelsKept
  <2> QED BY <1>5, <2>1, <2>2 DEF ServedInv
<1>7. Log!EverySinkTried' /\ \A m \in returned' : Enabled(m)'
  <2>1. returned' \subseteq 1 .. calls BY DEF DataInv
  <2> QED BY <1>1, <2>1, LevelsKept DEF Log!EverySinkTried, ServedInv, Grown
<1> QED BY <1>3, <1>6, <1>7 DEF ServedInv

(* A step that gives no sink a message it should log leaves it so.         *)
LEMMA SinkGrows ==
  ASSUME LoggerConstants, TodoInv, DataInv, NEW t \in Threads, Log!SinkLog(t)
  PROVE  /\ Grown
         /\ \E h \in Steps, P \in SUBSET Pending[t] :
              /\ IsNext(t, h) /\ h.op = "sink" /\ h.sink \in Log!SinkSet /\ Turns(t, P) /\ P \in {Pending[t] \ {h}, {}}
              /\ Log!ShouldLog(h.sink, h.msg) /\ h.msg \in 1 .. calls
                   => tried'[h.sink][h.msg] = tried[h.sink][h.msg] + 1
              /\ \A s \in Log!SinkSet, m \in Log!Messages :
                   tried'[s][m] = IF Log!ShouldLog(h.sink, h.msg) /\ s = h.sink /\ m = h.msg THEN tried[s][m] + 1
                     ELSE tried[s][m]
<1>1. PICK h \in Steps :
        /\ IsNext(t, h) /\ h.op = "sink" /\ h.sink \in Log!SinkSet
        /\ tried' = IF Log!ShouldLog(h.sink, h.msg) /\ h.msg # None THEN [tried EXCEPT ![h.sink][h.msg] = @ + 1]
             ELSE tried
        /\ Turns(t, Pending[t] \ {h}) \/ Turns(t, {})
  BY SinkTurns
<1>2. None \notin Log!Messages /\ 1 .. calls \subseteq Log!Messages BY DEF LoggerConstants, Log!Messages, DataInv
<1>3. \A s \in Log!SinkSet, m \in Log!Messages :
        tried'[s][m] = IF Log!ShouldLog(h.sink, h.msg) /\ s = h.sink /\ m = h.msg THEN tried[s][m] + 1 ELSE tried[s][m]
  <2>1. CASE Log!ShouldLog(h.sink, h.msg) /\ h.msg # None BY <1>1, <2>1 DEF DataInv
  <2>2. CASE ~(Log!ShouldLog(h.sink, h.msg) /\ h.msg # None) BY <1>1, <1>2, <2>2
  <2> QED BY <2>1, <2>2
<1>4. Grown
  <2> SUFFICES ASSUME NEW s \in Log!SinkSet, NEW m \in 1 .. calls, tried[s][m] > 0 PROVE tried'[s][m] > 0 BY DEF Grown
  <2>1. tried[s][m] \in Nat /\ m \in Log!Messages BY <1>2 DEF DataInv
  <2>2. tried'[s][m] \in {tried[s][m], tried[s][m] + 1} BY <1>3, <2>1
  <2> QED BY <2>1, <2>2
<1> QED BY <1>1, <1>2, <1>3, <1>4

LEMMA NextServed ==
  ASSUME LoggerConstants, TodoInv, DataInv, LockInv, OwnedInv, ServedInv, [Log!Next]_(Log!vars)
  PROVE  ServedInv'
<1>1. ASSUME NEW t \in Threads, NEW lvl \in Log!Levels, Log!Log(t, lvl) PROVE ServedInv'
  <2> PICK m \in Log!Messages : m = calls + 1 BY <1>1, LogTurns DEF DataInv, Log!Messages, LoggerConstants
  <2> DEFINE P == LoggedSteps(m, lvl >= level_, enabled)
  <2>1. UNCHANGED <<trace, returned, level_, tried>> /\ levelOf' = [levelOf EXCEPT ![m] = lvl]
    BY <1>1 DEF Log!Log, Log!sinkVars
  <2>2. Pending[t] = {} /\ Turns(t, P) /\ calls' = m BY <1>1, LogTurns DEF DataInv
  <2>3. Known
    <3>1. \A n \in 1 .. calls : n # m BY DEF DataInv
    <3> QED BY <2>1, <2>2, <3>1 DEF Known, DataInv
  <2>4. levelOf'[m] = lvl BY <2>1 DEF DataInv
  <2>5. Enabled(m)' <=> lvl >= level_ BY <2>1, <2>4 DEF Enabled
  <2>6. \A p \in P : p.op \in {"trace", "return"} => p.msg = m BY StepFields DEF LoggedSteps, SinkSteps
  <2>7. lvl >= level_ => \A s \in Log!SinkSet : Log!Step("sink", s, m) \in P BY DEF LoggedSteps, SinkSteps
  <2>8. \A u \in Threads : Pending'[u] = IF u = t THEN P ELSE Pending[u] BY <2>2, TurnsPending
  <2> HIDE DEF P
  <2>9. ASSUME NEW p \in Pending'[t], p.op \in {"trace", "return"}, Enabled(p.msg)' PROVE HasTried(p.msg, Pending[t])'
    <3>1. p.msg = m /\ Pending'[t] = P BY <2>6, <2>8, <2>9
    <3>2. \A s \in Log!SinkSet : Log!Step("sink", s, p.msg) \in Pending'[t] BY <2>5, <2>7, <2>9, <3>1
    <3> QED BY <3>2 DEF HasTried
  <2>10. ASSUME NEW u \in Threads, u # t, NEW p \in Pending'[u], p.op \in {"trace", "return"}, Enabled(p.msg)'
         PROVE  HasTried(p.msg, Pending[u])'
    <3>1. p \in Pending[u] /\ p.msg \in 1 .. calls /\ Pending'[u] = Pending[u] BY <2>8, <2>10 DEF OwnedInv
    <3>2. HasTried(p.msg, Pending[u]) BY <2>3, <2>10, <3>1, LevelsKept DEF ServedInv
    <3> QED BY <2>1, <2>3, <3>1, <3>2, LevelsKept DEF HasTried
  <2>11. \A n \in 1 .. calls : (Enabled(n)' => Enabled(n)) /\ (HasTried(n, {}) => HasTried(n, {})')
    BY <2>1, <2>3, LevelsKept DEF HasTried
  <2>12. \A i \in (0 .. Log!Size(trace) - 1)' : (Enabled(Log!At(trace, i)) => HasTried(Log!At(trace, i), {}))'
    <3> SUFFICES ASSUME NEW i \in 0 .. Log!Size(trace) - 1, NEW n, n = Log!At(trace, i), Enabled(n)'
      PROVE HasTried(n, {})'
      BY <2>1
    <3>1. n \in 1 .. calls BY DEF DataInv
    <3> QED BY <2>11, <3>1 DEF ServedInv
  <2>13. Log!EverySinkTried' /\ \A n \in returned' : Enabled(n)'
    <3>1. returned \subseteq 1 .. calls BY DEF DataInv
    <3> QED BY <2>1, <2>3, <3>1, LevelsKept DEF Log!EverySinkTried, ServedInv
  <2> QED BY <2>9, <2>10, <2>12, <2>13 DEF ServedInv
<1>2. ASSUME NEW t \in Threads, NEW P, Quiet(t, P), UNCHANGED <<trace, returned, tried>>,
             \A b \in Pending[t] \ P : b.op # "sink"
      PROVE  ServedInv'
  BY <1>2, TriedQuietly DEF Grown
<1>3. ASSUME NEW t \in Threads, Log!Flush(t) PROVE ServedInv'
  <2>1. \A p \in FlushSteps : p.op = "flush" BY StepFields DEF FlushSteps
  <2>2. Pending[t] = {} /\ Turns(t, FlushSteps) BY <1>3, FlushTurns
  <2>3. Known /\ UNCHANGED <<trace, returned, tried>> BY <1>3, FlushTurns DEF Log!Flush, Known, Log!sinkVars
  <2> QED BY <1>2, <2>1, <2>2, <2>3 DEF Quiet
<1>4. ASSUME NEW t \in Threads, Log!DumpBacktrace(t) PROVE ServedInv'
  <2> DEFINE P == SinkSteps(None) \cup {Log!Step("flush?", None, None), Log!Step("lock", None, None)}
  <2>1. \A p \in P : p.op \in {"sink", "flush?", "lock"} BY StepFields DEF SinkSteps
  <2>2. Pending[t] = {} /\ Turns(t, P) BY <1>4, DumpTurns
  <2>3. Known /\ UNCHANGED <<trace, returned, tried>> BY <1>4, DumpTurns DEF Log!DumpBacktrace, Known, Log!sinkVars
  <2> HIDE DEF P
  <2> QED BY <1>2, <2>1, <2>2, <2>3 DEF Quiet
<1>5. ASSUME NEW t \in Threads, Log!SinkLog(t) PROVE ServedInv'
  <2>1. Known /\ UNCHANGED <<trace, returned>> BY <1>5 DEF Log!SinkLog, Known, Log!callVars
  <2>2. PICK h \in Steps, P \in SUBSET Pending[t] :
          /\ Turns(t, P) /\ P \in {Pending[t] \ {h}, {}}
          /\ Log!ShouldLog(h.sink, h.msg) /\ h.msg \in 1 .. calls => tried'[h.sink][h.msg] = tried[h.sink][h.msg] + 1
          /\ h.sink \in Log!SinkSet
    BY <1>5, SinkGrows
  <2>3. Grown BY <1>5, SinkGrows
  <2>4. Quiet(t, P) BY <2>1, <2>2 DEF Quiet
  <2>5. ASSUME NEW p \in P, NEW b \in Pending[t] \ P,
               p.op \in {"trace", "return"}, b.op = "sink", b.msg = p.msg, Log!ShouldLog(b.sink, b.msg)
        PROVE  tried'[b.sink][b.msg] > 0
    <3>1. b = h /\ b.msg \in 1 .. calls BY <2>2, <2>5 DEF OwnedInv
    <3>2. tried[b.sink][b.msg] \in Nat BY <2>2, <3>1 DEF DataInv, Log!Messages, LoggerConstants
    <3> QED BY <2>2, <2>5, <3>1, <3>2
  <2> QED BY <2>1, <2>3, <2>4, <2>5, TriedQuietly
<1>6. ASSUME NEW t \in Threads, Log!SinkFlush(t) PROVE ServedInv'
  <2>1. Known /\ UNCHANGED <<trace, returned, tried>> BY <1>6 DEF Log!SinkFlush, Known, Log!callVars
  <2>2. PICK h \in Steps : h.op = "flush" /\ (Turns(t, Pending[t] \ {h}) \/ Turns(t, {})) BY <1>6, SinkFlushTurns
  <2>3. CASE Turns(t, Pending[t] \ {h}) BY <1>2, <2>1, <2>2, <2>3 DEF Quiet
  <2>4. CASE Turns(t, {})
    <3>1. Quiet(t, {}) BY <2>1, <2>4 DEF Quiet
    <3> QED BY <2>1, <3>1, TriedQuietly DEF Grown
  <2> QED BY <2>2, <2>3, <2>4
<1>7. ASSUME NEW t \in Threads, Log!FlushIfSevere(t) PROVE ServedInv'
  <2>1. PICK h \in Steps : h.op = "flush?"
               /\ Turns(t, (IF Log!ShouldFlush(h.msg) THEN FlushSteps ELSE {}) \cup (Pending[t] \ {h}))
    BY <1>7, SevereTurns
  <2>2. \A p \in FlushSteps : p.op = "flush" BY StepFields DEF FlushSteps
  <2>3. Known /\ UNCHANGED <<trace, returned, tried>> BY <1>7 DEF Log!FlushIfSevere, Known, Log!callVars, Log!sinkVars
  <2> DEFINE P == (IF Log!ShouldFlush(h.msg) THEN FlushSteps ELSE {}) \cup (Pending[t] \ {h})
  <2>4. Quiet(t, P) BY <2>1, <2>2, <2>3 DEF Quiet
  <2>5. \A b \in Pending[t] \ P : b.op # "sink" BY <2>1
  <2> HIDE DEF P
  <2> QED BY <1>2, <2>3, <2>4, <2>5
<1>8. ASSUME NEW t \in Threads, NEW h, h.op # "sink", Turns(t, Pending[t] \ {h}), Known, UNCHANGED tried
      PROVE  /\ \A u \in Threads : \A p \in Pending'[u] :
                  p.op \in {"trace", "return"} /\ Enabled(p.msg)' => HasTried(p.msg, Pending[u])'
             /\ \A m \in 1 .. calls : (Enabled(m)' => Enabled(m)) /\ (HasTried(m, {}) => HasTried(m, {})')
             /\ returned' = returned => Log!EverySinkTried' /\ \A m \in returned' : Enabled(m)'
  <2>1. \A u \in Threads : Pending'[u] = IF u = t THEN Pending[t] \ {h} ELSE Pending[u] BY <1>8, TurnsPending
  <2>2. \A u \in Threads : Pending'[u] \subseteq Pending[u] /\ \A p \in Pending[u] : p.op = "sink" => p \in Pending'[u]
    BY <1>8, <2>1
  <2>3. ASSUME NEW u \in Threads, NEW p \in Pending'[u], p.op \in {"trace", "return"}, Enabled(p.msg)'
        PROVE  HasTried(p.msg, Pending[u])'
    <3>1. p \in Pending[u] /\ p.msg \in 1 .. calls BY <2>2, <2>3 DEF OwnedInv
    <3>2. HasTried(p.msg, Pending[u]) BY <1>8, <2>3, <3>1, LevelsKept DEF ServedInv
    <3> SUFFICES ASSUME NEW s \in Log!SinkSet, Log!ShouldLog(s, p.msg)', ~(tried'[s][p.msg] > 0)
                 PROVE  Log!Step("sink", s, p.msg) \in Pending'[u]
      BY DEF HasTried
    <3>3. Log!Step("sink", s, p.msg) \in Pending[u] BY <1>8, <3>1, <3>2, LevelsKept DEF HasTried
    <3>4. Log!Step("sink", s, p.msg).op = "sink" BY StepFields
    <3> QED BY <2>2, <3>3, <3>4
  <2>4. returned \subseteq 1 .. calls BY DEF DataInv
  <2>5. \A m \in 1 .. calls : (Enabled(m)' => Enabled(m)) /\ (HasTried(m, {}) => HasTried(m, {})')
    BY <1>8, LevelsKept DEF HasTried
  <2>6. returned' = returned => Log!EverySinkTried' /\ \A m \in returned' : Enabled(m)'
    BY <1>8, <2>4, LevelsKept DEF Log!EverySinkTried, ServedInv
  <2> QED BY <2>3, <2>5, <2>6
<1>9. ASSUME NEW t \in Threads, Log!Trace(t) PROVE ServedInv'
  <2>1. PICK h \in Steps : IsNext(t, h) /\ h.op = "trace" /\ h = Head(todo[t]) /\ Turns(t, Pending[t] \ {h})
    BY <1>9, OneTurns DEF Log!Trace
  <2>2. trace' = Log!PushBack(trace, h.msg) /\ Known /\ UNCHANGED <<calls, returned, tried>>
    BY <1>9, <2>1 DEF Log!Trace, Known, Log!callVars, Log!sinkVars
  <2>3. h \in Pending[t] /\ h.msg \in Log!Messages /\ h.msg \in 1 .. calls
    BY <2>1 DEF IsNext, TodoInv, WellFormed, OwnedInv
  <2>4. \A b \in Pending[t] : b.op # "sink" BY <2>1, RankIsNat DEF IsNext, Before, RankOf
  <2>5. \A s : Log!Step("sink", s, h.msg) \notin Pending[t] BY <2>4, StepFields
  <2>6. Enabled(h.msg) => HasTried(h.msg, {}) BY <2>1, <2>3, <2>5 DEF ServedInv, HasTried
  <2>7. \A i \in 0 .. Log!Size(trace') - 1 :
          Log!At(trace', i) = h.msg \/ \E j \in 0 .. Log!Size(trace) - 1 : Log!At(trace', i) = Log!At(trace, j)
    BY <2>2, <2>3, TraceHas
  <2>8. ASSUME NEW i \in (0 .. Log!Size(trace) - 1)'
    PROVE (Enabled(Log!At(trace, i)) => HasTried(Log!At(trace, i), {}))'
    <3> SUFFICES ASSUME NEW m, m = Log!At(trace', i), Enabled(m)' PROVE HasTried(m, {})' OBVIOUS
    <3>1. m \in 1 .. calls /\ (Enabled(m) => HasTried(m, {})) BY <2>3, <2>6, <2>7 DEF DataInv, ServedInv
    <3> QED BY <1>8, <2>1, <2>2, <3>1
  <2> QED BY <1>8, <2>1, <2>2, <2>8 DEF ServedInv
<1>10. ASSUME NEW t \in Threads, Log!Return(t) PROVE ServedInv'
  <2>1. PICK h \in Steps : IsNext(t, h) /\ h.op = "return" /\ h = Head(todo[t]) /\ Turns(t, Pending[t] \ {h})
    BY <1>10, OneTurns DEF Log!Return
  <2>2. returned' = returned \cup {h.msg} /\ Known /\ UNCHANGED <<calls, trace, tried>>
    BY <1>10, <2>1 DEF Log!Return, Known, Log!callVars, Log!sinkVars
  <2>3. h \in Pending[t] /\ h.msg \in 1 .. calls /\ Enabled(h.msg) BY <2>1 DEF IsNext, OwnedInv
  <2>4. Pending[t] = {h} BY <2>1, LastAlone
  <2>5. \A s : Log!Step("sink", s, h.msg) \notin Pending[t] BY <2>1, <2>4, StepFields
  <2>6. HasTried(h.msg, {}) BY <2>1, <2>3, <2>5 DEF ServedInv, HasTried
  <2>7. \A m \in returned' : m \in 1 .. calls /\ Enabled(m) /\ \A s \in Log!SinkSet : Log!ShouldLog(s, m)
          => tried[s][m] > 0
    BY <2>2, <2>3, <2>6 DEF DataInv, ServedInv, Log!EverySinkTried, HasTried
  <2>8. Log!EverySinkTried' /\ \A m \in returned' : Enabled(m)' BY <2>2, <2>7, LevelsKept DEF Log!EverySinkTried
  <2>9. ASSUME NEW i \in (0 .. Log!Size(trace) - 1)'
    PROVE (Enabled(Log!At(trace, i)) => HasTried(Log!At(trace, i), {}))'
    <3> SUFFICES ASSUME NEW m, m = Log!At(trace', i), Enabled(m)' PROVE HasTried(m, {})' OBVIOUS
    <3>1. m \in 1 .. calls /\ (Enabled(m) => HasTried(m, {})) BY <2>2 DEF DataInv, ServedInv
    <3> QED BY <1>8, <2>1, <2>2, <3>1
  <2> QED BY <1>8, <2>1, <2>2, <2>8, <2>9 DEF ServedInv
<1>11. ASSUME NEW t \in Threads, Log!DumpBegins(t) PROVE ServedInv'
  <2>1. Pending[t] \in {{h} : h \in {b \in Steps : b.op = "lock"}} /\ Turns(t, {Log!Step("each", None, None)})
    BY <1>11, LockTurns
  <2>2. Log!Step("each", None, None).op = "each" BY StepFields
  <2>3. Known /\ UNCHANGED <<trace, returned, tried>> BY <1>11 DEF Log!DumpBegins, Known, Log!callVars, Log!sinkVars
  <2> QED BY <1>2, <2>1, <2>2, <2>3 DEF Quiet
<1>12. ASSUME NEW t \in Threads, Log!DumpEach(t) PROVE ServedInv'
  <2>1. PICK h \in Steps : h.op = "each" /\ Pending[t] = {h} BY <1>12, EachTurns
  <2>2. Known /\ UNCHANGED <<trace, returned, tried>> BY <1>12 DEF Log!DumpEach, Known, Log!callVars, Log!sinkVars
  <2>3. PICK P : Turns(t, P) /\ \A p \in P : p.op \notin {"trace", "return"}
    <3>1. \A s, m : Log!Step("sink", s, m).op = "sink" /\ Log!Step("flush?", s, m).op = "flush?"
                    /\ Log!Step("pop", s, m).op = "pop" /\ Log!Step("each", s, m).op = "each"
      BY StepFields
    <3>2. /\ \A p \in SinkSteps(None) \cup {Log!Step("flush?", None, None)} : p.op \notin {"trace", "return"}
          /\ \A m : \A p \in SinkSteps(m)
               \cup {Log!Step("flush?", None, m), Log!Step("pop", None, None), Log!Step("each", None, None)} :
               p.op \notin {"trace", "return"}
      BY <3>1 DEF SinkSteps
    <3> QED BY <1>12, <3>2, EachTurns
  <2>4. \A u \in Threads : Pending'[u] = IF u = t THEN P ELSE Pending[u] BY <2>3, TurnsPending
  <2>5. \A u \in Threads : \A p \in Pending'[u] :
          p.op \in {"trace", "return"} => u # t /\ p \in Pending[u] /\ p.msg \in 1 .. calls /\ Pending'[u] = Pending[u]
    BY <2>3, <2>4 DEF OwnedInv
  <2>6. \A u \in Threads : \A p \in Pending'[u] :
          p.op \in {"trace", "return"} /\ Enabled(p.msg)' => HasTried(p.msg, Pending[u])'
    BY <2>2, <2>5, LevelsKept DEF ServedInv, HasTried
  <2>7. \A i \in 0 .. Log!Size(trace) - 1 : Log!At(trace, i) \in 1 .. calls BY DEF DataInv
  <2>8. \A i \in (0 .. Log!Size(trace) - 1)' : (Enabled(Log!At(trace, i)) => HasTried(Log!At(trace, i), {}))'
    <3> SUFFICES ASSUME NEW i \in 0 .. Log!Size(trace) - 1, NEW m, m = Log!At(trace, i), Enabled(m)'
      PROVE HasTried(m, {})'
      BY <2>2
    <3> QED BY <2>2, <2>7, LevelsKept DEF ServedInv, HasTried
  <2>9. Log!EverySinkTried' /\ \A m \in returned' : Enabled(m)'
    BY <2>2, LevelsKept DEF Log!EverySinkTried, ServedInv, DataInv
  <2> QED BY <2>6, <2>8, <2>9 DEF ServedInv
<1>13. ASSUME NEW t \in Threads, Log!DumpPops(t) PROVE ServedInv'
  <2>1. PICK h \in Steps : IsNext(t, h) /\ h.op = "pop" /\ Turns(t, Pending[t] \ {h})
    BY <1>13, OneTurns DEF Log!DumpPops
  <2>2. trace' = Log!PopFront(trace) /\ Known /\ UNCHANGED <<returned, tried>>
    BY <1>13 DEF Log!DumpPops, Known, Log!callVars, Log!sinkVars
  <2>3. ~Log!Empty(trace) BY <2>1, SizeIsNat DEF IsNext, LockInv
  <2>4. ASSUME NEW i \in (0 .. Log!Size(trace) - 1)'
    PROVE (Enabled(Log!At(trace, i)) => HasTried(Log!At(trace, i), {}))'
    <3> SUFFICES ASSUME NEW m, m = Log!At(trace', i), Enabled(m)' PROVE HasTried(m, {})' OBVIOUS
    <3>1. m \in 1 .. calls /\ (Enabled(m) => HasTried(m, {})) BY <2>2, <2>3, TracePopped DEF DataInv, ServedInv
    <3> QED BY <1>8, <2>1, <2>2, <3>1
  <2> QED BY <1>8, <2>1, <2>2, <2>4 DEF ServedInv
<1>14. ASSUME UNCHANGED <<Log!callVars, todo, returned, tried>>,
              \A i \in 0 .. Log!Size(trace') - 1 : UNCHANGED trace
       PROVE  ServedInv'
  <2>1. UNCHANGED <<Pending, calls, returned, level_, levelOf, tried>> BY <1>14 DEF Log!callVars, Pending
  <2>2. \A m : Enabled(m)' = Enabled(m) /\ (\A S : HasTried(m, S)' = HasTried(m, S))
          /\ \A s : Log!ShouldLog(s, m)' = Log!ShouldLog(s, m)
    BY <2>1 DEF Enabled, HasTried, Log!ShouldLog, Log!LevelOf, Log!Messages
  <2>3. \A u \in Threads : \A p \in Pending[u] :
          p.op \in {"trace", "return"} /\ Enabled(p.msg)' => HasTried(p.msg, Pending[u])'
    BY <2>1, <2>2 DEF ServedInv
  <2>4. Log!EverySinkTried' /\ \A m \in returned' : Enabled(m)' BY <2>1, <2>2 DEF Log!EverySinkTried, ServedInv
  <2>5. ASSUME NEW i \in (0 .. Log!Size(trace) - 1)'
    PROVE (Enabled(Log!At(trace, i)) => HasTried(Log!At(trace, i), {}))'
    <3> SUFFICES ASSUME NEW m, m = Log!At(trace', i), Enabled(m)' PROVE HasTried(m, {})' OBVIOUS
    <3>1. i \in 0 .. Log!Size(trace) - 1 /\ m = Log!At(trace, i) BY <1>14
    <3> QED BY <2>2, <3>1 DEF ServedInv
  <2> QED BY <2>1, <2>3, <2>4, <2>5 DEF ServedInv
<1>15. CASE Log!EnableBacktrace
  <2>1. trace' = Log!New(TraceSize, None) /\ UNCHANGED <<Log!callVars, todo, returned, tried>>
    BY <1>15 DEF Log!EnableBacktrace, Log!sinkVars
  <2>2. Log!Size(trace') = 0 BY <2>1, TraceNew
  <2> QED BY <1>14, <2>1, <2>2
<1> QED BY <1>1, <1>3, <1>4, <1>5, <1>6, <1>7, <1>9, <1>10, <1>11, <1>12, <1>13, <1>14, <1>15
        DEF Log!Next, Log!Proceed, Log!DisableBacktrace, Log!vars, Log!sinkVars

LEMMA SevereKept ==
  ASSUME DataInv, Known, UNCHANGED flush_level
  PROVE  \A m \in 1 .. calls : Severe(m)' <=> Severe(m)
BY DEF Severe, Known

LEMMA FlushedQuietly ==
  ASSUME DataInv, OwnedInv, FlushedInv, Known, UNCHANGED <<tried, unflushed, broken, returned, flush_level>>,
         \A u \in Threads : \A p \in Pending'[u] : p.op = "return" =>
           p \in Pending[u] /\ \A b \in Pending[u] : b.op \in {"flush?", "flush"} => b \in Pending'[u]
  PROVE  FlushedInv'
<1>1. ASSUME NEW u \in Threads, NEW p \in Pending'[u], p.op = "return", Severe(p.msg)'
  PROVE FlushComes(p.msg, Pending[u])'
  <2>1. p \in Pending[u] /\ p.msg \in 1 .. calls BY <1>1 DEF OwnedInv
  <2>2. FlushComes(p.msg, Pending[u]) BY <1>1, <2>1, SevereKept DEF FlushedInv
  <2> QED BY <1>1, <2>1, <2>2 DEF FlushComes
<1>2. Log!SevereIsFlushed'
  <2>1. Log!SevereIsFlushed /\ returned \subseteq 1 .. calls BY DEF FlushedInv, DataInv
  <2> QED BY <2>1 DEF Log!SevereIsFlushed, Known
<1>3. (\A s \in Log!SinkSet, m \in Log!Messages : m > calls => tried[s][m] = 0)'
  <2>1. \A m \in Log!Messages : m > calls' => m > calls BY DEF Known, DataInv, Log!Messages
  <2> QED BY <2>1 DEF FlushedInv, Log!Messages
<1> QED BY <1>1, <1>2, <1>3 DEF FlushedInv

(* A message that a sink is to be given is one of a call.                  *)
LEMMA SinkKnown ==
  ASSUME LoggerConstants, TodoInv, DataInv, LockInv, OwnedInv, NEW t \in Threads,
           NEW p \in Pending[t], p.op = "sink", p.msg # None
  PROVE  p.msg \in 1 .. calls
<1>1. PICK e \in Pending[t] : e.op \in {"return", "pop"} BY DEF TodoInv, WellFormed
<1>2. CASE e.op = "return" BY <1>2 DEF TodoInv, WellFormed, OwnedInv
<1>3. CASE e.op = "pop"
  <2>1. Log!Size(trace) > 0 /\ Log!Size(trace) \in Nat /\ p.msg = Log!At(trace, 0)
    BY <1>3, SizeIsNat DEF LockInv, OwnedInv
  <2>2. 0 \in 0 .. Log!Size(trace) - 1 BY <2>1
  <2> QED BY <2>1, <2>2 DEF DataInv
<1> QED BY <1>1, <1>2, <1>3

LEMMA NextFlushed ==
  ASSUME LoggerConstants, TodoInv, DataInv, LockInv, OwnedInv, ServedInv, FlushedInv, [Log!Next]_(Log!vars)
  PROVE  FlushedInv'
<1> USE DEF LoggerConstants
<1>1. ASSUME NEW t \in Threads, NEW lvl \in Log!Levels, Log!Log(t, lvl) PROVE FlushedInv'
  <2> PICK m \in Log!Messages : m = calls + 1 BY <1>1, LogTurns DEF DataInv, Log!Messages
  <2> DEFINE P == LoggedSteps(m, lvl >= level_, enabled)
  <2>1. /\ UNCHANGED <<tried, unflushed, broken, returned, flush_level, level_>>
        /\ levelOf' = [levelOf EXCEPT ![m] = lvl]
    BY <1>1 DEF Log!Log, Log!sinkVars
  <2>2. Turns(t, P) /\ calls' = m BY <1>1, LogTurns DEF DataInv
  <2>3. \A n \in 1 .. calls : n # m BY DEF DataInv
  <2>4. Known BY <2>1, <2>2, <2>3 DEF Known, DataInv
  <2>5. \A p \in P : p.op = "return" => p.msg = m BY StepFields DEF LoggedSteps, SinkSteps
  <2>6. \A u \in Threads : Pending'[u] = IF u = t THEN P ELSE Pending[u] BY <2>2, TurnsPending
  <2> HIDE DEF P
  <2>7. \A s \in Log!SinkSet : tried[s][m] = 0
    <3>1. m > calls BY DEF DataInv
    <3> QED BY <3>1 DEF FlushedInv
  <2>8. ASSUME NEW u \in Threads, NEW p \in Pending'[u], p.op = "return", Severe(p.msg)'
    PROVE FlushComes(p.msg, Pending[u])'
    <3>1. CASE u = t
      <4>1. p.msg = m BY <2>5, <2>6, <2>8, <3>1
      <4> QED BY <2>1, <2>7, <4>1 DEF FlushComes
    <3>2. CASE u # t
      <4>1. p \in Pending[u] /\ p.msg \in 1 .. calls /\ Pending'[u] = Pending[u] BY <2>6, <2>8, <3>2 DEF OwnedInv
      <4>2. FlushComes(p.msg, Pending[u]) BY <2>1, <2>4, <2>8, <4>1, SevereKept DEF FlushedInv
      <4> QED BY <2>1, <4>1, <4>2 DEF FlushComes
    <3> QED BY <3>1, <3>2
  <2>9. Log!SevereIsFlushed'
    <3>1. Log!SevereIsFlushed /\ returned \subseteq 1 .. calls BY DEF FlushedInv, DataInv
    <3> QED BY <2>1, <2>4, <3>1 DEF Log!SevereIsFlushed, Known
  <2>10. \A s \in Log!SinkSet, n \in Log!Messages : n > calls' => tried'[s][n] = 0
    <3>1. \A n \in Log!Messages : n > calls' => n > calls BY <2>2 DEF DataInv, Log!Messages
    <3> QED BY <2>1, <3>1 DEF FlushedInv
  <2> QED BY <2>8, <2>9, <2>10 DEF FlushedInv, FlushComes, Log!Messages
<1>2. ASSUME NEW t \in Threads, NEW P, Turns(t, P), Known, UNCHANGED <<tried, unflushed, broken, returned,
               flush_level>>,
             \A p \in P : p.op = "return" => p \in Pending[t] /\ \A b \in Pending[t] : b.op \in {"flush?", "flush"}
               => b \in P
      PROVE  FlushedInv'
  <2>1. \A u \in Threads : Pending'[u] = IF u = t THEN P ELSE Pending[u] BY <1>2, TurnsPending
  <2>2. \A u \in Threads : \A p \in Pending'[u] : p.op = "return" =>
          p \in Pending[u] /\ \A b \in Pending[u] : b.op \in {"flush?", "flush"} => b \in Pending'[u]
    BY <1>2, <2>1
  <2> QED BY <1>2, <2>2, FlushedQuietly
<1>3. ASSUME NEW t \in Threads, Log!Flush(t) PROVE FlushedInv'
  <2>1. \A p \in FlushSteps : p.op = "flush" BY StepFields DEF FlushSteps
  <2>2. Turns(t, FlushSteps) BY <1>3, FlushTurns
  <2>3. Known /\ UNCHANGED <<tried, unflushed, broken, returned, flush_level>>
    BY <1>3, FlushTurns DEF Log!Flush, Known, Log!sinkVars
  <2> QED BY <1>2, <2>1, <2>2, <2>3
<1>4. ASSUME NEW t \in Threads, Log!DumpBacktrace(t) PROVE FlushedInv'
  <2> DEFINE P == SinkSteps(None) \cup {Log!Step("flush?", None, None), Log!Step("lock", None, None)}
  <2>1. \A p \in P : p.op # "return" BY StepFields DEF SinkSteps
  <2>2. Turns(t, P) BY <1>4, DumpTurns
  <2>3. Known /\ UNCHANGED <<tried, unflushed, broken, returned, flush_level>>
    BY <1>4, DumpTurns DEF Log!DumpBacktrace, Known, Log!sinkVars
  <2> HIDE DEF P
  <2> QED BY <1>2, <2>1, <2>2, <2>3
<1>5. ASSUME NEW t \in Threads, Log!Trace(t) \/ Log!DumpPops(t) PROVE FlushedInv'
  <2>1. PICK h \in Steps : h.op \in {"trace", "pop"} /\ Turns(t, Pending[t] \ {h})
    BY <1>5, OneTurns DEF Log!Trace, Log!DumpPops
  <2>2. Known /\ UNCHANGED <<tried, unflushed, broken, returned, flush_level>>
    BY <1>5 DEF Log!Trace, Log!DumpPops, Known, Log!callVars, Log!sinkVars
  <2> QED BY <1>2, <2>1, <2>2
<1>6. ASSUME NEW t \in Threads, Log!DumpBegins(t) \/ Log!DumpEach(t) PROVE FlushedInv'
  <2>1. \A s, m : Log!Step("sink", s, m).op = "sink" /\ Log!Step("flush?", s, m).op = "flush?"
                  /\ Log!Step("pop", s, m).op = "pop" /\ Log!Step("each", s, m).op = "each"
    BY StepFields
  <2>2. /\ \A p \in SinkSteps(None) \cup {Log!Step("flush?", None, None)} : p.op # "return"
        /\ \A p \in {Log!Step("each", None, None)} : p.op # "return"
        /\ \A m : \A p \in SinkSteps(m)
             \cup {Log!Step("flush?", None, m), Log!Step("pop", None, None), Log!Step("each", None, None)} :
             p.op # "return"
    BY <2>1 DEF SinkSteps
  <2>3. PICK P : Turns(t, P) /\ \A p \in P : p.op # "return"
    <3>1. CASE Log!DumpBegins(t) BY <2>2, <3>1, LockTurns
    <3>2. CASE Log!DumpEach(t) BY <2>2, <3>2, EachTurns
    <3> QED BY <1>6, <3>1, <3>2
  <2>4. Known /\ UNCHANGED <<tried, unflushed, broken, returned, flush_level>>
    BY <1>6 DEF Log!DumpBegins, Log!DumpEach, Known, Log!callVars, Log!sinkVars
  <2> QED BY <1>2, <2>3, <2>4
<1>7. ASSUME NEW t \in Threads, Log!Return(t) PROVE FlushedInv'
  <2>1. PICK h \in Steps : IsNext(t, h) /\ h.op = "return" /\ h = Head(todo[t]) /\ Turns(t, Pending[t] \ {h})
    BY <1>7, OneTurns DEF Log!Return
  <2>2. returned' = returned \cup {h.msg} /\ Known
          /\ UNCHANGED <<calls, levelOf, tried, unflushed, broken, flush_level>>
    BY <1>7, <2>1 DEF Log!Return, Known, Log!callVars, Log!sinkVars
  <2>3. Pending[t] = {h} BY <2>1, LastAlone
  <2>4. \A u \in Threads : \A p \in Pending'[u] : u # t /\ p \in Pending[u] /\ Pending'[u] = Pending[u]
    BY <2>1, <2>3, TurnsPending
  <2>5. ASSUME NEW u \in Threads, NEW p \in Pending'[u], p.op = "return", Severe(p.msg)'
    PROVE FlushComes(p.msg, Pending[u])'
    <3>1. p \in Pending[u] /\ p.msg \in 1 .. calls /\ Pending'[u] = Pending[u] BY <2>4, <2>5 DEF OwnedInv
    <3>2. FlushComes(p.msg, Pending[u]) BY <2>2, <2>5, <3>1, SevereKept DEF FlushedInv
    <3> QED BY <2>2, <3>1, <3>2 DEF FlushComes
  <2>6. Severe(h.msg) => \A s \in Log!SinkSet \ broken : tried[s][h.msg] = 1 => h.msg \notin unflushed[s]
    BY <2>1, <2>3 DEF FlushedInv, FlushComes
  <2>7. Log!SevereIsFlushed' BY <2>2, <2>6 DEF FlushedInv, Log!SevereIsFlushed, Severe
  <2> QED BY <2>2, <2>5, <2>7 DEF FlushedInv, FlushComes, Log!Messages
<1>8. ASSUME NEW t \in Threads, Log!FlushIfSevere(t) PROVE FlushedInv'
  <2>1. PICK h \in Steps : /\ IsNext(t, h) /\ h.op = "flush?"
          /\ Turns(t, (IF Log!ShouldFlush(h.msg) THEN FlushSteps ELSE {}) \cup (Pending[t] \ {h}))
    BY <1>8, SevereTurns
  <2>2. \A p \in FlushSteps : p.op = "flush" BY StepFields DEF FlushSteps
  <2>3. UNCHANGED <<levelOf, calls, tried, unflushed, broken, returned, flush_level>> /\ Known
    BY <1>8 DEF Log!FlushIfSevere, Log!callVars, Log!sinkVars, Known
  <2> DEFINE P == (IF Log!ShouldFlush(h.msg) THEN FlushSteps ELSE {}) \cup (Pending[t] \ {h})
  <2>4. \A u \in Threads : Pending'[u] = IF u = t THEN P ELSE Pending[u] BY <2>1, TurnsPending
  <2>5. \A p \in P : p.op = "return" => p \in Pending[t] BY <2>2
  <2>6. ASSUME NEW p \in Pending[t], p.op = "return", Severe(p.msg), NEW s \in Log!SinkSet
        PROVE  \E f \in P : f.op = "flush" /\ f.sink = s
    <3>1. h.msg = p.msg BY <2>1, <2>6 DEF IsNext, TodoInv, WellFormed
    <3>2. p.msg \in Log!Messages BY <2>6 DEF TodoInv, WellFormed
    <3>3. Log!ShouldFlush(h.msg) BY <2>6, <3>1, <3>2 DEF Log!ShouldFlush, Severe, Log!LevelOf
    <3>4. Log!Step("flush", s, None) \in P BY <3>3 DEF FlushSteps
    <3> QED BY <3>4, StepFields
  <2> HIDE DEF P
  <2>7. ASSUME NEW u \in Threads, NEW p \in Pending'[u], p.op = "return", Severe(p.msg)'
    PROVE FlushComes(p.msg, Pending[u])'
    <3>1. p \in Pending[u] /\ p.msg \in 1 .. calls BY <2>4, <2>5, <2>7 DEF OwnedInv
    <3>2. Severe(p.msg) BY <2>3, <2>7, <3>1, SevereKept
    <3>3. CASE u = t BY <2>4, <2>6, <2>7, <3>1, <3>2, <3>3 DEF FlushComes
    <3>4. CASE u # t
      <4>1. FlushComes(p.msg, Pending[u]) BY <2>7, <3>1, <3>2 DEF FlushedInv
      <4> QED BY <2>3, <2>4, <3>4, <4>1 DEF FlushComes
    <3> QED BY <3>3, <3>4
  <2>8. Log!SevereIsFlushed' BY <2>3 DEF FlushedInv, Log!SevereIsFlushed
  <2> QED BY <2>3, <2>7, <2>8 DEF FlushedInv, FlushComes, Log!Messages
<1>9. ASSUME NEW t \in Threads, Log!SinkFlush(t) PROVE FlushedInv'
  <2>1. PICK h \in Steps :
           /\ IsNext(t, h) /\ h.op = "flush" /\ h.sink \in Log!SinkSet
           /\ \/ /\ Turns(t, Pending[t] \ {h}) /\ UNCHANGED broken
                 /\ unflushed' = [unflushed EXCEPT ![h.sink] = {}]
              \/ /\ broken' = broken \cup {h.sink} /\ UNCHANGED unflushed
                 /\ Turns(t, Pending[t] \ {h}) \/ Turns(t, {})
    BY <1>9, SinkFlushTurns
  <2>2. UNCHANGED <<levelOf, calls, tried, returned, flush_level>> /\ Known
    BY <1>9 DEF Log!SinkFlush, Log!callVars, Known
  <2>3. /\ Log!SinkSet \ broken' \subseteq Log!SinkSet \ broken
        /\ \A s \in Log!SinkSet : unflushed'[s] \subseteq unflushed[s]
        /\ h.sink \in broken' \/ unflushed'[h.sink] = {}
    BY <2>1 DEF DataInv
  <2>4. PICK P \in {Pending[t] \ {h}, {}} : Turns(t, P) BY <2>1
  <2>5. \A u \in Threads : Pending'[u] = IF u = t THEN P ELSE Pending[u] BY <2>4, TurnsPending
  <2>6. ASSUME NEW u \in Threads, NEW p \in Pending'[u], p.op = "return", Severe(p.msg)'
    PROVE FlushComes(p.msg, Pending[u])'
    <3>1. p \in Pending[u] /\ p.msg \in 1 .. calls /\ Pending[u] \ {h} \subseteq Pending'[u]
      BY <2>4, <2>5, <2>6 DEF OwnedInv
    <3>2. FlushComes(p.msg, Pending[u]) BY <2>2, <2>6, <3>1, SevereKept DEF FlushedInv
    <3> SUFFICES ASSUME NEW s \in Log!SinkSet \ broken', tried[s][p.msg] = 1, p.msg \in unflushed'[s]
                 PROVE  \E f \in Pending'[u] : f.op = "flush?" \/ (f.op = "flush" /\ f.sink = s)
      BY <2>2 DEF FlushComes
    <3>3. s # h.sink /\ s \in Log!SinkSet \ broken /\ p.msg \in unflushed[s] BY <2>3
    <3>4. PICK f \in Pending[u] : f.op = "flush?" \/ (f.op = "flush" /\ f.sink = s) BY <3>2, <3>3 DEF FlushComes
    <3> QED BY <2>1, <3>1, <3>3, <3>4
  <2>7. Log!SevereIsFlushed' BY <2>2, <2>3 DEF FlushedInv, Log!SevereIsFlushed
  <2> QED BY <2>2, <2>6, <2>7 DEF FlushedInv, FlushComes, Log!Messages
<1>10. ASSUME NEW t \in Threads, Log!SinkLog(t) PROVE FlushedInv'
  <2>1. PICK h \in Steps, P \in SUBSET Pending[t] :
          /\ IsNext(t, h) /\ h.op = "sink" /\ h.sink \in Log!SinkSet /\ Turns(t, P) /\ P \in {Pending[t] \ {h}, {}}
          /\ \A s \in Log!SinkSet, m \in Log!Messages :
               tried'[s][m] = IF Log!ShouldLog(h.sink, h.msg) /\ s = h.sink /\ m = h.msg THEN tried[s][m] + 1
                 ELSE tried[s][m]
    BY <1>10, SinkGrows
  <2>2. UNCHANGED <<levelOf, calls, returned, flush_level, broken>> /\ Known
    BY <1>10 DEF Log!SinkLog, Log!callVars, Known
  <2>3. \A s \in Log!SinkSet, m \in Log!Messages : m \in unflushed'[s] =>
          m \in unflushed[s] \/ (Log!ShouldLog(h.sink, h.msg) /\ s = h.sink /\ m = h.msg)
    <3>1. h = Head(todo[t]) BY <2>1 DEF IsNext
    <3>2. \/ UNCHANGED unflushed
          \/ unflushed' = IF Log!ShouldLog(h.sink, h.msg) THEN [unflushed EXCEPT ![h.sink] = @ \cup {h.msg}]
               ELSE unflushed
      BY <1>10, <3>1 DEF Log!SinkLog
    <3> QED BY <2>1, <3>2 DEF DataInv
  <2>4. \A u \in Threads : Pending'[u] = IF u = t THEN P ELSE Pending[u] BY <2>1, TurnsPending
  <2>5. \A m \in 1 .. calls : m \in Log!Messages BY DEF DataInv, Log!Messages
  <2>6. \A s \in Log!SinkSet, m \in Log!Messages : tried[s][m] \in Nat BY DEF DataInv
  <2>7. ASSUME NEW u \in Threads, NEW p \in Pending'[u], p.op = "return", Severe(p.msg)'
    PROVE FlushComes(p.msg, Pending[u])'
    <3>1. p \in Pending[u] /\ p.msg \in 1 .. calls /\ Pending[u] \ {h} \subseteq Pending'[u]
      BY <2>1, <2>4, <2>7 DEF OwnedInv
    <3>2. FlushComes(p.msg, Pending[u]) BY <2>2, <2>7, <3>1, SevereKept DEF FlushedInv
    <3> SUFFICES ASSUME NEW s \in Log!SinkSet \ broken, tried'[s][p.msg] = 1, p.msg \in unflushed'[s]
                 PROVE  \E f \in Pending'[u] : f.op = "flush?" \/ (f.op = "flush" /\ f.sink = s)
      BY <2>2 DEF FlushComes
    <3>3. \E f \in Pending[u] : f.op = "flush?" \/ (f.op = "flush" /\ f.sink = s)
      <4>1. CASE Log!ShouldLog(h.sink, h.msg) /\ s = h.sink /\ p.msg = h.msg
        <5>1. tried'[s][p.msg] = tried[s][p.msg] + 1 /\ tried[s][p.msg] \in Nat BY <2>1, <2>5, <2>6, <3>1, <4>1
        <5>2. ~(tried[s][p.msg] > 0) BY <5>1
        <5>3. Enabled(p.msg) BY <2>7, <3>1 DEF OwnedInv
        <5>4. HasTried(p.msg, Pending[u]) BY <2>7, <3>1, <5>3 DEF ServedInv
        <5>5. Log!Step("sink", s, p.msg) \in Pending[u] BY <4>1, <5>2, <5>4 DEF HasTried
        <5>6. Log!Step("sink", s, p.msg).op = "sink" BY StepFields
        <5> QED BY <2>7, <3>1, <5>5, <5>6 DEF TodoInv, WellFormed
      <4>2. CASE ~(Log!ShouldLog(h.sink, h.msg) /\ s = h.sink /\ p.msg = h.msg)
        <5>1. tried[s][p.msg] = 1 BY <2>1, <2>5, <3>1, <4>2
        <5>2. p.msg \in unflushed[s] BY <2>3, <2>5, <3>1, <4>2
        <5> QED BY <3>2, <5>1, <5>2 DEF FlushComes
      <4> QED BY <4>1, <4>2
    <3> QED BY <2>1, <3>1, <3>3
  <2>8. Log!SevereIsFlushed'
    <3> SUFFICES ASSUME NEW m \in returned, NEW s \in Log!SinkSet \ broken, levelOf[m] >= flush_level,
                          levelOf[m] # MaxLevel,
                        tried'[s][m] = 1
                 PROVE  m \notin unflushed'[s]
      BY <2>2 DEF Log!SevereIsFlushed
    <3>1. m \in Log!Messages BY <2>5 DEF DataInv
    <3>2. CASE Log!ShouldLog(h.sink, h.msg) /\ s = h.sink /\ m = h.msg
      <4>1. tried'[s][m] = tried[s][m] + 1 /\ tried[s][m] > 0 /\ tried[s][m] \in Nat
        BY <2>1, <2>6, <3>1, <3>2 DEF ServedInv, Log!EverySinkTried
      <4> QED BY <4>1
    <3>3. CASE ~(Log!ShouldLog(h.sink, h.msg) /\ s = h.sink /\ m = h.msg)
      <4>1. tried[s][m] = 1 BY <2>1, <3>1, <3>3
      <4>2. m \notin unflushed[s] BY <4>1 DEF FlushedInv, Log!SevereIsFlushed
      <4> QED BY <2>3, <3>1, <3>3, <4>2
    <3> QED BY <3>2, <3>3
  <2>9. \A s \in Log!SinkSet, m \in Log!Messages : m > calls => tried'[s][m] = 0
    <3> SUFFICES ASSUME NEW s \in Log!SinkSet, NEW m \in Log!Messages, m > calls PROVE tried'[s][m] = 0 OBVIOUS
    <3>1. tried[s][m] = 0 BY DEF FlushedInv
    <3>2. m # h.msg
      <4>1. h \in Pending[t] /\ None \notin Log!Messages BY <2>1 DEF IsNext, Log!Messages
      <4>2. m = h.msg => h.msg \in 1 .. calls BY <2>1, <4>1, SinkKnown
      <4> QED BY <4>2 DEF DataInv, Log!Messages
    <3> QED BY <2>1, <3>1, <3>2
  <2> QED BY <2>2, <2>7, <2>8, <2>9 DEF FlushedInv, FlushComes, Log!Messages
<1>11. CASE UNCHANGED <<Log!callVars, Log!sinkVars, todo, returned>>
  <2>1. Known /\ UNCHANGED <<Pending, tried, unflushed, broken, returned, flush_level>>
    BY <1>11 DEF Log!callVars, Log!sinkVars, Known, Pending
  <2> QED BY <2>1, FlushedQuietly
<1> QED BY <1>1, <1>3, <1>4, <1>5, <1>6, <1>7, <1>8, <1>9, <1>10, <1>11
        DEF Log!Next, Log!Proceed, Log!EnableBacktrace, Log!DisableBacktrace, Log!vars

(* Without errors a sink is given a message by its call and by one dump:   *)
(* what a thread has left gives it no more, and it is in the backtrace     *)
(* once, until the dump that takes it out.                                 *)
OnceLeft(P) ==
  /\ \A p, e \in P : p.op = "sink" /\ e.op = "return" => tried[p.sink][p.msg] = 0
  /\ \A p \in P : p.op = "sink" /\ p.msg # None => tried[p.sink][p.msg] <= 1
  /\ \A p \in P : p.op = "trace" => \A s \in Log!SinkSet : tried[s][p.msg] <= 1

NoPop == \A t \in Threads : \A p \in Pending[t] : p.op # "pop"

OnceInRing(i) == i > 0 \/ NoPop => \A s \in Log!SinkSet : tried[s][Log!At(trace, i)] <= 1

RingDistinct == \A i, j \in 0 .. Log!Size(trace) - 1 : Log!At(trace, i) = Log!At(trace, j) => i = j

Once ==
  /\ \A s \in Log!SinkSet, m \in Log!Messages : tried[s][m] <= 2
  /\ \A t \in Threads : OnceLeft(Pending[t])
  /\ RingDistinct
  /\ \A i \in 0 .. Log!Size(trace) - 1 : OnceInRing(i)

OnceInv == errors = 0 => Once

(* A step that gives no sink anything and gives no new message to give.    *)
LEMMA OnceQuietly ==
  ASSUME OnceInv, NEW t \in Threads, NEW P, Turns(t, P), UNCHANGED <<tried, trace, errors>>,
         \A p \in P : p.op \in {"trace", "return"} \/ (p.op = "sink" /\ p.msg # None) => p \in Pending[t],
         \A p \in P : p.op = "sink" => p.msg # None \/ \A e \in P : e.op # "return",
         \A p : p.op = "pop" => (p \in P <=> p \in Pending[t])
  PROVE  OnceInv'
<1>1. \A u \in Threads : Pending'[u] = IF u = t THEN P ELSE Pending[u] BY TurnsPending
<1>2. SUFFICES ASSUME Once PROVE Once'
  BY DEF OnceInv
<1>3. (\A s \in Log!SinkSet, m \in Log!Messages : tried[s][m] <= 2)' BY <1>2 DEF Once, Log!Messages
<1>4. \A u \in Threads : OnceLeft(Pending[u])'
  <2>1. \A u \in Threads : OnceLeft(Pending[u]) BY <1>2 DEF Once
  <2> QED BY <1>1, <2>1 DEF OnceLeft
<1>5. NoPop' <=> NoPop BY <1>1 DEF NoPop
<1>6. RingDistinct' BY <1>2 DEF Once, RingDistinct
<1>7. (\A i \in 0 .. Log!Size(trace) - 1 : OnceInRing(i))'
  <2>1. \A i \in 0 .. Log!Size(trace) - 1 : OnceInRing(i) BY <1>2 DEF Once
  <2> QED BY <1>5, <2>1 DEF OnceInRing
<1> QED BY <1>3, <1>4, <1>6, <1>7 DEF Once

(* No two threads have one message to give to a sink.                      *)
LEMMA OneGives ==
  ASSUME LoggerConstants, TodoInv, DataInv, LockInv, OwnedInv,
         NEW t \in Threads, NEW h \in Pending[t], h.op = "sink", h.msg # None,
         NEW u \in Threads, NEW p \in Pending[u], p.op \in {"sink", "trace"}, p.msg = h.msg
  PROVE  u = t
<1>1. PICK e \in Pending[t] : e.op \in {"return", "pop"} BY DEF TodoInv, WellFormed
<1>2. \A v \in Threads : \A f, g \in Pending[v] : f.op = "sink" /\ g.op = "pop" => InRing(f.msg)
  <2> SUFFICES ASSUME NEW v \in Threads, NEW f \in Pending[v], NEW g \in Pending[v], f.op = "sink", g.op = "pop"
               PROVE  InRing(f.msg)
    OBVIOUS
  <2>1. Log!Size(trace) > 0 /\ Log!Size(trace) \in Nat /\ f.msg = Log!At(trace, 0) BY SizeIsNat DEF LockInv, OwnedInv
  <2>2. 0 \in 0 .. Log!Size(trace) - 1 BY <2>1
  <2> QED BY <2>1, <2>2 DEF InRing
<1>3. CASE p.op = "trace"
  <2>1. ~InRing(h.msg) BY <1>3 DEF OwnedInv
  <2>2. e.op = "return" BY <1>1, <1>2, <2>1
  <2>3. e.msg = h.msg BY <1>1, <2>2 DEF TodoInv, WellFormed
  <2> QED BY <1>1, <1>3, <2>2, <2>3 DEF OwnedInv
<1>4. CASE p.op = "sink"
  <2>1. PICK f \in Pending[u] : f.op \in {"return", "pop"} BY <1>4 DEF TodoInv, WellFormed
  <2>2. CASE e.op = "return" /\ f.op = "return"
    <3>1. e.msg = h.msg /\ f.msg = p.msg BY <1>1, <1>4, <2>1, <2>2 DEF TodoInv, WellFormed
    <3> QED BY <1>1, <2>1, <2>2, <3>1 DEF OwnedInv
  <2>3. CASE e.op = "pop" /\ f.op = "pop" BY <1>1, <2>1, <2>3 DEF LockInv
  <2>4. CASE e.op = "return" /\ f.op = "pop" BY <1>1, <1>2, <1>4, <2>1, <2>4 DEF OwnedInv
  <2>5. CASE e.op = "pop" /\ f.op = "return" BY <1>1, <1>2, <1>4, <2>1, <2>5 DEF OwnedInv
  <2> QED BY <1>1, <2>1, <2>2, <2>3, <2>4, <2>5
<1> QED BY <1>3, <1>4

LEMMA NextOnce ==
  ASSUME LoggerConstants, TodoInv, DataInv, LockInv, OwnedInv, FlushedInv, OnceInv, [Log!Next]_(Log!vars)
  PROVE  OnceInv'
<1> USE DEF LoggerConstants
<1>1. ASSUME NEW t \in Threads, NEW lvl \in Log!Levels, Log!Log(t, lvl) PROVE OnceInv'
  <2> PICK m \in Log!Messages : m = calls + 1 BY <1>1, LogTurns DEF DataInv, Log!Messages
  <2> DEFINE P == LoggedSteps(m, lvl >= level_, enabled)
  <2>1. UNCHANGED <<tried, trace, errors>> BY <1>1 DEF Log!Log, Log!sinkVars
  <2>2. Turns(t, P) /\ Pending[t] = {} BY <1>1, LogTurns DEF DataInv
  <2>3. \A s \in Log!SinkSet : tried[s][m] = 0
    <3>1. m > calls BY DEF DataInv
    <3> QED BY <3>1 DEF FlushedInv
  <2>4. \A p \in P : p.op # "pop" /\ (p.op \in {"sink", "trace"} => p.msg = m)
          /\ (p.op = "sink" => p.sink \in Log!SinkSet)
    BY StepFields DEF LoggedSteps, SinkSteps
  <2>5. \A u \in Threads : Pending'[u] = IF u = t THEN P ELSE Pending[u] BY <2>2, TurnsPending
  <2> HIDE DEF P
  <2> SUFFICES ASSUME Once PROVE Once' BY <2>1 DEF OnceInv
  <2>6. (\A s \in Log!SinkSet, n \in Log!Messages : tried[s][n] <= 2)' BY <2>1 DEF Once, Log!Messages
  <2>7. \A u \in Threads : OnceLeft(Pending[u])'
    <3>1. OnceLeft(Pending[t])'
      <4>1. \A p \in Pending'[t] : p.op = "sink" => tried'[p.sink][p.msg] = 0 BY <2>1, <2>3, <2>4, <2>5
      <4>2. \A p \in Pending'[t] : p.op = "trace" => \A s \in Log!SinkSet : tried'[s][p.msg] = 0
        BY <2>1, <2>3, <2>4, <2>5
      <4> QED BY <4>1, <4>2 DEF OnceLeft
    <3>2. ASSUME NEW u \in Threads, u # t PROVE OnceLeft(Pending[u])'
      BY <2>1, <2>5, <3>2 DEF Once, OnceLeft
    <3> QED BY <3>1, <3>2
  <2>8. NoPop' <=> NoPop BY <2>2, <2>4, <2>5 DEF NoPop
  <2>9. RingDistinct' BY <2>1 DEF Once, RingDistinct
  <2>10. (\A i \in 0 .. Log!Size(trace) - 1 : OnceInRing(i))' BY <2>1, <2>8 DEF Once, OnceInRing
  <2> QED BY <2>6, <2>7, <2>9, <2>10 DEF Once
<1>2. ASSUME NEW t \in Threads, Log!Flush(t) PROVE OnceInv'
  <2>1. \A p \in FlushSteps : p.op = "flush" BY StepFields DEF FlushSteps
  <2>2. Turns(t, FlushSteps) /\ Pending[t] = {} BY <1>2, FlushTurns
  <2>3. UNCHANGED <<tried, trace, errors>> BY <1>2 DEF Log!Flush, Log!sinkVars
  <2> QED BY <2>1, <2>2, <2>3, OnceQuietly
<1>3. ASSUME NEW t \in Threads, Log!DumpBacktrace(t) PROVE OnceInv'
  <2> DEFINE P == SinkSteps(None) \cup {Log!Step("flush?", None, None), Log!Step("lock", None, None)}
  <2>1. \A p \in P : p.op \in {"sink", "flush?", "lock"} /\ p.msg = None BY StepFields DEF SinkSteps
  <2>2. Turns(t, P) /\ Pending[t] = {} BY <1>3, DumpTurns
  <2>3. UNCHANGED <<tried, trace, errors>> BY <1>3 DEF Log!DumpBacktrace, Log!sinkVars
  <2> HIDE DEF P
  <2> QED BY <2>1, <2>2, <2>3, OnceQuietly
<1>4. ASSUME NEW t \in Threads, Log!SinkFlush(t) PROVE OnceInv'
  <2>1. CASE errors' = errors + 1 BY <2>1 DEF OnceInv, DataInv
  <2>2. CASE UNCHANGED errors
    <3>1. PICK h \in Steps : h.op = "flush" /\ Turns(t, Pending[t] \ {h})
      <4>1. errors' # errors + 1 BY <2>2 DEF DataInv
      <4> QED BY <1>4, <4>1, SinkFlushTurns
    <3>2. UNCHANGED <<tried, trace, errors>> BY <1>4, <2>2 DEF Log!SinkFlush
    <3>3. \A p \in Pending[t] \ {h} : p.op = "sink" => p.msg # None \/ \A e \in Pending[t] \ {h} : e.op # "return"
      BY DEF TodoInv, WellFormed, Log!Messages
    <3> QED BY <3>1, <3>2, <3>3, OnceQuietly
  <2> QED BY <1>4, <2>1, <2>2, SinkFlushTurns
<1>5. ASSUME NEW t \in Threads
  PROVE \A p \in Pending[t] : p.op = "sink" => p.msg # None \/ \A e \in Pending[t] : e.op # "return"
  BY DEF TodoInv, WellFormed, Log!Messages
<1>6. ASSUME NEW t \in Threads, Log!FlushIfSevere(t) PROVE OnceInv'
  <2>1. PICK h \in Steps : h.op = "flush?"
               /\ Turns(t, (IF Log!ShouldFlush(h.msg) THEN FlushSteps ELSE {}) \cup (Pending[t] \ {h}))
    BY <1>6, SevereTurns
  <2>2. \A p \in FlushSteps : p.op = "flush" BY StepFields DEF FlushSteps
  <2>3. UNCHANGED <<tried, trace, errors>> BY <1>6 DEF Log!FlushIfSevere, Log!sinkVars
  <2> DEFINE P == (IF Log!ShouldFlush(h.msg) THEN FlushSteps ELSE {}) \cup (Pending[t] \ {h})
  <2>4. \A p \in P : p.op # "flush" => p \in Pending[t] BY <2>2
  <2>5. \A p : p.op = "pop" => (p \in P <=> p \in Pending[t]) BY <2>1, <2>2
  <2>6. \A p \in P : p.op = "sink" => p.msg # None \/ \A e \in P : e.op # "return" BY <1>5, <2>4
  <2> HIDE DEF P
  <2>7. Turns(t, P) BY <2>1 DEF P
  <2> QED BY <2>3, <2>4, <2>5, <2>6, <2>7, OnceQuietly
<1>7. ASSUME NEW t \in Threads, Log!Return(t) PROVE OnceInv'
  <2>1. PICK h \in Steps : IsNext(t, h) /\ h.op = "return" /\ Turns(t, Pending[t] \ {h})
    BY <1>7, OneTurns DEF Log!Return
  <2>2. UNCHANGED <<tried, trace, errors>> BY <1>7 DEF Log!Return, Log!sinkVars
  <2>3. \A p \in Pending[t] \ {h} : p.op = "sink" => p.msg # None \/ \A e \in Pending[t] \ {h} : e.op # "return" BY <1>5
  <2> QED BY <2>1, <2>2, <2>3, OnceQuietly
<1>8. ASSUME NEW t \in Threads, Log!DumpBegins(t) PROVE OnceInv'
  <2>1. PICK h \in Steps : h.op = "lock" /\ Pending[t] = {h} /\ Turns(t, {Log!Step("each", None, None)})
    BY <1>8, LockTurns
  <2>2. Log!Step("each", None, None).op = "each" BY StepFields
  <2>3. UNCHANGED <<tried, trace, errors>> BY <1>8 DEF Log!DumpBegins, Log!sinkVars
  <2> QED BY <2>1, <2>2, <2>3, OnceQuietly
<1>9. ASSUME NEW t \in Threads, Log!DumpEach(t) PROVE OnceInv'
  <2>1. PICK h \in Steps : h.op = "each" /\ Pending[t] = {h} BY <1>9, EachTurns
  <2>2. UNCHANGED <<tried, trace, errors>> BY <1>9 DEF Log!DumpEach, Log!sinkVars
  <2>3. CASE Turns(t, SinkSteps(None) \cup {Log!Step("flush?", None, None)})
    <3> DEFINE P == SinkSteps(None) \cup {Log!Step("flush?", None, None)}
    <3>1. \A p \in P : p.op \in {"sink", "flush?"} /\ p.msg = None BY StepFields DEF SinkSteps
    <3>2. Turns(t, P) BY <2>3
    <3> HIDE DEF P
    <3> QED BY <2>1, <2>2, <3>1, <3>2, OnceQuietly
  <2>4. CASE /\ Log!At(trace, 0) \in 1 .. calls /\ 0 \in 0 .. Log!Size(trace) - 1
             /\ Turns(t, SinkSteps(Log!At(trace, 0)) \cup {Log!Step("flush?", None, Log!At(trace, 0)),
                                                       Log!Step("pop", None, None), Log!Step("each", None, None)})
    <3> DEFINE m == Log!At(trace, 0)
               P == SinkSteps(m) \cup {Log!Step("flush?", None, m), Log!Step("pop", None, None),
                    Log!Step("each", None, None)}
    <3>1. \A p \in P : p.op \in {"sink", "flush?", "pop", "each"}
            /\ (p.op = "sink" => p.msg = m /\ p.sink \in Log!SinkSet)
      BY StepFields DEF SinkSteps
    <3>2. Turns(t, P) BY <2>4
    <3>3. \A u \in Threads : Pending'[u] = IF u = t THEN P ELSE Pending[u] BY <3>2, TurnsPending
    <3>4. trace_lock = t BY <2>1 DEF LockInv
    <3>5. NoPop BY <2>1, <3>4 DEF NoPop, LockInv
    <3> SUFFICES ASSUME Once PROVE Once' BY <2>2 DEF OnceInv
    <3>6. \A i \in 0 .. Log!Size(trace) - 1 : \A s \in Log!SinkSet : tried[s][Log!At(trace, i)] <= 1
      BY <3>5 DEF Once, OnceInRing
    <3>7. \A s \in Log!SinkSet : tried[s][m] <= 1 BY <2>4, <3>6
    <3> HIDE DEF P, m
    <3>8. (\A s \in Log!SinkSet, n \in Log!Messages : tried[s][n] <= 2)' BY <2>2 DEF Once, Log!Messages
    <3>9. \A u \in Threads : OnceLeft(Pending[u])'
      <4>1. \A p \in P : p.op = "sink" => tried'[p.sink][p.msg] <= 1 BY <2>2, <3>1, <3>7
      <4>2. ASSUME NEW u \in Threads, u # t PROVE OnceLeft(Pending[u])'
        BY <2>2, <3>3, <4>2 DEF Once, OnceLeft
      <4>3. OnceLeft(Pending[t])' BY <3>1, <3>3, <4>1 DEF OnceLeft
      <4> QED BY <4>2, <4>3
    <3>10. RingDistinct' BY <2>2 DEF Once, RingDistinct
    <3>11. (\A i \in 0 .. Log!Size(trace) - 1 : OnceInRing(i))' BY <2>2, <3>6 DEF OnceInRing
    <3> QED BY <3>8, <3>9, <3>10, <3>11 DEF Once
  <2> QED BY <1>9, <2>3, <2>4, EachTurns
<1>10. ASSUME NEW t \in Threads, Log!DumpPops(t) PROVE OnceInv'
  <2>1. PICK h \in Steps : IsNext(t, h) /\ h.op = "pop" /\ Turns(t, Pending[t] \ {h})
    BY <1>10, OneTurns DEF Log!DumpPops
  <2>2. trace' = Log!PopFront(trace) /\ UNCHANGED <<tried, errors>> BY <1>10 DEF Log!DumpPops, Log!sinkVars
  <2>3. ~Log!Empty(trace) BY <2>1, SizeIsNat DEF IsNext, LockInv
  <2>4. /\ Log!Size(trace') = Log!Size(trace) - 1 /\ Log!Size(trace) \in Nat \ {0}
        /\ \A i \in 0 .. Log!Size(trace') - 1 : i + 1 \in 0 .. Log!Size(trace) - 1
             /\ Log!At(trace', i) = Log!At(trace, i + 1)
    BY <2>2, <2>3, TracePopped
  <2>5. \A u \in Threads : \A p \in Pending'[u] : p \in Pending[u] BY <2>1, TurnsPending
  <2> SUFFICES ASSUME Once PROVE Once' BY <2>2 DEF OnceInv
  <2>6. (\A s \in Log!SinkSet, n \in Log!Messages : tried[s][n] <= 2)' BY <2>2 DEF Once, Log!Messages
  <2>7. \A u \in Threads : OnceLeft(Pending[u])' BY <2>2, <2>5 DEF Once, OnceLeft
  <2>8. RingDistinct'
    <3> SUFFICES ASSUME NEW i \in 0 .. Log!Size(trace') - 1,
                          NEW j \in 0 .. Log!Size(trace') - 1, Log!At(trace', i) = Log!At(trace', j)
                 PROVE  i = j
      BY DEF RingDistinct
    <3>1. i + 1 = j + 1 BY <2>4 DEF Once, RingDistinct
    <3> QED BY <3>1
  <2>9. (\A i \in 0 .. Log!Size(trace) - 1 : OnceInRing(i))'
    <3> SUFFICES ASSUME NEW i \in 0 .. Log!Size(trace') - 1, NEW s \in Log!SinkSet
      PROVE tried'[s][Log!At(trace', i)] <= 1
      BY DEF OnceInRing
    <3>1. i + 1 \in 0 .. Log!Size(trace) - 1 /\ i + 1 > 0 /\ Log!At(trace', i) = Log!At(trace, i + 1) BY <2>4
    <3> QED BY <2>2, <3>1 DEF Once, OnceInRing
  <2> QED BY <2>6, <2>7, <2>8, <2>9 DEF Once
<1>11. ASSUME NEW t \in Threads, Log!Trace(t) PROVE OnceInv'
  <2>1. PICK h \in Steps : IsNext(t, h) /\ h.op = "trace" /\ h = Head(todo[t]) /\ Turns(t, Pending[t] \ {h})
    BY <1>11, OneTurns DEF Log!Trace
  <2>2. trace' = Log!PushBack(trace, h.msg) /\ trace_lock = None /\ UNCHANGED <<tried, errors>>
    BY <1>11, <2>1 DEF Log!Trace, Log!sinkVars
  <2>3. h \in Pending[t] /\ h.msg \in Log!Messages BY <2>1 DEF IsNext, TodoInv, WellFormed
  <2>4. NoPop BY <2>2 DEF NoPop, LockInv
  <2>5. \A u \in Threads : \A p \in Pending'[u] : p \in Pending[u] BY <2>1, TurnsPending
  <2> SUFFICES ASSUME Once PROVE Once' BY <2>2 DEF OnceInv
  <2>6. (\A s \in Log!SinkSet, n \in Log!Messages : tried[s][n] <= 2)' BY <2>2 DEF Once, Log!Messages
  <2>7. \A u \in Threads : OnceLeft(Pending[u])' BY <2>2, <2>5 DEF Once, OnceLeft
  <2>8. RingDistinct'
    <3>1. ~InRing(h.msg) BY <2>1, <2>3 DEF OwnedInv
    <3>2. \A i \in 0 .. Log!Size(trace) - 1 : Log!At(trace, i) # h.msg BY <3>1 DEF InRing
    <3>3. Log!Size(trace) \in Nat BY SizeIsNat
    <3> SUFFICES ASSUME NEW i \in 0 .. Log!Size(trace') - 1,
                          NEW j \in 0 .. Log!Size(trace') - 1, Log!At(trace', i) = Log!At(trace', j)
                 PROVE  i = j
      BY DEF RingDistinct
    <3>4. CASE UNCHANGED trace BY <3>4 DEF Once, RingDistinct
    <3>5. CASE /\ Log!Size(trace') = Log!Size(trace) + 1
               /\ \A k \in 0 .. Log!Size(trace) : Log!At(trace', k) = IF k = Log!Size(trace) THEN h.msg
                    ELSE Log!At(trace, k)
      <4>1. i \in 0 .. Log!Size(trace) /\ j \in 0 .. Log!Size(trace) BY <3>3, <3>5
      <4>2. \A k \in 0 .. Log!Size(trace) : k # Log!Size(trace) => k \in 0 .. Log!Size(trace) - 1 BY <3>3
      <4> QED BY <3>2, <3>5, <4>1, <4>2 DEF Once, RingDistinct
    <3>6. CASE /\ Log!Size(trace') = Log!Size(trace)
               /\ \A k \in 0 .. Log!Size(trace) - 1 : Log!At(trace', k) = IF k = Log!Size(trace) - 1 THEN h.msg
                    ELSE Log!At(trace, k + 1)
      <4>1. i \in 0 .. Log!Size(trace) - 1 /\ j \in 0 .. Log!Size(trace) - 1 BY <3>6
      <4>2. \A k \in 0 .. Log!Size(trace) - 1 : k # Log!Size(trace) - 1 => k + 1 \in 0 .. Log!Size(trace) - 1 BY <3>3
      <4>3. i = Log!Size(trace) - 1 <=> j = Log!Size(trace) - 1 BY <3>2, <3>6, <4>1, <4>2
      <4>4. CASE i # Log!Size(trace) - 1
        <5>1. i + 1 = j + 1 BY <3>6, <4>1, <4>2, <4>3, <4>4 DEF Once, RingDistinct
        <5> QED BY <5>1
      <4> QED BY <4>3, <4>4
    <3> QED BY <2>2, <2>3, <3>4, <3>5, <3>6, TracePushed
  <2>9. (\A i \in 0 .. Log!Size(trace) - 1 : OnceInRing(i))'
    <3> SUFFICES ASSUME NEW i \in 0 .. Log!Size(trace') - 1, NEW s \in Log!SinkSet
      PROVE tried'[s][Log!At(trace', i)] <= 1
      BY DEF OnceInRing
    <3>1. \A j \in 0 .. Log!Size(trace) - 1 : tried[s][Log!At(trace, j)] <= 1 BY <2>4 DEF Once, OnceInRing
    <3>2. tried[s][h.msg] <= 1 BY <2>1, <2>3 DEF Once, OnceLeft
    <3> QED BY <2>2, <2>3, <3>1, <3>2, TraceHas
  <2> QED BY <2>6, <2>7, <2>8, <2>9 DEF Once
<1>12. ASSUME NEW t \in Threads, Log!SinkLog(t) PROVE OnceInv'
  <2>1. CASE errors' = errors + 1 BY <2>1 DEF OnceInv, DataInv
  <2>2. CASE errors' # errors + 1
    <3>1. PICK h \in Steps : IsNext(t, h) /\ h.op = "sink" /\ h.sink \in Log!SinkSet /\ Turns(t, Pending[t] \ {h})
                 /\ UNCHANGED errors
      BY <1>12, <2>2, SinkTurns
    <3>2. UNCHANGED trace BY <1>12 DEF Log!SinkLog
    <3> DEFINE P == Pending[t] \ {h}
    <3>3. CASE UNCHANGED tried
      <4>1. \A p \in P : p.op = "sink" => p.msg # None \/ \A e \in P : e.op # "return" BY <1>5
      <4>2. \A p : p.op = "pop" => (p \in P <=> p \in Pending[t]) BY <3>1
      <4> QED BY <3>1, <3>2, <3>3, <4>1, <4>2, OnceQuietly
    <3>4. CASE h.msg # None /\ tried' = [tried EXCEPT ![h.sink][h.msg] = @ + 1]
      <4>1. h \in Pending[t] /\ h.msg \in 1 .. calls /\ h.msg \in Log!Messages
        <5>1. h \in Pending[t] BY <3>1 DEF IsNext
        <5>2. h.msg \in 1 .. calls BY <3>1, <3>4, <5>1, SinkKnown
        <5> QED BY <5>1, <5>2 DEF DataInv, Log!Messages
      <4>2. \A s \in Log!SinkSet, m \in Log!Messages :
              tried'[s][m] = IF s = h.sink /\ m = h.msg THEN tried[s][m] + 1 ELSE tried[s][m]
        BY <3>4 DEF DataInv
      <4>3. \A s \in Log!SinkSet, m \in Log!Messages : tried[s][m] \in Nat BY DEF DataInv
      <4>4. \A u \in Threads : Pending'[u] = IF u = t THEN P ELSE Pending[u] BY <3>1, TurnsPending
      <4>5. \A p \in P : p.op = "sink" => p.sink # h.sink BY <3>1, RankIsNat DEF IsNext, Before, RankOf
      <4>6. \A u \in Threads : \A p \in Pending'[u] : p.op \in {"sink", "trace"} /\ p.msg = h.msg => u = t
        BY <3>1, <3>4, <4>1, <4>4, OneGives
      <4> SUFFICES ASSUME Once PROVE Once' BY <3>1 DEF OnceInv
      <4>7. tried[h.sink][h.msg] <= 1 BY <3>1, <3>4, <4>1 DEF Once, OnceLeft
      <4>8. (\A s \in Log!SinkSet, m \in Log!Messages : tried[s][m] <= 2)'
        <5> SUFFICES ASSUME NEW s \in Log!SinkSet, NEW m \in Log!Messages PROVE tried'[s][m] <= 2 BY DEF Log!Messages
        <5>1. CASE s = h.sink /\ m = h.msg BY <4>2, <4>3, <4>7, <5>1
        <5>2. CASE ~(s = h.sink /\ m = h.msg) BY <4>2, <5>2 DEF Once
        <5> QED BY <5>1, <5>2
      <4>9. \A u \in Threads : \A p \in Pending'[u] : p \in Pending[u] /\ (p.op = "sink" => p.sink \in Log!SinkSet)
                                                      /\ (p.op = "trace" => p.msg \in Log!Messages)
                                                      /\ (p.op = "sink" => p.msg \in Log!Messages \cup {None})
        BY <4>4 DEF TodoInv, WellFormed, Steps
      <4> HIDE DEF P
      <4>10. \A u \in Threads : \A p \in Pending'[u] :
               p.op = "sink" /\ p.msg # None => tried'[p.sink][p.msg] = tried[p.sink][p.msg]
        <5> SUFFICES ASSUME NEW u \in Threads, NEW p \in Pending'[u], p.op = "sink", p.msg # None
                     PROVE  tried'[p.sink][p.msg] = tried[p.sink][p.msg]
          OBVIOUS
        <5>1. ~(p.sink = h.sink /\ p.msg = h.msg) BY <4>4, <4>5, <4>6
        <5> QED BY <4>2, <4>9, <5>1
      <4>11. \A u \in Threads : \A p \in Pending'[u] : p.op = "trace" => \A s \in Log!SinkSet : tried'[s][p.msg] <= 1
        <5> SUFFICES ASSUME NEW u \in Threads, NEW p \in Pending'[u], p.op = "trace", NEW s \in Log!SinkSet
                     PROVE  tried'[s][p.msg] <= 1
          OBVIOUS
        <5>1. p \in Pending[u] /\ p.msg \in Log!Messages /\ tried[s][p.msg] <= 1 BY <4>9 DEF Once, OnceLeft
        <5>2. CASE s = h.sink /\ p.msg = h.msg
          <6>1. u = t BY <4>6, <5>2
          <6>2. PICK e \in Pending[t] : e.op \in {"return", "pop"} BY <3>1, <3>4, <4>1 DEF TodoInv, WellFormed
          <6>3. e.op = "return"
            <7>1. CASE e.op = "pop"
              <8>1. Log!Size(trace) > 0 /\ Log!Size(trace) \in Nat /\ h.msg = Log!At(trace, 0)
                BY <3>1, <4>1, <6>2, <7>1, SizeIsNat DEF LockInv, OwnedInv
              <8>2. 0 \in 0 .. Log!Size(trace) - 1 BY <8>1
              <8>3. InRing(p.msg) BY <5>2, <8>1, <8>2 DEF InRing
              <8> QED BY <5>1, <8>3 DEF OwnedInv
            <7> QED BY <6>2, <7>1
          <6>4. tried[h.sink][h.msg] = 0 BY <3>1, <4>1, <6>2, <6>3 DEF Once, OnceLeft
          <6>5. tried'[s][p.msg] = tried[s][p.msg] + 1 BY <3>1, <4>1, <4>2, <5>2
          <6> QED BY <5>2, <6>4, <6>5
        <5>3. CASE ~(s = h.sink /\ p.msg = h.msg) BY <4>2, <5>1, <5>3
        <5> QED BY <5>2, <5>3
      <4>12. \A u \in Threads : OnceLeft(Pending[u])'
        <5>1. \A u \in Threads : \A p, e \in Pending'[u] : p.op = "sink" /\ e.op = "return" => p.msg # None
          BY <1>5, <4>9
        <5>2. \A u \in Threads : \A p, e \in Pending'[u] : p.op = "sink" /\ e.op = "return" => tried'[p.sink][p.msg] = 0
          BY <4>9, <4>10, <5>1 DEF Once, OnceLeft
        <5>3. \A u \in Threads : \A p \in Pending'[u] : p.op = "sink" /\ p.msg # None => tried'[p.sink][p.msg] <= 1
          BY <4>9, <4>10 DEF Once, OnceLeft
        <5> QED BY <4>11, <5>2, <5>3 DEF OnceLeft
      <4>13. RingDistinct' BY <3>2 DEF Once, RingDistinct
      <4>14. (\A i \in 0 .. Log!Size(trace) - 1 : OnceInRing(i))'
        <5> SUFFICES ASSUME NEW i \in 0 .. Log!Size(trace) - 1, i > 0 \/ NoPop', NEW s \in Log!SinkSet
                     PROVE  tried'[s][Log!At(trace, i)] <= 1
          BY <3>2 DEF OnceInRing
        <5>1. NoPop' => NoPop BY <3>1, <4>4 DEF NoPop, P
        <5>2. Log!At(trace, i) \in 1 .. calls /\ calls \in 0 .. MaxCalls BY DEF DataInv
        <5>3. OnceInRing(i) BY DEF Once
        <5>4. tried[s][Log!At(trace, i)] <= 1 /\ Log!At(trace, i) \in Log!Messages
          BY <5>1, <5>2, <5>3 DEF OnceInRing, Log!Messages
        <5>5. Log!At(trace, i) # h.msg
          <6> SUFFICES ASSUME Log!At(trace, i) = h.msg PROVE FALSE OBVIOUS
          <6>1. PICK e \in Pending[t] : e.op \in {"return", "pop"} BY <3>1, <3>4, <4>1 DEF TodoInv, WellFormed
          <6>2. InRing(h.msg) BY DEF InRing
          <6>3. e.op = "pop" BY <3>1, <4>1, <6>1, <6>2 DEF OwnedInv
          <6>4. h.msg = Log!At(trace, 0) /\ Log!Size(trace) > 0 /\ Log!Size(trace) \in Nat
            BY <3>1, <4>1, <6>1, <6>3, SizeIsNat DEF OwnedInv, LockInv
          <6>5. 0 \in 0 .. Log!Size(trace) - 1 BY <6>4
          <6>6. i = 0 BY <6>4, <6>5 DEF Once, RingDistinct
          <6>7. ~NoPop' BY <3>1, <4>4, <6>1, <6>3 DEF NoPop, P
          <6> QED BY <6>6, <6>7
        <5> QED BY <4>2, <5>4, <5>5
      <4> QED BY <4>8, <4>12, <4>13, <4>14 DEF Once
    <3> QED BY <1>12, <3>1, <3>3, <3>4 DEF Log!SinkLog, IsNext
  <2> QED BY <2>1, <2>2
<1>13. CASE Log!EnableBacktrace
  <2>1. trace' = Log!New(TraceSize, None) /\ UNCHANGED <<tried, errors, Pending>>
    BY <1>13 DEF Log!EnableBacktrace, Log!sinkVars, Pending
  <2>2. Log!Size(trace') = 0 BY <2>1, TraceNew
  <2> SUFFICES ASSUME Once PROVE Once' BY <2>1 DEF OnceInv
  <2> QED BY <2>1, <2>2 DEF Once, OnceLeft, RingDistinct, OnceInRing, Log!Messages
<1>14. CASE UNCHANGED <<Log!sinkVars, trace, todo>>
  <2>1. UNCHANGED <<tried, errors, Pending, trace>> BY <1>14 DEF Log!sinkVars, Pending
  <2> SUFFICES ASSUME Once PROVE Once' BY <2>1 DEF OnceInv
  <2>2. NoPop' <=> NoPop BY <2>1 DEF NoPop
  <2> QED BY <2>1, <2>2 DEF Once, OnceLeft, RingDistinct, OnceInRing, Log!Messages
<1> QED BY <1>1, <1>2, <1>3, <1>4, <1>6, <1>7, <1>8, <1>9, <1>10, <1>11, <1>12, <1>13, <1>14
        DEF Log!Next, Log!Proceed, Log!DisableBacktrace, Log!vars

LoggerInv == TodoInv /\ DataInv /\ LockInv /\ OwnedInv /\ ServedInv /\ FlushedInv /\ OnceInv

LEMMA LoggerBegins ==
  ASSUME LoggerConstants, Log!Init
  PROVE  LoggerInv
<1> USE DEF Log!Init, LoggerConstants
<1>1. \A t \in Threads : Pending[t] = {} BY NoSteps DEF Pending
<1>2. TodoInv BY <1>1, NoSteps DEF TodoInv, TodoOK, WellFormed
<1>3. Log!IsRing(trace, Log!Messages \cup {None}) /\ Log!Size(trace) = 0 BY DEF Log!Disabled, Log!IsRing, Log!Size
<1>4. \A s \in Log!SinkSet, m \in Log!Messages : tried[s][m] = 0 OBVIOUS
<1>5. DataInv BY <1>3 DEF DataInv
<1>6. LockInv BY <1>1 DEF LockInv
<1>7. OwnedInv BY <1>1 DEF OwnedInv
<1>8. ServedInv BY <1>1, <1>3 DEF ServedInv, Log!EverySinkTried
<1>9. FlushedInv BY <1>1, <1>4 DEF FlushedInv, Log!SevereIsFlushed
<1>10. OnceInv BY <1>1, <1>3, <1>4 DEF OnceInv, Once, OnceLeft, RingDistinct
<1> QED BY <1>2, <1>5, <1>6, <1>7, <1>8, <1>9, <1>10 DEF LoggerInv

LEMMA LoggerAsPromised ==
  ASSUME LoggerInv
  PROVE  Log!EverySinkTried /\ Log!SevereIsFlushed /\ Log!DumpedOnce /\ Log!LockGivenBack
<1>1. Log!LockGivenBack
  <2> SUFFICES ASSUME NEW t \in Threads, trace_lock = t, todo[t] = <<>> PROVE FALSE BY DEF Log!LockGivenBack
  <2>1. Pending[t] = {} BY NoSteps DEF Pending
  <2> QED BY <2>1 DEF LoggerInv, LockInv
<1>2. Log!DumpedOnce BY DEF LoggerInv, OnceInv, Once, Log!DumpedOnce
<1> QED BY <1>1, <1>2 DEF LoggerInv, ServedInv, FlushedInv

(* A logger serves every sink whatever the others do: a call that returned *)
(* has tried each sink that takes its message and flushed it if it was     *)
(* severe, a dump repeats a message at most once, and the lock of the      *)
(* backtrace is given back: for any threads, sinks, levels and errors.     *)
THEOREM SinksServed ==
  ASSUME LoggerConstants
  PROVE  Log!Spec => [](Log!EverySinkTried /\ Log!SevereIsFlushed /\ Log!DumpedOnce /\ Log!LockGivenBack)
<1>1. Log!Init => LoggerInv BY LoggerBegins
<1>2. LoggerInv /\ [Log!Next]_(Log!vars) => LoggerInv'
  <2> SUFFICES ASSUME LoggerInv, [Log!Next]_(Log!vars) PROVE LoggerInv' OBVIOUS
  <2>1. TodoInv' /\ LockInv' /\ OwnedInv' /\ DataInv' BY NextTodo, NextLock, NextOwned, NextData DEF LoggerInv
  <2>2. ServedInv' /\ FlushedInv' /\ OnceInv' BY NextServed, NextFlushed, NextOnce DEF LoggerInv
  <2> QED BY <2>1, <2>2 DEF LoggerInv
<1>3. LoggerInv => Log!EverySinkTried /\ Log!SevereIsFlushed /\ Log!DumpedOnce /\ Log!LockGivenBack BY LoggerAsPromised
<1> QED BY <1>1, <1>2, <1>3, PTL DEF Log!Spec

-----------------------------------------------------------------------------
(* The filter of repeated messages.                                        *)

FilterConstants == MaxTime \in Nat /\ MaxSkip \in Int

FilterInv ==
  /\ last_msg_time_ \in Nat /\ skip_counter_ \in Nat /\ skipped \in Nat
  /\ announced \in [Children -> Nat] /\ shown = [s \in Children |-> shown[s]]
  /\ witness \subseteq Children
  /\ \A s \in witness : (\A l \in MessageLevels : Filter!ShouldLog(s, l)) =>
       shown[s] = [payload |-> last_msg_payload_, time |-> last_msg_time_]

LEMMA FilterBegins ==
  ASSUME Filter!Init
  PROVE  FilterInv /\ filter_faults \in Nat
<1>1. announced \in [Children -> Nat] /\ shown = [s \in Children |-> shown[s]] BY DEF Filter!Init
<1>2. last_msg_time_ = 0 /\ skip_counter_ = 0 /\ skipped = 0 /\ witness = {} /\ filter_faults = 0 BY DEF Filter!Init
<1> QED BY <1>1, <1>2 DEF FilterInv

LEMMA NextFilter ==
  ASSUME FilterConstants, FilterInv, [Filter!Next]_(Filter!vars)
  PROVE  FilterInv'
<1> USE DEF FilterInv
<1>1. ASSUME NEW all, Filter!SetSinks(all) PROVE FilterInv'
  BY <1>1 DEF Filter!SetSinks, Filter!filter, Filter!written
<1>2. ASSUME NEW p \in Payloads, NEW time \in 0 .. MaxTime, NEW lvl \in MessageLevels, Filter!Log(p, time, lvl)
      PROVE  FilterInv'
  <2> DEFINE m == [payload |-> p, time |-> time]
  <2>1. CASE Filter!Skip(m) BY <2>1 DEF Filter!Skip, Filter!written
  <2>2. CASE Filter!Show(m, lvl)
    <3>1. announced' \in [Children -> Nat] BY <2>2 DEF Filter!Show, Filter!Notify
    <3>2. witness' = Filter!Among(sinks_, Len(sinks_)) /\ witness' \subseteq Children
      BY <2>2 DEF Filter!Show, Filter!Among
    <3>3. \A s \in witness' : Filter!ShouldLog(s, lvl) => shown'[s] = m
      BY <2>2, <3>2 DEF Filter!Show, Filter!Write, Filter!SinkIt
    <3>4. shown' = [s \in Children |-> shown'[s]] BY <2>2 DEF Filter!Show, Filter!Write
    <3>5. last_msg_time_' \in Nat /\ skip_counter_' \in Nat /\ skipped' \in Nat
          /\ m = [payload |-> last_msg_payload_', time |-> last_msg_time_']
      BY <2>2 DEF Filter!Show, FilterConstants, Filter!Counted
    <3> QED BY <3>1, <3>2, <3>3, <3>4, <3>5 DEF Filter!ShouldLog
  <2>3. CASE Filter!ShowThrows(m, lvl)
    <3>1. witness' = {} /\ UNCHANGED <<Filter!filter, skipped>> BY <2>3 DEF Filter!ShowThrows
    <3>2. announced' \in [Children -> Nat] BY <2>3 DEF Filter!ShowThrows, Filter!Notify
    <3>3. shown' = [s \in Children |-> shown'[s]] BY <2>3 DEF Filter!ShowThrows, Filter!Write
    <3> QED BY <3>1, <3>2, <3>3 DEF Filter!filter
  <2> QED BY <1>2, <2>1, <2>2, <2>3 DEF Filter!Log
<1>3. CASE UNCHANGED Filter!vars BY <1>3 DEF Filter!vars, Filter!filter, Filter!written
<1> QED BY <1>1, <1>2, <1>3 DEF Filter!Next, Filter!AddSink, Filter!RemoveSink

LEMMA StepCounts ==
  ASSUME FilterInv, [Filter!Next]_(Filter!vars), sinks_' = sinks_, filter_faults' = 0, filter_faults \in Nat,
         NEW s \in Filter!SinkIt(SkippedLevel, Len(sinks_))
  PROVE  announced'[s] + skip_counter_' - skipped' = announced[s] + skip_counter_ - skipped
<1> USE DEF FilterInv
<1>1. s \in Children BY DEF Filter!SinkIt, Filter!Among
<1>2. ASSUME NEW all, Filter!SetSinks(all) PROVE FALSE BY <1>2 DEF Filter!SetSinks
<1>3. ASSUME NEW p \in Payloads, NEW time \in 0 .. MaxTime, NEW lvl \in MessageLevels, Filter!Log(p, time, lvl)
      PROVE  announced'[s] + skip_counter_' - skipped' = announced[s] + skip_counter_ - skipped
  <2> DEFINE m == [payload |-> p, time |-> time]
  <2>1. CASE Filter!Skip(m) BY <1>1, <2>1 DEF Filter!Skip, Filter!written
  <2>2. CASE Filter!Show(m, lvl)
    <3>1. announced'[s] = announced[s] + skip_counter_ BY <1>1, <2>2 DEF Filter!Show, Filter!Notify
    <3> QED BY <1>1, <2>2, <3>1 DEF Filter!Show, Filter!Counted
  <2>3. CASE Filter!ShowThrows(m, lvl) BY <2>3 DEF Filter!ShowThrows
  <2> QED BY <1>3, <2>1, <2>2, <2>3 DEF Filter!Log
<1>4. CASE UNCHANGED Filter!vars BY <1>4 DEF Filter!vars, Filter!filter, Filter!written
<1> QED BY <1>2, <1>3, <1>4 DEF Filter!Next, Filter!AddSink, Filter!RemoveSink

LEMMA StepRepeats ==
  ASSUME FilterConstants, FilterInv, [Filter!Next]_(Filter!vars), skipped' > skipped,
         NEW s \in witness, \A l \in MessageLevels : Filter!ShouldLog(s, l)
  PROVE  shown[s].payload = given'.payload /\ given'.time - shown[s].time <= MaxSkip
<1> USE DEF FilterInv
<1>1. ASSUME NEW all, Filter!SetSinks(all) PROVE FALSE BY <1>1 DEF Filter!SetSinks
<1>2. ASSUME NEW p \in Payloads, NEW time \in 0 .. MaxTime, NEW lvl \in MessageLevels, Filter!Log(p, time, lvl)
      PROVE  shown[s].payload = given'.payload /\ given'.time - shown[s].time <= MaxSkip
  <2> DEFINE m == [payload |-> p, time |-> time]
  <2>1. Filter!Skip(m) /\ given' = m BY <1>2 DEF Filter!Log, Filter!Show, Filter!ShowThrows
  <2>2. m.payload = last_msg_payload_ /\ ~(m.time - last_msg_time_ > MaxSkip) BY <2>1 DEF Filter!Skip, Filter!Filter
  <2>3. shown[s] = [payload |-> last_msg_payload_, time |-> last_msg_time_] OBVIOUS
  <2>4. m.time \in Nat BY DEF FilterConstants
  <2> QED BY <2>1, <2>2, <2>3, <2>4 DEF FilterConstants
<1>3. CASE UNCHANGED Filter!vars BY <1>3 DEF Filter!vars
<1> QED BY <1>1, <1>2, <1>3 DEF Filter!Next, Filter!AddSink, Filter!RemoveSink

LEMMA FaultsCounted ==
  ASSUME filter_faults \in Nat, [Filter!Next]_(Filter!vars)
  PROVE  filter_faults' \in Nat
<1>1. filter_faults' \in {filter_faults, filter_faults + 1}
  <2>1. ASSUME NEW all, Filter!SetSinks(all) PROVE UNCHANGED filter_faults BY <2>1 DEF Filter!SetSinks
  <2>2. ASSUME NEW m, NEW lvl, Filter!Skip(m) \/ Filter!Show(m, lvl) \/ Filter!ShowThrows(m, lvl)
    PROVE filter_faults' \in {filter_faults, filter_faults + 1}
    BY <2>2 DEF Filter!Skip, Filter!Show, Filter!ShowThrows
  <2> QED BY <2>1, <2>2 DEF Filter!Next, Filter!AddSink, Filter!RemoveSink, Filter!Log, Filter!vars
<1> QED BY <1>1

(* For any children, levels, payloads and times.                           *)
THEOREM RepeatsAreCounted ==
  ASSUME FilterConstants
  PROVE  Filter!Spec => Filter!SkippedCounted /\ Filter!RepeatsAreShown
<1>1. Filter!Init => FilterInv /\ filter_faults \in Nat BY FilterBegins
<1>2. FilterInv /\ filter_faults \in Nat /\ [Filter!Next]_(Filter!vars) => (FilterInv /\ filter_faults \in Nat)'
  BY NextFilter, FaultsCounted
<1>3. FilterInv /\ filter_faults \in Nat /\ [Filter!Next]_(Filter!vars) =>
        [sinks_' = sinks_ /\ filter_faults' = 0 =>
           \A s \in Filter!SinkIt(SkippedLevel, Len(sinks_)) :
             announced'[s] + skip_counter_' - skipped' = announced[s] + skip_counter_ - skipped]_(Filter!vars)
  BY StepCounts
<1>4. FilterInv /\ [Filter!Next]_(Filter!vars) =>
        [skipped' > skipped =>
           \A s \in witness : (\A l \in MessageLevels : Filter!ShouldLog(s, l)) =>
             /\ shown[s].payload = given'.payload
             /\ given'.time - shown[s].time <= MaxSkip]_(Filter!vars)
  BY StepRepeats
<1> QED BY <1>1, <1>2, <1>3, <1>4, PTL DEF Filter!Spec, Filter!SkippedCounted, Filter!RepeatsAreShown

-----------------------------------------------------------------------------
(* The registry.  The loggers that the settings are promised to are in its *)
(* map.                                                                    *)

(* Loggers have names, the first is one of them, and None is nobody.       *)
RegistryConstants ==
  /\ NameOf \in [Loggers -> Names]
  /\ First \in Loggers
  /\ None \notin Loggers \cup RegistryThreads \cup RegistryFlushers
  /\ Tables \subseteq [Names -> ConfigLevels \cup {None}]

MapInv ==
  /\ DOMAIN loggers_ = Names /\ DOMAIN setting = Loggers /\ DOMAIN level = Loggers
  /\ default_ \in Loggers \cup {None}
  /\ tracked \subseteq Registry!Registered
  /\ Registry!RegistryAgrees

LEMMA InitMapInv == ASSUME RegistryConstants, Registry!Init PROVE MapInv
<1>1. /\ DOMAIN loggers_ = Names /\ DOMAIN setting = Loggers /\ DOMAIN level = Loggers
      /\ default_ = First /\ First \in Loggers /\ NameOf[First] \in Names /\ First # None
  BY DEF Registry!Init, RegistryConstants
<1>2. loggers_[NameOf[First]] = First /\ tracked = {First}
  BY <1>1 DEF Registry!Init
<1>3. setting[First] = setting_ /\ level[First] = global_level /\ log_levels_[NameOf[First]] = None
  BY <1>1 DEF Registry!Init
<1> QED
  BY <1>1, <1>2, <1>3
  DEF MapInv, Registry!Registered, Registry!RegistryAgrees, Registry!DefaultIsRegistered,
      Registry!SettingsReachAll, Registry!LevelsAsConfigured, Registry!Default

(* Methods that leave the settings alone and drop loggers from tracked     *)
(* when they drop them from the map.                                       *)
LEMMA Unconfigured ==
  ASSUME MapInv, UNCHANGED <<Registry!levelVars, Registry!settingVars>>, DOMAIN loggers_' = Names,
         default_' \in Loggers \cup {None}, Registry!DefaultIsRegistered',
         tracked' \subseteq tracked, tracked' \subseteq Registry!RegisteredAfter
  PROVE  MapInv'
BY DEF MapInv, Registry!levelVars, Registry!settingVars, Registry!Registered, Registry!RegisteredAfter,
       Registry!RegistryAgrees, Registry!SettingsReachAll, Registry!LevelsAsConfigured

LEMMA InitializeAgrees ==
  ASSUME RegistryConstants, MapInv, NEW l \in Loggers, Registry!Initialize(l) PROVE MapInv'
<1> USE DEF MapInv, Registry!RegistryAgrees
<1>1. /\ l \notin Registry!Registered /\ l \notin tracked /\ NameOf[l] \in Names /\ l # None
      /\ UNCHANGED <<default_, log_levels_, global_level, uniform, setting_>>
      /\ setting' = [setting EXCEPT ![l] = setting_]
      /\ level' = [level EXCEPT ![l] = Registry!LevelOfNew(l)]
  BY DEF Registry!Initialize, RegistryConstants
<1>2. \A m \in Loggers : m # l => setting'[m] = setting[m] /\ level'[m] = level[m]
  BY <1>1
<1>3. setting'[l] = setting_ /\ level'[l] = Registry!LevelOfNew(l)
  BY <1>1
<1>4. CASE /\ loggers_[NameOf[l]] = None /\ loggers_' = [loggers_ EXCEPT ![NameOf[l]] = l]
           /\ tracked' = tracked \cup {l}
  <2>1. \A m \in Registry!Registered : loggers_'[NameOf[m]] = m
    BY <1>1, <1>4 DEF Registry!Registered, RegistryConstants
  <2>2. loggers_'[NameOf[l]] = l
    BY <1>1, <1>4
  <2>3. tracked' \subseteq Registry!Registered'
    BY <2>1, <2>2, <1>4 DEF Registry!Registered
  <2>4. Registry!DefaultIsRegistered'
    BY <1>1, <2>1 DEF Registry!DefaultIsRegistered, Registry!Default, Registry!Registered
  <2>5. Registry!SettingsReachAll'
    BY <1>1, <1>2, <1>3, <1>4 DEF Registry!SettingsReachAll, Registry!Registered
  <2>6. Registry!LevelsAsConfigured'
    BY <1>1, <1>2, <1>3, <1>4 DEF Registry!LevelsAsConfigured, Registry!LevelOfNew, Registry!Registered
  <2> QED BY <1>1, <1>4, <2>3, <2>4, <2>5, <2>6
<1>5. CASE UNCHANGED <<loggers_, tracked>>
  <2>1. tracked' \subseteq Registry!Registered' BY <1>5 DEF Registry!Registered
  <2>2. Registry!DefaultIsRegistered' BY <1>1, <1>5 DEF Registry!DefaultIsRegistered, Registry!Default
  <2>3. Registry!SettingsReachAll' BY <1>1, <1>2, <1>5 DEF Registry!SettingsReachAll, Registry!Registered
  <2>4. Registry!LevelsAsConfigured' BY <1>1, <1>2, <1>5 DEF Registry!LevelsAsConfigured, Registry!Registered
  <2> QED BY <1>1, <1>5, <2>1, <2>2, <2>3, <2>4
<1> QED BY <1>4, <1>5 DEF Registry!Initialize

LEMMA RegisterAgrees ==
  ASSUME RegistryConstants, MapInv, NEW l \in Loggers, Registry!Register(l) PROVE MapInv'
<1> USE DEF MapInv, Registry!RegistryAgrees
<1>1. /\ loggers_[NameOf[l]] = None /\ loggers_' = [loggers_ EXCEPT ![NameOf[l]] = l]
      /\ UNCHANGED <<default_, tracked, Registry!levelVars, Registry!settingVars>>
  BY DEF Registry!Register
<1>2. \A m \in Registry!Registered : loggers_'[NameOf[m]] = m
  BY <1>1 DEF Registry!Registered, RegistryConstants
<1>3. tracked' \subseteq Registry!RegisteredAfter
  BY <1>1, <1>2 DEF Registry!RegisteredAfter, Registry!Registered
<1>4. Registry!DefaultIsRegistered'
  BY <1>1, <1>2 DEF Registry!DefaultIsRegistered, Registry!Default, Registry!Registered
<1> QED BY <1>1, <1>3, <1>4, Unconfigured

LEMMA SetDefaultAgrees ==
  ASSUME RegistryConstants, MapInv, NEW l \in Loggers \cup {None}, Registry!SetDefault(l) PROVE MapInv'
<1> USE DEF MapInv, Registry!RegistryAgrees
<1>1. /\ DOMAIN loggers_' = Names /\ default_' = l /\ UNCHANGED <<Registry!levelVars, Registry!settingVars>>
      /\ tracked' \subseteq tracked /\ tracked' \subseteq Registry!RegisteredAfter
  BY DEF Registry!SetDefault, Registry!Forget
<1>2. ASSUME l # None PROVE loggers_'[NameOf[l]] = l
  BY <1>2 DEF Registry!SetDefault, RegistryConstants
<1>3. Registry!DefaultIsRegistered'
  BY <1>1, <1>2 DEF Registry!DefaultIsRegistered, Registry!Default
<1> QED BY <1>1, <1>3, Unconfigured

LEMMA DropAgrees ==
  ASSUME RegistryConstants, MapInv, NEW n \in Names, Registry!Drop(n) PROVE MapInv'
<1> USE DEF MapInv, Registry!RegistryAgrees
<1>1. /\ loggers_' = [loggers_ EXCEPT ![n] = None] /\ UNCHANGED <<Registry!levelVars, Registry!settingVars>>
      /\ default_' = (IF \E d \in Registry!Default : NameOf[d] = n THEN None ELSE default_)
      /\ tracked' \subseteq tracked /\ tracked' \subseteq Registry!RegisteredAfter
  BY DEF Registry!Drop, Registry!DropDefault, Registry!Forget
<1>2. Registry!DefaultIsRegistered'
  BY <1>1 DEF Registry!DefaultIsRegistered, Registry!Default, RegistryConstants
<1> QED BY <1>1, <1>2, Unconfigured

LEMMA EmptyAgrees ==
  ASSUME MapInv, Registry!Empty, UNCHANGED <<Registry!levelVars, Registry!settingVars>> PROVE MapInv'
<1> USE DEF MapInv, Registry!RegistryAgrees
<1>1. /\ DOMAIN loggers_' = Names /\ default_' = None
      /\ tracked' \subseteq tracked /\ tracked' \subseteq Registry!RegisteredAfter
  BY DEF Registry!Empty, Registry!Forget
<1>2. Registry!DefaultIsRegistered'
  BY <1>1 DEF Registry!DefaultIsRegistered, Registry!Default
<1> QED BY <1>1, <1>2, Unconfigured

(* What the three methods that configure all loggers do to those in the    *)
(* map.                                                                    *)
LEMMA SettingAgrees ==
  ASSUME MapInv, NEW v, Registry!SetSetting(v) PROVE MapInv'
<1> USE DEF MapInv, Registry!RegistryAgrees
<1>1. /\ UNCHANGED <<Registry!mapVars, Registry!levelVars>> /\ setting_' = v /\ DOMAIN setting' = Loggers
      /\ \A l \in Registry!Registered : setting'[l] = v
  BY DEF Registry!SetSetting, Registry!Reconfigure, Registry!Registered
<1>2. Registry!SettingsReachAll'
  BY <1>1 DEF Registry!SettingsReachAll, Registry!mapVars
<1> QED
  BY <1>1, <1>2 DEF Registry!mapVars, Registry!levelVars, Registry!Registered, Registry!DefaultIsRegistered,
                    Registry!Default, Registry!LevelsAsConfigured

LEMMA LevelAgrees ==
  ASSUME RegistryConstants, MapInv, NEW v, Registry!SetLevel(v) PROVE MapInv'
<1> USE DEF MapInv, Registry!RegistryAgrees
<1>1. /\ UNCHANGED <<Registry!mapVars, log_levels_, Registry!settingVars>> /\ global_level' = v /\ DOMAIN level' = Loggers
      /\ \A l \in Registry!Registered : level'[l] = v
      /\ uniform' = (\A n \in Names : log_levels_[n] = None)
  BY DEF Registry!SetLevel, Registry!Registered
<1>2. Registry!LevelsAsConfigured'
  BY <1>1 DEF Registry!LevelsAsConfigured, Registry!mapVars, RegistryConstants, Registry!Registered
<1> QED
  BY <1>1, <1>2 DEF Registry!mapVars, Registry!settingVars, Registry!Registered, Registry!DefaultIsRegistered,
                    Registry!Default, Registry!SettingsReachAll

LEMMA LevelsAgree ==
  ASSUME RegistryConstants, MapInv, NEW table \in Tables, NEW g \in ConfigLevels \cup {None}, Registry!SetLevels(table, g)
  PROVE  MapInv'
<1> USE DEF MapInv, Registry!RegistryAgrees
<1>1. /\ UNCHANGED <<Registry!mapVars, Registry!settingVars>> /\ log_levels_' = table
      /\ global_level' = (IF g # None THEN g ELSE global_level)
      /\ DOMAIN level' = Loggers
      /\ uniform' = (g # None \/ (uniform /\ \A n \in Names : log_levels_[n] # None => table[n] # None))
  BY DEF Registry!SetLevels
<1>2. ASSUME uniform', NEW l \in tracked
      PROVE  \/ table[NameOf[l]] # None /\ level'[l] = table[NameOf[l]]
             \/ table[NameOf[l]] = None /\ level'[l] = global_level'
  <2>1. l \in Registry!Registered /\ l \in Loggers /\ NameOf[l] \in Names
    BY DEF Registry!Registered, RegistryConstants
  <2>2. level'[l] = IF table[NameOf[l]] # None THEN table[NameOf[l]] ELSE IF g # None THEN g ELSE level[l]
    BY <2>1 DEF Registry!SetLevels
  <2>3. CASE table[NameOf[l]] # None \/ g # None
    BY <2>2, <2>3, <1>1
  <2>4. CASE table[NameOf[l]] = None /\ g = None
    <3>1. uniform /\ log_levels_[NameOf[l]] = None
      BY <1>1, <1>2, <2>1, <2>4
    <3>2. level[l] = global_level
      BY <3>1 DEF Registry!LevelsAsConfigured
    <3> QED BY <3>2, <2>2, <2>4, <1>1
  <2> QED BY <2>3, <2>4
<1>3. Registry!LevelsAsConfigured'
  BY <1>1, <1>2 DEF Registry!LevelsAsConfigured, Registry!mapVars
<1> QED
  BY <1>1, <1>3 DEF Registry!mapVars, Registry!settingVars, Registry!Registered, Registry!DefaultIsRegistered,
                    Registry!Default, Registry!SettingsReachAll

(* The default logger is the one its name finds, and no change of a        *)
(* setting or a level misses a logger, whatever is registered, dropped and *)
(* configured by however many threads.                                     *)
THEOREM RegistryAlwaysAgrees == ASSUME RegistryConstants PROVE Registry!Spec => []Registry!RegistryAgrees
<1>1. Registry!Init => MapInv BY InitMapInv
<1>2. MapInv /\ [Registry!Next]_(Registry!vars) => MapInv'
  <2> SUFFICES ASSUME MapInv, [Registry!Next]_(Registry!vars) PROVE MapInv' OBVIOUS
  <2>1. CASE UNCHANGED <<Registry!mapVars, Registry!levelVars, Registry!settingVars>>
    BY <2>1 DEF MapInv, Registry!mapVars, Registry!levelVars, Registry!settingVars, Registry!Registered,
                Registry!RegistryAgrees, Registry!DefaultIsRegistered,
                Registry!Default, Registry!SettingsReachAll, Registry!LevelsAsConfigured
  <2>2. CASE Registry!Configure
    <3>1. ASSUME NEW l \in Loggers, Registry!Initialize(l) PROVE MapInv' BY <3>1, InitializeAgrees
    <3>2. ASSUME NEW l \in Loggers, Registry!Register(l) PROVE MapInv' BY <3>2, RegisterAgrees
    <3>3. ASSUME NEW l \in Loggers, Registry!Log(l) PROVE MapInv'
      BY <3>3, <2>1 DEF Registry!Log, Registry!mapVars, Registry!levelVars, Registry!settingVars
    <3>4. ASSUME NEW l \in Loggers \cup {None}, Registry!SetDefault(l) PROVE MapInv' BY <3>4, SetDefaultAgrees
    <3>5. ASSUME NEW n \in Names, Registry!Drop(n) PROVE MapInv' BY <3>5, DropAgrees
    <3>6. ASSUME Registry!DropAll PROVE MapInv' BY <3>6, EmptyAgrees DEF Registry!DropAll
    <3>7. ASSUME NEW v \in Settings, Registry!SetSetting(v) PROVE MapInv' BY <3>7, SettingAgrees
    <3>8. ASSUME NEW v \in ConfigLevels, Registry!SetLevel(v) PROVE MapInv' BY <3>8, LevelAgrees
    <3>9. ASSUME NEW table \in Tables, NEW g \in ConfigLevels \cup {None}, Registry!SetLevels(table, g) PROVE MapInv'
      BY <3>9, LevelsAgree
    <3>10. ASSUME NEW b \in BOOLEAN, Registry!SetAutomatic(b) PROVE MapInv'
      BY <3>10 DEF Registry!SetAutomatic, MapInv, Registry!mapVars, Registry!levelVars, Registry!Registered,
                   Registry!RegistryAgrees, Registry!DefaultIsRegistered,
                   Registry!Default, Registry!SettingsReachAll, Registry!LevelsAsConfigured
    <3> QED BY <2>2, <3>1, <3>2, <3>3, <3>4, <3>5, <3>6, <3>7, <3>8, <3>9, <3>10 DEF Registry!Configure
  <2>3. ASSUME NEW t \in RegistryThreads, Registry!ThreadStep(t) PROVE MapInv'
    <3>1. ASSUME Registry!ShutdownDrops(t) PROVE MapInv' BY <3>1, EmptyAgrees DEF Registry!ShutdownDrops,
    Registry!Rest
    <3>2. ASSUME Registry!StopWorker(t) \/ Registry!Join(t) PROVE MapInv' BY <3>2,
    <2>1 DEF Registry!StopWorker, Registry!Join, Registry!Rest
    <3> QED BY <2>3, <3>1, <3>2 DEF Registry!ThreadStep
  <2>4. ASSUME NEW t \in RegistryThreads, Registry!FlushNever(t) \/ Registry!Shutdown(t) \/ \E f \in RegistryFlushers : Registry!FlushEvery(t, f)
        PROVE  MapInv'
    BY <2>4, <2>1 DEF Registry!FlushNever, Registry!Shutdown, Registry!FlushEvery, Registry!Replace,
                      Registry!Rest
  <2>5. ASSUME NEW f \in RegistryFlushers, Registry!FlusherStep(f) PROVE MapInv'
    BY <2>5, <2>1 DEF Registry!FlusherStep, Registry!Wake, Registry!BeginFlush, Registry!EndFlush, Registry!Rest
  <2>6. CASE UNCHANGED Registry!vars BY <2>1, <2>6 DEF Registry!vars
  <2> QED BY <2>2, <2>3, <2>4, <2>5, <2>6 DEF Registry!Next
<1>3. MapInv => Registry!RegistryAgrees BY DEF MapInv
<1> QED BY <1>1, <1>2, <1>3, PTL DEF Registry!Spec

-----------------------------------------------------------------------------
(* What a formatter remembers of the time.                                 *)

(* Time begins after the second 0 and the first refresh, as it does for a  *)
(* clock that counts from 1970.                                            *)
ClockConstants ==
  /\ PerSecond \in Nat \ {0} /\ Refresh \in Nat \ {0}
  /\ ClockStart \in Nat /\ ClockStop \in Nat /\ OffsetChange \in Int
  /\ PerSecond <= ClockStart /\ Refresh * PerSecond <= ClockStart
  /\ Lag \in Nat /\ MaxBack \in Nat
  /\ None \notin Int

TimeAt(s) == <<s, Clock!OffsetAt(s * PerSecond)>>

(* What is cached is what local time is in the second it is cached for.    *)
DatesCached ==
  /\ need_localtime_ = (pattern_ \cap Clock!TimeFlags # {})
  /\ cached_tm_ = TimeAt(last_log_secs_) \/ (cached_tm_ = None /\ last_log_secs_ = 0)
  /\ cached_datetime_ = TimeAt(cache_timestamp_) \/ (cached_datetime_ = None /\ cache_timestamp_ = 0)

(* The offset is that of the moment it was read at, which the clock may    *)
(* have been set back from once.                                           *)
OffsetCached ==
  \/ last_update_ = 0
  \/ /\ last_update_ \in ClockStart .. ClockStop /\ last_update_ <= now + MaxBack
     /\ offset_minutes_ = Clock!OffsetAt(Clock!Secs(last_update_) * PerSecond)

ClockInv == now \in Int /\ DatesCached /\ OffsetCached /\ Clock!DateIsRight /\ Clock!OffsetIsFresh

LEMMA SecondsPass ==
  ASSUME ClockConstants, NEW t \in ClockStart .. ClockStop
  PROVE  Clock!Secs(t) \in Int /\ Clock!Secs(t) # 0 /\ Clock!LocalTime(t) = TimeAt(Clock!Secs(t)) /\ t \in Int
<1>1. t \in Nat /\ PerSecond \in Nat \ {0} /\ t >= PerSecond BY DEF ClockConstants
<1>2. t \div PerSecond \in Int BY <1>1
<1>3. t \div PerSecond # 0
  <2>1. t = PerSecond * (t \div PerSecond) + (t % PerSecond) /\ t % PerSecond < PerSecond BY <1>1
  <2> QED BY <1>1, <2>1
<1> QED BY <1>1, <1>2, <1>3 DEF Clock!Secs, Clock!LocalTime, TimeAt

LEMMA ClockBegins == ASSUME ClockConstants, Clock!Init PROVE ClockInv
<1>1. now \in Int BY DEF ClockConstants, Clock!Init
<1>2. DatesCached BY DEF Clock!Init, DatesCached, Clock!TimeFlags
<1>3. OffsetCached /\ Clock!DateIsRight /\ Clock!OffsetIsFresh BY DEF Clock!Init, OffsetCached,
Clock!DateIsRight, Clock!OffsetIsFresh, Clock!Nothing
<1> QED BY <1>1, <1>2, <1>3 DEF ClockInv

LEMMA NewPattern ==
  ASSUME ClockConstants, ClockInv, NEW p, NEW cloned \in BOOLEAN, Clock!SetPattern(p, cloned)
  PROVE  ClockInv'
<1>1. /\ now' = now /\ need_localtime_' = (pattern_' \cap Clock!TimeFlags # {})
      /\ cache_timestamp_' = 0 /\ cached_datetime_' = None /\ last_update_' = 0
      /\ displayed' = Clock!Nothing
  BY DEF Clock!SetPattern, Clock!Fresh
<1>2. \/ cached_tm_' = None /\ last_log_secs_' = 0
      \/ cached_tm_' = cached_tm_ /\ last_log_secs_' = last_log_secs_
  BY DEF Clock!SetPattern
<1>3. DatesCached' BY <1>1, <1>2 DEF ClockInv, DatesCached, TimeAt
<1>4. Clock!DateIsRight' /\ Clock!OffsetIsFresh' BY <1>1 DEF Clock!DateIsRight, Clock!OffsetIsFresh,
Clock!Nothing
<1> QED BY <1>1, <1>3, <1>4 DEF ClockInv, OffsetCached

(* A message finds the date of its own second, whatever was cached.        *)
LEMMA DateCached ==
  ASSUME ClockConstants, ClockInv, NEW t \in ClockStart .. ClockStop, Clock!Format(t), need_localtime_
  PROVE  cached_tm_' = Clock!LocalTime(t)
<1>1. Clock!Secs(t) # 0 /\ Clock!LocalTime(t) = TimeAt(Clock!Secs(t)) BY SecondsPass
<1>2. CASE Clock!Secs(t) = last_log_secs_
  <2>1. cached_tm_' = cached_tm_ BY <1>2 DEF Clock!Format, Clock!SameSecond
  <2> QED BY <1>1, <1>2, <2>1 DEF ClockInv, DatesCached
<1>3. CASE Clock!Secs(t) # last_log_secs_ BY <1>3 DEF Clock!Format, Clock!SameSecond
<1> QED BY <1>2, <1>3

LEMMA FullCached ==
  ASSUME ClockConstants, ClockInv, NEW t \in ClockStart .. ClockStop, Clock!Format(t), "+" \in pattern_
  PROVE  cached_datetime_' = Clock!LocalTime(t) /\ cache_timestamp_' = Clock!Secs(t)
<1>1. Clock!Secs(t) # 0 /\ Clock!LocalTime(t) = TimeAt(Clock!Secs(t)) BY SecondsPass
<1>2. need_localtime_ BY DEF ClockInv, DatesCached, Clock!TimeFlags
<1>3. cached_tm_' = Clock!LocalTime(t) BY <1>2, DateCached
<1>4. Clock!FormatFull(t) BY DEF Clock!Format
<1>5. CASE Clock!Secs(t) # cache_timestamp_ \/ cached_datetime_ = None
  BY <1>3, <1>4, <1>5 DEF Clock!FormatFull, Clock!SameSecond
<1>6. CASE Clock!Secs(t) = cache_timestamp_ /\ cached_datetime_ # None
  <2>1. cached_datetime_' = cached_datetime_ /\ cache_timestamp_' = cache_timestamp_
    BY <1>4, <1>6 DEF Clock!FormatFull, Clock!SameSecond, Clock!full
  <2> QED BY <1>1, <1>6, <2>1 DEF ClockInv, DatesCached
<1> QED BY <1>5, <1>6

(* The offset read again is that of the message; one that is kept was read *)
(* less than the refresh interval before.                                  *)
LEMMA OffsetRead ==
  ASSUME ClockConstants, ClockInv, NEW t \in ClockStart .. ClockStop, t \in now - Lag .. now, Clock!Format(t), "z" \in pattern_
  PROVE  /\ last_update_' \in ClockStart .. ClockStop /\ last_update_' <= now + MaxBack
         /\ offset_minutes_' = Clock!OffsetAt(Clock!Secs(last_update_') * PerSecond)
         /\ last_update_' > t - Refresh * PerSecond
         /\ last_update_' <= t + Lag + MaxBack
<1> DEFINE Interval == Refresh * PerSecond
<1>1. /\ now \in Int /\ Lag \in Nat /\ MaxBack \in Nat /\ ClockStart \in Nat /\ ClockStop \in Nat
      /\ ClockStart <= t /\ t <= ClockStop /\ now - Lag <= t /\ t <= now /\ t \in Int
      /\ Interval \in Nat \ {0} /\ Interval <= ClockStart
  <2>1. Interval \in Nat \ {0} BY DEF ClockConstants
  <2> QED BY <2>1 DEF ClockConstants, ClockInv
<1>2. need_localtime_ BY DEF ClockInv, DatesCached, Clock!TimeFlags
<1>3. cached_tm_'[2] = Clock!OffsetAt(Clock!Secs(t) * PerSecond) BY <1>2, DateCached DEF Clock!LocalTime
<1>4. Clock!FormatOffset(t) BY DEF Clock!Format
<1> HIDE DEF Interval
<1>5. CASE t - last_update_ < Interval
  <2>1. last_update_' = last_update_ /\ offset_minutes_' = offset_minutes_
    BY <1>4, <1>5 DEF Clock!FormatOffset, Clock!StillFresh, Clock!zone, Interval
  <2>2. last_update_ # 0 BY <1>1, <1>5
  <2>3. last_update_ \in ClockStart .. ClockStop /\ last_update_ <= now + MaxBack
        /\ offset_minutes_ = Clock!OffsetAt(Clock!Secs(last_update_) * PerSecond)
    BY <2>2 DEF ClockInv, OffsetCached
  <2>4. last_update_ > t - Interval /\ last_update_ <= t + Lag + MaxBack
    BY <1>1, <1>5, <2>3
  <2> QED BY <2>1, <2>3, <2>4 DEF Interval
<1>6. CASE ~(t - last_update_ < Interval)
  <2>1. last_update_' = t /\ offset_minutes_' = Clock!OffsetAt(Clock!Secs(t) * PerSecond)
    BY <1>3, <1>4, <1>6 DEF Clock!FormatOffset, Clock!StillFresh, Interval
  <2>2. t > t - Interval /\ t <= t + Lag + MaxBack /\ t <= now + MaxBack BY <1>1
  <2> QED BY <1>1, <2>1, <2>2 DEF Interval
<1> QED BY <1>5, <1>6

LEMMA MessageShown ==
  ASSUME ClockConstants, ClockInv, NEW t \in ClockStart .. ClockStop, t \in now - Lag .. now, Clock!Format(t)
  PROVE  ClockInv'
<1>1. Clock!Secs(t) # 0 /\ Clock!LocalTime(t) = TimeAt(Clock!Secs(t)) BY SecondsPass
<1>2. /\ now' = now /\ pattern_' = pattern_ /\ need_localtime_' = need_localtime_
      /\ displayed'.time = t
      /\ displayed'.date = (IF "Y" \in pattern_ THEN cached_tm_' ELSE None)
      /\ displayed'.full = (IF "+" \in pattern_ THEN cached_datetime_' ELSE None)
      /\ displayed'.offset = (IF "z" \in pattern_ THEN offset_minutes_' ELSE None)
  BY DEF Clock!Format
<1>3. need_localtime_ => cached_tm_' = Clock!LocalTime(t) BY DateCached
<1>4. cached_tm_' = TimeAt(last_log_secs_') \/ (cached_tm_' = None /\ last_log_secs_' = 0)
  BY <1>1 DEF Clock!Format, ClockInv, DatesCached
<1>5. cached_datetime_' = TimeAt(cache_timestamp_') \/ (cached_datetime_' = None /\ cache_timestamp_' = 0)
  <2>1. CASE "+" \in pattern_ BY <1>1, <2>1, FullCached
  <2>2. CASE "+" \notin pattern_ BY <2>2 DEF Clock!Format, Clock!full, ClockInv, DatesCached
  <2> QED BY <2>1, <2>2
<1>6. DatesCached' BY <1>2, <1>4, <1>5 DEF DatesCached, ClockInv, TimeAt
<1>7. OffsetCached'
  <2>1. CASE "z" \in pattern_
    <3>1. /\ last_update_' \in ClockStart .. ClockStop /\ last_update_' <= now + MaxBack
          /\ offset_minutes_' = Clock!OffsetAt(Clock!Secs(last_update_') * PerSecond)
      BY <2>1, OffsetRead
    <3> QED BY <1>2, <3>1 DEF OffsetCached
  <2>2. CASE "z" \notin pattern_ BY <1>2, <2>2 DEF Clock!Format, Clock!zone, ClockInv, OffsetCached
  <2> QED BY <2>1, <2>2
<1>8. Clock!DateIsRight'
  <2>1. "Y" \in pattern_ => need_localtime_ BY DEF ClockInv, DatesCached, Clock!TimeFlags
  <2>2. "+" \in pattern_ => cached_datetime_' = Clock!LocalTime(t) BY FullCached
  <2> QED BY <1>2, <1>3, <2>1, <2>2 DEF Clock!DateIsRight
<1>9. Clock!OffsetIsFresh'
  <2> SUFFICES ASSUME "z" \in pattern_
               PROVE  \E u \in ClockStart .. ClockStop :
                        /\ offset_minutes_' = Clock!OffsetAt(Clock!Secs(u) * PerSecond)
                        /\ u > t - Refresh * PerSecond /\ u <= t + Lag + MaxBack
    BY <1>2 DEF Clock!OffsetIsFresh
  <2> QED BY OffsetRead
<1> QED BY <1>2, <1>6, <1>7, <1>8, <1>9 DEF ClockInv

(* Time passes, or is set back from the last moment there is.              *)
LEMMA TimePasses ==
  ASSUME ClockConstants, ClockInv, Clock!Tick \/ Clock!SetBack
  PROVE  ClockInv'
<1>1. UNCHANGED <<pattern_, need_localtime_, cached_tm_, last_log_secs_, Clock!full, Clock!zone, displayed>>
  BY DEF Clock!Tick, Clock!SetBack, Clock!formatters
<1>2. DatesCached' BY <1>1 DEF ClockInv, DatesCached, TimeAt, Clock!full
<1>3. Clock!DateIsRight' /\ Clock!OffsetIsFresh' BY <1>1 DEF ClockInv, Clock!DateIsRight, Clock!OffsetIsFresh
<1>4. now' \in Int /\ \A u \in ClockStart .. ClockStop : u <= now + MaxBack => u <= now' + MaxBack
  BY DEF ClockConstants, ClockInv, Clock!Tick, Clock!SetBack
<1>5. OffsetCached' BY <1>1, <1>4 DEF ClockInv, OffsetCached, Clock!zone
<1> QED BY <1>2, <1>3, <1>4, <1>5 DEF ClockInv

THEOREM ClockShowsItsTime ==
  ASSUME ClockConstants
  PROVE  Clock!Spec => [](Clock!DateIsRight /\ Clock!OffsetIsFresh)
<1>1. Clock!Init => ClockInv BY ClockBegins
<1>2. ClockInv /\ [Clock!Next]_(Clock!vars) => ClockInv'
  <2> SUFFICES ASSUME ClockInv, [Clock!Next]_(Clock!vars) PROVE ClockInv' OBVIOUS
  <2>1. ASSUME NEW p \in Patterns, NEW cloned \in BOOLEAN, Clock!SetPattern(p, cloned) PROVE ClockInv'
    BY <2>1, NewPattern
  <2>2. ASSUME NEW t \in ClockStart .. ClockStop, t \in now - Lag .. now, Clock!Format(t) PROVE ClockInv'
    BY <2>2, MessageShown
  <2>3. CASE Clock!Tick \/ Clock!SetBack BY <2>3, TimePasses
  <2>4. CASE UNCHANGED Clock!vars
    BY <2>4 DEF Clock!vars, Clock!formatters, Clock!full, Clock!zone, ClockInv, DatesCached, OffsetCached,
                Clock!DateIsRight, Clock!OffsetIsFresh, TimeAt
  <2> QED BY <2>1, <2>2, <2>3, <2>4 DEF Clock!Next
<1>3. ClockInv => Clock!DateIsRight /\ Clock!OffsetIsFresh BY DEF ClockInv
<1> QED BY <1>1, <1>2, <1>3, PTL DEF Clock!Spec

-----------------------------------------------------------------------------
(* The frames of the node's messages.                                      *)

(* Two byte values at least: a length word of 0xFFFFFFFF is not 0.         *)
FrameConstants == Base \in Nat \ {0, 1} /\ MaxLen \in Nat

(* s is what the message has after p bytes.                                *)
Follows(s, p) == p + Len(s) <= Len(buf) /\ \A k \in 1 .. Len(s) : buf[p + k] = s[k]

(* What the fields of a frame can be sent as.                              *)
Sendable(v, field) ==
  \/ v = Frames!Null
  \/ v.data \in Seq(Frames!Byte) /\ v = Frames!Bytes(v.data) /\ Len(v.data) < Frames!NullWord
     /\ (field = "context" => Len(v.data) % 2 = 0)

LEMMA Digits ==
  ASSUME NEW b \in Nat \ {0}, NEW q \in Nat, NEW r \in 0 .. b - 1
  PROVE  (q * b + r) \div b = q /\ (q * b + r) % b = r
<1> DEFINE n == q * b + r
           d == n \div b
           m == n % b
<1>1. q * b \in Nat /\ n \in Nat BY DEF n
<1>2. d \in Nat /\ m \in 0 .. b - 1 /\ n = b * d + m BY <1>1
<1>3. q * b + r = b * d + m BY <1>2
<1> HIDE DEF n, d, m
<1>4. ~(d < q)
  <2> SUFFICES ASSUME d < q PROVE FALSE OBVIOUS
  <2>1. PICK e \in Nat : q = d + 1 + e
    <3>1. q = d + 1 + (q - d - 1) /\ q - d - 1 \in Nat BY <1>2
    <3> QED BY <3>1
  <2>2. q * b = d * b + b + e * b BY <1>2, <2>1
  <2>3. e * b \in Nat /\ d * b = b * d BY <1>2
  <2>4. d * b \in Nat BY <1>2
  <2> QED BY <1>2, <1>3, <2>2, <2>3, <2>4
<1>5. ~(q < d)
  <2> SUFFICES ASSUME q < d PROVE FALSE OBVIOUS
  <2>1. PICK e \in Nat : d = q + 1 + e
    <3>1. d = q + 1 + (d - q - 1) /\ d - q - 1 \in Nat BY <1>2
    <3> QED BY <3>1
  <2>2. b * d = q * b + b + e * b BY <1>2, <2>1
  <2>3. e * b \in Nat BY <1>2
  <2> QED BY <1>1, <1>2, <1>3, <2>2, <2>3
<1>6. d = q BY <1>2, <1>4, <1>5
<1>7. m = r BY <1>1, <1>2, <1>3, <1>6
<1> QED BY <1>6, <1>7 DEF n, d, m

(* A length word is read as it was written.                                *)
LEMMA WordsRead ==
  ASSUME FrameConstants
  PROVE  /\ Frames!NullWord \in Nat /\ Frames!NullWord >= 3
         /\ \A x, y \in Frames!Byte : x * Base + y \in Nat /\ Frames!Word(x * Base + y) = <<x, y>>
         /\ \A n \in 0 .. Frames!NullWord : Frames!Word(n) \in Frames!Byte \X Frames!Byte /\ Frames!Word(n)[1] * Base + Frames!Word(n)[2] = n
<1>1. Base \in Nat /\ Base >= 2 BY DEF FrameConstants
<1>2. Base * Base >= 2 * Base BY <1>1
<1>3. Frames!NullWord \in Nat /\ Frames!NullWord >= 3 BY <1>1, <1>2 DEF Frames!NullWord
<1>4. ASSUME NEW x \in Frames!Byte, NEW y \in Frames!Byte
      PROVE  x * Base + y \in Nat /\ Frames!Word(x * Base + y) = <<x, y>>
  <2>1. x \in Nat /\ y \in 0 .. Base - 1 BY <1>1 DEF Frames!Byte
  <2>2. (x * Base + y) \div Base = x /\ (x * Base + y) % Base = y BY <1>1, <2>1, Digits
  <2> QED BY <1>1, <2>1, <2>2 DEF Frames!Word
<1>5. ASSUME NEW n \in 0 .. Frames!NullWord
      PROVE  Frames!Word(n) \in Frames!Byte \X Frames!Byte /\ Frames!Word(n)[1] * Base + Frames!Word(n)[2] = n
  <2> DEFINE q == n \div Base
             r == n % Base
  <2>1. n \in Nat /\ n <= Base * Base - 1 BY <1>1, <1>3 DEF Frames!NullWord
  <2>2. q \in Nat /\ r \in 0 .. Base - 1 /\ n = Base * q + r BY <1>1, <2>1
  <2>3. Frames!Word(n) = <<q, r>> BY DEF Frames!Word
  <2> HIDE DEF q, r
  <2>4. q < Base
    <3> SUFFICES ASSUME q >= Base PROVE FALSE BY <1>1, <2>2
    <3>1. PICK e \in Nat : q = Base + e
      <4>1. q = Base + (q - Base) /\ q - Base \in Nat BY <1>1, <2>2
      <4> QED BY <4>1
    <3>2. Base * q = Base * Base + Base * e BY <1>1, <3>1
    <3>3. Base * e \in Nat /\ Base * Base \in Nat BY <1>1
    <3> QED BY <1>1, <2>1, <2>2, <3>2, <3>3
  <2>5. q * Base = Base * q BY <1>1, <2>2
  <2> QED BY <1>1, <2>2, <2>3, <2>4, <2>5 DEF Frames!Byte
<1> QED BY <1>3, <1>4, <1>5

Reading == buf \in Seq(Frames!Byte) /\ pos \in 0 .. Len(buf)

(* What follows the position, byte by byte.                                *)
LEMMA RestIs ==
  ASSUME Reading
  PROVE  /\ Frames!Rest \in Seq(Frames!Byte) /\ Len(Frames!Rest) = Len(buf) - pos
         /\ \A k \in 1 .. Len(buf) - pos : Frames!Rest[k] = buf[pos + k]
<1>1. Len(buf) \in Nat /\ pos \in Nat /\ pos <= Len(buf) BY DEF Reading
<1>2. pos + 1 \in 1 .. Len(buf) + 1 BY <1>1
<1>3. Frames!Rest \in Seq(Frames!Byte) /\ Len(Frames!Rest) = Len(buf) - pos /\ \A k \in 1 .. Len(buf) - pos : Frames!Rest[k] = buf[pos + k]
  <2>1. buf \in Seq(Frames!Byte) BY DEF Reading
  <2>2. Len(Frames!Rest) = Len(buf) - pos BY <1>1, <2>1 DEF Frames!Rest
  <2>3. ASSUME NEW k \in 1 .. Len(buf) - pos PROVE Frames!Rest[k] = buf[pos + k]
    BY <1>1, <2>1, <2>3 DEF Frames!Rest
  <2>4. Frames!Rest \in Seq(Frames!Byte) BY <1>1, <2>1, SubSeqProperties DEF Frames!Rest
  <2> QED BY <2>2, <2>3, <2>4
<1> QED BY <1>3

LEMMA PayloadIs ==
  ASSUME Reading, Frames!AfterWord \in 0 .. Len(buf), NEW n \in Nat
  PROVE  /\ Frames!Payload(n) \in Seq(Frames!Byte)
         /\ Len(Frames!Payload(n)) = IF Frames!AfterWord + n < Len(buf) THEN n ELSE Len(buf) - Frames!AfterWord
         /\ \A k \in 1 .. Len(Frames!Payload(n)) : Frames!Payload(n)[k] = buf[Frames!AfterWord + k]
<1> DEFINE a == Frames!AfterWord
           e == IF a + n < Len(buf) THEN a + n ELSE Len(buf)
<1>1. Frames!Payload(n) = SubSeq(buf, a + 1, e) BY DEF Frames!Payload
<1> HIDE DEF a, e
<1>2. a \in 0 .. Len(buf) /\ buf \in Seq(Frames!Byte) /\ Len(buf) \in Nat BY DEF Reading, a
<1>3. e \in a .. Len(buf) /\ e - a = IF a + n < Len(buf) THEN n ELSE Len(buf) - a BY <1>2 DEF e
<1>4. /\ SubSeq(buf, a + 1, e) \in Seq(Frames!Byte) /\ Len(SubSeq(buf, a + 1, e)) = e - a
      /\ \A k \in 1 .. e - a : SubSeq(buf, a + 1, e)[k] = buf[a + k]
  <2>1. SubSeq(buf, a + 1, e) \in Seq(Frames!Byte) /\ Len(SubSeq(buf, a + 1, e)) = e - a
    BY <1>2, <1>3, SubSeqProperties
  <2>2. ASSUME NEW k \in 1 .. e - a PROVE SubSeq(buf, a + 1, e)[k] = buf[a + k]
    <3>1. a + 1 \in Int /\ e \in Int /\ k \in 1 .. e - (a + 1) + 1 BY <1>2, <1>3
    <3>2. SubSeq(buf, a + 1, e)[k] = buf[a + 1 + k - 1] BY <1>2, <3>1, SubSeqProperties
    <3>3. a + 1 + k - 1 = a + k BY <1>2, <1>3
    <3> QED BY <3>2, <3>3
  <2> QED BY <2>1, <2>2
<1> QED BY <1>1, <1>3, <1>4 DEF a

(* How a message continues with two sequences, one behind the other.       *)
LEMMA FollowsJoin ==
  ASSUME buf \in Seq(Frames!Byte), NEW s \in Seq(Frames!Byte), NEW t \in Seq(Frames!Byte), NEW p \in Nat
  PROVE  Follows(s \o t, p) <=> Follows(s, p) /\ Follows(t, p + Len(s))
<1>1. /\ Len(s) \in Nat /\ Len(t) \in Nat /\ Len(s \o t) = Len(s) + Len(t)
      /\ \A k \in 1 .. Len(s) : (s \o t)[k] = s[k]
      /\ \A k \in 1 .. Len(t) : (s \o t)[Len(s) + k] = t[k]
  OBVIOUS
<1>2. ASSUME Follows(s \o t, p) PROVE Follows(s, p) /\ Follows(t, p + Len(s))
  <2>1. p + Len(s) + Len(t) <= Len(buf) BY <1>1, <1>2 DEF Follows
  <2>2. ASSUME NEW k \in 1 .. Len(s) PROVE buf[p + k] = s[k]
    BY <1>1, <1>2 DEF Follows
  <2>3. ASSUME NEW k \in 1 .. Len(t) PROVE buf[p + Len(s) + k] = t[k]
    <3>1. Len(s) + k \in 1 .. Len(s \o t) BY <1>1
    <3>2. buf[p + (Len(s) + k)] = (s \o t)[Len(s) + k] BY <1>2, <3>1 DEF Follows
    <3>3. p + (Len(s) + k) = p + Len(s) + k BY <1>1
    <3> QED BY <1>1, <3>2, <3>3
  <2>4. Len(buf) \in Nat OBVIOUS
  <2> QED BY <1>1, <2>1, <2>2, <2>3, <2>4 DEF Follows
<1>3. ASSUME Follows(s, p), Follows(t, p + Len(s)) PROVE Follows(s \o t, p)
  <2>1. p + Len(s \o t) <= Len(buf) BY <1>1, <1>3 DEF Follows
  <2>2. ASSUME NEW k \in 1 .. Len(s \o t) PROVE buf[p + k] = (s \o t)[k]
    <3>1. CASE k <= Len(s) BY <1>1, <1>3, <3>1 DEF Follows
    <3>2. CASE k > Len(s)
      <4>1. PICK j \in 1 .. Len(t) : k = Len(s) + j
        <5>1. k - Len(s) \in 1 .. Len(t) /\ k = Len(s) + (k - Len(s)) BY <1>1, <3>2
        <5> QED BY <5>1
      <4>2. buf[p + Len(s) + j] = t[j] BY <1>3 DEF Follows
      <4>3. p + k = p + Len(s) + j BY <1>1, <4>1
      <4> QED BY <1>1, <4>1, <4>2, <4>3
    <3> QED BY <1>1, <3>1, <3>2
  <2> QED BY <2>1, <2>2 DEF Follows
<1> QED BY <1>2, <1>3

LEMMA BeginsIs ==
  ASSUME buf \in Seq(Frames!Byte), NEW s \in Seq(Frames!Byte)
  PROVE  Frames!Begins(s, buf) <=> Follows(s, 0)
<1>1. Len(s) \in Nat /\ Len(buf) \in Nat OBVIOUS
<1>2. ASSUME Len(s) <= Len(buf)
      PROVE  SubSeq(buf, 1, Len(s)) = s <=> \A k \in 1 .. Len(s) : buf[0 + k] = s[k]
  <2>1. /\ SubSeq(buf, 1, Len(s)) \in Seq(Frames!Byte) /\ Len(SubSeq(buf, 1, Len(s))) = Len(s)
        /\ \A k \in 1 .. Len(s) : SubSeq(buf, 1, Len(s))[k] = buf[k]
    BY <1>1, <1>2
  <2>2. SubSeq(buf, 1, Len(s)) = s <=> \A k \in 1 .. Len(s) : SubSeq(buf, 1, Len(s))[k] = s[k]
    BY <1>1, <2>1, SeqEqual
  <2> QED BY <1>1, <2>1, <2>2
<1> QED BY <1>1, <1>2 DEF Frames!Begins, Follows

LEMMA SentIs ==
  ASSUME FrameConstants, NEW field, NEW v, Sendable(v, field)
  PROVE  Frames!Encode(v) \in Seq(Frames!Byte)
<1>1. \A n \in 0 .. Frames!NullWord : Frames!Word(n) \in Seq(Frames!Byte)
  <2> TAKE n \in 0 .. Frames!NullWord
  <2>1. Frames!Word(n) \in Frames!Byte \X Frames!Byte /\ Frames!Word(n) = <<n \div Base,
  n % Base>> BY WordsRead DEF Frames!Word
  <2> QED BY <2>1
<1>2. CASE v = Frames!Null BY <1>1, <1>2, WordsRead DEF Frames!Encode, Frames!Null
<1>3. CASE v # Frames!Null
  <2>1. v = Frames!Bytes(v.data) /\ v.data \in Seq(Frames!Byte) /\ Len(v.data) < Frames!NullWord BY <1>3 DEF Sendable
  <2>2. v.null = FALSE BY <2>1 DEF Frames!Bytes
  <2>3. Len(v.data) \in Nat BY <2>1, LenProperties
  <2>4. Frames!NullWord \in Nat BY WordsRead
  <2>5. Len(v.data) \in 0 .. Frames!NullWord BY <2>1, <2>3, <2>4
  <2> QED BY <1>1, <2>1, <2>2, <2>5 DEF Frames!Encode
<1> QED BY <1>2, <1>3

LEMMA ValuesAreSent ==
  ASSUME FrameConstants
  PROVE  /\ \A c \in Frames!Values(2) : Sendable(c, "context")
         /\ \A i \in Frames!Values(1) : Sendable(i, "image")
<1>1. Frames!NullWord \in Nat /\ Frames!NullWord >= 3 BY WordsRead
<1>2. ASSUME NEW n \in {1, 2}, NEW v \in Frames!Values(n), v # Frames!Null
      PROVE  v = Frames!Bytes(v.data) /\ v.data \in Seq(Frames!Byte) /\ Len(v.data) \in {0, n}
  <2>1. CASE v = Frames!Bytes(<<>>) BY <2>1 DEF Frames!Bytes
  <2>2. CASE v # Frames!Bytes(<<>>)
    <3>1. PICK s \in [1 .. n -> Frames!Byte] : v = Frames!Bytes(s) BY <1>2, <2>2 DEF Frames!Values
    <3>2. s \in Seq(Frames!Byte) /\ Len(s) = n BY <1>2, <3>1
    <3> QED BY <3>1, <3>2 DEF Frames!Bytes
  <2> QED BY <2>1, <2>2
<1>3. ASSUME NEW c \in Frames!Values(2) PROVE Sendable(c, "context")
  <2> SUFFICES ASSUME c # Frames!Null PROVE Sendable(c, "context") BY DEF Sendable
  <2>1. c = Frames!Bytes(c.data) /\ c.data \in Seq(Frames!Byte) /\ Len(c.data) \in {0, 2} BY <1>2
  <2>2. 0 % 2 = 0 /\ 2 % 2 = 0 OBVIOUS
  <2>3. Len(c.data) % 2 = 0 /\ Len(c.data) < Frames!NullWord
    <3>1. CASE Len(c.data) = 0 BY <1>1, <2>2, <3>1
    <3>2. CASE Len(c.data) = 2 BY <1>1, <2>2, <3>2
    <3> QED BY <2>1, <3>1, <3>2
  <2> QED BY <2>1, <2>3 DEF Sendable
<1>4. ASSUME NEW i \in Frames!Values(1) PROVE Sendable(i, "image")
  <2> SUFFICES ASSUME i # Frames!Null PROVE Sendable(i, "image") BY DEF Sendable
  <2>1. i = Frames!Bytes(i.data) /\ i.data \in Seq(Frames!Byte) /\ Len(i.data) \in {0, 1} BY <1>2
  <2>2. CASE Len(i.data) = 0 BY <1>1, <2>1, <2>2 DEF Sendable
  <2>3. CASE Len(i.data) = 1 BY <1>1, <2>1, <2>3 DEF Sendable
  <2> QED BY <2>1, <2>2, <2>3
<1> QED BY <1>3, <1>4

FieldNames == {"context", "image"}

(* A value read without an error is what the message has at its place.     *)
LEMMA ReadOk ==
  ASSUME FrameConstants, Reading, NEW field \in FieldNames, frame = [context |-> frame.context, image |-> frame.image],
         Frames!ReadValue(field), status' = "Ok"
  PROVE  /\ status = "Ok" /\ Frames!Encode(frame'[field]) \in Seq(Frames!Byte)
         /\ Follows(Frames!Encode(frame'[field]), pos) /\ pos' = pos + Len(Frames!Encode(frame'[field]))
<1> DEFINE n == IF Frames!WordHere = Frames!NullWord THEN 0 ELSE Frames!WordHere
           odd == field = "context" /\ n % 2 = 1
           x == Frames!Rest[1]
           y == Frames!Rest[2]
           v == frame'[field]
<1>1. status = "Ok" /\ ~odd /\ ~(Len(Frames!Rest) < 2) /\ ~(Len(Frames!Payload(n)) < n)
  BY DEF Frames!ReadValue
<1>2. Len(buf) \in Nat /\ pos \in Nat /\ Len(Frames!Rest) = Len(buf) - pos /\ pos + 2 <= Len(buf)
      /\ x \in Frames!Byte /\ y \in Frames!Byte /\ x = buf[pos + 1] /\ y = buf[pos + 2]
  <2>1. Len(buf) \in Nat /\ pos \in Nat BY DEF Reading
  <2>2. Frames!Rest \in Seq(Frames!Byte) /\ Len(Frames!Rest) = Len(buf) - pos /\ \A k \in 1 .. Len(buf) - pos : Frames!Rest[k] = buf[pos + k]
    BY RestIs
  <2>3. pos + 2 <= Len(buf) /\ 1 \in 1 .. Len(buf) - pos /\ 2 \in 1 .. Len(buf) - pos BY <1>1, <2>1, <2>2
  <2> QED BY <2>1, <2>2, <2>3
<1>3. Frames!WordHere = x * Base + y /\ Frames!AfterWord = pos + 2 BY <1>1 DEF Frames!WordHere, Frames!AfterWord
<1>4. Frames!WordHere \in Nat /\ Frames!Word(Frames!WordHere) = <<x, y>> BY <1>2, <1>3, WordsRead
<1>5. n \in Nat BY <1>4
<1>6. /\ Frames!Payload(n) \in Seq(Frames!Byte) /\ Len(Frames!Payload(n)) = n /\ pos + 2 + n <= Len(buf)
      /\ \A k \in 1 .. n : Frames!Payload(n)[k] = buf[pos + 2 + k]
  <2> HIDE DEF n
  <2>1. Frames!AfterWord \in 0 .. Len(buf) BY <1>2, <1>3
  <2>2. /\ Frames!Payload(n) \in Seq(Frames!Byte)
        /\ Len(Frames!Payload(n)) = IF Frames!AfterWord + n < Len(buf) THEN n ELSE Len(buf) - Frames!AfterWord
        /\ \A k \in 1 .. Len(Frames!Payload(n)) : Frames!Payload(n)[k] = buf[Frames!AfterWord + k]
    BY <1>5, <2>1, PayloadIs
  <2>3. Len(Frames!Payload(n)) = n /\ pos + 2 + n <= Len(buf)
    BY <1>1, <1>2, <1>3, <1>5, <2>2
  <2> QED BY <1>3, <2>2, <2>3
<1>7. /\ v = (IF Frames!WordHere = Frames!NullWord \/ ~Frames!Whole(n, Frames!Payload(n)) THEN Frames!Null ELSE Frames!Bytes(Frames!Payload(n)))
      /\ pos' = pos + 2 + n
  <2>1. frame' = [frame EXCEPT ![field] = IF Frames!WordHere = Frames!NullWord \/ ~Frames!Whole(n, Frames!Payload(n)) THEN Frames!Null ELSE Frames!Bytes(Frames!Payload(n))]
    BY <1>1 DEF Frames!ReadValue
  <2>2. pos' = Frames!AfterWord + Len(Frames!Payload(n)) BY <1>1 DEF Frames!ReadValue
  <2> HIDE DEF n
  <2> QED BY <1>3, <1>6, <2>1, <2>2 DEF FieldNames
<1>8. <<x, y>> \in Seq(Frames!Byte) /\ Len(<<x, y>>) = 2 /\ Follows(<<x, y>>, pos) BY <1>2 DEF Follows
<1>9. CASE Frames!WordHere = Frames!NullWord
  <2>1. v = Frames!Null /\ n = 0 BY <1>7, <1>9
  <2>2. Frames!Encode(v) = <<x, y>> BY <1>4, <1>9, <2>1 DEF Frames!Encode, Frames!Null
  <2> HIDE DEF x, y, v, n
  <2>4. pos' = pos + 2 BY <1>2, <1>7, <2>1
  <2>3. Frames!Encode(v) \in Seq(Frames!Byte) /\ Follows(Frames!Encode(v), pos) /\ pos' = pos + Len(Frames!Encode(v))
    BY <1>8, <2>2, <2>4
  <2> QED BY <1>1, <2>3 DEF v
<1>10. CASE Frames!WordHere # Frames!NullWord
  <2>1. n = Frames!WordHere /\ v = Frames!Bytes(Frames!Payload(n)) BY <1>6, <1>7, <1>10 DEF Frames!Whole
  <2>2. Frames!Encode(v) = <<x, y>> \o Frames!Payload(n)
    <3> HIDE DEF x, y, v
    <3>1. ~v.null /\ v.data = Frames!Payload(n) BY <2>1 DEF Frames!Bytes
    <3>2. Frames!Word(n) = <<x, y>> /\ Len(Frames!Payload(n)) = n BY <1>4, <1>6, <2>1
    <3> QED BY <3>1, <3>2 DEF Frames!Encode
  <2> HIDE DEF x, y, v, n
  <2>3. Follows(Frames!Payload(n), pos + 2) BY <1>6 DEF Follows
  <2>4. Follows(<<x, y>> \o Frames!Payload(n), pos) BY <1>2, <1>6, <1>8, <2>3, FollowsJoin DEF Reading
  <2>5. Frames!Encode(v) \in Seq(Frames!Byte) /\ Len(Frames!Encode(v)) = 2 + n BY <1>5, <1>6, <1>8, <2>2
  <2>6. pos' = pos + Len(Frames!Encode(v)) BY <1>2, <1>5, <1>7, <2>5
  <2> QED BY <1>1, <2>2, <2>4, <2>5, <2>6 DEF v
<1> QED BY <1>9, <1>10

(* A value that was sent is read back as it was.                           *)
LEMMA ReadsBack ==
  ASSUME FrameConstants, Reading, NEW field \in FieldNames, frame = [context |-> frame.context, image |-> frame.image],
         Frames!ReadValue(field), NEW v, Sendable(v, field), Follows(Frames!Encode(v), pos)
  PROVE  frame'[field] = v /\ pos' = pos + Len(Frames!Encode(v)) /\ status' = status
<1> DEFINE m == IF v = Frames!Null THEN Frames!NullWord ELSE Len(v.data)
           d == IF v = Frames!Null THEN <<>> ELSE v.data
           n == IF Frames!WordHere = Frames!NullWord THEN 0 ELSE Frames!WordHere
           odd == field = "context" /\ n % 2 = 1
           w == Frames!Word(m)
<1>1. /\ Frames!NullWord \in Nat /\ Frames!NullWord >= 3 /\ m \in 0 .. Frames!NullWord /\ (v # Frames!Null => m # Frames!NullWord)
      /\ d \in Seq(Frames!Byte) /\ Len(d) = (IF v = Frames!Null THEN 0 ELSE m)
  <2>1. Frames!NullWord \in Nat /\ Frames!NullWord >= 3 BY WordsRead
  <2>2. v # Frames!Null => v.data \in Seq(Frames!Byte) /\ Len(v.data) < Frames!NullWord BY DEF Sendable
  <2>4. v # Frames!Null => Len(v.data) \in Nat BY <2>2, LenProperties
  <2>3. <<>> \in Seq(Frames!Byte) /\ Len(<<>>) = 0 OBVIOUS
  <2> QED BY <2>1, <2>2, <2>3, <2>4
<1>2. w \in Frames!Byte \X Frames!Byte /\ w = <<w[1], w[2]>> /\ w[1] * Base + w[2] = m BY <1>1, WordsRead
<1>3. Frames!Encode(v) = w \o d /\ w \in Seq(Frames!Byte) /\ Len(w) = 2
  <2>1. v # Frames!Null => v = Frames!Bytes(v.data) BY DEF Sendable
  <2>2. v = Frames!Null => Frames!Encode(v) = w BY DEF Frames!Encode, Frames!Null
  <2>3. v # Frames!Null => Frames!Encode(v) = w \o d BY <2>1 DEF Frames!Encode, Frames!Bytes
  <2> HIDE DEF w, m
  <2>4. w \in Seq(Frames!Byte) /\ Len(w) = 2
    <3>1. w[1] \in Frames!Byte /\ w[2] \in Frames!Byte BY <1>2
    <3>2. <<w[1], w[2]>> \in Seq(Frames!Byte) /\ Len(<<w[1], w[2]>>) = 2 BY <3>1
    <3> QED BY <1>2, <3>2
  <2>5. w \o <<>> = w BY <2>4
  <2> QED BY <2>2, <2>3, <2>4, <2>5
<1> HIDE DEF w
<1>4. Follows(w, pos) /\ Follows(d, pos + 2)
  <2>1. buf \in Seq(Frames!Byte) /\ pos \in Nat BY DEF Reading
  <2> HIDE DEF d
  <2> QED BY <1>1, <1>3, <2>1, FollowsJoin
<1>5. /\ Len(buf) \in Nat /\ pos \in Nat /\ pos + 2 + Len(d) <= Len(buf) /\ Len(d) \in Nat
      /\ Len(Frames!Rest) = Len(buf) - pos /\ Frames!Rest[1] = w[1] /\ Frames!Rest[2] = w[2]
  <2>1. Len(buf) \in Nat /\ pos \in Nat BY DEF Reading
  <2>2. pos + 2 + Len(d) <= Len(buf) /\ Len(d) \in Nat
    <3> HIDE DEF d
    <3> QED BY <1>1, <1>4 DEF Follows
  <2>3. 1 \in 1 .. Len(buf) - pos /\ 2 \in 1 .. Len(buf) - pos BY <2>1, <2>2
  <2>4. Len(Frames!Rest) = Len(buf) - pos /\ Frames!Rest[1] = buf[pos + 1] /\ Frames!Rest[2] = buf[pos + 2]
    BY <2>3, RestIs
  <2>5. buf[pos + 1] = w[1] /\ buf[pos + 2] = w[2] BY <1>3, <1>4 DEF Follows
  <2> QED BY <2>1, <2>2, <2>4, <2>5
<1>6. Frames!WordHere = m /\ Frames!AfterWord = pos + 2 /\ ~(Len(Frames!Rest) < 2)
  <2>1. ~(Len(Frames!Rest) < 2) BY <1>5
  <2> QED BY <1>2, <1>5, <2>1 DEF Frames!WordHere, Frames!AfterWord
<1>7. n = Len(d) BY <1>1, <1>6
<1>8. ~odd
  <2>1. CASE v = Frames!Null
    <3>1. n = 0 BY <1>1, <1>7, <2>1
    <3> HIDE DEF n
    <3>2. n % 2 = 0 BY <3>1
    <3> QED BY <3>2
  <2>2. CASE v # Frames!Null
    <3>1. field = "context" => Len(v.data) % 2 = 0 BY <2>2 DEF Sendable
    <3>2. n = Len(v.data) BY <1>7, <2>2
    <3> HIDE DEF n, m, d
    <3>3. field = "context" => n % 2 = 0 BY <3>1, <3>2
    <3> QED BY <3>3
  <2> QED BY <2>1, <2>2
<1>9. Frames!Payload(n) = d
  <2> HIDE DEF n, d
  <2>1. Frames!AfterWord \in 0 .. Len(buf) /\ n \in Nat BY <1>5, <1>6, <1>7
  <2>2. /\ Frames!Payload(n) \in Seq(Frames!Byte)
        /\ Len(Frames!Payload(n)) = IF Frames!AfterWord + n < Len(buf) THEN n ELSE Len(buf) - Frames!AfterWord
        /\ \A k \in 1 .. Len(Frames!Payload(n)) : Frames!Payload(n)[k] = buf[Frames!AfterWord + k]
    BY <2>1, PayloadIs
  <2>3. Len(Frames!Payload(n)) = Len(d) BY <1>5, <1>6, <1>7, <2>2
  <2>4. \A k \in 1 .. Len(d) : Frames!Payload(n)[k] = d[k] BY <1>4, <1>6, <2>2, <2>3 DEF Follows
  <2> QED BY <1>1, <2>2, <2>3, <2>4, SeqEqual DEF d
<1>10. frame'[field] = (IF Frames!WordHere = Frames!NullWord \/ ~Frames!Whole(n, Frames!Payload(n)) THEN Frames!Null ELSE Frames!Bytes(Frames!Payload(n)))
  <2>1. frame' = [frame EXCEPT ![field] = IF Frames!WordHere = Frames!NullWord \/ ~Frames!Whole(n, Frames!Payload(n)) THEN Frames!Null ELSE Frames!Bytes(Frames!Payload(n))]
    BY <1>8 DEF Frames!ReadValue
  <2> HIDE DEF n
  <2> QED BY <2>1 DEF FieldNames
<1>11. frame'[field] = v
  <2>1. CASE v = Frames!Null BY <1>6, <1>10, <2>1
  <2>2. CASE v # Frames!Null
    <3>1. Frames!WordHere # Frames!NullWord /\ Frames!Whole(n, Frames!Payload(n)) BY <1>1, <1>6, <1>7, <1>9,
    <2>2 DEF Frames!Whole
    <3>2. v = Frames!Bytes(v.data) /\ d = v.data BY <2>2 DEF Sendable
    <3> HIDE DEF n, d
    <3> QED BY <1>9, <1>10, <3>1, <3>2
  <2> QED BY <2>1, <2>2
<1>12. pos' = Frames!AfterWord + Len(Frames!Payload(n)) BY <1>8 DEF Frames!ReadValue
<1>13. pos' = pos + Len(Frames!Encode(v))
  <2> HIDE DEF n, d, m
  <2>1. Len(Frames!Encode(v)) = 2 + Len(d)
    <3>1. d \in Seq(Frames!Byte) /\ w \in Seq(Frames!Byte) BY <1>1, <1>3
    <3>2. Len(w \o d) = Len(w) + Len(d) BY <3>1, ConcatProperties
    <3> QED BY <1>3, <3>2
  <2>2. pos' = pos + 2 + Len(d) BY <1>6, <1>9, <1>12
  <2> QED BY <1>5, <2>1, <2>2
<1>14. status' = status
  <2>1. ~(Len(Frames!Payload(n)) < n)
    <3> HIDE DEF n, d
    <3> QED BY <1>5, <1>7, <1>9
  <2> QED BY <1>6, <1>8, <2>1 DEF Frames!ReadValue
<1> QED BY <1>11, <1>13, <1>14

(* A frame is read field by field.                                         *)
BothFollow(c, i) == Follows(Frames!Encode(c), 0) /\ Follows(Frames!Encode(i), Len(Frames!Encode(c)))

(* What has been read is what the message begins with, and what any sender *)
(* meant by such a beginning.                                              *)
ContextRight ==
  /\ status = "Ok" =>
       Frames!Encode(frame.context) \in Seq(Frames!Byte) /\ Follows(Frames!Encode(frame.context), 0) /\ pos = Len(Frames!Encode(frame.context))
  /\ \A c : Sendable(c, "context") /\ Follows(Frames!Encode(c), 0) =>
       frame.context = c /\ status = "Ok" /\ pos = Len(Frames!Encode(c))

FrameRight ==
  /\ status = "Ok" =>
       /\ Frames!Encode(frame.context) \in Seq(Frames!Byte) /\ Frames!Encode(frame.image) \in Seq(Frames!Byte)
       /\ BothFollow(frame.context, frame.image)
  /\ \A c, i : Sendable(c, "context") /\ Sendable(i, "image") /\ BothFollow(c, i) =>
       frame.context = c /\ frame.image = i /\ status = "Ok"
  /\ reader = "next" => Frames!ResultIsContext

FrameInv ==
  /\ Reading /\ step \in 1 .. 3 /\ reader \in {"node", "next"}
  /\ frame = [context |-> frame.context, image |-> frame.image]
  /\ reader = "next" => buf = Frames!Result
  /\ step = 1 => pos = 0 /\ status = "Ok"
  /\ step = 2 => ContextRight
  /\ step = 3 => FrameRight

LEMMA ResultSent ==
  ASSUME FrameConstants
  PROVE  /\ Sendable(Frames!Bytes(Frames!Json), "context")
         /\ Frames!Result \in Seq(Frames!Byte) /\ Frames!Result = Frames!Encode(Frames!Bytes(Frames!Json))
         /\ buf = Frames!Result => Follows(Frames!Encode(Frames!Bytes(Frames!Json)), 0)
<1>1. 1 \in Frames!Byte /\ Frames!Json \in Seq(Frames!Byte) /\ Len(Frames!Json) = 2 BY DEF FrameConstants,
Frames!Byte, Frames!Json
<1>2. Frames!NullWord \in Nat /\ 2 < Frames!NullWord BY WordsRead
<1>3. Frames!Bytes(Frames!Json).data = Frames!Json BY DEF Frames!Bytes
<1>4. Sendable(Frames!Bytes(Frames!Json), "context")
  <2>1. 2 % 2 = 0 OBVIOUS
  <2> QED BY <1>1, <1>2, <1>3, <2>1 DEF Sendable
<1>5. Frames!Result = Frames!Encode(Frames!Bytes(Frames!Json)) /\ Frames!Result \in Seq(Frames!Byte) BY <1>4,
SentIs DEF Frames!Result
<1>6. buf = Frames!Result => Follows(Frames!Result, 0)
  <2>1. Len(Frames!Result) \in Nat BY <1>5, LenProperties
  <2> QED BY <2>1 DEF Follows
<1> QED BY <1>4, <1>5, <1>6

(* The stream stays in the message.                                        *)
LEMMA PositionStays ==
  ASSUME FrameConstants, Reading, NEW field, Frames!ReadValue(field), buf' = buf
  PROVE  Reading'
<1> DEFINE n == IF Frames!WordHere = Frames!NullWord THEN 0 ELSE Frames!WordHere
<1>1. Len(buf) \in Nat /\ pos \in Nat /\ pos <= Len(buf) /\ buf \in Seq(Frames!Byte) BY DEF Reading
<1>2. /\ Len(Frames!Rest) = Len(buf) - pos
      /\ ~(Len(Frames!Rest) < 2) => Frames!Rest[1] \in Frames!Byte /\ Frames!Rest[2] \in Frames!Byte
  BY <1>1, RestIs, ElementOfSeq
<1>3. Frames!WordHere \in Nat /\ Frames!AfterWord \in 0 .. Len(buf)
  <2>1. CASE Len(Frames!Rest) < 2 BY <1>1, <2>1 DEF Frames!WordHere, Frames!AfterWord
  <2>2. CASE ~(Len(Frames!Rest) < 2)
    <3>1. Frames!Rest[1] * Base + Frames!Rest[2] \in Nat BY <1>2, <2>2, WordsRead
    <3> QED BY <1>1, <1>2, <2>2, <3>1 DEF Frames!WordHere, Frames!AfterWord
  <2> QED BY <2>1, <2>2
<1>4. n \in Nat BY <1>3
<1> HIDE DEF n
<1>5. Frames!AfterWord + Len(Frames!Payload(n)) \in 0 .. Len(buf)
  <2>1. Len(Frames!Payload(n)) = IF Frames!AfterWord + n < Len(buf) THEN n ELSE Len(buf) - Frames!AfterWord
    BY <1>3, <1>4, PayloadIs
  <2> QED BY <1>1, <1>3, <1>4, <2>1
<1>6. pos' = Frames!AfterWord \/ pos' = Frames!AfterWord + Len(Frames!Payload(n))
  <2>1. Len(<<>>) = 0 /\ Frames!AfterWord + 0 = Frames!AfterWord BY <1>1, <1>3
  <2> QED BY <2>1 DEF Frames!ReadValue, n
<1> QED BY <1>1, <1>3, <1>5, <1>6 DEF Reading

(* What the invariant says of a frame that has been read.                  *)
LEMMA FramesRight ==
  ASSUME FrameConstants, FrameInv
  PROVE  Frames!OkMeansWhole /\ Frames!FrameReadsBack /\ Frames!ResultIsContext
<1>1. Frames!Read <=> step = 3 BY DEF Frames!Read, Frames!Fields
<1>2. buf \in Seq(Frames!Byte) BY DEF FrameInv, Reading
<1>3. ASSUME NEW c, NEW i, Frames!Encode(c) \in Seq(Frames!Byte), Frames!Encode(i) \in Seq(Frames!Byte)
      PROVE  Frames!Begins(Frames!EncodeFrame([context |-> c, image |-> i]), buf) <=> BothFollow(c, i)
  <2>1. Frames!EncodeFrame([context |-> c,
  image |-> i]) = Frames!Encode(c) \o Frames!Encode(i) BY DEF Frames!EncodeFrame
  <2>2. Frames!Encode(c) \o Frames!Encode(i) \in Seq(Frames!Byte) /\ Len(Frames!Encode(c)) \in Nat BY <1>3, ConcatProperties, LenProperties
  <2>3. 0 + Len(Frames!Encode(c)) = Len(Frames!Encode(c)) BY <2>2
  <2>4. Follows(Frames!Encode(c) \o Frames!Encode(i), 0) <=> Follows(Frames!Encode(c), 0) /\ Follows(Frames!Encode(i), 0 + Len(Frames!Encode(c)))
    BY <1>2, <1>3, FollowsJoin
  <2>5. Frames!Begins(Frames!Encode(c) \o Frames!Encode(i), buf) <=> Follows(Frames!Encode(c) \o Frames!Encode(i), 0) BY <1>2, <2>2, BeginsIs
  <2> QED BY <2>1, <2>3, <2>4, <2>5 DEF BothFollow
<1>4. Frames!OkMeansWhole
  <2> SUFFICES ASSUME step = 3, status = "Ok" PROVE Frames!Begins(Frames!EncodeFrame(frame),
  buf) BY <1>1 DEF Frames!OkMeansWhole
  <2>1. /\ Frames!Encode(frame.context) \in Seq(Frames!Byte) /\ Frames!Encode(frame.image) \in Seq(Frames!Byte)
        /\ BothFollow(frame.context, frame.image)
        /\ frame = [context |-> frame.context, image |-> frame.image]
    BY DEF FrameInv, FrameRight
  <2> QED BY <1>3, <2>1
<1>5. Frames!FrameReadsBack
  <2> SUFFICES ASSUME step = 3, NEW c \in Frames!Values(2), NEW i \in Frames!Values(1),
                      Frames!Begins(Frames!EncodeFrame([context |-> c, image |-> i]), buf)
               PROVE  frame = [context |-> c, image |-> i] /\ status = "Ok"
    BY <1>1 DEF Frames!FrameReadsBack
  <2>1. Sendable(c, "context") /\ Sendable(i, "image") BY ValuesAreSent
  <2>2. BothFollow(c, i) BY <1>3, <2>1, SentIs
  <2> QED BY <2>1, <2>2 DEF FrameInv, FrameRight
<1>6. Frames!ResultIsContext BY <1>1 DEF FrameInv, FrameRight, Frames!ResultIsContext
<1> QED BY <1>4, <1>5, <1>6

LEMMA FrameBegins == ASSUME FrameConstants, Frames!Init PROVE FrameInv
<1>1. buf \in Seq(Frames!Byte)
  <2>1. PICK n \in 0 .. MaxLen : buf \in [1 .. n -> Frames!Byte] BY DEF Frames!Init
  <2>2. n \in Nat BY DEF FrameConstants
  <2> QED BY <2>1, <2>2
<1>2. Len(buf) \in Nat BY <1>1
<1> QED BY <1>1, <1>2 DEF Frames!Init, FrameInv, Reading, Frames!EmptyFrame

LEMMA HandledFrame == ASSUME FrameConstants, FrameInv, Frames!Handle PROVE FrameInv'
<1>1. /\ reader' = "next" /\ buf' = Frames!Result /\ step' = 1 /\ pos' = 0 /\ status' = "Ok" /\ frame' = Frames!EmptyFrame
  BY DEF Frames!Handle
<1>2. Frames!Result \in Seq(Frames!Byte) BY ResultSent
<1>3. Reading' BY <1>1, <1>2, LenProperties DEF Reading
<1>4. (reader = "next" => buf = Frames!Result)' BY <1>1 DEF Frames!Result
<1> QED BY <1>1, <1>3, <1>4 DEF FrameInv, Frames!EmptyFrame

LEMMA ContextRead == ASSUME FrameConstants, FrameInv, step = 1, Frames!ReadField PROVE FrameInv'
<1>1. /\ Reading /\ frame = [context |-> frame.context, image |-> frame.image] /\ pos = 0 /\ status = "Ok"
      /\ reader \in {"node", "next"} /\ (reader = "next" => buf = Frames!Result)
  BY DEF FrameInv
<1>2. Frames!ReadValue("context") /\ step' = 2 /\ reader' = reader /\ buf' = buf BY DEF Frames!ReadField,
Frames!Fields
<1>3. frame' = [context |-> frame'.context, image |-> frame'.image] BY <1>1, <1>2 DEF Frames!ReadValue
<1>4. Reading'
  BY <1>1, <1>2, PositionStays
<1>5. ASSUME status' = "Ok"
      PROVE  Frames!Encode(frame'.context) \in Seq(Frames!Byte) /\ Follows(Frames!Encode(frame'.context), 0) /\ pos' = Len(Frames!Encode(frame'.context))
  <2>1. /\ Frames!Encode(frame'["context"]) \in Seq(Frames!Byte)
        /\ Follows(Frames!Encode(frame'["context"]), pos) /\ pos' = pos + Len(Frames!Encode(frame'["context"]))
    BY <1>1, <1>2, <1>5, ReadOk DEF FieldNames
  <2>2. Len(Frames!Encode(frame'["context"])) \in Nat BY <2>1, LenProperties
  <2> QED BY <1>1, <2>1, <2>2
<1>6. ASSUME NEW c, Sendable(c, "context"), Follows(Frames!Encode(c), 0)
      PROVE  frame'.context = c /\ status' = "Ok" /\ pos' = Len(Frames!Encode(c))
  <2>1. frame'["context"] = c /\ pos' = pos + Len(Frames!Encode(c)) /\ status' = status
    BY <1>1, <1>2, <1>6, ReadsBack DEF FieldNames
  <2>2. Len(Frames!Encode(c)) \in Nat BY <1>6, SentIs, LenProperties
  <2> QED BY <1>1, <2>1, <2>2
<1>7. ContextRight' BY <1>2, <1>5, <1>6 DEF ContextRight, Follows
<1> QED BY <1>1, <1>2, <1>3, <1>4, <1>7 DEF FrameInv

LEMMA ImageRead == ASSUME FrameConstants, FrameInv, step = 2, Frames!ReadField PROVE FrameInv'
<1>1. /\ Reading /\ frame = [context |-> frame.context, image |-> frame.image]
      /\ reader \in {"node", "next"} /\ (reader = "next" => buf = Frames!Result)
  BY DEF FrameInv
<1>2. Frames!ReadValue("image") /\ step' = 3 /\ reader' = reader /\ buf' = buf BY DEF Frames!ReadField,
Frames!Fields
<1>3. frame' = [context |-> frame'.context, image |-> frame'.image] /\ frame'.context = frame.context
  BY <1>1, <1>2 DEF Frames!ReadValue
<1>4. Reading' BY <1>1, <1>2, PositionStays
<1>5. ASSUME status' = "Ok"
      PROVE  /\ Frames!Encode(frame'.context) \in Seq(Frames!Byte) /\ Frames!Encode(frame'.image) \in Seq(Frames!Byte)
             /\ BothFollow(frame'.context, frame'.image)
  <2>1. /\ status = "Ok" /\ Frames!Encode(frame'["image"]) \in Seq(Frames!Byte) /\ Follows(Frames!Encode(frame'["image"]), pos)
    BY <1>1, <1>2, <1>5, ReadOk DEF FieldNames
  <2>2. Frames!Encode(frame.context) \in Seq(Frames!Byte) /\ Follows(Frames!Encode(frame.context), 0) /\ pos = Len(Frames!Encode(frame.context))
    BY <2>1 DEF FrameInv, ContextRight
  <2> QED BY <1>3, <2>1, <2>2 DEF BothFollow
<1>6. ASSUME NEW c, NEW i, Sendable(c, "context"), Sendable(i, "image"), BothFollow(c, i)
      PROVE  frame'.context = c /\ frame'.image = i /\ status' = "Ok"
  <2>1. frame.context = c /\ status = "Ok" /\ pos = Len(Frames!Encode(c)) BY <1>6 DEF FrameInv, ContextRight,
  BothFollow
  <2>2. frame'["image"] = i /\ status' = status
    BY <1>1, <1>2, <1>6, <2>1, ReadsBack DEF FieldNames, BothFollow
  <2> QED BY <1>3, <2>1, <2>2
<1>7. ASSUME reader = "next" PROVE Frames!ResultIsContext'
  <2>1. frame.context = Frames!Bytes(Frames!Json) /\ status = "Ok" /\ pos = Len(Frames!Result) /\ buf = Frames!Result
    BY <1>1, <1>7, ResultSent DEF FrameInv, ContextRight
  <2>2. Len(buf) \in Nat /\ pos = Len(buf) BY <2>1, ResultSent, LenProperties
  <2>3. Len(Frames!Rest) < 2 BY <1>1, <2>2, RestIs
  <2>4. Frames!WordHere = 0 /\ Frames!AfterWord = Len(buf) /\ 0 # Frames!NullWord
    <3>1. Frames!NullWord >= 3 BY WordsRead
    <3>2. 0 # Frames!NullWord BY <3>1
    <3> QED BY <2>3, <3>2 DEF Frames!WordHere, Frames!AfterWord
  <2>5. Frames!Payload(0) = <<>> /\ Len(Frames!Payload(0)) = 0
    <3>1. Len(Frames!Payload(0)) = 0 /\ Frames!Payload(0) \in Seq(Frames!Byte) BY <1>1, <2>2, <2>4, PayloadIs
    <3> QED BY <3>1, EmptySeq
  <2>6. frame' = [frame EXCEPT !["image"] = Frames!Bytes(<<>>)] /\ status' = "ReadPastEnd"
    BY <1>2, <2>1, <2>3, <2>4, <2>5 DEF Frames!ReadValue, Frames!Whole
  <2> QED BY <1>1, <1>2, <2>1, <2>6 DEF Frames!ResultIsContext, Frames!Bytes, Frames!Json
<1>8. FrameRight' BY <1>2, <1>5, <1>6, <1>7 DEF FrameRight, BothFollow, Follows
<1> QED BY <1>1, <1>2, <1>3, <1>4, <1>8 DEF FrameInv

(* A frame read without an error is the one the message begins with, every *)
(* frame that was sent is read back as it was whatever follows it, and the *)
(* next program finds the result where it expects a context.               *)
THEOREM FramesAreReadBack ==
  ASSUME FrameConstants
  PROVE  Frames!Spec => [](Frames!OkMeansWhole /\ Frames!FrameReadsBack /\ Frames!ResultIsContext)
<1>1. Frames!Init => FrameInv BY FrameBegins
<1>2. FrameInv /\ [Frames!Next]_(Frames!vars) => FrameInv'
  <2> SUFFICES ASSUME FrameInv, [Frames!Next]_(Frames!vars) PROVE FrameInv' OBVIOUS
  <2>1. CASE Frames!ReadField
    <3>1. step \in {1, 2} BY <2>1 DEF Frames!ReadField, Frames!Fields
    <3> QED BY <2>1, <3>1, ContextRead, ImageRead
  <2>2. CASE Frames!Handle BY <2>2, HandledFrame
  <2>3. CASE UNCHANGED Frames!vars
    <3>1. Reading' = Reading /\ ContextRight' = ContextRight /\ FrameRight' = FrameRight
      BY <2>3 DEF Frames!vars, Reading, ContextRight, FrameRight, BothFollow, Follows, Frames!ResultIsContext,
                  Frames!Read
    <3> QED BY <2>3, <3>1 DEF Frames!vars, FrameInv
  <2> QED BY <2>1, <2>2, <2>3 DEF Frames!Next
<1>3. FrameInv => Frames!OkMeansWhole /\ Frames!FrameReadsBack /\ Frames!ResultIsContext BY FramesRight
<1> QED BY <1>1, <1>2, <1>3, PTL DEF Frames!Spec

-----------------------------------------------------------------------------
(* The parts, as LogSinks runs them.                                       *)
LEMMA PartsBegin ==
  ASSUME Init
  PROVE  Registry!Init /\ Queue!Init /\ Log!Init /\ Filter!Init /\ Clock!Init /\ Frames!Init
BY DEF Init

LEMMA StepOfEach ==
  ASSUME [Next]_vars
  PROVE  /\ [Registry!Next]_(Registry!vars)
         /\ [Queue!Next]_ring
         /\ [Log!Next]_(Log!vars)
         /\ [Filter!Next]_(Filter!vars)
         /\ [Clock!Next]_(Clock!vars)
         /\ [Frames!Next]_(Frames!vars)
BY DEF Next, Step, vars, registryVars, loggerVars, filterVars, Log!vars, Log!callVars, Log!sinkVars,
       Registry!vars, Registry!flushVars, Registry!mapVars, Registry!levelVars, Registry!settingVars,
       Filter!vars, Filter!filter, Filter!written, clockVars, frameVars, Clock!vars, Clock!formatters, Clock!full,
       Clock!zone, Frames!vars

(* The default logger is the one its name finds, and no change of a        *)
(* setting or a level misses a logger, for any loggers, names and levels.  *)
THEOREM RegistryStaysAgreed ==
  ASSUME RegistryConstants
  PROVE  Spec => []RegistryAgrees
<1>1. Registry!Spec => []Registry!RegistryAgrees BY RegistryAlwaysAgrees
<1>2. Init => Registry!Init BY PartsBegin
<1>3. [Next]_vars => [Registry!Next]_(Registry!vars) BY StepOfEach
<1> QED BY <1>1, <1>2, <1>3, PTL DEF Spec, RegistryAgrees, Registry!Spec

(* The ring of any size is a bounded queue that drops the oldest.          *)
THEOREM QueuesKeepTheLast ==
  ASSUME MaxSize \in Nat
  PROVE  Spec => QueueKeepsLast
<1>1. Queue!Spec => Queue!ImplementsBoundedQueue /\ [](Queue!FullMeansNoRoom /\ Queue!LastAreLast)
  BY RingsAreQueues
<1>2. Init => Queue!Init BY PartsBegin
<1>3. [Next]_vars => [Queue!Next]_ring BY StepOfEach
<1> QED BY <1>1, <1>2, <1>3, PTL DEF Spec, QueueKeepsLast, Queue!Spec

(* A sink that throws keeps no message from the sinks after it, a severe   *)
(* message is flushed when its call returns, a dump repeats a message at   *)
(* most once and gives its lock back: for any threads, different sinks,    *)
(* levels and errors.                                                      *)
THEOREM EverySinkAlwaysServed ==
  ASSUME LoggerConstants
  PROVE  Spec => []EverySinkServed
<1>1. Log!Spec => [](Log!EverySinkTried /\ Log!SevereIsFlushed /\ Log!DumpedOnce /\ Log!LockGivenBack)
  BY SinksServed
<1>2. Init => Log!Init BY PartsBegin
<1>3. [Next]_vars => [Log!Next]_(Log!vars) BY StepOfEach
<1> QED BY <1>1, <1>2, <1>3, PTL DEF Spec, EverySinkServed, Log!Spec

(* Every message filtered is still counted or announced to the children,   *)
(* and one is left out only while each has the same as its last line: for  *)
(* any children, levels, payloads and clock.                               *)
THEOREM RepeatsAlwaysCounted ==
  ASSUME FilterConstants
  PROVE  Spec => RepeatsCounted
<1>1. Filter!Spec => Filter!SkippedCounted /\ Filter!RepeatsAreShown BY RepeatsAreCounted
<1>2. Init => Filter!Init BY PartsBegin
<1>3. [Next]_vars => [Filter!Next]_(Filter!vars) BY StepOfEach
<1> QED BY <1>1, <1>2, <1>3, PTL DEF Spec, RepeatsCounted, Filter!Spec

(* A message shows its own date, whatever was formatted before it, and the *)
(* offset that %z shows was read less than the refresh interval before:    *)
(* for any patterns, clock, delays and change of the offset.               *)
THEOREM ClockAlwaysRight ==
  ASSUME ClockConstants
  PROVE  Spec => []ClockRight
<1>1. Clock!Spec => [](Clock!DateIsRight /\ Clock!OffsetIsFresh) BY ClockShowsItsTime
<1>2. Init => Clock!Init BY PartsBegin
<1>3. [Next]_vars => [Clock!Next]_(Clock!vars) BY StepOfEach
<1> QED BY <1>1, <1>2, <1>3, PTL DEF Spec, ClockRight, Clock!Spec

(* A frame that is read without an error is the one that was sent, and     *)
(* what the node sends is read as it meant it: for any message.            *)
THEOREM FramesAlwaysReadBack ==
  ASSUME FrameConstants
  PROVE  Spec => []FramesReadBack
<1>1. Frames!Spec => [](Frames!OkMeansWhole /\ Frames!FrameReadsBack /\ Frames!ResultIsContext)
  BY FramesAreReadBack
<1>2. Init => Frames!Init BY PartsBegin
<1>3. [Next]_vars => [Frames!Next]_(Frames!vars) BY StepOfEach
<1> QED BY <1>1, <1>2, <1>3, PTL DEF Spec, FramesReadBack, Frames!Spec
=============================================================================

----------------------------- MODULE CircularQ -----------------------------
(***************************************************************************)
(* spdlog's circular_q, a bounded queue in a vector with one slot kept     *)
(* free, and what ringbuffer_sink reads from it.  The vector is a function *)
(* on 0..max-1; a queue that was default constructed or moved from has     *)
(* max = 0 and is disabled.                                                *)
(***************************************************************************)
EXTENDS Naturals, Sequences

-----------------------------------------------------------------------------
(* Slips a change of the code could make.                                  *)

PushBack_KeepsHead(q, x) ==
  IF q.max = 0 THEN q
  ELSE LET t == (q.tail + 1) % q.max
       IN [q EXCEPT !.v[q.tail] = x, !.tail = t, !.overrun = @ + IF t = q.head THEN 1 ELSE 0]

-----------------------------------------------------------------------------
Disabled == [max |-> 0, head |-> 0, tail |-> 0, overrun |-> 0, v |-> <<>>]

New(n, none) ==
  [max |-> n + 1, head |-> 0, tail |-> 0, overrun |-> 0, v |-> [i \in 0 .. n |-> none]]

PushBack(q, x) ==
  IF q.max = 0 THEN q
  ELSE LET t    == (q.tail + 1) % q.max
           over == t = q.head
       IN [q EXCEPT !.v[q.tail] = x, !.tail = t,
                    !.head = IF over THEN (@ + 1) % q.max ELSE @,
                    !.overrun = IF over THEN @ + 1 ELSE @]

Oldest(q) == q.v[q.head]
PopFront(q) == [q EXCEPT !.head = (@ + 1) % q.max]
Size(q) == IF q.tail >= q.head THEN q.tail - q.head ELSE q.max - (q.head - q.tail)
At(q, i) == q.v[(q.head + i) % q.max]
Empty(q) == q.tail = q.head
Full(q) == q.max > 0 /\ (q.tail + 1) % q.max = q.head

(* copy_moveable: what the source of a move is left as.                    *)
MovedFrom(q) == Disabled

Contents(q) == [i \in 1 .. Size(q) |-> At(q, i - 1)]

(* ringbuffer_sink::last_raw: the last lim messages, all of them for zero. *)
LastRaw(q, lim) ==
  LET available == Size(q)
      n == IF lim > 0 /\ lim < available THEN lim ELSE available
  IN [i \in 1 .. n |-> At(q, available - n + i - 1)]

-----------------------------------------------------------------------------
(* What the calls do, for every capacity.  S is what the slots may hold.   *)

IsRing(q, S) ==
  /\ q = [max |-> q.max, head |-> q.head, tail |-> q.tail, overrun |-> q.overrun, v |-> q.v]
  /\ q.max \in Nat /\ q.overrun \in Nat
  /\ q.v \in [0 .. q.max - 1 -> S]
  /\ q.max = 0 => q.head = 0 /\ q.tail = 0
  /\ q.max > 0 => q.head \in 0 .. q.max - 1 /\ q.tail \in 0 .. q.max - 1

(* Indices go around.                                                      *)
LEMMA Around ==
  ASSUME NEW m \in Nat \ {0}, NEW x \in 0 .. m - 1, NEW i \in 0 .. m
  PROVE  (x + i) % m = IF x + i < m THEN x + i ELSE x + i - m
<1>1. CASE x + i < m
  BY <1>1
<1>2. CASE x + i >= m
  <2>1. x + i = m * 1 + (x + i - m) /\ x + i - m \in 0 .. m - 1
    BY <1>2
  <2> QED BY <1>2, <2>1
<1> QED BY <1>1, <1>2

LEMMA RingSize ==
  ASSUME NEW S, NEW q, IsRing(q, S)
  PROVE  /\ Size(q) \in Nat
         /\ Empty(q) <=> Size(q) = 0
         /\ q.max > 0 => Size(q) < q.max
         /\ Full(q) <=> q.max > 0 /\ Size(q) = q.max - 1
         /\ Size(q) = IF q.tail >= q.head THEN q.tail - q.head ELSE q.max - (q.head - q.tail)
         /\ \A i \in 0 .. Size(q) - 1 :
              At(q, i) = q.v[IF q.head + i < q.max THEN q.head + i ELSE q.head + i - q.max] /\ At(q, i) \in S
<1> DEFINE h == q.head
           t == q.tail
           m == q.max
<1>1. /\ m \in Nat /\ h \in Nat /\ t \in Nat
      /\ m > 0 => h < m /\ t < m
      /\ m = 0 => h = 0 /\ t = 0
      /\ q.v \in [0 .. m - 1 -> S]
  BY DEF IsRing
<1>2. Size(q) = IF t >= h THEN t - h ELSE m - (h - t)
  BY DEF Size
<1>3. Size(q) \in Nat /\ (Empty(q) <=> Size(q) = 0) /\ (m > 0 => Size(q) < m) /\ (m = 0 => Size(q) = 0)
  <2> HIDE DEF h, t, m
  <2>1. Empty(q) <=> t = h BY DEF Empty, t, h
  <2> QED BY <1>1, <1>2, <2>1
<1>4. Full(q) <=> m > 0 /\ Size(q) = m - 1
  <2>1. CASE m = 0 BY <1>1, <2>1 DEF Full
  <2>2. CASE m > 0
    <3>1. (t + 1) % m = IF t + 1 < m THEN t + 1 ELSE t + 1 - m
      <4> HIDE DEF h, t, m
      <4>1. m \in Nat \ {0} /\ t \in 0 .. m - 1 /\ 1 \in 0 .. m BY <1>1, <2>2
      <4> QED BY <4>1, Around
    <3>2. Full(q) <=> (t + 1) % m = h BY <2>2 DEF Full
    <3> HIDE DEF h, t, m
    <3> QED BY <1>1, <1>2, <2>2, <3>1, <3>2
  <2> QED BY <1>1, <2>1, <2>2
<1>5. ASSUME NEW i \in 0 .. Size(q) - 1
      PROVE  /\ At(q, i) = q.v[IF h + i < m THEN h + i ELSE h + i - m]
             /\ At(q, i) \in S
  <2>1. m \in Nat \ {0} /\ h \in 0 .. m - 1 /\ i \in 0 .. m
    <3> HIDE DEF h, t, m
    <3> QED BY <1>1, <1>3, <1>5
  <2>2. (h + i) % m = IF h + i < m THEN h + i ELSE h + i - m
    <3> HIDE DEF h, t, m
    <3> QED BY <2>1, Around
  <2>3. (h + i) % m \in 0 .. m - 1
    <3> HIDE DEF h, t, m
    <3> QED BY <1>1, <1>3, <1>5, <2>1, <2>2
  <2>4. At(q, i) = q.v[(h + i) % m] BY DEF At
  <2> HIDE DEF h, t, m
  <2> QED BY <1>1, <2>2, <2>3, <2>4
<1> QED BY <1>2, <1>3, <1>4, <1>5

(* push_back: x comes last; without room the oldest goes and is counted.   *)
LEMMA Pushed ==
  ASSUME NEW S, NEW q, IsRing(q, S), q.max > 0, NEW x \in S
  PROVE  /\ IsRing(PushBack(q, x), S) /\ PushBack(q, x).max = q.max
         /\ ~Full(q) => /\ Size(PushBack(q, x)) = Size(q) + 1
                        /\ PushBack(q, x).overrun = q.overrun
                        /\ \A i \in 0 .. Size(q) :
                             At(PushBack(q, x), i) = IF i = Size(q) THEN x ELSE At(q, i)
         /\ Full(q) => /\ Size(PushBack(q, x)) = Size(q)
                       /\ PushBack(q, x).overrun = q.overrun + 1
                       /\ \A i \in 0 .. Size(q) - 1 :
                            At(PushBack(q, x), i) = IF i = Size(q) - 1 THEN x ELSE At(q, i + 1)
<1> DEFINE r == PushBack(q, x)
           m == q.max
           t == q.tail
           h == q.head
           u == IF t + 1 < m THEN t + 1 ELSE 0
           g == IF h + 1 < m THEN h + 1 ELSE 0
           slot(i) == IF h + i < m THEN h + i ELSE h + i - m
<1>1. /\ m \in Nat \ {0} /\ h \in 0 .. m - 1 /\ t \in 0 .. m - 1 /\ q.overrun \in Nat
      /\ q.v \in [0 .. m - 1 -> S]
      /\ q = [max |-> m, head |-> h, tail |-> t, overrun |-> q.overrun, v |-> q.v]
  BY DEF IsRing
<1>2. (t + 1) % m = u /\ (h + 1) % m = g
  <2> HIDE DEF m, t, h
  <2>1. 1 \in 0 .. m BY <1>1
  <2>2. (t + 1) % m = (IF t + 1 < m THEN t + 1 ELSE t + 1 - m)
    BY <1>1, <2>1, Around
  <2>3. (h + 1) % m = (IF h + 1 < m THEN h + 1 ELSE h + 1 - m)
    BY <1>1, <2>1, Around
  <2> QED BY <1>1, <2>2, <2>3
<1>3. Full(q) <=> u = h
  BY <1>1, <1>2 DEF Full
<1>4. /\ r.max = m /\ r.tail = u /\ r.v = [q.v EXCEPT ![t] = x]
      /\ r.head = IF Full(q) THEN g ELSE h
      /\ r.overrun = IF Full(q) THEN q.overrun + 1 ELSE q.overrun
      /\ r = [max |-> r.max, head |-> r.head, tail |-> r.tail, overrun |-> r.overrun, v |-> r.v]
  BY <1>1, <1>2, <1>3 DEF PushBack
<1>5. IsRing(r, S)
  <2> HIDE DEF r
  <2>1. u \in 0 .. m - 1 /\ g \in 0 .. m - 1
    <3> HIDE DEF m, t, h
    <3> QED BY <1>1
  <2> QED BY <1>1, <1>4, <2>1 DEF IsRing
<1>6. /\ Size(q) = IF t >= h THEN t - h ELSE m - (h - t)
      /\ Size(r) = IF u >= r.head THEN u - r.head ELSE m - (r.head - u)
      /\ Size(q) < m
      /\ Full(q) <=> Size(q) = m - 1
      /\ Size(q) \in Nat /\ Size(r) \in Nat
      /\ \A i \in 0 .. Size(q) - 1 : At(q, i) = q.v[slot(i)]
      /\ \A i \in 0 .. Size(r) - 1 :
           At(r, i) = r.v[IF r.head + i < m THEN r.head + i ELSE r.head + i - m]
  <2> HIDE DEF r
  <2>1. r.max = m /\ r.tail = u /\ m > 0
    BY <1>1, <1>4
  <2>2. /\ Size(q) \in Nat /\ Size(q) < m /\ (Full(q) <=> Size(q) = m - 1)
        /\ Size(q) = IF t >= h THEN t - h ELSE m - (h - t)
        /\ \A i \in 0 .. Size(q) - 1 : At(q, i) = q.v[slot(i)]
    BY <2>1, RingSize
  <2>3. /\ Size(r) \in Nat
        /\ Size(r) = IF r.tail >= r.head THEN r.tail - r.head ELSE r.max - (r.head - r.tail)
        /\ \A i \in 0 .. Size(r) - 1 :
             At(r, i) = r.v[IF r.head + i < r.max THEN r.head + i ELSE r.head + i - r.max]
    BY <1>5, RingSize
  <2> QED BY <2>1, <2>2, <2>3
<1>7. ASSUME ~Full(q)
      PROVE  /\ Size(r) = Size(q) + 1
             /\ \A i \in 0 .. Size(q) : At(r, i) = IF i = Size(q) THEN x ELSE At(q, i)
  <2>1. r.head = h /\ u # h BY <1>3, <1>4, <1>7
  <2>2. Size(r) = Size(q) + 1
    <3> HIDE DEF r, m, t, h
    <3>1. m \in Nat \ {0} /\ h \in 0 .. m - 1 /\ t \in 0 .. m - 1 BY <1>1
    <3>2. /\ Size(q) = IF t >= h THEN t - h ELSE m - (h - t)
          /\ Size(r) = IF u >= h THEN u - h ELSE m - (h - u)
      BY <1>6, <2>1
    <3>3. CASE t + 1 < m BY <2>1, <3>1, <3>2, <3>3
    <3>4. CASE t = m - 1 BY <2>1, <3>1, <3>2, <3>4
    <3> QED BY <3>1, <3>3, <3>4
  <2>3. ASSUME NEW i \in 0 .. Size(q) PROVE At(r, i) = IF i = Size(q) THEN x ELSE At(q, i)
    <3>1. At(r, i) = r.v[slot(i)]
      <4> HIDE DEF r, m, t, h
      <4> QED BY <1>6, <2>1, <2>2
    <3>2. slot(i) \in 0 .. m - 1 /\ (slot(i) = t <=> i = Size(q))
      <4> HIDE DEF r, m, t, h
      <4>1. m \in Nat \ {0} /\ h \in 0 .. m - 1 /\ t \in 0 .. m - 1 BY <1>1
      <4>2. Size(q) = (IF t >= h THEN t - h ELSE m - (h - t)) /\ Size(q) < m BY <1>6
      <4>3. CASE t >= h BY <4>1, <4>2, <4>3
      <4>4. CASE t < h BY <4>1, <4>2, <4>4
      <4> QED BY <4>1, <4>3, <4>4
    <3>3. i # Size(q) => At(q, i) = q.v[slot(i)]
      <4> HIDE DEF r, m, t, h, slot
      <4>1. Size(q) \in Nat BY <1>6
      <4>2. i # Size(q) => i \in 0 .. Size(q) - 1 BY <4>1
      <4> QED BY <1>6, <4>2
    <3> HIDE DEF slot, r, m, t, h
    <3> QED BY <1>1, <1>4, <3>1, <3>2, <3>3
  <2> HIDE DEF r
  <2> QED BY <2>2, <2>3
<1>8. ASSUME Full(q)
      PROVE  /\ Size(r) = Size(q)
             /\ \A i \in 0 .. Size(q) - 1 : At(r, i) = IF i = Size(q) - 1 THEN x ELSE At(q, i + 1)
  <2>1. r.head = g /\ u = h BY <1>3, <1>4, <1>8
  <2>2. Size(r) = Size(q)
    <3> HIDE DEF r, m, t, h
    <3> QED BY <1>1, <1>6, <2>1
  <2>3. ASSUME NEW i \in 0 .. Size(q) - 1 PROVE At(r, i) = IF i = Size(q) - 1 THEN x ELSE At(q, i + 1)
    <3> DEFINE k == i + 1
    <3>0. /\ k \in 1 .. m - 1 /\ i = k - 1 /\ h \in 0 .. m - 1 /\ m \in Nat \ {0} /\ Size(q) = m - 1
          /\ (k = Size(q) <=> i = Size(q) - 1) /\ (k # Size(q) => k \in 0 .. Size(q) - 1)
      <4> HIDE DEF r, m, t, h
      <4>1. Size(q) \in Nat /\ Size(q) = m - 1 BY <1>6, <1>8
      <4>2. m \in Nat \ {0} /\ h \in 0 .. m - 1 BY <1>1
      <4> QED BY <4>1, <4>2
    <3>1. At(r, i) = r.v[slot(k)]
      <4>1. (IF g + i < m THEN g + i ELSE g + i - m) = slot(k)
        <5> HIDE DEF r, m, t, h, k
        <5>1. CASE h + 1 < m BY <3>0, <5>1
        <5>2. CASE h = m - 1 BY <3>0, <5>2
        <5> QED BY <3>0, <5>1, <5>2
      <4>2. At(r, i) = r.v[IF g + i < m THEN g + i ELSE g + i - m]
        <5> HIDE DEF r, m, t, h, g, slot
        <5> QED BY <1>6, <2>1, <2>2
      <4> HIDE DEF r, m, t, h, g, slot
      <4> QED BY <4>1, <4>2
    <3>2. slot(k) \in 0 .. m - 1 /\ (slot(k) = t <=> k = Size(q))
      <4> HIDE DEF r, m, t, h, k
      <4>1. t \in 0 .. m - 1 BY <1>1
      <4>2. CASE t + 1 < m BY <2>1, <3>0, <4>1, <4>2
      <4>3. CASE t = m - 1 BY <2>1, <3>0, <4>1, <4>3
      <4> QED BY <3>0, <4>1, <4>2, <4>3
    <3>3. k # Size(q) => At(q, k) = q.v[slot(k)]
      <4> HIDE DEF r, m, t, h, slot, k
      <4> QED BY <1>6, <3>0
    <3>4. At(r, i) = IF k = Size(q) THEN x ELSE At(q, k)
      <4> HIDE DEF slot, r, m, t, h, k
      <4> QED BY <1>1, <1>4, <3>1, <3>2, <3>3
    <3> QED BY <3>0, <3>4
  <2> HIDE DEF r
  <2> QED BY <2>2, <2>3
<1> HIDE DEF r
<1> QED BY <1>4, <1>5, <1>7, <1>8 DEF r

(* pop_front: the oldest goes.                                             *)
LEMMA Popped ==
  ASSUME NEW S, NEW q, IsRing(q, S), ~Empty(q)
  PROVE  /\ IsRing(PopFront(q), S) /\ PopFront(q).max = q.max
         /\ Size(PopFront(q)) = Size(q) - 1 /\ Size(q) \in Nat \ {0}
         /\ PopFront(q).overrun = q.overrun
         /\ Oldest(q) = At(q, 0)
         /\ \A i \in 0 .. Size(q) - 2 : At(PopFront(q), i) = At(q, i + 1)
<1> DEFINE r == PopFront(q)
           m == q.max
           t == q.tail
           h == q.head
           g == IF h + 1 < m THEN h + 1 ELSE 0
           slot(i) == IF h + i < m THEN h + i ELSE h + i - m
<1>1. /\ m \in Nat \ {0} /\ h \in 0 .. m - 1 /\ t \in 0 .. m - 1 /\ q.overrun \in Nat
      /\ q.v \in [0 .. m - 1 -> S] /\ t # h
      /\ q = [max |-> m, head |-> h, tail |-> t, overrun |-> q.overrun, v |-> q.v]
  BY DEF IsRing, Empty
<1>2. (h + 1) % m = g
  <2> HIDE DEF m, t, h
  <2>1. 1 \in 0 .. m BY <1>1
  <2>2. (h + 1) % m = (IF h + 1 < m THEN h + 1 ELSE h + 1 - m)
    BY <1>1, <2>1, Around
  <2> QED BY <1>1, <2>2
<1>3. /\ r.max = m /\ r.tail = t /\ r.v = q.v /\ r.head = g /\ r.overrun = q.overrun
      /\ r = [max |-> r.max, head |-> r.head, tail |-> r.tail, overrun |-> r.overrun, v |-> r.v]
  BY <1>1, <1>2 DEF PopFront
<1>4. IsRing(r, S)
  <2> HIDE DEF r
  <2>1. g \in 0 .. m - 1
    <3> HIDE DEF m, t, h
    <3> QED BY <1>1
  <2> QED BY <1>1, <1>3, <2>1 DEF IsRing
<1>5. /\ Size(q) = IF t >= h THEN t - h ELSE m - (h - t)
      /\ Size(r) = IF t >= g THEN t - g ELSE m - (g - t)
      /\ Size(q) < m /\ Size(q) \in Nat /\ Size(r) \in Nat
      /\ \A i \in 0 .. Size(q) - 1 : At(q, i) = q.v[slot(i)]
      /\ \A i \in 0 .. Size(r) - 1 : At(r, i) = r.v[IF g + i < m THEN g + i ELSE g + i - m]
  <2> HIDE DEF r
  <2>1. r.max = m /\ r.tail = t /\ r.head = g /\ m > 0
    BY <1>1, <1>3
  <2>2. /\ Size(q) \in Nat /\ Size(q) < m
        /\ Size(q) = IF t >= h THEN t - h ELSE m - (h - t)
        /\ \A i \in 0 .. Size(q) - 1 : At(q, i) = q.v[slot(i)]
    BY <2>1, RingSize
  <2>3. /\ Size(r) \in Nat
        /\ Size(r) = IF r.tail >= r.head THEN r.tail - r.head ELSE r.max - (r.head - r.tail)
        /\ \A i \in 0 .. Size(r) - 1 :
             At(r, i) = r.v[IF r.head + i < r.max THEN r.head + i ELSE r.head + i - r.max]
    BY <1>4, RingSize
  <2> HIDE DEF g
  <2> QED BY <2>1, <2>2, <2>3
<1>6. Size(r) = Size(q) - 1 /\ Size(q) # 0
  <2> HIDE DEF r, m, t, h
  <2>1. m \in Nat \ {0} /\ h \in 0 .. m - 1 /\ t \in 0 .. m - 1 /\ t # h BY <1>1
  <2>2. /\ Size(q) = IF t >= h THEN t - h ELSE m - (h - t)
        /\ Size(r) = IF t >= g THEN t - g ELSE m - (g - t)
    BY <1>5
  <2>3. CASE h + 1 < m BY <2>1, <2>2, <2>3
  <2>4. CASE h = m - 1 BY <2>1, <2>2, <2>4
  <2> QED BY <2>1, <2>3, <2>4
<1>7. Oldest(q) = At(q, 0)
  <2>1. slot(0) = h
    <3> HIDE DEF r, m, t, h
    <3> QED BY <1>1
  <2>2. At(q, 0) = q.v[slot(0)]
    <3> HIDE DEF r, m, t, h, slot
    <3> QED BY <1>5, <1>6
  <2>3. Oldest(q) = q.v[h] BY DEF Oldest
  <2> QED BY <2>1, <2>2, <2>3
<1>8. ASSUME NEW i \in 0 .. Size(q) - 2 PROVE At(r, i) = At(q, i + 1)
  <2> DEFINE k == i + 1
  <2>0. /\ k \in 1 .. m - 1 /\ i = k - 1 /\ h \in 0 .. m - 1 /\ m \in Nat \ {0}
        /\ k \in 0 .. Size(q) - 1 /\ i \in 0 .. Size(r) - 1
    <3> HIDE DEF r, m, t, h
    <3>1. Size(q) \in Nat /\ Size(q) < m /\ Size(r) = Size(q) - 1 BY <1>5, <1>6
    <3>2. m \in Nat \ {0} /\ h \in 0 .. m - 1 BY <1>1
    <3> QED BY <3>1, <3>2
  <2>1. (IF g + i < m THEN g + i ELSE g + i - m) = slot(k)
    <3> HIDE DEF r, m, t, h, k
    <3>1. CASE h + 1 < m BY <2>0, <3>1
    <3>2. CASE h = m - 1 BY <2>0, <3>2
    <3> QED BY <2>0, <3>1, <3>2
  <2>2. At(r, i) = At(q, k)
    <3> HIDE DEF r, m, t, h, g, slot, k
    <3> QED BY <1>3, <1>5, <2>0, <2>1
  <2> QED BY <2>2
<1> HIDE DEF r
<1> QED BY <1>3, <1>4, <1>5, <1>6, <1>7, <1>8 DEF r
=============================================================================

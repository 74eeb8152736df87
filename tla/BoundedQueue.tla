---------------------------- MODULE BoundedQueue ----------------------------
(***************************************************************************)
(* What circular_q promises: first in, first out, the oldest item gives    *)
(* way when there is no room, and each item that did is counted.           *)
(***************************************************************************)
EXTENDS Integers, Sequences

CONSTANTS Queues, Items, MaxSize

VARIABLE queue  \* of each queue: its room, its items, how many were overrun

Made(n) == [room |-> n, items |-> <<>>, lost |-> 0]
Off == Made(-1)  \* never given a size, or moved from: it ignores what is put

Init == queue = [k \in Queues |-> Off]

Put(k, x) ==
  LET q == queue[k]
      over == Len(q.items) >= q.room
  IN queue' = IF q.room < 0 THEN queue
              ELSE [queue EXCEPT ![k].items = IF over THEN Tail(Append(@, x)) ELSE Append(@, x),
                                 ![k].lost = IF over THEN @ + 1 ELSE @]

Take(k) ==
  /\ queue[k].items # <<>>
  /\ queue' = [queue EXCEPT ![k].items = Tail(@)]

Make(k, n) == queue' = [queue EXCEPT ![k] = Made(n)]
Copy(j, k) == queue' = [queue EXCEPT ![k] = queue[j]]
Move(j, k) == j # k /\ queue' = [queue EXCEPT ![k] = queue[j], ![j] = Off]

Next ==
  \E k \in Queues :
    \/ \E x \in Items : Put(k, x)
    \/ Take(k)
    \/ \E n \in 0 .. MaxSize : Make(k, n)
    \/ \E j \in Queues : Copy(j, k) \/ Move(j, k)

Spec == Init /\ [][Next]_queue
=============================================================================

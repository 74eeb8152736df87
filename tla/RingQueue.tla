----------------------------- MODULE RingQueue -----------------------------
(***************************************************************************)
(* circular_q objects under every sequence of calls: the backtrace of a    *)
(* logger, the queue of the thread pool, the ring buffer sink.             *)
(***************************************************************************)
EXTENDS CircularQ, Integers

CONSTANTS Queues, Items, MaxSize, MaxOverrun, None

VARIABLE ring

Init == ring = [k \in Queues |-> Disabled]

(* Callers take from a queue only when it is not empty.                    *)
Next ==
  \E k \in Queues :
    \/ \E x \in Items : ring' = [ring EXCEPT ![k] = PushBack(@, x)]
    \/ ~Empty(ring[k]) /\ ring' = [ring EXCEPT ![k] = PopFront(@)]
    \/ \E n \in 0 .. MaxSize : ring' = [ring EXCEPT ![k] = New(n, None)]
    \/ \E j \in Queues : ring' = [ring EXCEPT ![k] = ring[j]]
    \/ \E j \in Queues \ {k} : ring' = [ring EXCEPT ![k] = ring[j], ![j] = MovedFrom(ring[j])]

Spec == Init /\ [][Next]_ring

Counted == \A k \in Queues : ring[k].overrun <= MaxOverrun

-----------------------------------------------------------------------------
Abstract(q) == [room |-> q.max - 1, items |-> Contents(q), lost |-> q.overrun]

Bounded == INSTANCE BoundedQueue WITH queue <- [k \in Queues |-> Abstract(ring[k])]

(* Head and tail arithmetic implements the bounded queue: no wrap, overrun *)
(* or move loses, repeats or reorders an item, and overruns are counted.   *)
ImplementsBoundedQueue == Bounded!Spec

(* full() is what a blocking producer waits on: it holds exactly when the  *)
(* next push would overrun.                                                *)
FullMeansNoRoom ==
  \A k \in Queues : Full(ring[k]) <=> PushBack(ring[k], None).overrun > ring[k].overrun

(* last_raw returns the most recent messages in the order they came.       *)
LastAreLast ==
  \A k \in Queues, lim \in 0 .. MaxSize + 1 :
    LET s == Contents(ring[k])
    IN LastRaw(ring[k], lim) =
         IF lim = 0 \/ lim > Len(s) THEN s ELSE SubSeq(s, Len(s) - lim + 1, Len(s))
=============================================================================

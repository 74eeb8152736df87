-------------------------- MODULE LogThreadsProofs --------------------------
(***************************************************************************)
(* What LogThreads promises, for any threads, workers and processes, any   *)
(* capacity of the queue and any depth of folders: no flusher is orphaned, *)
(* no message of an asynchronous logger vanishes and all are processed in  *)
(* order before the pool is gone, and no opener of a log file gives up.    *)
(***************************************************************************)
EXTENDS LogThreads, FiniteSetTheorems, TLAPS

-----------------------------------------------------------------------------
(* The pool of the asynchronous loggers.                                   *)

(* What the instance means by Cardinality is what the theorems are about.  *)
LEMMA PoolCounts == \A S : Pool!Cardinality(S) = Cardinality(S)
BY DEF Pool!Cardinality, Cardinality

Messages == [from : Threads \cup {Registry}, n : Nat]

(* The constants describe a pool: None is no message.                      *)
Described ==
  /\ QueueSize \in Nat
  /\ IsFiniteSet(Workers)
  /\ None \notin Messages

-----------------------------------------------------------------------------
(* The queue: slots that were never written hold None, the others messages.  *)
IsQueue(p) ==
  /\ Pool!IsRing(p, Messages \cup {None}) /\ p.max = QueueSize + 1
  /\ \A i \in 0 .. Pool!Size(p) - 1 : Pool!At(p, i) \in Messages

LEMMA SizeIsNat ==
  ASSUME QueueSize \in Nat, NEW p, IsQueue(p)
  PROVE  Pool!Size(p) \in Nat /\ p.overrun \in Nat
BY Pool!RingSize DEF IsQueue, Pool!IsRing

(* A message gets a slot, or takes that of the oldest, which is counted.   *)
LEMMA PushKeeps ==
  ASSUME QueueSize \in Nat, None \notin Messages, NEW p, IsQueue(p), NEW m \in Messages
  PROVE  /\ IsQueue(Pool!PushBack(p, m))
         /\ Pool!Size(Pool!PushBack(p, m)) + Pool!PushBack(p, m).overrun = Pool!Size(p) + p.overrun + 1
         /\ ~Pool!Full(p) => Pool!PushBack(p, m).overrun = p.overrun
<1> DEFINE r == Pool!PushBack(p, m)
           S == Messages \cup {None}
<1>1. Pool!IsRing(p, S) /\ p.max = QueueSize + 1 /\ p.max > 0 /\ m \in S /\ p.overrun \in Nat
  BY DEF IsQueue, Pool!IsRing
<1>2. /\ Pool!IsRing(r, S) /\ r.max = p.max
      /\ ~Pool!Full(p) => /\ Pool!Size(r) = Pool!Size(p) + 1 /\ r.overrun = p.overrun
                     /\ \A i \in 0 .. Pool!Size(p) : Pool!At(r, i) = IF i = Pool!Size(p) THEN m ELSE Pool!At(p, i)
      /\ Pool!Full(p) => /\ Pool!Size(r) = Pool!Size(p) /\ r.overrun = p.overrun + 1
                    /\ \A i \in 0 .. Pool!Size(p) - 1 :
                         Pool!At(r, i) = IF i = Pool!Size(p) - 1 THEN m ELSE Pool!At(p, i + 1)
  <2> HIDE DEF S
  <2> QED BY <1>1, Pool!Pushed
<1>3. Pool!Size(p) \in Nat BY SizeIsNat
<1>4. \A i \in 0 .. Pool!Size(r) - 1 : Pool!At(r, i) \in Messages
  <2> HIDE DEF r
  <2>1. CASE Pool!Full(p)
    <3> SUFFICES ASSUME NEW i \in 0 .. Pool!Size(p) - 1 PROVE Pool!At(r, i) \in Messages
      BY <1>2, <2>1
    <3>1. i # Pool!Size(p) - 1 => i + 1 \in 0 .. Pool!Size(p) - 1 BY <1>3
    <3>2. Pool!At(r, i) = IF i = Pool!Size(p) - 1 THEN m ELSE Pool!At(p, i + 1) BY <1>2, <2>1
    <3> QED BY <3>1, <3>2 DEF IsQueue
  <2>2. CASE ~Pool!Full(p)
    <3> SUFFICES ASSUME NEW i \in 0 .. Pool!Size(p) PROVE Pool!At(r, i) \in Messages
      BY <1>2, <1>3, <2>2
    <3>1. i # Pool!Size(p) => i \in 0 .. Pool!Size(p) - 1 BY <1>3
    <3>2. Pool!At(r, i) = IF i = Pool!Size(p) THEN m ELSE Pool!At(p, i) BY <1>2, <2>2
    <3> QED BY <3>1, <3>2 DEF IsQueue
  <2> QED BY <2>1, <2>2
<1> HIDE DEF r
<1> QED BY <1>1, <1>2, <1>3, <1>4 DEF IsQueue, r

LEMMA PopKeeps ==
  ASSUME QueueSize \in Nat, NEW p, IsQueue(p), ~Pool!Empty(p)
  PROVE  /\ IsQueue(Pool!PopFront(p))
         /\ Pool!Size(Pool!PopFront(p)) + 1 = Pool!Size(p)
         /\ Pool!PopFront(p).overrun = p.overrun
         /\ Pool!Oldest(p) \in Messages
<1> DEFINE r == Pool!PopFront(p)
           S == Messages \cup {None}
<1>1. /\ Pool!IsRing(r, S) /\ r.max = p.max
      /\ Pool!Size(r) = Pool!Size(p) - 1 /\ Pool!Size(p) \in Nat \ {0}
      /\ r.overrun = p.overrun /\ Pool!Oldest(p) = Pool!At(p, 0)
      /\ \A i \in 0 .. Pool!Size(p) - 2 : Pool!At(r, i) = Pool!At(p, i + 1)
  <2>1. Pool!IsRing(p, S) BY DEF IsQueue
  <2> HIDE DEF S
  <2> QED BY <2>1, Pool!Popped
<1>2. ASSUME NEW i \in 0 .. Pool!Size(r) - 1 PROVE Pool!At(r, i) \in Messages
  <2>1. i \in 0 .. Pool!Size(p) - 2 /\ i + 1 \in 0 .. Pool!Size(p) - 1 BY <1>1
  <2> HIDE DEF r
  <2> QED BY <1>1, <2>1 DEF IsQueue
<1>3. Pool!Oldest(p) \in Messages
  <2>1. 0 \in 0 .. Pool!Size(p) - 1 BY <1>1
  <2> QED BY <1>1, <2>1 DEF IsQueue
<1> HIDE DEF r
<1> QED BY <1>1, <1>2, <1>3 DEF IsQueue, r

-----------------------------------------------------------------------------
(* The messages in the workers' hands.                                     *)

Holding(g) == {w \in Workers : g[w] # None}

LEMMA HeldChanges ==
  ASSUME IsFiniteSet(Workers), NEW g \in [Workers -> Messages \cup {None}], NEW w \in Workers
  PROVE  /\ Cardinality(Holding(g)) \in Nat
         /\ \A m \in Messages : g[w] = None /\ m # None =>
              Cardinality(Holding([g EXCEPT ![w] = m])) = Cardinality(Holding(g)) + 1
         /\ g[w] # None =>
              Cardinality(Holding(g)) = Cardinality(Holding([g EXCEPT ![w] = None])) + 1
<1>1. IsFiniteSet(Holding(g))
  BY FS_Subset DEF Holding
<1>2. Cardinality(Holding(g)) \in Nat
  BY <1>1, FS_CardinalityType
<1>3. ASSUME NEW m \in Messages, g[w] = None, m # None
      PROVE  Cardinality(Holding([g EXCEPT ![w] = m])) = Cardinality(Holding(g)) + 1
  <2>1. Holding([g EXCEPT ![w] = m]) = Holding(g) \cup {w} /\ w \notin Holding(g)
    BY <1>3 DEF Holding
  <2> QED BY <1>1, <2>1, FS_AddElement
<1>4. ASSUME g[w] # None
      PROVE  Cardinality(Holding(g)) = Cardinality(Holding([g EXCEPT ![w] = None])) + 1
  <2>1. Holding([g EXCEPT ![w] = None]) = Holding(g) \ {w} /\ w \in Holding(g)
    BY <1>4 DEF Holding
  <2>2. Cardinality(Holding(g) \ {w}) = Cardinality(Holding(g)) - 1
    BY <1>1, <2>1, FS_RemoveElement
  <2>3. Cardinality(Holding([g EXCEPT ![w] = None])) = Cardinality(Holding(g)) - 1
    BY <2>1, <2>2
  <2> QED BY <1>2, <2>3
<1> QED BY <1>2, <1>3, <1>4

-----------------------------------------------------------------------------
(* A worker holds a message just between taking and processing it.         *)
PoolInv ==
  /\ IsQueue(q)
  /\ accepted \in Nat /\ handled \in Nat
  /\ sent \in [Threads -> Nat]
  /\ worker \in [Workers -> {"polling", "waiting", "taken", "busy", "gone"}]
  /\ got \in [Workers -> Messages \cup {None}]
  /\ \A w \in Workers : worker[w] \in {"taken", "busy"} <=> got[w] # None
  /\ Pool!Accounted

LEMMA HeldIs == Pool!Held = Cardinality(Holding(got))
BY PoolCounts DEF Pool!Held, Holding

LEMMA InitPool ==
  ASSUME Described, Pool!Init
  PROVE  PoolInv
<1>1. /\ q.max = QueueSize + 1 /\ q.head = 0 /\ q.tail = 0 /\ q.overrun = 0
      /\ QueueSize \in Nat
  BY DEF Described, Pool!Init, Pool!New
<1>2. Pool!Size(q) = 0
  BY <1>1 DEF Pool!Size
<1>3. IsQueue(q)
  <2>1. Pool!IsRing(q, Messages \cup {None}) BY <1>1 DEF Pool!Init, Pool!New, Pool!IsRing
  <2> QED BY <1>1, <1>2, <2>1 DEF IsQueue
<1>4. Pool!Held = 0
  <2>1. {w \in Workers : got[w] # None} = {} BY DEF Pool!Init
  <2> QED BY <2>1, FS_EmptySet, PoolCounts DEF Pool!Held
<1>5. Pool!Accounted
  BY <1>1, <1>2, <1>4 DEF Pool!Accounted, Pool!Init
<1> QED BY <1>3, <1>5 DEF Pool!Init, PoolInv

LEMMA EnqueueKeeps ==
  ASSUME Described, PoolInv, NEW t \in Threads, Pool!Enqueue(t)
  PROVE  PoolInv'
<1>1. CASE Pool!Blocks(t) /\ Pool!Full(q)
  BY <1>1 DEF Pool!Enqueue, Pool!threadVars, PoolInv, Pool!Accounted, Pool!Held
<1>2. CASE ~(Pool!Blocks(t) /\ Pool!Full(q))
  <2>1. /\ q' = Pool!PushBack(q, Pool!Message(t)) /\ accepted' = accepted + 1
        /\ UNCHANGED <<Pool!threadVars, worker, got, handled>>
    BY <1>2 DEF Pool!Enqueue, Pool!Enqueued
  <2>2. Pool!Message(t) \in Messages
    BY DEF Pool!Message, Pool!Terminate, Messages, PoolInv
  <2>3. /\ IsQueue(q') /\ Pool!Size(q') + q'.overrun = Pool!Size(q) + q.overrun + 1
        /\ ~Pool!Full(q) => q'.overrun = q.overrun
    BY <2>1, <2>2, PushKeeps DEF Described, PoolInv
  <2>4. /\ Pool!Size(q) \in Nat /\ q.overrun \in Nat
        /\ Pool!Size(q') \in Nat /\ q'.overrun \in Nat
        /\ Pool!Held \in Nat
    <3>1. \A p : IsQueue(p) => Pool!Size(p) \in Nat /\ p.overrun \in Nat
      BY SizeIsNat DEF Described
    <3>2. IsFiniteSet(Holding(got))
      BY FS_Subset DEF Holding, Described
    <3> QED BY <2>3, <3>1, <3>2, HeldIs, FS_CardinalityType DEF PoolInv
  <2>5. Pool!Held' = Pool!Held
    BY <2>1 DEF Pool!Held
  <2>6. accepted' = Pool!Size(q)' + Pool!Held' + handled' + q.overrun'
    BY <2>1, <2>3, <2>4, <2>5 DEF PoolInv, Pool!Accounted
  <2>7. (\A s \in Threads : policy'[s] = "block") => q'.overrun = 0
    <3> SUFFICES ASSUME \A s \in Threads : policy'[s] = "block" PROVE q'.overrun = 0
      OBVIOUS
    <3>1. policy' = policy BY <2>1 DEF Pool!threadVars
    <3>2. ~Pool!Full(q) BY <1>2, <3>1 DEF Pool!Blocks
    <3> QED BY <2>3, <3>1, <3>2 DEF PoolInv, Pool!Accounted
  <2> QED BY <2>1, <2>3, <2>6, <2>7 DEF PoolInv, Pool!Accounted, Pool!threadVars
<1> QED BY <1>1, <1>2

LEMMA PollKeeps ==
  ASSUME Described, PoolInv, NEW w \in Workers, Pool!Poll(w)
  PROVE  PoolInv'
<1>1. CASE Pool!Empty(q)
  BY <1>1 DEF Pool!Poll, Pool!threadVars, PoolInv, Pool!Accounted, Pool!Held
<1>2. CASE ~Pool!Empty(q)
  <2>1. /\ q' = Pool!PopFront(q) /\ got' = [got EXCEPT ![w] = Pool!Oldest(q)]
        /\ worker' = [worker EXCEPT ![w] = "taken"]
        /\ UNCHANGED <<Pool!threadVars, accepted, handled>>
    BY <1>2 DEF Pool!Poll, Pool!Dequeue
  <2>2. /\ IsQueue(q') /\ Pool!Size(q') + 1 = Pool!Size(q) /\ q'.overrun = q.overrun
        /\ Pool!Oldest(q) \in Messages
    BY <1>2, <2>1, PopKeeps DEF Described, PoolInv
  <2>3. worker[w] = "polling" /\ got[w] = None
    BY DEF Pool!Poll, PoolInv
  <2>4. Pool!Oldest(q) # None
    BY <2>2 DEF Described
  <2>5. Pool!Held \in Nat /\ Pool!Held' = Pool!Held + 1
    BY <2>1, <2>2, <2>3, <2>4, HeldChanges, PoolCounts DEF Pool!Held, Holding, Described, PoolInv
  <2>6. Pool!Size(q) \in Nat /\ q.overrun \in Nat /\ Pool!Size(q') \in Nat
    BY <2>2, SizeIsNat DEF Described, PoolInv
  <2>7. accepted' = Pool!Size(q)' + Pool!Held' + handled' + q.overrun'
    BY <2>1, <2>2, <2>5, <2>6 DEF PoolInv, Pool!Accounted
  <2>8. Pool!Accounted'
    BY <2>1, <2>2, <2>7 DEF PoolInv, Pool!Accounted, Pool!threadVars
  <2>9. /\ got' \in [Workers -> Messages \cup {None}]
        /\ \A x \in Workers : worker'[x] \in {"taken", "busy"} <=> got'[x] # None
    BY <2>1, <2>2, <2>4 DEF PoolInv
  <2> QED BY <2>1, <2>2, <2>8, <2>9 DEF PoolInv, Pool!threadVars
<1> QED BY <1>1, <1>2

LEMMA ProcessKeeps ==
  ASSUME Described, PoolInv, NEW w \in Workers, Pool!Process(w)
  PROVE  PoolInv'
<1>1. /\ worker' = [worker EXCEPT ![w] = IF got[w] = Pool!Terminate THEN "gone" ELSE "polling"]
      /\ got' = [got EXCEPT ![w] = None] /\ handled' = handled + 1
      /\ UNCHANGED <<q, Pool!threadVars, accepted>>
  BY DEF Pool!Process
<1>2. got[w] # None
  BY DEF Pool!Process, PoolInv
<1>3. Pool!Held \in Nat /\ Pool!Held' \in Nat /\ Pool!Held = Pool!Held' + 1
  <2>1. got' \in [Workers -> Messages \cup {None}] BY <1>1 DEF PoolInv
  <2>2. Pool!Held = Cardinality(Holding(got)) /\ Pool!Held' = Cardinality(Holding(got'))
    BY PoolCounts DEF Pool!Held, Holding
  <2>3. Cardinality(Holding(got)) \in Nat /\ Cardinality(Holding(got')) \in Nat
    BY <2>1, HeldChanges DEF Described, PoolInv
  <2>4. Cardinality(Holding(got)) = Cardinality(Holding(got')) + 1
    BY <1>1, <1>2, HeldChanges DEF Described, PoolInv
  <2> QED BY <2>2, <2>3, <2>4
<1>4. Pool!Size(q) \in Nat /\ q.overrun \in Nat
  BY SizeIsNat DEF Described, PoolInv
<1>5. accepted' = Pool!Size(q)' + Pool!Held' + handled' + q.overrun'
  BY <1>1, <1>3, <1>4 DEF PoolInv, Pool!Accounted
<1>6. Pool!Accounted'
  BY <1>1, <1>5 DEF PoolInv, Pool!Accounted, Pool!threadVars
<1>7. \A x \in Workers : worker'[x] \in {"taken", "busy"} <=> got'[x] # None
  BY <1>1 DEF PoolInv
<1> QED BY <1>1, <1>6, <1>7 DEF PoolInv, Pool!threadVars

(* The other steps move threads, references and workers without messages.  *)
LEMMA OthersKeep ==
  ASSUME PoolInv, UNCHANGED <<q, policy, got, accepted, handled>>,
         sent' \in [Threads -> Nat],
         worker' \in [Workers -> {"polling", "waiting", "taken", "busy", "gone"}],
         \A w \in Workers : worker'[w] \in {"taken", "busy"} <=> worker[w] \in {"taken", "busy"}
  PROVE  PoolInv'
<1>1. Pool!Held' = Pool!Held BY DEF Pool!Held
<1>2. Pool!Accounted' BY <1>1 DEF PoolInv, Pool!Accounted
<1> QED BY <1>2 DEF PoolInv

LEMMA NextPool ==
  ASSUME Described, PoolInv, [Pool!Next]_(Pool!vars)
  PROVE  PoolInv'
<1> USE DEF PoolInv
<1>1. CASE \E t \in Threads : Pool!Post(t)
  BY <1>1, OthersKeep DEF Pool!Post
<1>2. CASE \E t \in Threads : Pool!ResetPool(t)
  BY <1>2, OthersKeep DEF Pool!ResetPool
<1>3. CASE \E t \in Threads : Pool!Enqueue(t)
  BY <1>3, EnqueueKeeps
<1>4. CASE \E t \in Threads : Pool!Posted(t)
  BY <1>4, OthersKeep DEF Pool!Posted, Pool!NotifyPush
<1>5. CASE \E t \in Threads : Pool!Join(t)
  BY <1>5, OthersKeep DEF Pool!Join
<1>6. CASE \E w \in Workers : Pool!Poll(w)
  BY <1>6, PollKeeps
<1>7. CASE \E w \in Workers : Pool!Timeout(w)
  BY <1>7, OthersKeep DEF Pool!Timeout, Pool!threadVars
<1>8. CASE \E w \in Workers : Pool!Taken(w)
  BY <1>8, OthersKeep DEF Pool!Taken, Pool!threadVars
<1>9. CASE \E w \in Workers : Pool!Process(w)
  BY <1>9, ProcessKeeps
<1>10. CASE UNCHANGED Pool!vars
  BY <1>10, OthersKeep DEF Pool!vars, Pool!threadVars
<1> QED
  BY <1>1, <1>2, <1>3, <1>4, <1>5, <1>6, <1>7, <1>8, <1>9, <1>10
     DEF Pool!Next, Pool!ThreadStep, Pool!WorkerStep

(* Every accepted message is queued, in a worker's hands, processed or     *)
(* counted as overrun, and nothing is overrun where every logger blocks:   *)
(* for any capacity, any threads and policies and any finite set of        *)
(* workers, while the pool lives and after its destructor.                 *)
THEOREM EveryMessageAccounted ==
  ASSUME Described
  PROVE  Pool!Spec => []Pool!Accounted
<1>1. PoolInv => Pool!Accounted
  BY DEF PoolInv
<1>2. Pool!Init => PoolInv BY InitPool
<1>3. PoolInv /\ [Pool!Next]_(Pool!vars) => PoolInv' BY NextPool
<1> QED
  BY <1>1, <1>2, <1>3, PTL DEF Pool!Spec

-----------------------------------------------------------------------------
(* The pool is shared by threads and workers that exist.                   *)
Staffed ==
  /\ Described
  /\ Workers # {}
  /\ Registry \notin Threads
  /\ None \notin Threads

(* Who holds a reference is in a call, and the thread in the destructor    *)
(* holds none: nobody does.                                                *)
References ==
  /\ posting \in [Threads -> {"idle", "posting", "waiting", "posted", "joining"}]
  /\ holders \subseteq Threads \cup {Registry}
  /\ pool_ending \in Threads \cup {None}
  /\ terminates \in Nat
  /\ pool_ending # None => holders = {} /\ posting[pool_ending] # "idle"
  /\ pool_ending # None => (posting[pool_ending] = "joining" <=> terminates = 0)
  /\ \A t \in Threads :
       /\ posting[t] \in {"posting", "waiting", "posted"} => t \in holders \/ t = pool_ending
       /\ posting[t] = "idle" => t \notin holders
       /\ posting[t] = "joining" => t = pool_ending

(* The terminate messages not posted yet, the workers that have theirs,    *)
(* and what is left: the terminate messages in the queue.                  *)
Remaining ==
  IF holders # {} THEN Cardinality(Workers)
  ELSE IF pool_ending = None THEN 0
  ELSE terminates - IF posting[pool_ending] = "posted" THEN 1 ELSE 0
Ended == {w \in Workers : worker[w] = "gone" \/ got[w] = Pool!Terminate}
Queued == Cardinality(Workers) - Cardinality(Ended) - Remaining

(* They are the last in the queue, and a worker gets one only when there   *)
(* is nothing else in it.                                                  *)
TerminatesLast ==
  /\ Queued \in 0 .. Pool!Size(q)
  /\ \A i \in 0 .. Pool!Size(q) - 1 : Pool!At(q, i) = Pool!Terminate <=> i >= Pool!Size(q) - Queued
  /\ Ended # {} => Queued = Pool!Size(q)

DrainInv == PoolInv /\ References /\ TerminatesLast /\ Pool!DrainedWhenGone

LEMMA CountEnded ==
  ASSUME IsFiniteSet(Workers), Workers # {}
  PROVE  /\ Cardinality(Workers) \in Nat \ {0}
         /\ Cardinality(Ended) \in Nat
         /\ Cardinality(Ended) = 0 <=> Ended = {}
<1>1. IsFiniteSet(Ended) BY FS_Subset DEF Ended
<1> QED BY <1>1, FS_CardinalityType, FS_EmptySet

(* While somebody holds a reference no terminate message is on its way.    *)
LEMMA NoneYet ==
  ASSUME Staffed, References, TerminatesLast, Pool!Size(q) \in Nat, holders # {}
  PROVE  Ended = {} /\ Queued = 0 /\ Remaining = Cardinality(Workers)
<1>1. Remaining = Cardinality(Workers) BY DEF Remaining
<1>2. Cardinality(Workers) \in Nat /\ Cardinality(Ended) \in Nat /\ (Cardinality(Ended) = 0 <=> Ended = {})
  BY CountEnded DEF Staffed, Described
<1>3. Queued = 0 - Cardinality(Ended) BY <1>1, <1>2 DEF Queued
<1> QED BY <1>1, <1>2, <1>3 DEF TerminatesLast

LEMMA RemainingType ==
  ASSUME Staffed, References
  PROVE  Remaining \in Int
<1>1. Cardinality(Workers) \in Nat BY FS_CardinalityType DEF Staffed, Described
<1> QED BY <1>1 DEF Remaining, References

LEMMA InitDrain ==
  ASSUME Staffed, Pool!Init
  PROVE  DrainInv
<1>1. PoolInv BY InitPool DEF Staffed
<1>2. References BY DEF Pool!Init, References, Staffed
<1>3. Ended = {}
  <2>1. None # Pool!Terminate BY DEF Staffed, Described, Messages, Pool!Terminate
  <2> QED BY <2>1 DEF Ended, Pool!Init
<1>4. Pool!Size(q) = 0 BY DEF Pool!Init, Pool!New, Pool!Size
<1>5. Remaining = Cardinality(Workers) /\ Cardinality(Workers) \in Nat
  BY FS_CardinalityType DEF Remaining, Pool!Init, Staffed, Described
<1>6. Queued = 0
  BY <1>3, <1>5, FS_EmptySet DEF Queued
<1>7. TerminatesLast BY <1>3, <1>4, <1>6 DEF TerminatesLast
<1>8. Pool!DrainedWhenGone BY DEF Pool!Init, Pool!DrainedWhenGone
<1> QED BY <1>1, <1>2, <1>7, <1>8 DEF DrainInv

(* What concerns neither the queue nor who has ended.                      *)
LEMMA TerminatesStay ==
  ASSUME TerminatesLast, q' = q, Ended' = Ended, Remaining' = Remaining
  PROVE  TerminatesLast'
<1>1. Queued' = Queued BY DEF Queued
<1> QED BY <1>1 DEF TerminatesLast

LEMMA PostDrains ==
  ASSUME Staffed, DrainInv, NEW t \in Threads, Pool!Post(t)
  PROVE  References' /\ TerminatesLast' /\ Pool!DrainedWhenGone'
<1> USE DEF DrainInv
<1>1. CASE holders # {}
  <2>1. /\ holders' = holders \cup {t} /\ posting' = [posting EXCEPT ![t] = "posting"]
        /\ UNCHANGED <<q, pool_ending, terminates, worker, got>>
    BY <1>1 DEF Pool!Post
  <2>2. References' BY <1>1, <2>1 DEF References, Staffed
  <2>3. Ended' = Ended /\ Remaining' = Remaining
    BY <1>1, <2>1 DEF Ended, Remaining
  <2>4. TerminatesLast' BY <2>1, <2>3, TerminatesStay
  <2>5. Pool!DrainedWhenGone' BY <2>1 DEF Pool!DrainedWhenGone
  <2> QED BY <2>2, <2>4, <2>5
<1>2. CASE holders = {}
  <2>1. UNCHANGED <<holders, posting, q, pool_ending, terminates, worker, got>>
    BY <1>2 DEF Pool!Post
  <2>2. References' BY <2>1 DEF References
  <2>3. Ended' = Ended /\ Remaining' = Remaining
    BY <2>1 DEF Ended, Remaining
  <2>4. TerminatesLast' BY <2>1, <2>3, TerminatesStay
  <2>5. Pool!DrainedWhenGone' BY <2>1 DEF Pool!DrainedWhenGone, Pool!Held
  <2> QED BY <2>2, <2>4, <2>5
<1> QED BY <1>1, <1>2

LEMMA EnqueueDrains ==
  ASSUME Staffed, DrainInv, NEW t \in Threads, Pool!Enqueue(t)
  PROVE  References' /\ TerminatesLast' /\ Pool!DrainedWhenGone'
<1> USE DEF DrainInv
<1>0. posting[t] = "posting" /\ UNCHANGED <<Pool!threadVars, worker, got>> BY DEF Pool!Enqueue
<1>1. t \in holders \/ (t = pool_ending /\ holders = {})
  BY <1>0 DEF References, Staffed
<1>2. Pool!DrainedWhenGone'
  BY <1>0, <1>1 DEF Pool!DrainedWhenGone, Pool!threadVars, References, Staffed
<1>3. posting' = [posting EXCEPT ![t] = "waiting"] \/ posting' = [posting EXCEPT ![t] = "posted"]
  BY DEF Pool!Enqueue
<1>4. References'
  BY <1>0, <1>3 DEF References, Pool!threadVars
<1>5. Ended' = Ended BY <1>0 DEF Ended
<1>6. CASE Pool!Blocks(t) /\ Pool!Full(q)
  <2>1. posting' = [posting EXCEPT ![t] = "waiting"] /\ q' = q BY <1>6 DEF Pool!Enqueue
  <2>2. Remaining' = Remaining BY <1>0, <2>1 DEF Remaining, Pool!threadVars, References
  <2> QED BY <1>2, <1>4, <1>5, <2>1, <2>2, TerminatesStay
<1>7. CASE ~(Pool!Blocks(t) /\ Pool!Full(q))
  <2> DEFINE m == Pool!Message(t)
             S == Messages \cup {None}
  <2>1. posting' = [posting EXCEPT ![t] = "posted"] /\ q' = Pool!PushBack(q, m)
    BY <1>7 DEF Pool!Enqueue, Pool!Enqueued
  <2>2. Pool!IsRing(q, S) /\ q.max > 0 /\ m \in S /\ Pool!Size(q) \in Nat
    <3>1. IsQueue(q) /\ QueueSize \in Nat BY DEF PoolInv, Staffed, Described
    <3>2. m \in Messages BY DEF PoolInv, Pool!Message, Pool!Terminate, Messages
    <3>3. Pool!Size(q) \in Nat BY <3>1, SizeIsNat
    <3> HIDE DEF m
    <3> QED BY <3>1, <3>2, <3>3 DEF IsQueue
  <2>3. /\ ~Pool!Full(q) => /\ Pool!Size(q') = Pool!Size(q) + 1
                       /\ \A i \in 0 .. Pool!Size(q) : Pool!At(q', i) = IF i = Pool!Size(q) THEN m ELSE Pool!At(q, i)
        /\ Pool!Full(q) => /\ Pool!Size(q') = Pool!Size(q)
                      /\ \A i \in 0 .. Pool!Size(q) - 1 :
                           Pool!At(q', i) = IF i = Pool!Size(q) - 1 THEN m ELSE Pool!At(q, i + 1)
    <3> HIDE DEF S, m
    <3> QED BY <2>1, <2>2, Pool!Pushed
  <2>4. CASE t = pool_ending /\ holders = {}
    <3>1. m = Pool!Terminate /\ ~Pool!Full(q) BY <1>7, <2>4 DEF Pool!Message, Pool!Blocks
    <3>2. Remaining' = Remaining - 1 /\ Remaining \in Int
      <4>1. pool_ending # None /\ terminates \in Nat BY <2>4 DEF Staffed, References
      <4>2. Remaining = terminates BY <1>0, <2>4, <4>1 DEF Remaining
      <4>3. Remaining' = terminates - 1
        BY <1>0, <2>1, <2>4, <4>1 DEF Remaining, Pool!threadVars, References
      <4> QED BY <4>1, <4>2, <4>3
    <3>3. Queued' = Queued + 1
      <4>1. Cardinality(Workers) \in Nat /\ Cardinality(Ended) \in Nat
        BY CountEnded DEF Staffed, Described
      <4> QED BY <1>5, <3>2, <4>1 DEF Queued
    <3>4. Pool!Size(q') = Pool!Size(q) + 1
      BY <2>3, <3>1
    <3>5. \A i \in 0 .. Pool!Size(q) : Pool!At(q', i) = IF i = Pool!Size(q) THEN Pool!Terminate ELSE Pool!At(q, i)
      BY <2>3, <3>1
    <3>6. Queued \in 0 .. Pool!Size(q) BY DEF TerminatesLast
    <3>7. Queued' \in 0 .. Pool!Size(q') /\ (Ended' # {} => Queued' = Pool!Size(q'))
      BY <1>5, <2>2, <3>3, <3>4, <3>6 DEF TerminatesLast
    <3>8. ASSUME NEW i \in 0 .. Pool!Size(q') - 1
          PROVE  Pool!At(q', i) = Pool!Terminate <=> i >= Pool!Size(q') - Queued'
      <4>1. i \in 0 .. Pool!Size(q) /\ (i # Pool!Size(q) => i \in 0 .. Pool!Size(q) - 1)
        BY <2>2, <3>4
      <4>2. CASE i = Pool!Size(q) BY <2>2, <3>3, <3>4, <3>5, <3>6, <4>1, <4>2
      <4>3. CASE i # Pool!Size(q)
        <5>1. Pool!At(q', i) = Pool!At(q, i) BY <3>5, <4>1, <4>3
        <5>2. Pool!At(q, i) = Pool!Terminate <=> i >= Pool!Size(q) - Queued
          BY <4>1, <4>3 DEF TerminatesLast
        <5>3. Pool!Size(q') - Queued' = Pool!Size(q) - Queued BY <2>2, <3>3, <3>4, <3>6
        <5> QED BY <5>1, <5>2, <5>3
      <4> QED BY <4>2, <4>3
    <3>9. TerminatesLast' BY <3>7, <3>8 DEF TerminatesLast
    <3> QED BY <1>2, <1>4, <3>9
  <2>5. CASE t \in holders
    <3>1. Ended = {} /\ Queued = 0 /\ Remaining = Cardinality(Workers)
      BY <2>2, <2>5, NoneYet
    <3>2. m # Pool!Terminate
      <4>1. pool_ending # t BY <2>5 DEF References, Staffed
      <4> QED BY <4>1 DEF Pool!Message, Pool!Terminate, Staffed
    <3>3. Remaining' = Remaining /\ Remaining \in Int
      BY <1>0, <2>5, RemainingType DEF Remaining, Pool!threadVars
    <3>4. Queued' = 0 BY <1>5, <3>1, <3>3 DEF Queued
    <3>5. Pool!Size(q') \in Nat BY <2>2, <2>3
    <3>6. \A i \in 0 .. Pool!Size(q) - 1 : Pool!At(q, i) # Pool!Terminate
      BY <2>2, <3>1 DEF TerminatesLast
    <3>7. ASSUME NEW i \in 0 .. Pool!Size(q') - 1 PROVE Pool!At(q', i) # Pool!Terminate
      <4>1. CASE Pool!Full(q)
        <5>1. i \in 0 .. Pool!Size(q) - 1 /\ (i # Pool!Size(q) - 1 => i + 1 \in 0 .. Pool!Size(q) - 1)
          BY <2>2, <2>3, <4>1
        <5>2. Pool!At(q', i) = IF i = Pool!Size(q) - 1 THEN m ELSE Pool!At(q, i + 1)
          BY <2>3, <4>1, <5>1
        <5> HIDE DEF m
        <5> QED BY <3>2, <3>6, <5>1, <5>2
      <4>2. CASE ~Pool!Full(q)
        <5>1. i \in 0 .. Pool!Size(q) /\ (i # Pool!Size(q) => i \in 0 .. Pool!Size(q) - 1)
          BY <2>2, <2>3, <4>2
        <5>2. Pool!At(q', i) = IF i = Pool!Size(q) THEN m ELSE Pool!At(q, i) BY <2>3, <4>2, <5>1
        <5> HIDE DEF m
        <5> QED BY <3>2, <3>6, <5>1, <5>2
      <4> QED BY <4>1, <4>2
    <3>8. TerminatesLast' BY <1>5, <3>1, <3>4, <3>5, <3>7 DEF TerminatesLast
    <3> QED BY <1>2, <1>4, <3>8
  <2> QED BY <1>1, <2>4, <2>5
<1> QED BY <1>6, <1>7

(* Giving a reference up; the last one starts the destructor.              *)
LEMMA ReleaseDrains ==
  ASSUME Staffed, DrainInv, NEW t \in Threads, NEW who \in holders, Pool!Release(t, who),
         \/ who = t /\ posting[t] = "posted"
         \/ who = Registry /\ posting[t] = "idle",
         q' = q, Ended' = Ended
  PROVE  References' /\ TerminatesLast' /\ Pool!DrainedWhenGone'
<1> USE DEF DrainInv
<1>1. pool_ending = None BY DEF References
<1>2. holders' = holders \ {who} BY DEF Pool!Release
<1>3. Cardinality(Workers) \in Nat \ {0} BY CountEnded DEF Staffed, Described
<1>4. Remaining = Cardinality(Workers) BY DEF Remaining
<1>5. CASE holders = {who}
  <2>1. /\ pool_ending' = t /\ terminates' = Cardinality(Workers)
        /\ posting' = [posting EXCEPT ![t] = "posting"] /\ holders' = {}
    BY <1>2, <1>5, PoolCounts DEF Pool!Release
  <2>2. References' BY <1>1, <1>3, <1>5, <2>1 DEF References, Staffed
  <2>3. Remaining' = Remaining BY <1>3, <1>4, <2>1 DEF Remaining, References, Staffed
  <2>4. Pool!DrainedWhenGone' BY <2>1 DEF Pool!DrainedWhenGone, Staffed
  <2> QED BY <2>2, <2>3, <2>4, TerminatesStay
<1>6. CASE holders # {who}
  <2>1. posting' = [posting EXCEPT ![t] = "idle"] /\ UNCHANGED <<pool_ending, terminates>> /\ holders' # {}
    BY <1>2, <1>6 DEF Pool!Release
  <2>2. References' BY <1>1, <1>2, <2>1 DEF References, Staffed
  <2>3. Remaining' = Remaining BY <1>4, <2>1 DEF Remaining
  <2>4. Pool!DrainedWhenGone' BY <2>1 DEF Pool!DrainedWhenGone
  <2> QED BY <2>2, <2>3, <2>4, TerminatesStay
<1> QED BY <1>5, <1>6

LEMMA PostedDrains ==
  ASSUME Staffed, DrainInv, NEW t \in Threads, Pool!Posted(t)
  PROVE  References' /\ TerminatesLast' /\ Pool!DrainedWhenGone'
<1> USE DEF DrainInv
<1>1. posting[t] = "posted" /\ q' = q /\ got' = got BY DEF Pool!Posted
<1>2. Ended' = Ended
  <2>1. \A w \in Workers : worker'[w] = "gone" <=> worker[w] = "gone"
    BY DEF Pool!Posted, Pool!NotifyPush, PoolInv
  <2> QED BY <1>1, <2>1 DEF Ended
<1>3. CASE pool_ending = t
  <2>1. /\ terminates' = terminates - 1 /\ UNCHANGED <<holders, pool_ending>>
        /\ posting' = [posting EXCEPT ![t] = IF terminates = 1 THEN "joining" ELSE "posting"]
    BY <1>3 DEF Pool!Posted
  <2>2. pool_ending # None /\ holders = {} /\ terminates \in Nat \ {0}
    BY <1>1, <1>3 DEF References, Staffed
  <2>3. References' BY <1>1, <1>3, <2>1, <2>2 DEF References
  <2>4. Remaining' = Remaining BY <1>1, <1>3, <2>1, <2>2 DEF Remaining, References
  <2>5. Pool!DrainedWhenGone' BY <2>1, <2>2 DEF Pool!DrainedWhenGone
  <2> QED BY <1>1, <1>2, <2>3, <2>4, <2>5, TerminatesStay
<1>4. CASE pool_ending # t
  <2>1. Pool!Release(t, t) /\ t \in holders BY <1>1, <1>4 DEF Pool!Posted, References
  <2> QED BY <1>1, <1>2, <2>1, ReleaseDrains
<1> QED BY <1>3, <1>4

LEMMA ResetDrains ==
  ASSUME Staffed, DrainInv, NEW t \in Threads, Pool!ResetPool(t)
  PROVE  References' /\ TerminatesLast' /\ Pool!DrainedWhenGone'
<1>1. /\ Pool!Release(t, Registry) /\ Registry \in holders /\ posting[t] = "idle"
      /\ q' = q /\ worker' = worker /\ got' = got
  BY DEF Pool!ResetPool
<1>2. Ended' = Ended BY <1>1 DEF Ended
<1> QED BY <1>1, <1>2, ReleaseDrains

(* Every worker has gone: all terminate messages were taken, and they came *)
(* last.                                                                   *)
LEMMA JoinDrains ==
  ASSUME Staffed, DrainInv, NEW t \in Threads, Pool!Join(t)
  PROVE  References' /\ TerminatesLast' /\ Pool!DrainedWhenGone'
<1> USE DEF DrainInv
<1>1. /\ posting[t] = "joining" /\ Pool!Destroyed /\ posting' = [posting EXCEPT ![t] = "idle"] /\ pool_ending' = None
      /\ UNCHANGED <<q, holders, terminates, worker, got>>
  BY DEF Pool!Join
<1>2. pool_ending = t /\ pool_ending # None /\ holders = {} /\ terminates = 0
  BY <1>1 DEF References, Staffed
<1>3. References' BY <1>1, <1>2 DEF References, Staffed
<1>4. Remaining = 0 /\ Remaining' = 0
  <2>1. Remaining = terminates - 0 BY <1>1, <1>2 DEF Remaining
  <2>2. Remaining' = 0 BY <1>1, <1>2 DEF Remaining
  <2> QED BY <1>2, <2>1, <2>2
<1>5. Ended' = Ended BY <1>1 DEF Ended
<1>6. TerminatesLast' BY <1>1, <1>4, <1>5, TerminatesStay
<1>7. Ended = Workers BY <1>1 DEF Pool!Destroyed, Ended
<1>8. Pool!Size(q) = 0
  <2>1. Cardinality(Workers) \in Nat /\ Workers # {}
    BY FS_CardinalityType DEF Staffed, Described
  <2>2. Queued = 0 BY <1>4, <1>7, <2>1 DEF Queued
  <2> QED BY <1>7, <2>1, <2>2 DEF TerminatesLast
<1>9. Pool!Empty(q) BY <1>8, Pool!RingSize DEF PoolInv, IsQueue
<1>10. Pool!Held = 0
  <2>1. {w \in Workers : got[w] # None} = {} BY <1>1 DEF Pool!Destroyed, PoolInv
  <2> QED BY <2>1, FS_EmptySet, PoolCounts DEF Pool!Held
<1>11. Pool!DrainedWhenGone'
  <2>1. Pool!Held' = 0 BY <1>1, <1>10 DEF Pool!Held
  <2>2. Pool!Empty(q)' BY <1>1, <1>9
  <2> QED BY <1>1, <2>1, <2>2 DEF Pool!DrainedWhenGone, Pool!Destroyed
<1> QED BY <1>3, <1>6, <1>11

LEMMA PollDrains ==
  ASSUME Staffed, DrainInv, NEW w \in Workers, Pool!Poll(w)
  PROVE  References' /\ TerminatesLast' /\ Pool!DrainedWhenGone'
<1> USE DEF DrainInv
<1>1. UNCHANGED <<Pool!threadVars, posting>> /\ worker[w] = "polling" BY DEF Pool!Poll
<1>2. References' BY <1>1 DEF References, Pool!threadVars
<1>3. Pool!DrainedWhenGone' BY <1>1 DEF Pool!DrainedWhenGone, Pool!threadVars
<1>4. Remaining' = Remaining /\ Remaining \in Int
  BY <1>1, RemainingType DEF Remaining, Pool!threadVars
<1>5. got[w] = None /\ None # Pool!Terminate
  BY <1>1 DEF PoolInv, Staffed, Described, Messages, Pool!Terminate
<1>6. CASE Pool!Empty(q)
  <2>1. worker' = [worker EXCEPT ![w] = "waiting"] /\ UNCHANGED <<q, got>> BY <1>6 DEF Pool!Poll
  <2>2. Ended' = Ended BY <1>1, <2>1 DEF Ended, PoolInv
  <2> QED BY <1>2, <1>3, <1>4, <2>1, <2>2, TerminatesStay
<1>7. CASE ~Pool!Empty(q)
  <2> DEFINE S == Messages \cup {None}
             o == Pool!Oldest(q)
  <2>1. /\ q' = Pool!PopFront(q) /\ got' = [got EXCEPT ![w] = o] /\ worker' = [worker EXCEPT ![w] = "taken"]
    BY <1>7 DEF Pool!Poll, Pool!Dequeue
  <2>2. /\ Pool!Size(q') = Pool!Size(q) - 1 /\ Pool!Size(q) \in Nat \ {0} /\ o = Pool!At(q, 0)
        /\ \A i \in 0 .. Pool!Size(q) - 2 : Pool!At(q', i) = Pool!At(q, i + 1)
    <3>1. Pool!IsRing(q, S) BY DEF PoolInv, IsQueue
    <3> HIDE DEF S
    <3> QED BY <1>7, <2>1, <3>1, Pool!Popped
  <2>3. Queued \in 0 .. Pool!Size(q) BY DEF TerminatesLast
  <2>4. Cardinality(Workers) \in Nat /\ Cardinality(Ended) \in Nat /\ IsFiniteSet(Ended)
    BY CountEnded, FS_Subset DEF Staffed, Described, Ended
  <2>5. o = Pool!Terminate <=> Queued = Pool!Size(q)
    <3>1. Pool!At(q, 0) = Pool!Terminate <=> 0 >= Pool!Size(q) - Queued
      <4>1. 0 \in 0 .. Pool!Size(q) - 1 BY <2>2
      <4> QED BY <4>1 DEF TerminatesLast
    <3> HIDE DEF o
    <3> QED BY <2>2, <2>3, <3>1
  <2>6. Queued' = IF o = Pool!Terminate THEN Queued - 1 ELSE Queued
    <3>1. CASE o = Pool!Terminate
      <4>1. Ended' = Ended \cup {w} /\ w \notin Ended
        BY <1>1, <1>5, <2>1, <3>1 DEF Ended, PoolInv
      <4>2. Cardinality(Ended') = Cardinality(Ended) + 1 BY <2>4, <4>1, FS_AddElement
      <4> QED BY <1>4, <2>4, <3>1, <4>2 DEF Queued
    <3>2. CASE o # Pool!Terminate
      <4>1. Ended' = Ended BY <1>1, <1>5, <2>1, <3>2 DEF Ended, PoolInv
      <4> QED BY <1>4, <3>2, <4>1 DEF Queued
    <3> QED BY <3>1, <3>2
  <2>7. Ended' # {} => Queued = Pool!Size(q)
    BY <1>5, <2>1, <2>5 DEF TerminatesLast, Ended, PoolInv
  <2>8. Queued' \in 0 .. Pool!Size(q') /\ (Ended' # {} => Queued' = Pool!Size(q'))
    <3> HIDE DEF o
    <3> QED BY <2>2, <2>3, <2>5, <2>6, <2>7
  <2>9. ASSUME NEW i \in 0 .. Pool!Size(q') - 1
        PROVE  Pool!At(q', i) = Pool!Terminate <=> i >= Pool!Size(q') - Queued'
    <3>1. i \in 0 .. Pool!Size(q) - 2 /\ i + 1 \in 0 .. Pool!Size(q) - 1 /\ i \in Nat BY <2>2
    <3>2. Pool!At(q', i) = Pool!At(q, i + 1) BY <2>2, <3>1
    <3>3. Pool!At(q, i + 1) = Pool!Terminate <=> i + 1 >= Pool!Size(q) - Queued
      BY <3>1 DEF TerminatesLast
    <3>4. i + 1 >= Pool!Size(q) - Queued <=> i >= Pool!Size(q') - Queued'
      <4> HIDE DEF o
      <4> QED BY <2>2, <2>3, <2>5, <2>6, <3>1
    <3> QED BY <3>2, <3>3, <3>4
  <2>10. TerminatesLast' BY <2>8, <2>9 DEF TerminatesLast
  <2> QED BY <1>2, <1>3, <2>10
<1> QED BY <1>6, <1>7

(* The other steps of a worker.                                            *)
LEMMA WorkerDrains ==
  ASSUME Staffed, DrainInv, NEW w \in Workers, Pool!Timeout(w) \/ Pool!Taken(w) \/ Pool!Process(w)
  PROVE  References' /\ TerminatesLast' /\ Pool!DrainedWhenGone'
<1> USE DEF DrainInv
<1>1. UNCHANGED <<q, Pool!threadVars>> BY DEF Pool!Timeout, Pool!Taken, Pool!Process
<1>2. /\ \A t \in Threads : posting'[t] = posting[t] \/ (posting[t] = "waiting" /\ posting'[t] = "posting")
      /\ posting' \in [Threads -> {"idle", "posting", "waiting", "posted", "joining"}]
  BY DEF Pool!Timeout, Pool!Taken, Pool!Process, Pool!NotifyPop, References
<1>3. References' BY <1>1, <1>2 DEF References, Pool!threadVars
<1>4. Remaining' = Remaining
  BY <1>1, <1>2 DEF Remaining, Pool!threadVars, References
<1>5. Ended' = Ended
  <2>1. None # Pool!Terminate BY DEF Staffed, Described, Messages, Pool!Terminate
  <2>2. CASE Pool!Timeout(w) \/ Pool!Taken(w)
    BY <2>2 DEF Pool!Timeout, Pool!Taken, Ended, PoolInv
  <2>3. CASE Pool!Process(w)
    BY <2>1, <2>3 DEF Pool!Process, Ended, PoolInv
  <2> QED BY <2>2, <2>3
<1>6. worker[w] # "gone" BY DEF Pool!Timeout, Pool!Taken, Pool!Process
<1>7. Pool!DrainedWhenGone' BY <1>1, <1>6 DEF Pool!DrainedWhenGone, Pool!threadVars
<1> QED BY <1>1, <1>3, <1>4, <1>5, <1>7, TerminatesStay

LEMMA NextDrain ==
  ASSUME Staffed, DrainInv, [Pool!Next]_(Pool!vars)
  PROVE  DrainInv'
<1>1. PoolInv' BY NextPool DEF Staffed, DrainInv
<1>2. References' /\ TerminatesLast' /\ Pool!DrainedWhenGone'
  <2>1. CASE \E t \in Threads : Pool!Post(t) BY <2>1, PostDrains
  <2>2. CASE \E t \in Threads : Pool!ResetPool(t) BY <2>2, ResetDrains
  <2>3. CASE \E t \in Threads : Pool!Enqueue(t) BY <2>3, EnqueueDrains
  <2>4. CASE \E t \in Threads : Pool!Posted(t) BY <2>4, PostedDrains
  <2>5. CASE \E t \in Threads : Pool!Join(t) BY <2>5, JoinDrains
  <2>6. CASE \E w \in Workers : Pool!Poll(w) BY <2>6, PollDrains
  <2>7. CASE \E w \in Workers : Pool!Timeout(w) \/ Pool!Taken(w) \/ Pool!Process(w)
    BY <2>7, WorkerDrains
  <2>8. CASE UNCHANGED Pool!vars
    <3>1. Remaining' = Remaining /\ Ended' = Ended /\ q' = q
      BY <2>8 DEF Pool!vars, Pool!threadVars, Remaining, Ended
    <3>2. References' BY <2>8 DEF Pool!vars, Pool!threadVars, References, DrainInv
    <3>3. Pool!DrainedWhenGone'
      BY <2>8 DEF Pool!vars, Pool!threadVars, Pool!DrainedWhenGone, Pool!Held, DrainInv
    <3> QED BY <3>1, <3>2, <3>3, TerminatesStay DEF DrainInv
  <2> QED
    BY <2>1, <2>2, <2>3, <2>4, <2>5, <2>6, <2>7, <2>8
       DEF Pool!Next, Pool!ThreadStep, Pool!WorkerStep
<1> QED BY <1>1, <1>2 DEF DrainInv

(* When the destructor of the pool has returned every message was          *)
(* processed and every worker has ended: for any capacity, any threads     *)
(* whatever their policies, and any number of workers.                     *)
THEOREM PoolIsDrained ==
  ASSUME Staffed
  PROVE  Pool!Spec => []Pool!DrainedWhenGone
<1>1. DrainInv => Pool!DrainedWhenGone BY DEF DrainInv
<1>2. Pool!Init => DrainInv BY InitDrain
<1>3. DrainInv /\ [Pool!Next]_(Pool!vars) => DrainInv' BY NextDrain
<1> QED BY <1>1, <1>2, <1>3, PTL DEF Pool!Spec

-----------------------------------------------------------------------------
(* The number of the last message each thread has put into the queue.      *)
Given ==
  [t \in Threads |->
     IF posting[t] \in {"posting", "waiting"} /\ pool_ending # t THEN sent[t] - 1 ELSE sent[t]]

(* A thread's messages are queued in the order it logged them, after the   *)
(* last that was taken.                                                    *)
Ordered ==
  /\ last \in [Threads -> Nat]
  /\ \A t \in Threads : last[t] <= Given[t]
  /\ \A i \in 0 .. Pool!Size(q) - 1 : Pool!At(q, i).from \in Threads =>
       last[Pool!At(q, i).from] < Pool!At(q, i).n /\ Pool!At(q, i).n <= Given[Pool!At(q, i).from]
  /\ \A i, j \in 0 .. Pool!Size(q) - 1 :
       i < j /\ Pool!At(q, i).from = Pool!At(q, j).from /\ Pool!At(q, i).from \in Threads => Pool!At(q, i).n < Pool!At(q, j).n

OrderInv == DrainInv /\ Ordered

LEMMA OrderStays ==
  ASSUME PoolInv, Ordered, q' = q, last' = last,
         \A t \in Threads : Given[t] \in Int /\ Given'[t] \in Int /\ Given[t] <= Given'[t]
  PROVE  Ordered'
<1>1. \A t \in Threads : last'[t] <= Given'[t]
  BY DEF Ordered
<1>2. ASSUME NEW i \in 0 .. Pool!Size(q) - 1, Pool!At(q, i).from \in Threads
      PROVE  last'[Pool!At(q, i).from] < Pool!At(q, i).n /\ Pool!At(q, i).n <= Given'[Pool!At(q, i).from]
  <2>1. Pool!At(q, i).n \in Nat BY DEF PoolInv, IsQueue, Messages
  <2> QED BY <1>2, <2>1 DEF Ordered
<1> QED BY <1>1, <1>2 DEF Ordered

LEMMA GivenType ==
  /\ PoolInv => \A t \in Threads : Given[t] \in Int
  /\ PoolInv' => \A t \in Threads : Given'[t] \in Int
BY DEF Given, PoolInv

LEMMA EnqueueOrders ==
  ASSUME Staffed, OrderInv, PoolInv', NEW t \in Threads, Pool!Enqueue(t)
  PROVE  Ordered'
<1> USE DEF OrderInv, DrainInv
<1>0. posting[t] = "posting" /\ UNCHANGED <<Pool!threadVars, worker, got, last>> BY DEF Pool!Enqueue
<1>1. \A u \in Threads : Given[u] \in Int /\ Given'[u] \in Int BY GivenType
<1>2. CASE Pool!Blocks(t) /\ Pool!Full(q)
  <2>1. posting' = [posting EXCEPT ![t] = "waiting"] /\ q' = q BY <1>2 DEF Pool!Enqueue
  <2>2. \A u \in Threads : Given'[u] = Given[u] BY <1>0, <2>1 DEF Given, References, Pool!threadVars
  <2> QED BY <1>0, <1>1, <2>1, <2>2, OrderStays
<1>3. CASE ~(Pool!Blocks(t) /\ Pool!Full(q))
  <2> DEFINE m == Pool!Message(t)
             S == Messages \cup {None}
  <2>1. posting' = [posting EXCEPT ![t] = "posted"] /\ q' = Pool!PushBack(q, m)
    BY <1>3 DEF Pool!Enqueue, Pool!Enqueued
  <2>2. Pool!IsRing(q, S) /\ q.max > 0 /\ m \in S /\ m \in Messages /\ Pool!Size(q) \in Nat
    <3>1. IsQueue(q) /\ QueueSize \in Nat BY DEF PoolInv, Staffed, Described
    <3>2. m \in Messages BY DEF PoolInv, Pool!Message, Pool!Terminate, Messages
    <3>3. Pool!Size(q) \in Nat BY <3>1, SizeIsNat
    <3> HIDE DEF m
    <3> QED BY <3>1, <3>2, <3>3 DEF IsQueue
  <2>3. /\ ~Pool!Full(q) => /\ Pool!Size(q') = Pool!Size(q) + 1
                       /\ \A i \in 0 .. Pool!Size(q) : Pool!At(q', i) = IF i = Pool!Size(q) THEN m ELSE Pool!At(q, i)
        /\ Pool!Full(q) => /\ Pool!Size(q') = Pool!Size(q)
                      /\ \A i \in 0 .. Pool!Size(q) - 1 :
                           Pool!At(q', i) = IF i = Pool!Size(q) - 1 THEN m ELSE Pool!At(q, i + 1)
    <3> HIDE DEF S, m
    <3> QED BY <2>1, <2>2, Pool!Pushed
  <2>4. \A u \in Threads : u # t => Given'[u] = Given[u]
    BY <1>0, <2>1 DEF Given, References, Pool!threadVars
  <2>5. /\ Given[t] <= Given'[t]
        /\ m.from \in Threads => m.from = t /\ Given[t] < m.n /\ m.n = Given'[t] /\ m.n \in Nat
    <3>1. CASE pool_ending = t
      BY <1>0, <2>1, <3>1
         DEF Given, References, Pool!threadVars, Pool!Message, Pool!Terminate, Staffed, PoolInv
    <3>2. CASE pool_ending # t
      <4>1. m.n = sent[t] /\ m.from = t /\ sent[t] \in Nat BY <3>2 DEF Pool!Message, PoolInv
      <4>2. Given[t] = sent[t] - 1 BY <1>0, <3>2 DEF Given
      <4>3. Given'[t] = sent[t] BY <1>0, <2>1, <3>2 DEF Given, References, Pool!threadVars
      <4> HIDE DEF m
      <4> QED BY <4>1, <4>2, <4>3
    <3> QED BY <3>1, <3>2
  <2>6. \A u \in Threads : Given[u] <= Given'[u] BY <1>1, <2>4, <2>5
  <2> DEFINE was(i) == IF Pool!Full(q) THEN i + 1 ELSE i
  <2>7. ASSUME NEW i \in 0 .. Pool!Size(q') - 1
        PROVE  IF i = Pool!Size(q') - 1 THEN Pool!At(q', i) = m
               ELSE was(i) \in 0 .. Pool!Size(q) - 1 /\ Pool!At(q', i) = Pool!At(q, was(i))
    <3>1. CASE Pool!Full(q)
      <4>1. i \in 0 .. Pool!Size(q) - 1 /\ (i # Pool!Size(q) - 1 => i + 1 \in 0 .. Pool!Size(q) - 1)
        BY <2>2, <2>3, <3>1
      <4> HIDE DEF m
      <4> QED BY <2>3, <3>1, <4>1
    <3>2. CASE ~Pool!Full(q)
      <4>1. i \in 0 .. Pool!Size(q) /\ (i # Pool!Size(q) => i \in 0 .. Pool!Size(q) - 1) /\ Pool!Size(q') - 1 = Pool!Size(q)
        BY <2>2, <2>3, <3>2
      <4> HIDE DEF m
      <4> QED BY <2>3, <3>2, <4>1
    <3> QED BY <3>1, <3>2
  <2>8. \A i \in 0 .. Pool!Size(q) - 1 : Pool!At(q, i) \in Messages BY DEF PoolInv, IsQueue
  <2>9. ASSUME NEW i \in 0 .. Pool!Size(q') - 1, Pool!At(q', i).from \in Threads
        PROVE  last'[Pool!At(q', i).from] < Pool!At(q', i).n /\ Pool!At(q', i).n <= Given'[Pool!At(q', i).from]
    <3>1. CASE i = Pool!Size(q') - 1
      <4>1. Pool!At(q', i) = m BY <2>7, <3>1
      <4>2. last[t] \in Nat /\ last[t] <= Given[t] BY DEF Ordered
      <4> HIDE DEF m
      <4> QED BY <1>0, <1>1, <2>5, <2>9, <4>1, <4>2
    <3>2. CASE i # Pool!Size(q') - 1
      <4> DEFINE x == Pool!At(q, was(i))
      <4>1. Pool!At(q', i) = x /\ x \in Messages /\ was(i) \in 0 .. Pool!Size(q) - 1
        <5> HIDE DEF was
        <5> QED BY <2>7, <2>8, <3>2
      <4>2. x.from \in Threads /\ x.n \in Nat BY <2>9, <4>1 DEF Messages
      <4>3. last[x.from] < x.n /\ x.n <= Given[x.from]
        <5> HIDE DEF was
        <5> QED BY <4>1, <4>2 DEF Ordered
      <4>4. last[x.from] \in Nat BY <4>2 DEF Ordered
      <4> HIDE DEF x
      <4> QED BY <1>0, <1>1, <2>6, <4>1, <4>2, <4>3, <4>4
    <3> QED BY <3>1, <3>2
  <2>10. ASSUME NEW i \in 0 .. Pool!Size(q') - 1, NEW j \in 0 .. Pool!Size(q') - 1, i < j,
                Pool!At(q', i).from = Pool!At(q', j).from, Pool!At(q', i).from \in Threads
         PROVE  Pool!At(q', i).n < Pool!At(q', j).n
    <3> DEFINE x == Pool!At(q, was(i))
    <3>0. Pool!Size(q') \in Nat BY <2>2, <2>3
    <3>1. Pool!At(q', i) = x /\ x \in Messages /\ was(i) \in 0 .. Pool!Size(q) - 1
      <4>1. i # Pool!Size(q') - 1 BY <2>10, <3>0
      <4> HIDE DEF was
      <4> QED BY <2>7, <2>8, <4>1
    <3>2. x.from \in Threads /\ x.n \in Nat BY <2>10, <3>1 DEF Messages
    <3>3. CASE j = Pool!Size(q') - 1
      <4>1. Pool!At(q', j) = m BY <2>7, <3>3
      <4>2. x.n <= Given[x.from]
        <5> HIDE DEF was
        <5> QED BY <3>1, <3>2 DEF Ordered
      <4> HIDE DEF m, x
      <4> QED BY <1>1, <2>5, <2>10, <3>1, <3>2, <4>1, <4>2
    <3>4. CASE j # Pool!Size(q') - 1
      <4>1. Pool!At(q', j) = Pool!At(q, was(j)) /\ was(j) \in 0 .. Pool!Size(q) - 1
        <5> HIDE DEF was
        <5> QED BY <2>7, <3>4
      <4>2. was(i) < was(j) BY <2>10
      <4> HIDE DEF was
      <4> QED BY <2>10, <3>1, <4>1, <4>2 DEF Ordered
    <3> QED BY <3>3, <3>4
  <2>11. last' \in [Threads -> Nat] /\ \A u \in Threads : last'[u] <= Given'[u]
    BY <1>0, <1>1, <2>6 DEF Ordered
  <2> QED BY <2>9, <2>10, <2>11 DEF Ordered
<1> QED BY <1>2, <1>3

(* What a worker takes is newer than what was taken of that thread.        *)
LEMMA PollOrders ==
  ASSUME Staffed, OrderInv, NEW w \in Workers, Pool!Poll(w)
  PROVE  Ordered' /\ \A t \in Threads : last'[t] = last[t] \/ last'[t] > last[t]
<1> USE DEF OrderInv, DrainInv
<1>0. UNCHANGED <<Pool!threadVars, posting>> BY DEF Pool!Poll
<1>1. \A u \in Threads : Given[u] \in Int /\ Given'[u] = Given[u]
  BY <1>0, GivenType DEF Given, Pool!threadVars
<1>2. CASE Pool!Empty(q)
  <2>1. q' = q /\ last' = last BY <1>2 DEF Pool!Poll
  <2> QED BY <1>1, <2>1, OrderStays
<1>3. CASE ~Pool!Empty(q)
  <2> DEFINE S == Messages \cup {None}
             o == Pool!Oldest(q)
  <2>1. /\ q' = Pool!PopFront(q)
        /\ last' = [t \in Threads |-> IF o.from = t THEN o.n ELSE last[t]]
    BY <1>3 DEF Pool!Poll, Pool!Dequeue
  <2>2. /\ Pool!Size(q') = Pool!Size(q) - 1 /\ Pool!Size(q) \in Nat \ {0} /\ o = Pool!At(q, 0)
        /\ \A i \in 0 .. Pool!Size(q) - 2 : Pool!At(q', i) = Pool!At(q, i + 1)
    <3>1. Pool!IsRing(q, S) BY DEF PoolInv, IsQueue
    <3> HIDE DEF S
    <3> QED BY <1>3, <2>1, <3>1, Pool!Popped
  <2>3. 0 \in 0 .. Pool!Size(q) - 1 /\ o \in Messages
    <3>1. 0 \in 0 .. Pool!Size(q) - 1 BY <2>2
    <3> QED BY <2>2, <3>1 DEF PoolInv, IsQueue
  <2>4. o.n \in Nat /\ (o.from \in Threads => last[o.from] < o.n /\ o.n <= Given[o.from])
    <3>1. o = Pool!At(q, 0) BY <2>2
    <3> HIDE DEF o
    <3> QED BY <2>3, <3>1 DEF Messages, Ordered
  <2>5. /\ last' \in [Threads -> Nat]
        /\ \A t \in Threads : last'[t] <= Given'[t]
        /\ \A t \in Threads : last'[t] = last[t] \/ last'[t] > last[t]
    <3> HIDE DEF o
    <3> QED BY <1>1, <2>1, <2>4 DEF Ordered
  <2>6. ASSUME NEW i \in 0 .. Pool!Size(q') - 1, Pool!At(q', i).from \in Threads
        PROVE  last'[Pool!At(q', i).from] < Pool!At(q', i).n /\ Pool!At(q', i).n <= Given'[Pool!At(q', i).from]
    <3> DEFINE x == Pool!At(q, i + 1)
    <3>1. i \in 0 .. Pool!Size(q) - 2 /\ i + 1 \in 0 .. Pool!Size(q) - 1 /\ 0 < i + 1 BY <2>2
    <3>2. Pool!At(q', i) = x BY <2>2, <3>1
    <3>3. last[x.from] < x.n /\ x.n <= Given[x.from] BY <2>6, <3>1, <3>2 DEF Ordered
    <3>4. o.from = x.from => o.n < x.n
      <4>1. o = Pool!At(q, 0) BY <2>2
      <4> HIDE DEF o
      <4> QED BY <2>3, <2>6, <3>1, <3>2, <4>1 DEF Ordered
    <3> HIDE DEF x, o
    <3> QED BY <1>1, <2>1, <2>6, <3>2, <3>3, <3>4
  <2>7. ASSUME NEW i \in 0 .. Pool!Size(q') - 1, NEW j \in 0 .. Pool!Size(q') - 1, i < j,
               Pool!At(q', i).from = Pool!At(q', j).from, Pool!At(q', i).from \in Threads
        PROVE  Pool!At(q', i).n < Pool!At(q', j).n
    <3>1. /\ i \in 0 .. Pool!Size(q) - 2 /\ i + 1 \in 0 .. Pool!Size(q) - 1
          /\ j \in 0 .. Pool!Size(q) - 2 /\ j + 1 \in 0 .. Pool!Size(q) - 1
          /\ i + 1 < j + 1
      BY <2>2, <2>7
    <3>2. Pool!At(q', i) = Pool!At(q, i + 1) /\ Pool!At(q', j) = Pool!At(q, j + 1) BY <2>2, <3>1
    <3> QED BY <2>7, <3>1, <3>2 DEF Ordered
  <2> QED BY <2>5, <2>6, <2>7 DEF Ordered
<1> QED BY <1>2, <1>3

(* No other step changes the queue, what was taken or, but for a message   *)
(* that is not posted yet, what was given.                                 *)
LEMMA OthersOrder ==
  ASSUME Staffed, OrderInv, PoolInv', References', [Pool!Next]_(Pool!vars),
         ~\E t \in Threads : Pool!Enqueue(t),
         ~\E w \in Workers : Pool!Poll(w)
  PROVE  Ordered' /\ last' = last
<1> USE DEF OrderInv, DrainInv
<1>1. \A u \in Threads : Given[u] \in Int /\ Given'[u] \in Int BY GivenType
<1>2. q' = q /\ last' = last /\ \A u \in Threads : Given[u] <= Given'[u]
  <2>1. ASSUME NEW t \in Threads, Pool!Post(t)
        PROVE  q' = q /\ last' = last /\ \A u \in Threads : Given[u] <= Given'[u]
    <3>1. q' = q /\ last' = last /\ sent' = [sent EXCEPT ![t] = @ + 1] /\ pool_ending' = pool_ending
          /\ posting[t] = "idle" /\ (posting' = posting \/ posting' = [posting EXCEPT ![t] = "posting"])
      BY <2>1 DEF Pool!Post
    <3>2. Given[t] <= Given'[t] BY <3>1 DEF Given, PoolInv, References
    <3>3. \A u \in Threads : u # t => Given'[u] = Given[u] BY <3>1 DEF Given, PoolInv, References
    <3> QED BY <1>1, <3>1, <3>2, <3>3
  <2>2. ASSUME NEW t \in Threads, Pool!Posted(t) \/ Pool!ResetPool(t) \/ Pool!Join(t)
        PROVE  q' = q /\ last' = last /\ \A u \in Threads : Given[u] <= Given'[u]
    <3>1. q' = q /\ last' = last /\ sent' = sent BY <2>2 DEF Pool!Posted, Pool!ResetPool, Pool!Join
    <3>2. posting[t] \notin {"posting", "waiting"}
      BY <2>2 DEF Pool!Posted, Pool!ResetPool, Pool!Join
    <3>3. posting'[t] \in {"posting", "waiting"} => pool_ending' = t
      BY <2>2 DEF Pool!Posted, Pool!ResetPool, Pool!Join, Pool!Release, References
    <3>4. \A u \in Threads : u # t => posting'[u] = posting[u] /\ (pool_ending' = u <=> pool_ending = u)
      BY <2>2 DEF Pool!Posted, Pool!ResetPool, Pool!Join, Pool!Release, References, Staffed
    <3>5. Given[t] <= Given'[t] BY <3>1, <3>2, <3>3 DEF Given, PoolInv
    <3>6. \A u \in Threads : u # t => Given'[u] = Given[u] BY <3>1, <3>4 DEF Given
    <3> QED BY <1>1, <3>1, <3>5, <3>6
  <2>3. ASSUME NEW w \in Workers, Pool!Timeout(w) \/ Pool!Taken(w) \/ Pool!Process(w)
        PROVE  q' = q /\ last' = last /\ \A u \in Threads : Given[u] <= Given'[u]
    <3>1. q' = q /\ last' = last /\ UNCHANGED Pool!threadVars
      BY <2>3 DEF Pool!Timeout, Pool!Taken, Pool!Process
    <3>2. \A t \in Threads : posting'[t] = posting[t] \/ (posting[t] = "waiting" /\ posting'[t] = "posting")
      BY <2>3 DEF Pool!Timeout, Pool!Taken, Pool!Process, Pool!NotifyPop, References
    <3>3. \A u \in Threads : Given'[u] = Given[u] BY <3>1, <3>2 DEF Given, Pool!threadVars
    <3> QED BY <1>1, <3>1, <3>3
  <2>4. ASSUME UNCHANGED Pool!vars
        PROVE  q' = q /\ last' = last /\ \A u \in Threads : Given[u] <= Given'[u]
    <3>1. q' = q /\ last' = last /\ posting' = posting /\ UNCHANGED Pool!threadVars
      BY <2>4 DEF Pool!vars
    <3>2. \A u \in Threads : Given'[u] = Given[u] BY <3>1 DEF Given, Pool!threadVars
    <3> QED BY <1>1, <3>1, <3>2
  <2> QED BY <2>1, <2>2, <2>3, <2>4 DEF Pool!Next, Pool!ThreadStep, Pool!WorkerStep
<1> QED BY <1>1, <1>2, OrderStays

LEMMA NextOrder ==
  ASSUME Staffed, OrderInv, [Pool!Next]_(Pool!vars)
  PROVE  OrderInv' /\ [\A t \in Threads : last'[t] = last[t] \/ last'[t] > last[t]]_last
<1>1. DrainInv' BY NextDrain DEF OrderInv
<1>2. PoolInv' /\ References' BY <1>1 DEF DrainInv
<1>3. CASE \E t \in Threads : Pool!Enqueue(t)
  <2>1. Ordered' BY <1>2, <1>3, EnqueueOrders
  <2>2. last' = last BY <1>3 DEF Pool!Enqueue
  <2> QED BY <1>1, <2>1, <2>2 DEF OrderInv
<1>4. CASE \E w \in Workers : Pool!Poll(w)
  BY <1>1, <1>4, PollOrders DEF OrderInv
<1>5. CASE ~(\E t \in Threads : Pool!Enqueue(t)) /\ ~(\E w \in Workers : Pool!Poll(w))
  <2>1. Ordered' /\ last' = last BY <1>2, <1>5, OthersOrder
  <2> QED BY <1>1, <2>1 DEF OrderInv
<1> QED BY <1>3, <1>4, <1>5

(* Workers take the messages of each thread in the order it logged them,   *)
(* whatever other threads do, what is overrun and who drops the pool.      *)
THEOREM MessagesTakenInOrder ==
  ASSUME Staffed
  PROVE  Pool!Spec => Pool!TakenInOrder
<1>1. Pool!Init => OrderInv
  <2> SUFFICES ASSUME Pool!Init PROVE OrderInv OBVIOUS
  <2>1. DrainInv BY InitDrain
  <2>2. Pool!Size(q) = 0 BY DEF Pool!Init, Pool!New, Pool!Size
  <2>3. Ordered BY <2>2 DEF Pool!Init, Ordered, Given
  <2> QED BY <2>1, <2>3 DEF OrderInv
<1>2. OrderInv /\ [Pool!Next]_(Pool!vars) =>
        OrderInv' /\ [\A t \in Threads : last'[t] = last[t] \/ last'[t] > last[t]]_last
  BY NextOrder
<1> QED BY <1>1, <1>2, PTL DEF Pool!Spec, Pool!TakenInOrder

-----------------------------------------------------------------------------
(* The opening of a log file: every try before this one met a fault, or    *)
(* one more folder that was made after it had looked for it.               *)
OpeningTypeOK ==
  /\ made \in 0 .. Depth
  /\ opener \in [Openers -> {"checking", "making", "opening", "open", "thrown"}]
  /\ at \in [Openers -> 1 .. Depth + 1]
  /\ tries \in [Openers -> Nat]
  /\ faults \in 0 .. MaxFaults

Charged(o) ==
  /\ at[o] <= made + 1
  /\ opener[o] = "checking" => tries[o] <= faults + made + 1
  /\ opener[o] = "making" => at[o] <= Depth /\ tries[o] <= faults + at[o]
  /\ opener[o] = "opening" => tries[o] <= faults + made \/ (made = Depth /\ tries[o] <= faults + made + 1)

OpeningInv == OpeningTypeOK /\ Opening!RacesAreSurvived /\ \A o \in Openers : Charged(o)

LEMMA InitCharged == ASSUME Depth \in Nat, MaxFaults \in Nat, Opening!Init PROVE OpeningInv
<1>1. OpeningTypeOK BY DEF Opening!Init, OpeningTypeOK
<1>2. Opening!RacesAreSurvived BY DEF Opening!Init, Opening!RacesAreSurvived
<1>3. ASSUME NEW o \in Openers PROVE Charged(o)
  BY <1>1 DEF Opening!Init, OpeningTypeOK, Charged
<1> QED BY <1>1, <1>2, <1>3 DEF OpeningInv

(* More folders and faults are never against an opener.                    *)
LEMMA ChargedKept ==
  ASSUME Depth \in Nat, MaxFaults \in Nat, OpeningTypeOK, NEW o \in Openers, Charged(o),
         opener'[o] = opener[o], at'[o] = at[o], tries'[o] = tries[o],
         made' \in made .. Depth, faults' \in Nat, faults' >= faults
  PROVE  Charged(o)'
<1>1. made \in Nat /\ made' \in Nat /\ faults \in Nat /\ at[o] \in Nat /\ tries[o] \in Nat
  BY DEF OpeningTypeOK
<1> QED BY <1>1 DEF Charged

LEMMA CheckCharged ==
  ASSUME Depth \in Nat, MaxFaults \in Nat, OpeningInv, NEW o \in Openers, Opening!Check(o)
  PROVE  OpeningInv'
<1> USE DEF OpeningInv
<1>1. /\ made \in 0 .. Depth /\ faults \in 0 .. MaxFaults
      /\ at[o] \in 1 .. Depth + 1 /\ tries[o] \in Nat /\ opener[o] = "checking"
  BY DEF OpeningTypeOK, Opening!Check
<1>2. CASE made = Depth \/ at[o] > Depth
  <2>1. opener' = [opener EXCEPT ![o] = "opening"] /\ UNCHANGED <<made, at, tries, faults>>
    BY <1>2 DEF Opening!Check
  <2>2. OpeningTypeOK' BY <2>1 DEF OpeningTypeOK
  <2>3. Opening!RacesAreSurvived' BY <2>1 DEF Opening!RacesAreSurvived, OpeningTypeOK
  <2>4. Charged(o)' BY <1>1, <1>2, <2>1 DEF Charged, OpeningTypeOK
  <2>5. ASSUME NEW p \in Openers, p # o PROVE Charged(p)'
    BY <1>1, <2>1, <2>5, ChargedKept DEF OpeningTypeOK
  <2> QED BY <2>2, <2>3, <2>4, <2>5
<1>3. CASE ~(made = Depth \/ at[o] > Depth) /\ at[o] <= made
  <2>1. at' = [at EXCEPT ![o] = @ + 1] /\ UNCHANGED <<made, opener, tries, faults>>
    BY <1>3 DEF Opening!Check
  <2>2. OpeningTypeOK' BY <1>1, <1>3, <2>1 DEF OpeningTypeOK
  <2>3. Opening!RacesAreSurvived' BY <2>1 DEF Opening!RacesAreSurvived
  <2>4. Charged(o)' BY <1>1, <1>3, <2>1 DEF Charged, OpeningTypeOK
  <2>5. ASSUME NEW p \in Openers, p # o PROVE Charged(p)'
    BY <1>1, <2>1, <2>5, ChargedKept DEF OpeningTypeOK
  <2> QED BY <2>2, <2>3, <2>4, <2>5
<1>4. CASE ~(made = Depth \/ at[o] > Depth) /\ ~(at[o] <= made)
  <2>1. opener' = [opener EXCEPT ![o] = "making"] /\ UNCHANGED <<made, at, tries, faults>>
    BY <1>4 DEF Opening!Check
  <2>2. OpeningTypeOK' BY <2>1 DEF OpeningTypeOK
  <2>3. Opening!RacesAreSurvived' BY <2>1 DEF Opening!RacesAreSurvived, OpeningTypeOK
  <2>4. Charged(o)' BY <1>1, <1>4, <2>1 DEF Charged, OpeningTypeOK
  <2>5. ASSUME NEW p \in Openers, p # o PROVE Charged(p)'
    BY <1>1, <2>1, <2>5, ChargedKept DEF OpeningTypeOK
  <2> QED BY <2>2, <2>3, <2>4, <2>5
<1> QED BY <1>2, <1>3, <1>4

LEMMA MakeCharged ==
  ASSUME Depth \in Nat, MaxFaults \in Nat, OpeningInv, NEW o \in Openers, Opening!Make(o)
  PROVE  OpeningInv'
<1> USE DEF OpeningInv
<1>1. /\ made \in 0 .. Depth /\ faults \in 0 .. MaxFaults
      /\ at[o] \in 1 .. Depth + 1 /\ tries[o] \in Nat /\ opener[o] = "making"
      /\ at[o] <= Depth /\ at[o] <= made + 1 /\ tries[o] <= faults + at[o]
  BY DEF OpeningTypeOK, Opening!Make, Charged
<1>2. CASE /\ at[o] > made /\ made' = at[o] /\ at' = [at EXCEPT ![o] = @ + 1]
           /\ opener' = [opener EXCEPT ![o] = "checking"] /\ UNCHANGED <<faults, tries>>
  <2>1. OpeningTypeOK' BY <1>1, <1>2 DEF OpeningTypeOK
  <2>2. Opening!RacesAreSurvived' BY <1>2 DEF Opening!RacesAreSurvived, OpeningTypeOK
  <2>3. Charged(o)' BY <1>1, <1>2 DEF Charged, OpeningTypeOK
  <2>4. ASSUME NEW p \in Openers, p # o PROVE Charged(p)'
    BY <1>1, <1>2, <2>4, ChargedKept DEF OpeningTypeOK
  <2> QED BY <2>1, <2>2, <2>3, <2>4
<1>3. CASE /\ at[o] <= made \/ (faults < MaxFaults /\ faults' = faults + 1)
           /\ opener' = [opener EXCEPT ![o] = "opening"] /\ UNCHANGED <<made, at, tries>>
           /\ faults' = faults + 1 \/ faults' = faults
           /\ faults' \in 0 .. MaxFaults
  <2>1. OpeningTypeOK' BY <1>1, <1>3 DEF OpeningTypeOK
  <2>2. Opening!RacesAreSurvived' BY <1>3 DEF Opening!RacesAreSurvived, OpeningTypeOK
  <2>3. Charged(o)' BY <1>1, <1>3 DEF Charged, OpeningTypeOK
  <2>4. ASSUME NEW p \in Openers, p # o PROVE Charged(p)'
    BY <1>1, <1>3, <2>4, ChargedKept DEF OpeningTypeOK
  <2> QED BY <2>1, <2>2, <2>3, <2>4
<1> QED BY <1>1, <1>2, <1>3 DEF Opening!Make, Opening!GivesUp

LEMMA OpenCharged ==
  ASSUME Depth \in Nat, MaxFaults \in Nat, open_tries_ \in Nat, Depth + MaxFaults < open_tries_,
         OpeningInv, NEW o \in Openers, Opening!Open(o)
  PROVE  OpeningInv'
<1> USE DEF OpeningInv
<1>1. /\ made \in 0 .. Depth /\ faults \in 0 .. MaxFaults /\ made' = made
      /\ at[o] \in 1 .. Depth + 1 /\ tries[o] \in Nat /\ opener[o] = "opening"
      /\ tries[o] <= faults + made \/ (made = Depth /\ tries[o] <= faults + made + 1)
  BY DEF OpeningTypeOK, Opening!Open, Charged
<1>2. CASE opener' = [opener EXCEPT ![o] = "open"] /\ UNCHANGED <<at, tries, faults>>
  <2>1. OpeningTypeOK' BY <1>1, <1>2 DEF OpeningTypeOK
  <2>2. Opening!RacesAreSurvived' BY <1>2 DEF Opening!RacesAreSurvived, OpeningTypeOK
  <2>3. Charged(o)' BY <1>1, <1>2 DEF Charged, OpeningTypeOK
  <2>4. ASSUME NEW p \in Openers, p # o PROVE Charged(p)'
    BY <1>1, <1>2, <2>4, ChargedKept DEF OpeningTypeOK
  <2> QED BY <2>1, <2>2, <2>3, <2>4
<1>3. CASE Opening!Fail(o) /\ ((made < Depth /\ faults' = faults) \/ (faults < MaxFaults /\ faults' = faults + 1))
  <2>1. faults' \in 0 .. MaxFaults /\ faults' >= faults /\ tries[o] <= faults' + made
    BY <1>1, <1>3
  <2>2. Opening!Retries(o)
    BY <1>1, <1>3, <2>1 DEF Opening!Retries
  <2>3. /\ opener' = [opener EXCEPT ![o] = "checking"] /\ at' = [at EXCEPT ![o] = 1]
        /\ tries' = [tries EXCEPT ![o] = @ + 1]
    BY <1>3, <2>2 DEF Opening!Fail
  <2>4. OpeningTypeOK' BY <1>1, <2>1, <2>3 DEF OpeningTypeOK
  <2>5. Opening!RacesAreSurvived' BY <2>3 DEF Opening!RacesAreSurvived, OpeningTypeOK
  <2>6. Charged(o)' BY <1>1, <2>1, <2>3 DEF Charged, OpeningTypeOK
  <2>7. ASSUME NEW p \in Openers, p # o PROVE Charged(p)'
    BY <1>1, <2>1, <2>3, <2>7, ChargedKept DEF OpeningTypeOK
  <2> QED BY <2>4, <2>5, <2>6, <2>7
<1> QED BY <1>2, <1>3 DEF Opening!Open

(* With more tries than folders and other failures together no opener of   *)
(* a log file gives up, however many processes make the folders with it.   *)
THEOREM OpenersGetTheirFile ==
  ASSUME Depth \in Nat, MaxFaults \in Nat, open_tries_ \in Nat, Depth + MaxFaults < open_tries_
  PROVE  Opening!Spec => []Opening!RacesAreSurvived
<1>1. Opening!Init => OpeningInv BY InitCharged
<1>2. OpeningInv /\ [Opening!Next]_(Opening!vars) => OpeningInv'
  <2> SUFFICES ASSUME OpeningInv, [Opening!Next]_(Opening!vars) PROVE OpeningInv' OBVIOUS
  <2>1. ASSUME NEW o \in Openers, Opening!Check(o) \/ Opening!Make(o) \/ Opening!Open(o) PROVE OpeningInv'
    BY <2>1, CheckCharged, MakeCharged, OpenCharged
  <2>2. CASE UNCHANGED Opening!vars
    BY <2>2 DEF Opening!vars, OpeningInv, OpeningTypeOK, Opening!RacesAreSurvived, Charged
  <2> QED BY <2>1, <2>2 DEF Opening!Next
<1>3. OpeningInv => Opening!RacesAreSurvived BY DEF OpeningInv
<1> QED BY <1>1, <1>2, <1>3, PTL DEF Opening!Spec

-----------------------------------------------------------------------------
(* The flushers of the registry.  Of the types only the domains matter.    *)

NobodyFlushes == None \notin Threads \cup Flushers

FlusherInv == DOMAIN fstate = Flushers /\ DOMAIN pc = Threads /\ Flushing!FlushersOwned

LEMMA InitFlusherInv == ASSUME NobodyFlushes, Flushing!Init PROVE FlusherInv
<1>1. DOMAIN fstate = Flushers /\ DOMAIN pc = Threads
  BY DEF Flushing!Init
<1>2. \A f \in Flushers : fstate[f] = "unborn"
  BY DEF Flushing!Init
<1>3. \A t \in Threads : pc[t] = "idle" /\ t # None
  BY DEF Flushing!Init, NobodyFlushes
<1>4. flusher_lock = None /\ old = None
  BY DEF Flushing!Init
<1> QED BY <1>1, <1>2, <1>3, <1>4 DEF FlusherInv, Flushing!FlushersOwned

(* The old worker is handed to the thread that joins it in the step that   *)
(* installs the new one.                                                   *)
LEMMA ReplaceOwned ==
  ASSUME NobodyFlushes, FlusherInv, NEW t \in Threads, NEW f, Flushing!Replace(t, f),
         DOMAIN fstate' = Flushers, \A g \in Flushers \ {f} : fstate'[g] = fstate[g]
  PROVE  FlusherInv'
<1> USE DEF FlusherInv
<1>1. /\ old' = installed /\ installed' = f /\ flusher_lock = None /\ old = None
      /\ flusher_lock' = (IF installed = None THEN None ELSE t)
      /\ pc' = [pc EXCEPT ![t] = IF installed = None THEN Flushing!After(t)' ELSE "stopping"]
  BY DEF Flushing!Replace, Flushing!FlushersOwned
<1>2. None \notin Flushers /\ None \notin Threads
  BY DEF NobodyFlushes
<1>3. flusher_lock' = None <=> old' = None
  BY <1>1, <1>2
<1>4. ASSUME NEW g \in Flushers, fstate'[g] \in {"waiting", "called", "flushing"}
      PROVE  g \in {installed', old'}
  <2>1. CASE g = f BY <2>1, <1>1
  <2>2. CASE g # f
    <3>1. g \in {installed, old} BY <2>2, <1>4 DEF Flushing!FlushersOwned
    <3> QED BY <3>1, <1>1, <1>2
  <2> QED BY <2>1, <2>2
<1>5. Flushing!After(t)' \in {"dropping", "idle"}
  BY DEF Flushing!After
<1>6. ASSUME NEW u \in Threads
      PROVE  pc'[u] \in {"stopping", "joining"} <=> flusher_lock' = u
  <2>1. pc[u] \notin {"stopping", "joining"}
    BY <1>1, <1>2 DEF Flushing!FlushersOwned
  <2>2. CASE u = t BY <2>2, <1>1, <1>2, <1>5
  <2>3. CASE u # t BY <2>1, <2>3, <1>1, <1>2
  <2> QED BY <2>2, <2>3
<1> QED BY <1>1, <1>3, <1>4, <1>6 DEF Flushing!FlushersOwned

LEMMA ThreadOwned ==
  ASSUME NobodyFlushes, FlusherInv, NEW t \in Threads, Flushing!ThreadStep(t)
  PROVE  FlusherInv'
<1> USE DEF FlusherInv
<1>1. None \notin Threads /\ DOMAIN fstate' = Flushers /\ fstate' = fstate /\ installed' = installed
  BY DEF NobodyFlushes, Flushing!ThreadStep, Flushing!StopWorker, Flushing!Join, Flushing!ShutdownDrops
<1>2. CASE Flushing!StopWorker(t)
  <2>1. pc[t] = "stopping" /\ pc' = [pc EXCEPT ![t] = "joining"] /\ UNCHANGED <<old, flusher_lock>>
    BY <1>2 DEF Flushing!StopWorker
  <2> QED BY <1>1, <2>1 DEF Flushing!FlushersOwned
<1>3. CASE Flushing!Join(t)
  <2>1. /\ pc[t] = "joining" /\ fstate[old] = "gone" /\ flusher_lock' = None /\ old' = None
        /\ pc' = [pc EXCEPT ![t] = Flushing!After(t)]
    BY <1>3 DEF Flushing!Join, Flushing!Retire
  <2>2. Flushing!After(t) \in {"dropping", "idle"} BY DEF Flushing!After
  <2>3. flusher_lock = t BY <2>1 DEF Flushing!FlushersOwned
  <2>4. \A u \in Threads : pc'[u] \notin {"stopping", "joining"}
    BY <2>1, <2>2, <2>3 DEF Flushing!FlushersOwned
  <2>5. ASSUME NEW f \in Flushers, fstate'[f] \in {"waiting", "called", "flushing"}
        PROVE  f = installed'
    BY <2>5, <2>1, <1>1 DEF Flushing!FlushersOwned
  <2> QED BY <1>1, <2>1, <2>4, <2>5 DEF Flushing!FlushersOwned
<1>4. CASE Flushing!ShutdownDrops(t)
  <2>1. pc[t] = "dropping" /\ pc' = [pc EXCEPT ![t] = "idle"] /\ UNCHANGED <<old, flusher_lock>>
    BY <1>4 DEF Flushing!ShutdownDrops
  <2> QED BY <1>1, <2>1 DEF Flushing!FlushersOwned
<1> QED BY <1>2, <1>3, <1>4 DEF Flushing!ThreadStep

(* A worker moves between states in which it is owned, or ends.            *)
LEMMA FlusherOwned ==
  ASSUME FlusherInv, NEW f \in Flushers, Flushing!FlusherStep(f)
  PROVE  FlusherInv'
<1> USE DEF FlusherInv
<1>1. /\ UNCHANGED <<flusher_lock, installed, old, pc>>
      /\ DOMAIN fstate' = Flushers
      /\ \A g \in Flushers \ {f} : fstate'[g] = fstate[g]
      /\ fstate[f] \in {"waiting", "called", "flushing"}
  BY DEF Flushing!FlusherStep, Flushing!Wake, Flushing!BeginFlush, Flushing!EndFlush
<1> QED BY <1>1 DEF Flushing!FlushersOwned

LEMMA ConfigureOwned ==
  ASSUME Flushing!Configure \/ UNCHANGED Flushing!vars
  PROVE  UNCHANGED <<flusher_lock, installed, old, pc, fstate>>
BY DEF Flushing!Configure, Flushing!Initialize, Flushing!Register, Flushing!Log, Flushing!SetDefault,
       Flushing!Drop, Flushing!DropAll, Flushing!SetSetting, Flushing!SetLevel, Flushing!SetLevels,
       Flushing!SetAutomatic, Flushing!MapMethod, Flushing!vars, Flushing!flushVars

(* No flusher thread is orphaned and a joined one has one joiner, for any  *)
(* number of threads that call flush_every and shutdown at once.           *)
THEOREM FlushersAlwaysOwned == ASSUME NobodyFlushes PROVE Flushing!Spec => []Flushing!FlushersOwned
<1>1. Flushing!Init => FlusherInv BY InitFlusherInv
<1>2. FlusherInv /\ [Flushing!Next]_(Flushing!vars) => FlusherInv'
  <2> SUFFICES ASSUME FlusherInv, [Flushing!Next]_(Flushing!vars) PROVE FlusherInv' OBVIOUS
  <2>1. CASE Flushing!Configure \/ UNCHANGED Flushing!vars
    BY <2>1, ConfigureOwned DEF FlusherInv, Flushing!FlushersOwned
  <2>2. ASSUME NEW t \in Threads, Flushing!ThreadStep(t) PROVE FlusherInv'
    BY <2>2, ThreadOwned
  <2>3. ASSUME NEW t \in Threads, Flushing!FlushNever(t) \/ Flushing!Shutdown(t) PROVE FlusherInv'
    <3>1. Flushing!Replace(t, None) /\ fstate' = fstate BY <2>3 DEF Flushing!FlushNever, Flushing!Shutdown
    <3> QED BY <3>1, ReplaceOwned DEF FlusherInv
  <2>4. ASSUME NEW t \in Threads, NEW f \in Flushers, Flushing!FlushEvery(t, f) PROVE FlusherInv'
    <3>1. Flushing!Replace(t, f) /\ fstate' = [fstate EXCEPT ![f] = "waiting"] BY <2>4 DEF Flushing!FlushEvery
    <3>2. DOMAIN fstate' = Flushers /\ \A g \in Flushers \ {f} : fstate'[g] = fstate[g]
      BY <3>1 DEF FlusherInv
    <3> QED BY <3>1, <3>2, ReplaceOwned
  <2>5. ASSUME NEW f \in Flushers, Flushing!FlusherStep(f) PROVE FlusherInv'
    BY <2>5, FlusherOwned
  <2> QED BY <2>1, <2>2, <2>3, <2>4, <2>5 DEF Flushing!Next
<1>3. FlusherInv => Flushing!FlushersOwned BY DEF FlusherInv
<1> QED BY <1>1, <1>2, <1>3, PTL DEF Flushing!Spec

-----------------------------------------------------------------------------
(* A step of one part leaves the others as they are.                       *)
LEMMA StepOfEach ==
  ASSUME [Next]_vars
  PROVE  /\ [Flushing!Next]_(Flushing!vars)
         /\ [Pool!Next]_(Pool!vars)
         /\ [Opening!Next]_(Opening!vars)
BY
   DEF Next, Step, vars, flushingVars, poolVars, openingVars, Opening!vars, Pool!vars, Pool!threadVars,
       Flushing!vars, Flushing!flushVars, Flushing!mapVars, Flushing!levelVars, Flushing!settingVars

(* Whoever logs, restarts the flusher or shuts down: a flusher thread that *)
(* runs belongs to the registry or to a thread that is about to join it.   *)
THEOREM NoFlusherOrphaned ==
  ASSUME NobodyFlushes
  PROVE  FairSpec => []FlushersOwned
<1>1. Flushing!Spec => []Flushing!FlushersOwned BY FlushersAlwaysOwned
<1>2. [Next]_vars => [Flushing!Next]_(Flushing!vars) BY StepOfEach
<1>3. Init => Flushing!Init BY DEF Init
<1> QED BY <1>1, <1>2, <1>3, PTL DEF FairSpec, FlushersOwned, Flushing!Spec

(* No message of an asynchronous logger vanishes, all are processed before *)
(* the pool is gone, and each thread's are taken in order.                 *)
THEOREM PoolAlwaysAccounted ==
  ASSUME Staffed
  PROVE  FairSpec => PoolAccounted
<1>1. Pool!Spec => []Pool!Accounted BY EveryMessageAccounted DEF Staffed
<1>2. Pool!Spec => []Pool!DrainedWhenGone BY PoolIsDrained
<1>3. Pool!Spec => Pool!TakenInOrder BY MessagesTakenInOrder
<1>4. [Next]_vars => [Pool!Next]_(Pool!vars) BY StepOfEach
<1>5. Init => Pool!Init BY DEF Init
<1> QED BY <1>1, <1>2, <1>3, <1>4, <1>5, PTL DEF FairSpec, PoolAccounted, Pool!Spec

(* With more tries than folders and other failures no opener gives up      *)
(* while other processes make the folders too.                             *)
THEOREM NoOpenerGivesUp ==
  ASSUME Depth \in Nat, MaxFaults \in Nat, open_tries_ \in Nat, Depth + MaxFaults < open_tries_
  PROVE  FairSpec => []RacesAreSurvived
<1>1. Opening!Spec => []Opening!RacesAreSurvived BY OpenersGetTheirFile
<1>2. [Next]_vars => [Opening!Next]_(Opening!vars) BY StepOfEach
<1>3. Init => Opening!Init BY DEF Init
<1> QED BY <1>1, <1>2, <1>3, PTL DEF FairSpec, RacesAreSurvived, Opening!Spec
=============================================================================

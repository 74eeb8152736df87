------------------------------ MODULE AsyncLog ------------------------------
(***************************************************************************)
(* spdlog's asynchronous loggers: threads post messages to the bounded     *)
(* queue of a thread pool, workers take them to the sinks, and whoever     *)
(* gives up the last reference to the pool runs its destructor, which      *)
(* sends each worker a terminate message and joins it.                     *)
(*                                                                         *)
(* What a method does under queue_mutex_ is one step; the notification     *)
(* comes after the unlock and is a step of its own.  Log and flush         *)
(* requests are posted alike.                                              *)
(***************************************************************************)
EXTENDS CircularQ, FiniteSets

CONSTANTS
  Threads, Workers,
  QueueSize,       \* q_max_items
  MaxPosts,        \* bound: messages a thread logs
  Registry, None


VARIABLES
  q,          \* the pool's circular_q
  holders,    \* who has a shared_ptr to the pool
  policy,     \* overflow policy of the logger each thread uses
  pc,         \* each thread: "idle", "posting", "waiting", "posted", "joining"
  ending,     \* the thread in the pool's destructor, or None
  terminates, \* terminate messages still to post
  sent,       \* messages each thread has logged
  worker,     \* each worker: "polling", "waiting", "taken", "busy", "gone"
  got,        \* the message each worker holds
  accepted, handled,  \* history: messages that entered the queue, that were processed
  last        \* history: per thread, the last of its messages a worker took

threadVars == <<holders, policy, ending, terminates, sent>>
vars == <<q, threadVars, pc, worker, got, accepted, handled, last>>

Terminate == [from |-> Registry, n |-> 0]
Message(t) == IF ending = t THEN Terminate ELSE [from |-> t, n |-> sent[t]]
Blocks(t) == ending = t \/ policy[t] = "block"

-----------------------------------------------------------------------------
(* Slips a change of the code could make.                                  *)

NotifyPop_None == UNCHANGED pc
Dequeue_Leaves(w) == /\ got' = [got EXCEPT ![w] = Oldest(q)] /\ UNCHANGED q

-----------------------------------------------------------------------------
Init ==
  /\ q = New(QueueSize, None)
  /\ holders = {Registry}
  /\ policy \in [Threads -> {"block", "overrun_oldest"}]
  /\ pc = [t \in Threads |-> "idle"]
  /\ ending = None
  /\ terminates = 0
  /\ sent = [t \in Threads |-> 0]
  /\ worker = [w \in Workers |-> "polling"]
  /\ got = [w \in Workers |-> None]
  /\ accepted = 0 /\ handled = 0
  /\ last = [t \in Threads |-> 0]

(* async_logger::sink_it_ and flush_: the pool is locked, or gone and      *)
(* logging fails with an exception that the logger's handler reports.      *)
Post(t) ==
  /\ pc[t] = "idle" /\ sent[t] < MaxPosts
  /\ sent' = [sent EXCEPT ![t] = @ + 1]
  /\ IF holders # {}
       THEN holders' = holders \cup {t} /\ pc' = [pc EXCEPT ![t] = "posting"]
       ELSE UNCHANGED <<holders, pc>>
  /\ UNCHANGED <<q, policy, ending, terminates, worker, got, accepted, handled, last>>

Enqueued(m) == PushBack(q, m)

(* enqueue and enqueue_nowait, up to the unlock.                           *)
Enqueue(t) ==
  /\ pc[t] = "posting"
  /\ IF Blocks(t) /\ Full(q)
       THEN pc' = [pc EXCEPT ![t] = "waiting"] /\ UNCHANGED <<q, accepted>>
       ELSE /\ q' = Enqueued(Message(t))
            /\ accepted' = accepted + 1
            /\ pc' = [pc EXCEPT ![t] = "posted"]
  /\ UNCHANGED <<threadVars, worker, got, handled, last>>

NotifyPush ==
  IF \E w \in Workers : worker[w] = "waiting"
  THEN \E w \in Workers : worker[w] = "waiting" /\ worker' = [worker EXCEPT ![w] = "polling"]
  ELSE UNCHANGED worker

(* t gives its reference up; with the last one it is in the destructor.    *)
Release(t, who) ==
  /\ holders' = holders \ {who}
  /\ IF holders = {who}
       THEN /\ ending' = t
            /\ terminates' = Cardinality(Workers)
            /\ pc' = [pc EXCEPT ![t] = "posting"]
       ELSE pc' = [pc EXCEPT ![t] = "idle"] /\ UNCHANGED <<ending, terminates>>

(* The notification of enqueue, then the return from the post.             *)
Posted(t) ==
  /\ pc[t] = "posted"
  /\ NotifyPush
  /\ IF ending = t
       THEN /\ terminates' = terminates - 1
            /\ pc' = [pc EXCEPT ![t] = IF terminates = 1 THEN "joining" ELSE "posting"]
            /\ UNCHANGED <<holders, ending>>
       ELSE Release(t, t)
  /\ UNCHANGED <<q, policy, sent, got, accepted, handled, last>>

(* registry::set_tp and shutdown drop the registry's reference.            *)
ResetPool(t) ==
  /\ pc[t] = "idle" /\ Registry \in holders
  /\ Release(t, Registry)
  /\ UNCHANGED <<q, policy, sent, worker, got, accepted, handled, last>>

Destroyed == \A w \in Workers : worker[w] = "gone"

Join(t) ==
  /\ pc[t] = "joining"
  /\ Destroyed
  /\ pc' = [pc EXCEPT ![t] = "idle"]
  /\ ending' = None
  /\ UNCHANGED <<q, holders, policy, terminates, sent, worker, got, accepted, handled, last>>

-----------------------------------------------------------------------------
Dequeue(w) == /\ got' = [got EXCEPT ![w] = Oldest(q)] /\ q' = PopFront(q)

(* dequeue_for, up to the unlock.                                          *)
Poll(w) ==
  /\ worker[w] = "polling"
  /\ IF Empty(q)
       THEN worker' = [worker EXCEPT ![w] = "waiting"] /\ UNCHANGED <<q, got, last>>
       ELSE /\ Dequeue(w)
            /\ worker' = [worker EXCEPT ![w] = "taken"]
            /\ last' = [t \in Threads |-> IF Oldest(q).from = t THEN Oldest(q).n ELSE last[t]]
  /\ UNCHANGED <<threadVars, pc, accepted, handled>>

(* Ten seconds pass: worker_loop_ calls process_next_msg_ again.           *)
Timeout(w) ==
  /\ worker[w] = "waiting"
  /\ worker' = [worker EXCEPT ![w] = "polling"]
  /\ UNCHANGED <<q, threadVars, pc, got, accepted, handled, last>>

NotifyPop ==
  IF \E t \in Threads : pc[t] = "waiting"
  THEN \E t \in Threads : pc[t] = "waiting" /\ pc' = [pc EXCEPT ![t] = "posting"]
  ELSE UNCHANGED pc

Taken(w) ==
  /\ worker[w] = "taken"
  /\ NotifyPop
  /\ worker' = [worker EXCEPT ![w] = "busy"]
  /\ UNCHANGED <<q, threadVars, got, accepted, handled, last>>

(* backend_sink_it_ and backend_flush_ return, whatever a sink threw; a    *)
(* terminate message ends the worker's loop.                               *)
Process(w) ==
  /\ worker[w] = "busy"
  /\ worker' = [worker EXCEPT ![w] = IF got[w] = Terminate THEN "gone" ELSE "polling"]
  /\ got' = [got EXCEPT ![w] = None]
  /\ handled' = handled + 1
  /\ UNCHANGED <<q, threadVars, pc, accepted, last>>

ThreadStep(t) == Enqueue(t) \/ Posted(t) \/ Join(t)
WorkerStep(w) == Poll(w) \/ Timeout(w) \/ Taken(w) \/ Process(w)

Next ==
  \/ \E t \in Threads : Post(t) \/ ResetPool(t) \/ ThreadStep(t)
  \/ \E w \in Workers : WorkerStep(w)

Spec == Init /\ [][Next]_vars

(* Threads and workers run; nobody must log or drop the pool.              *)
FairSpec ==
  /\ Spec
  /\ \A t \in Threads : WF_vars(ThreadStep(t))
  /\ \A w \in Workers : WF_vars(WorkerStep(w))

-----------------------------------------------------------------------------
Held == Cardinality({w \in Workers : got[w] # None})

(* No message vanishes: it is queued, in a worker's hands, processed, or   *)
(* counted by overrun_counter, and the counter moves only if some logger   *)
(* may overrun.                                                            *)
Accounted ==
  /\ accepted = Size(q) + Held + handled + q.overrun
  /\ (\A t \in Threads : policy[t] = "block") => q.overrun = 0

(* When the destructor has returned every accepted message was processed   *)
(* and no worker is left that could touch the pool: terminate messages     *)
(* come last and are never overrun.                                        *)
DrainedWhenGone ==
  holders = {} /\ ending = None =>
    /\ Empty(q) /\ Held = 0
    /\ \A w \in Workers : worker[w] = "gone"

(* Workers take a thread's messages in the order it logged them.           *)
TakenInOrder == [][\A t \in Threads : last'[t] = last[t] \/ last'[t] > last[t]]_last

(* A thread that waits for room, or for the workers to end, gets on: no    *)
(* wake-up is lost, and every worker finds its terminate message.          *)
CallsReturn == \A t \in Threads : pc[t] # "idle" ~> pc[t] = "idle"
=============================================================================

---------------------------- MODULE LogThreads ----------------------------
(***************************************************************************)
(* The three places where spdlog makes threads or processes wait for one   *)
(* another: the registry and its flusher, the pool of the asynchronous     *)
(* loggers, and the opening of a log file in a folder that other processes *)
(* make too.  They share nothing, so a behaviour runs one of them and the  *)
(* others stay as they begin.                                              *)
(***************************************************************************)
EXTENDS Naturals, FiniteSets

CONSTANTS
  Threads, Flushers, Workers, Openers, TheLogger, Registry, None,
  QueueSize, MaxPosts,             \* of the pool, see AsyncLog
  Depth, open_tries_, MaxFaults    \* of the opening of a file, see OpenFile

VARIABLES
  part,   \* which one runs
  (* LogRegistry *)
  loggers_, default_, log_levels_, global_level, setting_, automatic, level, setting,
  dirty, map_lock, flusher_lock, installed, old, pc, ending, fstate, active, tracked, uniform,
  (* AsyncLog *)
  q, holders, policy, posting, pool_ending, terminates, sent, worker, got, accepted, handled, last,
  (* OpenFile *)
  made, opener, at, tries, faults

Flushing == INSTANCE LogRegistry WITH
  Names <- {""}, Loggers <- {TheLogger}, First <- TheLogger, NameOf <- [l \in {TheLogger} |-> ""],
  Tables <- {}, Levels <- {1}, Settings <- {"pattern"}
Pool == INSTANCE AsyncLog WITH pc <- posting, ending <- pool_ending
Opening == INSTANCE OpenFile WITH pc <- opener

flushingVars == <<loggers_, default_, log_levels_, global_level, setting_, automatic, level, setting,
  dirty, map_lock, flusher_lock, installed, old, pc, ending, fstate, active, tracked, uniform>>
poolVars == <<q, holders, policy, posting, pool_ending, terminates, sent, worker, got, accepted, handled, last>>
openingVars == <<made, opener, at, tries, faults>>
vars == <<part, flushingVars, poolVars, openingVars>>

Init ==
  /\ part \in {"flushing", "pool", "opening"}
  /\ Flushing!Init /\ Pool!Init /\ Opening!Init
  /\ part # "pool" => policy = [t \in Threads |-> "block"]
  /\ part # "opening" => made = 0

(* A step of the part that runs.                                           *)
Step(p, A) ==
  /\ part = p /\ UNCHANGED part
  /\ A
  /\ p # "flushing" => UNCHANGED flushingVars
  /\ p # "pool" => UNCHANGED poolVars
  /\ p # "opening" => UNCHANGED openingVars

Next == Step("flushing", Flushing!Next) \/ Step("pool", Pool!Next) \/ Step("opening", Opening!Next)

(* The fairness that each of the three modules states, for the one that    *)
(* runs.                                                                   *)
FairSpec ==
  /\ Init /\ [][Next]_vars
  /\ \A t \in Threads :
       /\ SF_vars(Step("flushing", Flushing!StopWorker(t)))
       /\ WF_vars(Step("flushing", Flushing!Join(t)))
       /\ SF_vars(Step("flushing", Flushing!ShutdownDrops(t)))
       /\ WF_vars(Step("pool", Pool!ThreadStep(t)))
  /\ \A f \in Flushers :
       /\ WF_vars(Step("flushing", Flushing!Wake(f)))
       /\ SF_vars(Step("flushing", Flushing!BeginFlush(f)))
       /\ WF_vars(Step("flushing", Flushing!EndFlush(f)))
  /\ \A w \in Workers :
       WF_vars(Step("pool", Pool!WorkerStep(w)))
  /\ WF_vars(Step("opening", Opening!Next))

-----------------------------------------------------------------------------
(* No flusher thread is orphaned.                                          *)
FlushersOwned == Flushing!FlushersOwned

(* flush_every and shutdown return, and what is logged gets flushed while  *)
(* one flusher stays installed.                                            *)
FlushingGoesOn == Flushing!OperationsReturn /\ Flushing!LogsGetFlushed

(* No message of an asynchronous logger vanishes unaccounted, when the     *)
(* pool's destructor has returned, all are processed, and a thread's go in *)
(* the order it logged them.                                               *)
PoolAccounted == [](Pool!Accounted /\ Pool!DrainedWhenGone) /\ Pool!TakenInOrder

(* A thread that posts a message or destroys the pool gets on, and every   *)
(* opening of a file ends.                                                 *)
CallsReturn == Pool!CallsReturn /\ (part = "opening" => Opening!OpensEnd)

(* Losing races for folders is no reason to give up a log file.            *)
RacesAreSurvived == Opening!RacesAreSurvived
=============================================================================

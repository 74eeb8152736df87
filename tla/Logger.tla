------------------------------- MODULE Logger -------------------------------
(***************************************************************************)
(* One spdlog logger shared by threads: what log, flush and dump_backtrace *)
(* do with its sinks and its backtrace when sinks throw.  The logger has   *)
(* no lock of its own: a call is a list of steps, each made under the      *)
(* mutex of one sink or of the backtrace, that interleaves with others.    *)
(***************************************************************************)
EXTENDS CircularQ, FiniteSets

CONSTANTS
  Threads, None,
  Sinks,         \* the sinks_ in order
  SinkLevel,     \* the level of each
  MaxLevel,      \* level::off
  Configured,    \* the pairs of logger level and flush level
  TraceSize,     \* messages the backtrace holds
  MaxCalls,      \* bound: calls made
  MaxErrors      \* bound: exceptions that sinks throw

VARIABLES
  level_, flush_level,   \* of the logger
  enabled, trace,        \* backtracer: enabled_ and messages_
  trace_lock,            \* backtracer's mutex_
  todo,        \* the steps left of each thread's call
  calls,       \* calls made: a log call's message is named by its number
  errors,      \* exceptions thrown
  levelOf,     \* history: the level of each message
  tried,       \* history: how often each sink was given each message
  unflushed,   \* messages written and not flushed, by sink
  broken,      \* sinks whose flush has thrown
  returned     \* history: messages whose enabled log call returned normally

callVars == <<level_, flush_level, levelOf, calls>>
sinkVars == <<errors, tried, unflushed, broken>>
vars == <<callVars, sinkVars, enabled, trace, trace_lock, todo, returned>>

Levels   == 0 .. MaxLevel
SinkSet  == {Sinks[i] : i \in DOMAIN Sinks}
Messages == 1 .. MaxCalls
Info     == 1

Step(op, s, m) == [op |-> op, sink |-> s, msg |-> m]
ForSinks(op, m) == [i \in DOMAIN Sinks |-> Step(op, Sinks[i], m)]

LevelOf(m) == IF m \in Messages THEN levelOf[m] ELSE Info

-----------------------------------------------------------------------------
(* Slips a change of the code could make.                                  *)

AfterThrow_Break(t, kind) ==
  IF kind = "std" THEN SelectSeq(Tail(todo[t]), LAMBDA step : step.op # "sink") ELSE <<>>

-----------------------------------------------------------------------------
Init ==
  /\ \E c \in Configured : level_ = c[1] /\ flush_level = c[2]
  /\ enabled = FALSE /\ trace = Disabled /\ trace_lock = None
  /\ todo = [t \in Threads |-> <<>>]
  /\ calls = 0
  /\ errors = 0
  /\ levelOf = [m \in Messages |-> None]
  /\ tried = [s \in SinkSet |-> [m \in Messages |-> 0]]
  /\ unflushed = [s \in SinkSet |-> {}]
  /\ broken = {}
  /\ returned = {}

(* sink_it_ and flush_ as lists of steps.                                  *)
SinkIt(m) == ForSinks("sink", m) \o <<Step("flush?", None, m)>>
FlushAll  == ForSinks("flush", None)

Start(t, steps) ==
  /\ todo[t] = <<>> /\ calls < MaxCalls
  /\ calls' = calls + 1
  /\ todo' = [todo EXCEPT ![t] = steps]

(* The log overloads: both gates are read first; a message that is only    *)
(* traced is kept too.  Its format may fail, which is reported.            *)
Log(t, lvl) ==
  LET m == calls + 1
      log_enabled == lvl >= level_
  IN /\ log_enabled \/ enabled
     /\ Start(t, (IF log_enabled THEN SinkIt(m) ELSE <<>>)
                 \o (IF enabled THEN <<Step("trace", None, m)>> ELSE <<>>)
                 \o (IF log_enabled THEN <<Step("return", None, m)>> ELSE <<>>))
     /\ levelOf' = [levelOf EXCEPT ![m] = lvl]
     /\ UNCHANGED <<level_, flush_level, sinkVars, enabled, trace, trace_lock, returned>>

Flush(t) ==
  /\ Start(t, FlushAll)
  /\ UNCHANGED <<level_, flush_level, levelOf, sinkVars, enabled, trace, trace_lock, returned>>

DumpBacktrace(t) ==
  /\ enabled
  /\ Start(t, SinkIt(None) \o <<Step("lock", None, None)>>)
  /\ UNCHANGED <<level_, flush_level, levelOf, sinkVars, enabled, trace, trace_lock, returned>>

(* enable_backtrace starts with an empty queue; disabling keeps it.        *)
EnableBacktrace ==
  /\ trace_lock = None /\ ~enabled
  /\ enabled' = TRUE
  /\ trace' = New(TraceSize, None)
  /\ UNCHANGED <<callVars, sinkVars, trace_lock, todo, returned>>

DisableBacktrace ==
  /\ trace_lock = None /\ enabled
  /\ enabled' = FALSE
  /\ UNCHANGED <<callVars, sinkVars, trace, trace_lock, todo, returned>>

-----------------------------------------------------------------------------
At_(t, op) == todo[t] # <<>> /\ Head(todo[t]).op = op
Done(t) == todo' = [todo EXCEPT ![t] = Tail(@)]
Then(t, steps) == todo' = [todo EXCEPT ![t] = steps \o Tail(@)]

(* SPDLOG_LOGGER_CATCH: a std::exception is reported and the loop goes on, *)
(* anything else is reported and rethrown out of the call.                 *)
AfterThrow(t, kind) == IF kind = "std" THEN Tail(todo[t]) ELSE <<>>

(* foreach_pop's lock_guard is released while the exception passes it.     *)
Unwind(t) == trace_lock' = IF trace_lock = t THEN None ELSE trace_lock

Thrown(t) ==
  /\ errors < MaxErrors
  /\ errors' = errors + 1
  /\ \E kind \in {"std", "unknown"} :
       /\ todo' = [todo EXCEPT ![t] = AfterThrow(t, kind)]
       /\ IF kind = "std" THEN UNCHANGED trace_lock ELSE Unwind(t)

ShouldLog(s, m) == LevelOf(m) >= SinkLevel[s]

SinkLog(t) ==
  LET s == Head(todo[t]).sink
      m == Head(todo[t]).msg
  IN /\ At_(t, "sink")
     /\ tried' = IF ShouldLog(s, m) /\ m # None THEN [tried EXCEPT ![s][m] = @ + 1] ELSE tried
     /\ \/ /\ Done(t)
           /\ unflushed' = IF ShouldLog(s, m) THEN [unflushed EXCEPT ![s] = @ \cup {m}] ELSE unflushed
           /\ UNCHANGED <<errors, trace_lock>>
        \/ ShouldLog(s, m) /\ Thrown(t) /\ UNCHANGED unflushed
     /\ UNCHANGED <<callVars, broken, enabled, trace, returned>>

ShouldFlush(m) == LevelOf(m) >= flush_level /\ LevelOf(m) # MaxLevel

FlushIfSevere(t) ==
  /\ At_(t, "flush?")
  /\ Then(t, IF ShouldFlush(Head(todo[t]).msg) THEN FlushAll ELSE <<>>)
  /\ UNCHANGED <<callVars, sinkVars, enabled, trace, trace_lock, returned>>

SinkFlush(t) ==
  LET s == Head(todo[t]).sink
  IN /\ At_(t, "flush")
     /\ \/ /\ Done(t)
           /\ unflushed' = [unflushed EXCEPT ![s] = {}]
           /\ UNCHANGED <<errors, broken, trace_lock>>
        \/ Thrown(t) /\ broken' = broken \cup {s} /\ UNCHANGED unflushed
     /\ UNCHANGED <<callVars, tried, enabled, trace, returned>>

(* backtracer::push_back, whatever has become of the backtrace meanwhile.  *)
Trace(t) ==
  /\ At_(t, "trace") /\ trace_lock = None
  /\ trace' = PushBack(trace, Head(todo[t]).msg)
  /\ Done(t)
  /\ UNCHANGED <<callVars, sinkVars, enabled, trace_lock, returned>>

Return(t) ==
  /\ At_(t, "return")
  /\ returned' = returned \cup {Head(todo[t]).msg}
  /\ Done(t)
  /\ UNCHANGED <<callVars, sinkVars, enabled, trace, trace_lock>>

DumpLocks(t) == trace_lock' = t

(* foreach_pop: the lock is kept while each message goes to the sinks.     *)
DumpBegins(t) ==
  /\ At_(t, "lock") /\ trace_lock = None
  /\ DumpLocks(t)
  /\ Then(t, <<Step("each", None, None)>>)
  /\ UNCHANGED <<callVars, sinkVars, enabled, trace, returned>>

DumpEach(t) ==
  /\ At_(t, "each")
  /\ IF Empty(trace)
       THEN trace_lock' = None /\ Then(t, SinkIt(None))
       ELSE UNCHANGED trace_lock
            /\ Then(t, SinkIt(Oldest(trace)) \o <<Step("pop", None, None), Step("each", None, None)>>)
  /\ UNCHANGED <<callVars, sinkVars, enabled, trace, returned>>

DumpPops(t) ==
  /\ At_(t, "pop")
  /\ trace' = PopFront(trace)
  /\ Done(t)
  /\ UNCHANGED <<callVars, sinkVars, enabled, trace_lock, returned>>

Proceed(t) ==
  \/ SinkLog(t) \/ FlushIfSevere(t) \/ SinkFlush(t) \/ Trace(t) \/ Return(t)
  \/ DumpBegins(t) \/ DumpEach(t) \/ DumpPops(t)

Next ==
  \/ \E t \in Threads :
       \/ \E lvl \in Levels : Log(t, lvl)
       \/ Flush(t) \/ DumpBacktrace(t) \/ Proceed(t)
  \/ EnableBacktrace \/ DisableBacktrace

Spec == Init /\ [][Next]_vars

-----------------------------------------------------------------------------
(* A sink that throws does not keep a message from the sinks after it: an  *)
(* enabled call that returned has tried every sink that takes its level.   *)
EverySinkTried ==
  \A m \in returned, s \in SinkSet : ShouldLog(s, m) => tried[s][m] > 0

(* A message as severe as the flush level is flushed in every sink it was  *)
(* written to when its call returns, if that sink's flush works.           *)
SevereIsFlushed ==
  \A m \in returned, s \in SinkSet \ broken :
    levelOf[m] >= flush_level /\ levelOf[m] # MaxLevel /\ tried[s][m] = 1 => m \notin unflushed[s]

(* Dumps share a backtrace out: a sink is given a message at most once by  *)
(* its call and once by a dump, while nothing throws.                      *)
DumpedOnce == errors = 0 => \A m \in Messages, s \in SinkSet : tried[s][m] <= 2

(* However its calls end, no thread takes the lock of the backtrace along. *)
LockGivenBack == \A t \in Threads : trace_lock = t => todo[t] # <<>>
=============================================================================

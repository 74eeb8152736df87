----------------------------- MODULE Lifecycle -----------------------------
(***************************************************************************)
(* The process from main's first statement to its end, and the signals     *)
(* that may interrupt it at every step.  The logger's flush thread and the *)
(* workers that commands start take signals too: the system may choose any *)
(* thread to run a handler.  A thread runs one handler at a time: SIGTERM  *)
(* interrupting SIGILL's handler, or the reverse, is not modelled.         *)
(***************************************************************************)
EXTENDS Naturals

CONSTANT MaxSignals   \* bound on the signals sent to the process

ASSUME MaxSignalsAssumption == MaxSignals \in Nat

Signals == {"SIGINT", "SIGTERM", "SIGILL"}
Threads == {"main", "other"}

VARIABLES
  pc,           \* the next statement of main; "exec" = in the event loop
  registered,   \* the signals that have close_handle as handler
  app,          \* there is a QCoreApplication
  tcpServer,    \* the global pointer: "null" or "set"
  listening,    \* m_server accepts connections
  posted,       \* closeServer calls queued for the main thread
  quitting,     \* QCoreApplication::exit has reached the running event loop
  handler,      \* where close_handle is in each thread, "off" = not running
  others,       \* there is a thread besides main that takes signals
  signals,      \* how many signals have been sent
  handled,      \* how many of them close_handle has finished with
  fate          \* "alive", "returned", "usage", "killed" or "crashed"

vars == <<pc, registered, app, tcpServer, listening, posted, quitting, handler,
          others, signals, handled, fate>>
mainVars == <<pc, registered, app, tcpServer, others>>

TypeOK ==
  /\ pc \in {"sigterm", "sigill", "arguments", "app", "log", "construct", "assign",
             "enter", "exec", "over"}
  /\ registered \subseteq Signals
  /\ app \in BOOLEAN
  /\ tcpServer \in {"null", "set"}
  /\ listening \in BOOLEAN
  /\ posted \in 0 .. MaxSignals
  /\ quitting \in BOOLEAN
  /\ handler \in [Threads -> {"off", "emit", "exit"}]
  /\ others \in BOOLEAN
  /\ signals \in 0 .. MaxSignals
  /\ handled \in 0 .. signals
  /\ fate \in {"alive", "returned", "usage", "killed", "crashed"}

Init ==
  /\ pc = "sigterm"
  /\ registered = {}
  /\ app = FALSE
  /\ tcpServer = "null"
  /\ listening = FALSE
  /\ posted = 0
  /\ quitting = FALSE
  /\ handler = [t \in Threads |-> "off"]
  /\ others = FALSE
  /\ signals = 0
  /\ handled = 0
  /\ fate = "alive"

Alive == fate = "alive"
Dead == ~Alive

(* The main thread does not run on while it runs a handler.                *)
MainAt(label) == Alive /\ pc = label /\ handler["main"] = "off"

-----------------------------------------------------------------------------
(* Slips a change of the code could make, see EdgeNode.                    *)
Reaches_Never == FALSE
CloseServer_Forgotten(t) == UNCHANGED <<listening, posted>>
-----------------------------------------------------------------------------
(* main                                                                    *)

Register(label, signal, next) ==
  /\ MainAt(label)
  /\ registered' = registered \cup {signal}
  /\ pc' = next
  /\ UNCHANGED <<app, tcpServer, others, listening, posted, quitting, handler,
                 signals, handled, fate>>

RegisterSigterm == Register("sigterm", "SIGTERM", "sigill")
RegisterSigill == Register("sigill", "SIGILL", "arguments")

(* CommandLine tells which arguments lead where.                           *)
ParseArguments ==
  /\ MainAt("arguments")
  /\ \/ pc' = "app" /\ fate' = fate
     \/ pc' = "over" /\ fate' \in {"usage", "crashed"}
  /\ UNCHANGED <<registered, app, tcpServer, others, listening, posted, quitting,
                 handler, signals, handled>>

CreateApplication ==
  /\ MainAt("app")
  /\ app' = TRUE
  /\ pc' = "log"
  /\ UNCHANGED <<registered, tcpServer, others, listening, posted, quitting,
                 handler, signals, handled, fate>>

(* flush_every starts a thread, unless the log file cannot be opened: that *)
(* is reported, and the node goes on without.                              *)
InitLog ==
  /\ MainAt("log")
  /\ others' \in BOOLEAN
  /\ pc' = "construct"
  /\ UNCHANGED <<registered, app, tcpServer, listening, posted, quitting,
                 handler, signals, handled, fate>>

(* The constructor listens, or reports that it cannot, and goes on.        *)
ConstructServer ==
  /\ MainAt("construct")
  /\ listening' \in BOOLEAN
  /\ pc' = "assign"
  /\ UNCHANGED <<registered, app, tcpServer, others, posted, quitting, handler,
                 signals, handled, fate>>

AssignServer ==
  /\ MainAt("assign")
  /\ tcpServer' = "set"
  /\ pc' = "enter"
  /\ UNCHANGED <<registered, app, others, listening, posted, quitting, handler,
                 signals, handled, fate>>

(* exec forgets an exit that was asked for before it.                      *)
EnterLoop ==
  /\ MainAt("enter")
  /\ quitting' = FALSE
  /\ pc' = "exec"
  /\ UNCHANGED <<registered, app, tcpServer, others, listening, posted, handler,
                 signals, handled, fate>>

(* (A manager connected before the server closed can still send commands,  *)
(* but by then close_handle is on its way to exit.)                        *)
StartCommand ==
  /\ MainAt("exec")
  /\ listening
  /\ ~others
  /\ others' = TRUE
  /\ UNCHANGED <<pc, registered, app, tcpServer, listening, posted, quitting,
                 handler, signals, handled, fate>>

Waiting == posted > 0

RunPosted ==
  /\ MainAt("exec")
  /\ Waiting
  /\ posted' = posted - 1
  /\ listening' = FALSE
  /\ UNCHANGED <<mainVars, quitting, handler, signals, handled, fate>>

(* main returns what exec returns; nobody stops or joins the workers.     *)
LeaveLoop ==
  /\ MainAt("exec")
  /\ quitting
  /\ pc' = "over"
  /\ fate' = "returned"
  /\ UNCHANGED <<registered, app, tcpServer, others, listening, posted, quitting,
                 handler, signals, handled>>

MainStep ==
  \/ RegisterSigterm \/ RegisterSigill \/ ParseArguments \/ CreateApplication
  \/ InitLog \/ ConstructServer \/ AssignServer \/ EnterLoop \/ RunPosted \/ LeaveLoop

-----------------------------------------------------------------------------
(* Signals.                                                                *)

Thread(t) == t = "main" \/ others

(* close_handle, or the default action of a signal nobody registered for.  *)
Deliver(signal, t) ==
  /\ Alive
  /\ signals < MaxSignals
  /\ Thread(t)
  /\ signal \in registered => handler[t] = "off"
  /\ signals' = signals + 1
  /\ IF signal \in registered
       THEN handler' = [handler EXCEPT ![t] = "emit"] /\ fate' = fate
       ELSE fate' = "killed" /\ handler' = handler
  /\ UNCHANGED <<mainVars, listening, posted, quitting, handled>>

(* The connection is automatic: closeServer runs at once in the thread of  *)
(* the server, and is posted to it from any other.                         *)
CloseServer(t) ==
  IF t = "main" THEN listening' = FALSE /\ posted' = posted
                ELSE posted' = posted + 1 /\ listening' = listening

(* emit tcpServer->close()                                                 *)
EmitClose(t) ==
  /\ Alive
  /\ handler[t] = "emit"
  /\ tcpServer = "set"
  /\ CloseServer(t)
  /\ handler' = [handler EXCEPT ![t] = "exit"]
  /\ UNCHANGED <<mainVars, quitting, signals, handled, fate>>

EmitThroughNull(t) ==
  /\ Alive
  /\ handler[t] = "emit"
  /\ tcpServer = "null"
  /\ fate' = "crashed"
  /\ UNCHANGED <<mainVars, listening, posted, quitting, handler, signals, handled>>

Reaches == pc = "exec"

(* QCoreApplication::exit()                                                *)
RequestExit(t) ==
  /\ Alive
  /\ handler[t] = "exit"
  /\ quitting' = (quitting \/ Reaches)
  /\ handler' = [handler EXCEPT ![t] = "off"]
  /\ handled' = handled + 1
  /\ UNCHANGED <<mainVars, listening, posted, signals, fate>>

HandlerStep == \E t \in Threads : EmitClose(t) \/ EmitThroughNull(t) \/ RequestExit(t)

Next ==
  \/ MainStep
  \/ StartCommand
  \/ HandlerStep
  \/ \E signal \in Signals, t \in Threads : Deliver(signal, t)

Spec == Init /\ [][Next]_vars

(* Both threads are scheduled; no signal and no command is promised.       *)
FairSpec == Spec /\ WF_vars(MainStep) /\ WF_vars(HandlerStep)

-----------------------------------------------------------------------------
(* A signal that is delivered while the event loop runs ends the process.  *)
SignalEndsLoop == pc = "exec" /\ handler # [t \in Threads |-> "off"] ~> Dead

(* The handler never leaves a node that still takes managers: once it has  *)
(* run, in whatever thread, the server is closed or a call that closes it  *)
(* is queued for the event loop, and so it is when main returns.           *)
DeafAfterSignal ==
  handled > 0 /\ fate \in {"alive", "returned"} => ~listening \/ posted > 0

(* "Received signal ...!  Closing......." is a promise kept: a process     *)
(* whose handler has run to its end is going to end.                       *)
HandledSignalEnds == handled > 0 ~> Dead

=============================================================================

------------------------------ MODULE EdgeNode ------------------------------
(***************************************************************************)
(* The node while its event loop runs: the main thread executes the        *)
(* manager's commands (config, subscribe, start, stop) one at a time, and  *)
(* every start adds a worker thread that pulls frames and pushes one       *)
(* result per frame to every subscriber socket.  Main thread and workers   *)
(* share, without any lock, the stop flag, the handler and the vector of   *)
(* push sockets; an action is what one thread does between two accesses to *)
(* that shared state.  What undefined behaviour can do here is a choice:   *)
(* the access happens to work, yields junk, or ends the process (Abort).   *)
(***************************************************************************)
EXTENDS Integers, Sequences, TLC, StdVector

CONSTANTS
  Endpoints,  \* the endpoint strings a manager subscribes with
  Sockets,    \* the push sockets zmq_socket can return; each is made once
  Workers,    \* the threads start can create; each is created once
  MaxFrames   \* bound: how many frames the upstream node sends in all

ASSUME JunkAssumption ==
  /\ Junk \notin Endpoints
  /\ Junk \notin Sockets
ASSUME MaxFramesAssumption == MaxFrames \in Nat

VARIABLES
  status,              \* of the process: "running" or "aborted"
  stop_flag,           \* the global _stop
  m_handler,           \* TcpServer::m_handler: "null", "ready", or "garbage"
  subscribers,         \* the vector of endpoint strings
  subscribers_sockets, \* the vector of push sockets the workers iterate
  push_socket,         \* "none", "open" (not bound), "bound" or "closed"
  bind_endpoint,       \* the endpoint each push socket was made for
  refused,             \* endpoint the last command called "already exists"
  mpc,                 \* where the main thread is; "idle" = in the event loop
  mi,                  \* its index in stop's loop
  msock,               \* subscribe's local push
  wpc,                 \* where each worker is
  wi,                  \* its index in handle's loop
  wsock,               \* handle's local sub_sock
  wframe,              \* the frame it is handling
  late,                \* frames it received since _stop became true
  taken,               \* how many frames the workers have received in all
  sent                 \* the results each push socket accepted, in order

tableVars  == <<subscribers, subscribers_sockets, push_socket, bind_endpoint>>
mainVars   == <<mpc, mi, msock, refused>>
workerVars == <<wpc, wi, wsock, wframe, late>>
flowVars   == <<taken, sent>>
vars == <<status, stop_flag, m_handler, tableVars, mainVars, workerVars, flowVars>>

Live(w) == wpc[w] \notin {"none", "done"}
Busy(w) == wpc[w] \in {"loop", "at", "send"}

TypeOK ==
  /\ status \in {"running", "aborted"}
  /\ stop_flag \in BOOLEAN
  /\ m_handler \in {"null", "ready", "garbage"}
  /\ IsVector(subscribers, Endpoints)
  /\ IsVector(subscribers_sockets, Sockets)
  /\ push_socket \in [Sockets -> {"none", "open", "bound", "closed"}]
  /\ bind_endpoint \in [Sockets -> Endpoints \cup {Junk}]
  /\ refused \in Endpoints \cup {Junk}
  /\ mpc \in {"idle", "grow", "bind", "closing"}
  /\ mi \in Nat
  /\ msock \in Sockets \cup {Junk}
  /\ wpc \in [Workers -> {"none", "check", "recv", "loop", "at", "send", "exit", "done"}]
  /\ wi \in [Workers -> Nat]
  /\ wsock \in [Workers -> Sockets \cup {Junk}]
  /\ wframe \in [Workers -> 0 .. MaxFrames]
  /\ late \in [Workers -> Nat]
  /\ taken \in 0 .. MaxFrames
  /\ sent \in [Sockets -> Seq(1 .. MaxFrames)]

(* The constructor never assigns m_handler, so it starts as whatever the   *)
(* heap block held.                                                        *)
Init ==
  /\ status = "running"
  /\ stop_flag = FALSE
  /\ m_handler \in {"null", "garbage"}
  /\ subscribers = EmptyVector
  /\ subscribers_sockets = EmptyVector
  /\ push_socket = [s \in Sockets |-> "none"]
  /\ bind_endpoint = [s \in Sockets |-> Junk]
  /\ refused = Junk
  /\ mpc = "idle"
  /\ mi = 0
  /\ msock = Junk
  /\ wpc = [w \in Workers |-> "none"]
  /\ wi = [w \in Workers |-> 0]
  /\ wsock = [w \in Workers |-> Junk]
  /\ wframe = [w \in Workers |-> 0]
  /\ late = [w \in Workers |-> 0]
  /\ taken = 0
  /\ sent = [s \in Sockets |-> << >>]

Running == status = "running"

(* The process dies: an exception leaves a thread, or a wild access.       *)
Abort ==
  /\ status' = "aborted"
  /\ UNCHANGED <<stop_flag, m_handler, tableVars, mainVars, workerVars, flowVars>>

-----------------------------------------------------------------------------
(* Slips a change of the code could make.  The specification uses none of  *)
(* them: each stands in for the definition it is named after when the      *)
(* properties below are tested against a wrong program.                    *)

KnownEndpoint_FirstOnly(e) == subscribers.size > 0 /\ subscribers.slot[1] = e
FirstIndex_SkipsOne == 2
ClearTable_SocketsOnly ==
  subscribers_sockets' = clear(subscribers_sockets) /\ subscribers' = subscribers
ClearTable_EndpointsOnly ==
  subscribers' = clear(subscribers) /\ subscribers_sockets' = subscribers_sockets
GoesOn_Always == TRUE
RecvTimeout_Never(w) == FALSE
PastEnd_NotEqual(i) == i = subscribers_sockets.size + 1
PastEnd_OneLess(i) == i >= subscribers_sockets.size
NextSubscriber_SameAgain(w) ==
  /\ wi' = wi
  /\ wsock' = [wsock EXCEPT ![w] = Junk]
  /\ wpc' = [wpc EXCEPT ![w] = "loop"]

-----------------------------------------------------------------------------
(* The main thread: the command handlers of TcpServer.                     *)

Idle == Running /\ mpc = "idle"

initHandler == IF m_handler = "null" THEN "ready" ELSE m_handler

Config ==
  /\ Idle
  /\ m_handler # "garbage"
  /\ m_handler' = initHandler
  /\ refused' = Junk
  /\ UNCHANGED <<status, stop_flag, tableVars, mpc, mi, msock, workerVars, flowVars>>

(* parseConfig is virtual: the call goes through the garbage pointer.      *)
ConfigFault == Idle /\ m_handler = "garbage" /\ Abort

KnownEndpoint(e) == Holds(subscribers, e)

(* *find(...) == endpoint reads the element found, or else through end().  *)
SubscribeRefused(e) ==
  /\ Idle
  /\ subscribers.size > 0
  /\ KnownEndpoint(e) \/ SlotAtEnd(subscribers) = e
  /\ refused' = e
  /\ UNCHANGED <<status, stop_flag, m_handler, tableVars, mpc, mi, msock,
                 workerVars, flowVars>>

(* The stale string at end() may have lost its bytes, so even when it is   *)
(* e the test can fail.  A push_back that must reallocate leaves the       *)
(* vector torn ("grow") between freeing the old buffer and the last        *)
(* pointer update.                                                         *)
SubscribeNew(e, s) ==
  /\ Idle
  /\ ~KnownEndpoint(e)
  /\ push_socket[s] = "none"
  /\ subscribers' = push_back(subscribers, e)
  /\ push_socket' = [push_socket EXCEPT ![s] = "open"]
  /\ bind_endpoint' = [bind_endpoint EXCEPT ![s] = e]
  /\ msock' = s
  /\ refused' = Junk
  /\ IF Full(subscribers_sockets)
       THEN mpc' = "grow" /\ UNCHANGED subscribers_sockets
       ELSE mpc' = "bind" /\ subscribers_sockets' = push_back(subscribers_sockets, s)
  /\ UNCHANGED <<status, stop_flag, m_handler, mi, workerVars, flowVars>>

SubscribeGrown ==
  /\ Running /\ mpc = "grow"
  /\ subscribers_sockets' = push_back(subscribers_sockets, msock)
  /\ mpc' = "bind"
  /\ UNCHANGED <<status, stop_flag, m_handler, subscribers, push_socket, bind_endpoint,
                 mi, msock, refused, workerVars, flowVars>>

(* The result of zmq_bind is ignored: a failed bind leaves the socket in   *)
(* the table.  (So does a NULL from zmq_socket: no send on it succeeds.)   *)
SubscribeBind ==
  /\ Running /\ mpc = "bind"
  /\ \E b \in {"bound", "open"} : push_socket' = [push_socket EXCEPT ![msock] = b]
  /\ mpc' = "idle"
  /\ msock' = Junk
  /\ UNCHANGED <<status, stop_flag, m_handler, subscribers, subscribers_sockets,
                 bind_endpoint, mi, refused, workerVars, flowVars>>

(* Nothing waits for, or even looks at, a worker started earlier.          *)
Start(w) ==
  /\ Idle
  /\ wpc[w] = "none"
  /\ m_handler' = initHandler
  /\ stop_flag' = FALSE
  /\ late' = [v \in Workers |-> 0]
  /\ wpc' = [wpc EXCEPT ![w] = "check"]
  /\ refused' = Junk
  /\ UNCHANGED <<status, tableVars, mpc, mi, msock, wi, wsock, wframe, flowVars>>

(* Where a loop over the push sockets starts, and its test.                *)
FirstIndex == 1
InRange(i) == i <= subscribers_sockets.size
PastEnd(i) == i > subscribers_sockets.size

StopBegin ==
  /\ Idle
  /\ stop_flag' = TRUE
  /\ mpc' = "closing"
  /\ mi' = FirstIndex
  /\ refused' = Junk
  /\ UNCHANGED <<status, m_handler, tableVars, msock, workerVars, flowVars>>

StopClose ==
  /\ Running /\ mpc = "closing"
  /\ InRange(mi)
  /\ push_socket' = [push_socket EXCEPT ![subscribers_sockets.slot[mi]] = "closed"]
  /\ mi' = mi + 1
  /\ UNCHANGED <<status, stop_flag, m_handler, subscribers, subscribers_sockets,
                 bind_endpoint, mpc, msock, refused, workerVars, flowVars>>

ClearTable ==
  /\ subscribers_sockets' = clear(subscribers_sockets)
  /\ subscribers' = clear(subscribers)

StopClear ==
  /\ Running /\ mpc = "closing"
  /\ PastEnd(mi)
  /\ ClearTable
  /\ mpc' = "idle"
  /\ mi' = 0
  /\ UNCHANGED <<status, stop_flag, m_handler, push_socket, bind_endpoint,
                 msock, refused, workerVars, flowVars>>

MainContinues == SubscribeGrown \/ SubscribeBind \/ StopClose \/ StopClear

Command ==
  \/ Config
  \/ ConfigFault
  \/ \E e \in Endpoints : SubscribeRefused(e) \/ \E s \in Sockets : SubscribeNew(e, s)
  \/ \E w \in Workers : Start(w)
  \/ StopBegin

-----------------------------------------------------------------------------
(* A worker: do_start's loop and ZmqOutHandler::handle.                    *)

At(w, label) == Running /\ wpc[w] = label
GoTo(w, label) == wpc' = [wpc EXCEPT ![w] = label]

(* A reader of the torn vector can see any size; one past the true size    *)
(* stands for all that are too large.                                      *)
Torn == mpc = "grow"

GoesOn == ~stop_flag

CheckStop(w) ==
  /\ At(w, "check")
  /\ GoTo(w, IF GoesOn THEN "recv" ELSE "exit")
  /\ UNCHANGED <<status, stop_flag, m_handler, tableVars, mainVars,
                 wi, wsock, wframe, late, flowVars>>

RecvTimeout(w) ==
  /\ At(w, "recv")
  /\ GoTo(w, "check")
  /\ UNCHANGED <<status, stop_flag, m_handler, tableVars, mainVars,
                 wi, wsock, wframe, late, flowVars>>

RecvFrame(w) ==
  /\ At(w, "recv")
  /\ taken < MaxFrames
  /\ m_handler # "garbage"
  /\ taken' = taken + 1
  /\ wframe' = [wframe EXCEPT ![w] = taken + 1]
  /\ late' = [late EXCEPT ![w] = IF stop_flag THEN @ + 1 ELSE @]
  /\ wi' = [wi EXCEPT ![w] = FirstIndex]
  /\ GoTo(w, "loop")
  /\ UNCHANGED <<status, stop_flag, m_handler, tableVars, mainVars, wsock, sent>>

(* handler->handle is virtual.                                             *)
RecvFault(w) == At(w, "recv") /\ taken < MaxFrames /\ m_handler = "garbage" /\ Abort

(* i < subscribers_sockets->size(), and the emptiness test before it.  The *)
(* result doHandle has made is never null, and the same for every frame.   *)
LoopEnter(w) ==
  /\ At(w, "loop")
  /\ InRange(wi[w]) \/ (Torn /\ InRange(wi[w] - 1))
  /\ GoTo(w, "at")
  /\ UNCHANGED <<status, stop_flag, m_handler, tableVars, mainVars,
                 wi, wsock, wframe, late, flowVars>>

LoopLeave(w) ==
  /\ At(w, "loop")
  /\ Torn \/ PastEnd(wi[w])
  /\ GoTo(w, "check")
  /\ wi' = [wi EXCEPT ![w] = 0]
  /\ wframe' = [wframe EXCEPT ![w] = 0]
  /\ UNCHANGED <<status, stop_flag, m_handler, tableVars, mainVars,
                 wsock, late, flowVars>>

(* at(i) checks the bound again and loads the socket.                      *)
AtLoad(w) ==
  /\ At(w, "at")
  /\ \/ /\ InRange(wi[w])
        /\ wsock' = [wsock EXCEPT ![w] = subscribers_sockets.slot[wi[w]]]
     \/ /\ Torn
        /\ wsock' = [wsock EXCEPT ![w] = Junk]
  /\ GoTo(w, "send")
  /\ UNCHANGED <<status, stop_flag, m_handler, tableVars, mainVars,
                 wi, wframe, late, flowVars>>

(* std::out_of_range leaves the thread function: std::terminate.           *)
AtThrow(w) ==
  /\ At(w, "at")
  /\ Torn \/ PastEnd(wi[w])
  /\ Abort

NextSubscriber(w) ==
  /\ wi' = [wi EXCEPT ![w] = @ + 1]
  /\ wsock' = [wsock EXCEPT ![w] = Junk]
  /\ GoTo(w, "loop")

SendAccepted(w) ==
  /\ At(w, "send")
  /\ wsock[w] # Junk
  /\ push_socket[wsock[w]] = "bound"
  /\ sent' = [sent EXCEPT ![wsock[w]] = Append(@, wframe[w])]
  /\ NextSubscriber(w)
  /\ UNCHANGED <<status, stop_flag, m_handler, tableVars, mainVars,
                 wframe, late, taken>>

(* The result of zmq_msg_send is ignored: no peer or a full pipe (EAGAIN), *)
(* or not a socket any more (ENOTSOCK).                                    *)
SendDropped(w) ==
  /\ At(w, "send")
  /\ NextSubscriber(w)
  /\ UNCHANGED <<status, stop_flag, m_handler, tableVars, mainVars,
                 wframe, late, flowVars>>

(* ZeroMQ sockets are not thread safe, and a closed one is soon freed.     *)
SocketMisused(w) ==
  \/ wsock[w] = Junk
  \/ wsock[w] # Junk /\ push_socket[wsock[w]] = "closed"
  \/ mpc = "bind" /\ wsock[w] = msock
  \/ \E v \in Workers \ {w} : wpc[v] = "send" /\ wsock[v] = wsock[w]

SendFault(w) == At(w, "send") /\ SocketMisused(w) /\ Abort

(* zmq_close(pull), then the virtual handler->close().                     *)
WorkerExit(w) ==
  /\ At(w, "exit")
  /\ m_handler # "garbage"
  /\ GoTo(w, "done")
  /\ UNCHANGED <<status, stop_flag, m_handler, tableVars, mainVars,
                 wi, wsock, wframe, late, flowVars>>

ExitFault(w) == At(w, "exit") /\ m_handler = "garbage" /\ Abort

WorkerStep(w) ==
  \/ CheckStop(w)
  \/ RecvTimeout(w)
  \/ RecvFrame(w)
  \/ RecvFault(w)
  \/ LoopEnter(w)
  \/ LoopLeave(w)
  \/ AtLoad(w)
  \/ AtThrow(w)
  \/ SendAccepted(w)
  \/ SendDropped(w)
  \/ SendFault(w)
  \/ WorkerExit(w)
  \/ ExitFault(w)

-----------------------------------------------------------------------------
Next == Command \/ MainContinues \/ \E w \in Workers : WorkerStep(w)

Spec == Init /\ [][Next]_vars

(* The operating system schedules every thread, zmq_msg_recv comes back    *)
(* after at most RCVTIMEO, and a command the main thread has begun never   *)
(* blocks.  No command and no frame is promised.                           *)
FairSpec ==
  /\ Spec
  /\ WF_vars(MainContinues)
  /\ \A w \in Workers : WF_vars(WorkerStep(w))

-----------------------------------------------------------------------------
(* Safety, for every order of commands and every interleaving.             *)

(* The two vectors of TcpServer stay parallel: the i-th socket was made    *)
(* for the i-th endpoint, and no endpoint or socket is in twice.           *)
TableConsistent ==
  /\ subscribers.size = subscribers_sockets.size + (IF mpc = "grow" THEN 1 ELSE 0)
  /\ \A i \in 1 .. subscribers_sockets.size :
       bind_endpoint[subscribers_sockets.slot[i]] = subscribers.slot[i]
  /\ mpc = "grow" => bind_endpoint[msock] = subscribers.slot[subscribers.size]
  /\ \A i, j \in 1 .. subscribers.size :
       subscribers.slot[i] = subscribers.slot[j] => i = j

(* stop closes all that subscribe opened: an open push socket is always    *)
(* in the vector (or about to be), and the vector holds a closed one only  *)
(* while stop is walking it.                                               *)
TableOwnsSockets ==
  /\ \A s \in Sockets : push_socket[s] \in {"open", "bound"} =>
       Holds(subscribers_sockets, s) \/ (mpc = "grow" /\ msock = s)
  /\ \A i \in 1 .. subscribers_sockets.size :
       push_socket[subscribers_sockets.slot[i]] = "closed" <=> mpc = "closing" /\ i < mi

(* No subscriber gets two results for one frame, even when the vector is   *)
(* cleared, refilled or reallocated under a worker that is iterating it.   *)
AtMostOnce ==
  \A s \in Sockets : \A i, j \in 1 .. Len(sent[s]) : sent[s][i] = sent[s][j] => i = j

(* A stop that no start revokes costs each worker at most one more frame:  *)
(* the one its pending receive returns.                                    *)
OneLateFrame == \A w \in Workers : late[w] <= 1

(* What subscribe reports with "Endpoint already exists!".                 *)
RefusedOnlyIfSubscribed == refused # Junk => Holds(subscribers, refused)

(* The vectors implement the table of SubscriberTable.  The row of a       *)
(* subscribe that has to reallocate appears when the reallocation is over. *)
TableRows ==
  [i \in 1 .. subscribers_sockets.size |->
     [endpoint |-> subscribers.slot[i], socket |-> subscribers_sockets.slot[i]]]
SocketsUsed ==
  {s \in Sockets : push_socket[s] # "none" /\ ~(mpc = "grow" /\ s = msock)}

Table == INSTANCE SubscriberTable WITH table <- TableRows, used <- SocketsUsed

ImplementsTable == Table!TableSpec

-----------------------------------------------------------------------------
(* Liveness, under FairSpec.                                               *)

(* A worker exits once stop has set the flag, unless a later start clears  *)
(* the flag first (or the process dies).                                   *)
StopTakesEffect ==
  \A w \in Workers : (stop_flag /\ Live(w)) ~> (~Live(w) \/ ~stop_flag \/ ~Running)

(* handle returns, although the vector it iterates may change under it.    *)
HandleReturns == \A w \in Workers : Busy(w) ~> (~Busy(w) \/ ~Running)

(* Endpoints, sockets and workers are interchangeable: for TLC.            *)
Symmetry == Permutations(Endpoints) \cup Permutations(Sockets) \cup Permutations(Workers)
=============================================================================

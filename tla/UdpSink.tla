------------------------------ MODULE UdpSink ------------------------------
(***************************************************************************)
(* udp_sink and udp_client, several in a process: a constructor that may   *)
(* fail at each of its calls, one datagram per message, a destructor.  On  *)
(* Windows each client starts Winsock for itself; the calls of a client    *)
(* follow one another under the mutex of its sink.                         *)
(***************************************************************************)
EXTENDS Naturals, FiniteSets

CONSTANTS
  Windows, Clients,
  MaxMessages, MaxFaults  \* bounds

VARIABLES
  pc,        \* "unborn", "made", "bound", "ready", "dead"
  socket_,   \* whether the client holds a socket
  fds,       \* the clients one of whose sockets is open
  winsock,
  sent, failed,  \* datagrams handed over, sends that threw
  faults

vars == <<pc, socket_, fds, winsock, sent, failed, faults>>

Fault == faults < MaxFaults /\ faults' = faults + 1

Started == IF Windows THEN 1 ELSE 0

-----------------------------------------------------------------------------
Init ==
  /\ pc = [c \in Clients |-> "unborn"]
  /\ socket_ = [c \in Clients |-> FALSE]
  /\ fds = {} /\ winsock = 0
  /\ sent = 0 /\ failed = 0 /\ faults = 0

Begin(c) ==
  /\ pc[c] = "unborn"
  /\ winsock' = winsock + Started
  /\ pc' = [pc EXCEPT ![c] = "made"]
  /\ UNCHANGED <<socket_, fds, sent, failed, faults>>

Undone == winsock - Started

(* No socket, and on Windows also an address that cannot be read, before   *)
(* there is anything to close.                                             *)
NoSocket(c) ==
  /\ pc[c] = "made" /\ Fault
  /\ winsock' = Undone
  /\ pc' = [pc EXCEPT ![c] = "dead"]
  /\ UNCHANGED <<socket_, fds, sent, failed>>

Open(c) ==
  /\ pc[c] = "made"
  /\ socket_' = [socket_ EXCEPT ![c] = TRUE] /\ fds' = fds \cup {c}
  /\ pc' = [pc EXCEPT ![c] = "bound"]
  /\ UNCHANGED <<winsock, sent, failed, faults>>

(* cleanup_  *)
CleanedUp(c) ==
  /\ fds' = IF socket_[c] THEN fds \ {c} ELSE fds
  /\ socket_' = [socket_ EXCEPT ![c] = FALSE]
  /\ winsock' = Undone

(* setsockopt fails, or on POSIX the address cannot be read.               *)
Unusable(c) ==
  /\ pc[c] = "bound" /\ Fault
  /\ CleanedUp(c)
  /\ pc' = [pc EXCEPT ![c] = "dead"]
  /\ UNCHANGED <<sent, failed>>

Ready(c) ==
  /\ pc[c] = "bound"
  /\ pc' = [pc EXCEPT ![c] = "ready"]
  /\ UNCHANGED <<socket_, fds, winsock, sent, failed, faults>>

(* sink_it_: one sendto, which may fail.                                   *)
Send(c) ==
  /\ pc[c] = "ready" /\ sent + failed < MaxMessages
  /\ \/ sent' = sent + 1 /\ UNCHANGED <<failed, faults>>
     \/ Fault /\ failed' = failed + 1 /\ UNCHANGED sent
  /\ UNCHANGED <<pc, socket_, fds, winsock>>

Destroy(c) ==
  /\ pc[c] = "ready"
  /\ CleanedUp(c)
  /\ pc' = [pc EXCEPT ![c] = "dead"]
  /\ UNCHANGED <<sent, failed, faults>>

Next == \E c \in Clients : Begin(c) \/ NoSocket(c) \/ Open(c) \/ Unusable(c) \/ Ready(c) \/ Send(c) \/ Destroy(c)

Spec == Init /\ [][Next]_vars

-----------------------------------------------------------------------------
Living == {c \in Clients : pc[c] \notin {"unborn", "dead"}}

(* A constructor that throws runs no destructor: whatever the step it      *)
(* fails at, nothing of the client is left, and a destroyed client leaves  *)
(* nothing either.                                                         *)
NothingLeft == \A c \in Clients \ Living : c \notin fds

(* Winsock is started once for each living client: one that fails or ends  *)
(* does not take it from the others, and the last one stops it.            *)
WinsockCounted == winsock = Cardinality(Living) * Started
=============================================================================

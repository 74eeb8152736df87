------------------------------ MODULE TcpSink ------------------------------
(***************************************************************************)
(* tcp_sink and its tcp_client, on POSIX and on Windows, where every use   *)
(* of a socket needs a started Winsock.  The sink's mutex makes its calls  *)
(* follow one another; the servers behind the addresses of the host come   *)
(* and go at any moment, and the kernel takes a message in pieces.         *)
(***************************************************************************)
EXTENDS Naturals, Sequences

CONSTANTS
  Windows,
  Addresses,            \* getaddrinfo finds addresses 1..Addresses
  Pieces,               \* the length of a formatted message
  MaxMessages, MaxSockets, MaxFaults, MaxChanges,  \* bounds
  None

VARIABLES
  socket_,
  fds,                  \* sockets the process has open
  winsock,              \* WSAStartup calls not undone by WSACleanup
  pc,                   \* "unborn", "idle", "connecting", "sending", "dead"
  at,                   \* the address connect is at
  message, bytes_sent,  \* what send is sending
  wire,                 \* per socket, the pieces handed over: <<message, piece>>
  returned,             \* history: messages whose call returned
  up,                   \* the addresses whose server answers
  reachable,            \* history: those that answered all through this connect
  faults, changes

conn == <<socket_, fds, winsock>>
sending == <<message, bytes_sent, wire, returned>>
world == <<up, changes>>
vars == <<conn, pc, at, sending, world, reachable, faults>>

Fault == faults < MaxFaults /\ faults' = faults + 1

-----------------------------------------------------------------------------
(* Slips a change of the code could make.                                  *)

More_Once == FALSE

-----------------------------------------------------------------------------
Init ==
  /\ socket_ = None /\ fds = {} /\ winsock = 0
  /\ pc = "unborn" /\ at = 0
  /\ message = 0 /\ bytes_sent = 0 /\ wire = <<>> /\ returned = {}
  /\ up = 1 .. Addresses /\ changes = 0 /\ reachable = {} /\ faults = 0

(* A server goes away or comes back.                                       *)
Change(a) ==
  /\ changes < MaxChanges /\ changes' = changes + 1
  /\ up' = (up \ {a}) \cup ({a} \ up)
  /\ reachable' = reachable \cap up'
  /\ UNCHANGED <<conn, pc, at, sending, faults>>

(* WSACleanup; a call too many fails and changes nothing.                  *)
Cleaned == IF Windows /\ winsock > 0 THEN winsock - 1 ELSE winsock

SocketsWork == Windows => winsock > 0

(* connect: close() first, then resolve the host.                          *)
StartConnect == pc' = "connecting" /\ at' = 1 /\ reachable' = up

(* The constructor, which connects unless the sink is lazy.                *)
Construct(lazy) ==
  /\ pc = "unborn"
  /\ winsock' = IF Windows THEN 1 ELSE 0
  /\ IF lazy THEN pc' = "idle" /\ UNCHANGED <<at, reachable>> ELSE StartConnect
  /\ UNCHANGED <<socket_, fds, sending, world, faults>>

(* sink_it_: reconnect if the connection has gone, then send.              *)
Log ==
  /\ pc = "idle" /\ message < MaxMessages
  /\ message' = message + 1 /\ bytes_sent' = 0
  /\ IF socket_ = None THEN StartConnect ELSE pc' = "sending" /\ UNCHANGED <<at, reachable>>
  /\ UNCHANGED <<conn, wire, returned, world, faults>>

(* An exception out of connect ends the call, or the constructor, and with *)
(* it the client, which cleans up once more.                               *)
Throw(cleaned) ==
  IF message = 0 THEN pc' = "dead" /\ winsock' = (IF cleaned > 0 THEN cleaned - 1 ELSE 0)
  ELSE pc' = "idle" /\ winsock' = cleaned

Unresolved ==
  /\ pc = "connecting" /\ at = 1 /\ socket_ = None
  /\ IF SocketsWork THEN Fault ELSE UNCHANGED faults
  /\ Throw(Cleaned)
  /\ UNCHANGED <<socket_, fds, at, sending, world, reachable>>

NextAddress == at + 1

(* ::socket() fails for this address; without Winsock the host would not   *)
(* even have been resolved.                                                *)
NoSocket ==
  /\ pc = "connecting" /\ at <= Addresses /\ socket_ = None /\ (at = 1 => SocketsWork)
  /\ IF SocketsWork THEN Fault ELSE UNCHANGED faults
  /\ winsock' = Cleaned
  /\ at' = NextAddress
  /\ UNCHANGED <<socket_, fds, pc, sending, world, reachable>>

NewSocket ==
  /\ pc = "connecting" /\ at <= Addresses /\ socket_ = None /\ SocketsWork
  /\ Len(wire) < MaxSockets
  /\ wire' = Append(wire, <<>>)
  /\ socket_' = Len(wire')
  /\ fds' = fds \cup {socket_'}
  /\ UNCHANGED <<winsock, pc, at, message, bytes_sent, returned, world, reachable, faults>>

ClosedOnRefusal == fds \ {socket_}

(* ::connect() on the new socket.  *)
Refused ==
  /\ pc = "connecting" /\ socket_ # None /\ at \notin up
  /\ fds' = ClosedOnRefusal
  /\ socket_' = None
  /\ at' = NextAddress
  /\ UNCHANGED <<winsock, pc, sending, world, reachable, faults>>

Accepted ==
  /\ pc = "connecting" /\ socket_ # None /\ at \in up
  /\ pc' = IF message = 0 THEN "idle" ELSE "sending"
  /\ UNCHANGED <<conn, at, sending, world, reachable, faults>>

(* No address left.                                                        *)
GiveUp ==
  /\ pc = "connecting" /\ at > Addresses
  /\ Throw(Cleaned)
  /\ UNCHANGED <<socket_, fds, at, sending, world, reachable, faults>>

(* tcp_client::send goes on while anything is left.                        *)
More == bytes_sent' < Pieces

Piece(n) == [i \in 1 .. n |-> <<message, bytes_sent + i>>]

SendSome(n) ==
  /\ pc = "sending" /\ n <= Pieces - bytes_sent
  /\ wire' = [wire EXCEPT ![socket_] = @ \o Piece(n)]
  /\ bytes_sent' = bytes_sent + n
  /\ IF More THEN UNCHANGED <<pc, returned>> ELSE pc' = "idle" /\ returned' = returned \cup {message}
  /\ UNCHANGED <<conn, at, message, world, reachable, faults>>

ClosedOnError == None

SendFails ==
  /\ pc = "sending" /\ Fault
  /\ socket_' = ClosedOnError
  /\ fds' = fds \cap {socket_'}
  /\ pc' = "idle"
  /\ UNCHANGED <<winsock, at, sending, world, reachable>>

(* ~tcp_sink, ~tcp_client.  *)
Destroy ==
  /\ pc = "idle"
  /\ pc' = "dead"
  /\ socket_' = None /\ fds' = fds \ {socket_} /\ winsock' = Cleaned
  /\ UNCHANGED <<at, sending, world, reachable, faults>>

Next ==
  \/ \E lazy \in BOOLEAN : Construct(lazy)
  \/ Log \/ Unresolved \/ NoSocket \/ NewSocket \/ Refused \/ Accepted \/ GiveUp
  \/ \E n \in 1 .. Pieces : SendSome(n)
  \/ SendFails \/ Destroy
  \/ \E a \in 1 .. Addresses : Change(a)

Spec == Init /\ [][Next]_vars

-----------------------------------------------------------------------------
(* No socket is left behind by refusals, errors and reconnections.         *)
NoSocketLeft == fds = {socket_} \ {None}

(* "On error close the connection and throw": on each connection a message *)
(* follows a whole message, so only the last one may be cut.               *)
WholeMessages ==
  \A c \in DOMAIN wire : \A i \in 1 .. Len(wire[c]) :
    LET m == wire[c][i][1]
        k == wire[c][i][2]
    IN IF k > 1 THEN i > 1 /\ wire[c][i - 1] = <<m, k - 1>>
       ELSE i = 1 \/ (wire[c][i - 1][2] = Pieces /\ wire[c][i - 1][1] < m)

(* A logging call that returns has handed all of its message to one        *)
(* connection.                                                             *)
ReturnedIsSent ==
  \A m \in returned : \E c \in DOMAIN wire : \E i \in DOMAIN wire[c] : wire[c][i] = <<m, Pieces>>

(* "Will attempt to reconnect if connection drops", "try each address":    *)
(* unless a system call fails in it, connect gives up only when no address *)
(* has answered throughout.                                                *)
GivesUpOnlyIfDown == [][GiveUp \/ (Unresolved /\ faults' = faults) => faults > 0 \/ reachable = {}]_vars
=============================================================================

--------------------------- MODULE LogSinksProofs ---------------------------
(***************************************************************************)
(* What LogSinks promises of the sinks themselves, for any addresses,      *)
(* clients, terminals, sizes, periods and messages: a call that returned   *)
(* has handed its record over and leaves nothing behind, lines stay whole, *)
(* and the files of a log keep to their size, number and order.            *)
(***************************************************************************)
EXTENDS LogSinks, FiniteSetTheorems, SequenceTheorems, WellFoundedInduction, TLAPS

-----------------------------------------------------------------------------
(* The TCP sink.                                                           *)

(* What a connection has been handed: messages in order, each from its     *)
(* first piece, and all but the last to their last piece.                  *)
WholeOn(w) ==
  \A i \in 1 .. Len(w) :
    LET m == w[i][1]
        k == w[i][2]
    IN IF k > 1 THEN i > 1 /\ w[i - 1] = <<m, k - 1>>
       ELSE i = 1 \/ (w[i - 1][2] = Pieces /\ w[i - 1][1] < m)

(* What the connection in use ends with.                                   *)
EndsAt(w, m, k) == w # <<>> /\ w[Len(w)] = <<m, k>>
EndsWhole(w) == w = <<>> \/ \E m \in 0 .. message : EndsAt(w, m, Pieces)

ConnectionInv ==
  /\ connection \in {"unborn", "idle", "connecting", "sending", "dead"}
  /\ at \in Nat /\ message \in Nat /\ bytes_sent \in Nat /\ tcp_faults \in Nat
  /\ wire \in Seq(Seq(Nat \X Nat))
  /\ socket_ \in DOMAIN wire \cup {None}
  /\ fds = {socket_} \ {None}
  /\ winsock = 0
  /\ connection = "sending" => socket_ # None
  /\ connection \in {"unborn", "dead"} => socket_ = None
  /\ connection = "connecting" /\ socket_ # None => at <= Addresses /\ wire[socket_] = <<>>

SentInv ==
  /\ \A c \in DOMAIN wire : WholeOn(wire[c])
  /\ Tcp!ReturnedIsSent
  /\ connection \in {"unborn", "connecting"} => bytes_sent = 0
  /\ connection = "sending" /\ bytes_sent = 0 =>
       wire[socket_] = <<>> \/ \E m \in 0 .. message - 1 : EndsAt(wire[socket_], m, Pieces)
  /\ connection = "sending" /\ bytes_sent # 0 =>
       bytes_sent < Pieces /\ EndsAt(wire[socket_], message, bytes_sent)
  /\ connection = "idle" /\ socket_ # None => EndsWhole(wire[socket_])

(* Without a failed call, only the addresses before the current one can    *)
(* have been down.                                                         *)
TriedInv ==
  /\ up \subseteq 1 .. Addresses
  /\ connection = "connecting" => reachable \subseteq up
  /\ connection = "connecting" /\ tcp_faults = 0 => reachable \subseteq at .. Addresses

TcpConstants == Addresses \in Nat /\ Pieces \in Nat /\ TcpFaults \in Nat /\ None \notin Nat

LEMMA NextConnection ==
  ASSUME TcpConstants, ConnectionInv, [Tcp!Next]_(Tcp!vars)
  PROVE  ConnectionInv'
<1> USE DEF TcpConstants, ConnectionInv
<1>1. ASSUME NEW lazy \in BOOLEAN, Tcp!Construct(lazy) PROVE ConnectionInv'
  BY <1>1 DEF Tcp!Construct, Tcp!StartConnect, Tcp!sending, Tcp!world
<1>2. CASE Tcp!Log
  BY <1>2 DEF Tcp!Log, Tcp!StartConnect, Tcp!conn, Tcp!world
<1>3. CASE Tcp!Unresolved \/ Tcp!GiveUp
  BY <1>3 DEF Tcp!Unresolved, Tcp!GiveUp, Tcp!Throw, Tcp!Cleaned, Tcp!Fault, Tcp!SocketsWork, Tcp!sending, Tcp!world
<1>4. CASE Tcp!NoSocket
  BY <1>4 DEF Tcp!NoSocket, Tcp!Cleaned, Tcp!Fault, Tcp!SocketsWork, Tcp!NextAddress, Tcp!sending, Tcp!world
<1>5. CASE Tcp!NewSocket
  <2>1. /\ wire' \in Seq(Seq(Nat \X Nat)) /\ socket_' \in DOMAIN wire' /\ wire'[socket_'] = <<>>
        /\ socket_' \in Nat
    BY <1>5 DEF Tcp!NewSocket
  <2>2. fds' = {socket_'} BY <1>5 DEF Tcp!NewSocket
  <2> QED BY <1>5, <2>1, <2>2 DEF Tcp!NewSocket, Tcp!SocketsWork, Tcp!world
<1>6. CASE Tcp!Refused
  BY <1>6 DEF Tcp!Refused, Tcp!ClosedOnRefusal, Tcp!NextAddress, Tcp!sending, Tcp!world
<1>7. CASE Tcp!Accepted
  BY <1>7 DEF Tcp!Accepted, Tcp!conn, Tcp!sending, Tcp!world
<1>8. ASSUME NEW n \in 1 .. Pieces, Tcp!SendSome(n) PROVE ConnectionInv'
  <2>1. Tcp!Piece(n) \in Seq(Nat \X Nat) BY SMTT(40) DEF Tcp!Piece
  <2>2. socket_ \in DOMAIN wire /\ wire[socket_] \in Seq(Nat \X Nat) BY <1>8 DEF Tcp!SendSome
  <2>3. wire[socket_] \o Tcp!Piece(n) \in Seq(Nat \X Nat) BY <2>1, <2>2
  <2>4. wire' = [wire EXCEPT ![socket_] = wire[socket_] \o Tcp!Piece(n)] BY <1>8 DEF Tcp!SendSome
  <2>5. wire' \in Seq(Seq(Nat \X Nat)) /\ DOMAIN wire' = DOMAIN wire
    <3> DEFINE s == wire[socket_] \o Tcp!Piece(n)
    <3> HIDE DEF s
    <3>1. s \in Seq(Nat \X Nat) /\ wire' = [wire EXCEPT ![socket_] = s] BY <2>3, <2>4 DEF s
    <3>2. socket_ \in 1 .. Len(wire) BY <2>2
    <3>3. [wire EXCEPT ![socket_] = s] \in Seq(Seq(Nat \X Nat)) BY <3>1, <3>2, ExceptSeq, Zenon
    <3> QED BY <3>1, <3>3
  <2>6. connection' \in {"sending", "idle"} /\ socket_' = socket_ BY <1>8 DEF Tcp!SendSome, Tcp!conn
  <2>7. UNCHANGED <<fds, winsock, at, message, tcp_faults>> /\ bytes_sent' \in Nat BY <1>8, SMTT(40) DEF Tcp!SendSome, Tcp!conn
  <2> QED BY <1>8, <2>5, <2>6, <2>7 DEF Tcp!SendSome
<1>9. CASE Tcp!SendFails
  BY <1>9 DEF Tcp!SendFails, Tcp!ClosedOnError, Tcp!Fault, Tcp!sending, Tcp!world
<1>10. CASE Tcp!Destroy
  BY <1>10 DEF Tcp!Destroy, Tcp!Cleaned, Tcp!sending, Tcp!world
<1>11. ASSUME NEW a \in 1 .. Addresses, Tcp!Change(a) PROVE ConnectionInv'
  BY <1>11 DEF Tcp!Change, Tcp!conn, Tcp!sending
<1>12. CASE UNCHANGED Tcp!vars
  BY <1>12 DEF Tcp!vars, Tcp!conn, Tcp!sending, Tcp!world
<1> QED BY <1>1, <1>2, <1>3, <1>4, <1>5, <1>6, <1>7, <1>8, <1>9, <1>10, <1>11, <1>12 DEF Tcp!Next

(* More pieces of a message continue what the connection ends with.        *)
Continued(w, m, b, n, r) ==
  /\ w \in Seq(Nat \X Nat) /\ r \in Seq(Nat \X Nat) /\ m \in Nat /\ b \in Nat /\ n \in Nat \ {0}
  /\ b = 0 => w = <<>> \/ \E l \in 0 .. m - 1 : EndsAt(w, l, Pieces)
  /\ b # 0 => EndsAt(w, m, b)
  /\ Len(r) = Len(w) + n
  /\ \A i \in 1 .. Len(w) : r[i] = w[i]
  /\ \A i \in Len(w) + 1 .. Len(w) + n : r[i] = <<m, b + (i - Len(w))>>

LEMMA SentOn ==
  ASSUME NEW w, WholeOn(w), NEW m, NEW b, NEW n, NEW r, Continued(w, m, b, n, r)
  PROVE  WholeOn(r) /\ EndsAt(r, m, b + n) /\ \A i \in DOMAIN w : i \in DOMAIN r /\ r[i] = w[i]
<1> DEFINE L == Len(w)
<1>1. L \in Nat /\ n \in Nat \ {0} /\ b \in Nat /\ m \in Nat BY DEF Continued
<1>2. /\ Len(r) = L + n /\ DOMAIN r = 1 .. L + n /\ DOMAIN w = 1 .. L
      /\ \A i \in 1 .. L : r[i] = w[i]
      /\ \A i \in L + 1 .. L + n : r[i] = <<m, b + (i - L)>>
  BY DEF Continued
<1>3. L = 0 <=> w = <<>> BY DEF Continued
<1>4. b = 0 /\ w # <<>> => \E l \in 0 .. m - 1 : w[L] = <<l, Pieces>> BY DEF Continued, EndsAt
<1>5. b # 0 => w # <<>> /\ w[L] = <<m, b>> BY DEF Continued, EndsAt
<1>6. \A i \in 1 .. L : IF w[i][2] > 1 THEN i > 1 /\ w[i - 1] = <<w[i][1], w[i][2] - 1>>
                         ELSE i = 1 \/ (w[i - 1][2] = Pieces /\ w[i - 1][1] < w[i][1])
  BY DEF WholeOn
<1>7. r # <<>> BY <1>1, <1>2
<1> HIDE DEF L
<1>8. EndsAt(r, m, b + n) BY <1>1, <1>2, <1>7 DEF EndsAt
<1>9. ASSUME NEW i \in 1 .. L + n
      PROVE  IF r[i][2] > 1 THEN i > 1 /\ r[i - 1] = <<r[i][1], r[i][2] - 1>>
             ELSE i = 1 \/ (r[i - 1][2] = Pieces /\ r[i - 1][1] < r[i][1])
  <2>1. CASE i <= L
    <3>1. i \in 1 .. L /\ (i # 1 => i - 1 \in 1 .. L) BY <1>1, <2>1
    <3>2. r[i] = w[i] /\ (i # 1 => r[i - 1] = w[i - 1]) BY <1>2, <3>1
    <3>3. IF w[i][2] > 1 THEN i > 1 /\ w[i - 1] = <<w[i][1], w[i][2] - 1>>
             ELSE i = 1 \/ (w[i - 1][2] = Pieces /\ w[i - 1][1] < w[i][1])
      BY <1>6, <3>1
    <3>4. CASE i = 1 BY <3>2, <3>3, <3>4
    <3>5. CASE i # 1 BY <3>2, <3>3, <3>5
    <3> QED BY <3>4, <3>5
  <2>2. CASE i = L + 1
    <3>1. r[i] = <<m, b + 1>>
      <4>1. i \in L + 1 .. L + n /\ i - L = 1 BY <1>1, <2>2
      <4> QED BY <1>2, <4>1
    <3>2. L # 0 => r[i - 1] = w[L]
      <4>1. i - 1 = L /\ L \in Nat /\ (L # 0 => L \in 1 .. L)
          BY <1>1, <2>2
      <4> QED BY <1>2, <4>1
    <3>3. L = 0 <=> w = <<>> BY <1>3
    <3>4. CASE b = 0
      <4>1. w # <<>> => \E l \in 0 .. m - 1 : w[L] = <<l, Pieces>> BY <1>4, <3>4
      <4>2. ASSUME i # 1 PROVE r[i - 1][2] = Pieces /\ r[i - 1][1] < m
        <5>1. L # 0 BY <1>1, <2>2, <4>2
        <5>2. PICK l \in 0 .. m - 1 : w[L] = <<l, Pieces>> BY <3>3, <4>1, <5>1
        <5>3. l < m BY <1>1, <5>2
        <5>4. r[i - 1] = <<l, Pieces>> BY <3>2, <4>2, <5>1, <5>2
        <5> QED BY <5>3, <5>4
      <4> QED BY <3>1, <3>4, <4>2
    <3>5. CASE b # 0
      <4>1. w # <<>> /\ w[L] = <<m, b>> BY <1>5, <3>5
      <4>2. i > 1 /\ r[i - 1] = <<m, b>> BY <1>1, <2>2, <3>2, <3>3, <4>1
      <4>3. b + 1 > 1 /\ (b + 1) - 1 = b BY <1>1, <3>5
      <4> QED BY <3>1, <4>2, <4>3
    <3> QED BY <3>4, <3>5
  <2>3. CASE i > L + 1
    <3>1. i \in L + 1 .. L + n /\ i - 1 \in L + 1 .. L + n /\ i > 1 BY <1>1, <2>3
    <3>2. r[i] = <<m, b + (i - L)>> /\ r[i - 1] = <<m, b + (i - 1 - L)>> BY <1>2, <3>1
    <3>3. b + (i - L) > 1 /\ b + (i - L) - 1 = b + (i - 1 - L)
      <4>1. i \in Nat /\ L \in Nat /\ b \in Nat BY <1>1
      <4> QED BY <2>3, <4>1
    <3> DEFINE j == b + (i - L)
               h == b + (i - 1 - L)
    <3>4. r[i][1] = m /\ r[i][2] = j /\ r[i - 1] = <<m, h>> BY <3>2
    <3>5. j > 1 /\ j - 1 = h
      <4>1. i \in Nat /\ L \in Nat /\ b \in Nat BY <1>1
      <4> QED BY <2>3, <4>1
    <3> HIDE DEF j, h
    <3> QED BY <3>1, <3>4, <3>5
  <2> QED BY <1>1, <2>1, <2>2, <2>3
<1>10. WholeOn(r) BY <1>2, <1>9 DEF WholeOn
<1>11. \A i \in DOMAIN w : i \in DOMAIN r /\ r[i] = w[i] BY <1>1, <1>2
<1> QED BY <1>2, <1>8, <1>10, <1>11

(* The same pieces on the same connections.                                *)
LEMMA SameWire ==
  ASSUME SentInv, UNCHANGED <<wire, delivered>>
  PROVE  (\A c \in DOMAIN wire' : WholeOn(wire'[c])) /\ Tcp!ReturnedIsSent'
BY DEF SentInv, Tcp!ReturnedIsSent

LEMMA NextSent ==
  ASSUME TcpConstants, ConnectionInv, SentInv, [Tcp!Next]_(Tcp!vars)
  PROVE  SentInv'
<1> USE DEF TcpConstants, ConnectionInv
<1>1. ASSUME NEW lazy \in BOOLEAN, Tcp!Construct(lazy) PROVE SentInv'
  BY <1>1, SameWire DEF Tcp!Construct, Tcp!StartConnect, Tcp!sending, Tcp!world, SentInv
<1>2. CASE Tcp!Log
  <2>1. (\A c \in DOMAIN wire' : WholeOn(wire'[c])) /\ Tcp!ReturnedIsSent' BY <1>2, SameWire DEF Tcp!Log
  <2>2. CASE socket_ = None
    BY <1>2, <2>1, <2>2 DEF Tcp!Log, Tcp!StartConnect, Tcp!conn, SentInv
  <2>3. CASE socket_ # None
    <3>1. EndsWhole(wire[socket_]) /\ connection' = "sending" /\ message' = message + 1 /\ bytes_sent' = 0 /\ UNCHANGED <<socket_, wire>>
      BY <1>2, <2>3 DEF Tcp!Log, Tcp!conn, SentInv
    <3>2. 0 .. message' - 1 = 0 .. message BY <3>1
    <3>3. wire'[socket_'] = <<>> \/ \E m \in 0 .. message' - 1 : EndsAt(wire'[socket_'], m, Pieces)
      BY <3>1, <3>2 DEF EndsWhole
    <3> QED BY <2>1, <3>1, <3>3 DEF SentInv
  <2> QED BY <2>2, <2>3
<1>3. CASE Tcp!Unresolved \/ Tcp!GiveUp
  <2>1. (\A c \in DOMAIN wire' : WholeOn(wire'[c])) /\ Tcp!ReturnedIsSent'
    BY <1>3, SameWire DEF Tcp!Unresolved, Tcp!GiveUp, Tcp!sending
  <2>2. connection' \in {"idle", "dead"}
    BY <1>3 DEF Tcp!Unresolved, Tcp!GiveUp, Tcp!Throw
  <2>3. socket_' = socket_ /\ connection = "connecting" BY <1>3 DEF Tcp!Unresolved, Tcp!GiveUp
  <2>4. socket_ = None BY <1>3, <2>3 DEF Tcp!Unresolved, Tcp!GiveUp
  <2> QED BY <2>1, <2>2, <2>3, <2>4 DEF SentInv
<1>4. CASE Tcp!NoSocket
  BY <1>4, SameWire DEF Tcp!NoSocket, Tcp!NextAddress, Tcp!sending, Tcp!world, SentInv
<1>5. CASE Tcp!NewSocket
  <2>1. /\ DOMAIN wire' = 1 .. Len(wire) + 1 /\ DOMAIN wire = 1 .. Len(wire) /\ Len(wire) \in Nat
        /\ \A c \in 1 .. Len(wire) : wire'[c] = wire[c]
        /\ wire'[Len(wire) + 1] = <<>>
    BY <1>5 DEF Tcp!NewSocket
  <2>2. WholeOn(<<>>) BY DEF WholeOn
  <2>3. \A c \in DOMAIN wire' : WholeOn(wire'[c])
    <3> SUFFICES ASSUME NEW c \in DOMAIN wire' PROVE WholeOn(wire'[c]) OBVIOUS
    <3>1. c \in 1 .. Len(wire) \/ c = Len(wire) + 1 BY <2>1
    <3> QED BY <2>1, <2>2, <3>1 DEF SentInv
  <2>4. Tcp!ReturnedIsSent'
    <3>1. delivered' = delivered /\ \A c \in DOMAIN wire : c \in DOMAIN wire' BY <1>5, <2>1 DEF Tcp!NewSocket
    <3> QED BY <2>1, <3>1 DEF SentInv, Tcp!ReturnedIsSent
  <2> QED BY <1>5, <2>3, <2>4 DEF Tcp!NewSocket, SentInv
<1>6. CASE Tcp!Refused
  BY <1>6, SameWire DEF Tcp!Refused, Tcp!NextAddress, Tcp!sending, Tcp!world, SentInv
<1>7. CASE Tcp!Accepted
  <2>1. (\A c \in DOMAIN wire' : WholeOn(wire'[c])) /\ Tcp!ReturnedIsSent' BY <1>7, SameWire DEF Tcp!Accepted, Tcp!sending
  <2>2. wire[socket_] = <<>> /\ bytes_sent = 0 BY <1>7 DEF Tcp!Accepted, SentInv
  <2> QED BY <1>7, <2>1, <2>2 DEF Tcp!Accepted, Tcp!conn, Tcp!sending, Tcp!world, SentInv, EndsWhole
<1>8. ASSUME NEW n \in 1 .. Pieces, Tcp!SendSome(n) PROVE SentInv'
  <2> DEFINE w == wire[socket_]
  <2>1. /\ socket_ \in DOMAIN wire /\ w \in Seq(Nat \X Nat) /\ WholeOn(w) /\ bytes_sent <= Pieces
        /\ n \in 1 .. Pieces - bytes_sent
        /\ IF bytes_sent = 0 THEN w = <<>> \/ \E l \in 0 .. message - 1 : EndsAt(w, l, Pieces)
           ELSE EndsAt(w, message, bytes_sent)
    BY <1>8, SMTT(40) DEF Tcp!SendSome, SentInv
  <2> DEFINE r == w \o Tcp!Piece(n)
  <2>2. /\ WholeOn(r) /\ EndsAt(r, message, bytes_sent + n)
        /\ \A i \in DOMAIN w : i \in DOMAIN r /\ r[i] = w[i]
        /\ r \in Seq(Nat \X Nat)
    <3> DEFINE q == Tcp!Piece(n)
    <3>1. q \in Seq(Nat \X Nat) /\ Len(q) = n /\ \A i \in 1 .. n : q[i] = <<message, bytes_sent + i>>
      BY DEF Tcp!Piece
    <3> HIDE DEF w, q
    <3>2. w \in Seq(Nat \X Nat) /\ WholeOn(w) /\ message \in Nat /\ bytes_sent \in Nat /\ n \in Nat \ {0}
      BY <2>1
    <3>3. /\ bytes_sent = 0 => w = <<>> \/ \E l \in 0 .. message - 1 : EndsAt(w, l, Pieces)
          /\ bytes_sent # 0 => EndsAt(w, message, bytes_sent)
      BY <2>1
    <3> HIDE DEF w, q
    <3>4. r = w \o q BY DEF q
    <3> HIDE DEF r
    <3> DEFINE L == Len(w)
    <3>5. L \in Nat /\ L = Len(w) BY <3>2
    <3>6. /\ r \in Seq(Nat \X Nat) /\ Len(r) = Len(w) + Len(q)
          /\ \A i \in 1 .. Len(w) + Len(q) : r[i] = IF i <= Len(w) THEN w[i] ELSE q[i - Len(w)]
      BY <3>1, <3>2, <3>4, ConcatProperties, ZenonT(40)
    <3>7. Len(q) = n BY <3>1
    <3> HIDE DEF L
    <3>8. \A i \in 1 .. L : r[i] = w[i] BY <3>2, <3>5, <3>6, <3>7
    <3>9. ASSUME NEW i \in L + 1 .. L + n PROVE r[i] = <<message, bytes_sent + (i - L)>>
      <4>1. i \in 1 .. L + n /\ ~(i <= L) /\ i - L \in 1 .. n BY <3>2, <3>5
      <4>2. r[i] = q[i - L] BY <3>5, <3>6, <3>7, <4>1
      <4> QED BY <3>1, <4>1, <4>2
    <3>10. r \in Seq(Nat \X Nat) /\ Len(r) = L + n BY <3>5, <3>6, <3>7
    <3>11. Continued(w, message, bytes_sent, n, r)
      BY <3>2, <3>3, <3>5, <3>8, <3>9, <3>10 DEF Continued
    <3>12. WholeOn(r) /\ EndsAt(r, message, bytes_sent + n) /\ \A i \in DOMAIN w : i \in DOMAIN r /\ r[i] = w[i]
      BY <3>2, <3>11, SentOn
    <3> QED BY <3>10, <3>12
  <2> HIDE DEF r
  <2>3. /\ wire' = [wire EXCEPT ![socket_] = r] /\ bytes_sent' = bytes_sent + n /\ message' = message
        /\ socket_' = socket_ /\ connection = "sending"
    BY <1>8 DEF Tcp!SendSome, Tcp!conn, r
  <2>4. DOMAIN wire' = DOMAIN wire /\ wire'[socket_] = r /\ \A c \in DOMAIN wire \ {socket_} : wire'[c] = wire[c]
    BY <2>1, <2>3
  <2>5. \A c \in DOMAIN wire' : WholeOn(wire'[c]) BY <2>2, <2>4 DEF SentInv
  <2>6. \A m \in delivered : \E c \in DOMAIN wire' : \E i \in DOMAIN wire'[c] : wire'[c][i] = <<m, Pieces>>
    <3> SUFFICES ASSUME NEW m \in delivered
                 PROVE  \E c \in DOMAIN wire' : \E i \in DOMAIN wire'[c] : wire'[c][i] = <<m, Pieces>>
      OBVIOUS
    <3>1. PICK c \in DOMAIN wire : \E i \in DOMAIN wire[c] : wire[c][i] = <<m, Pieces>>
      BY DEF SentInv, Tcp!ReturnedIsSent
    <3>2. PICK i \in DOMAIN wire[c] : wire[c][i] = <<m, Pieces>> BY <3>1
    <3>3. i \in DOMAIN wire'[c] /\ wire'[c][i] = wire[c][i] BY <2>2, <2>4
    <3> QED BY <2>4, <3>2, <3>3
  <2>7. CASE Tcp!More
    <3>1. bytes_sent' # 0 /\ bytes_sent' < Pieces /\ connection' = "sending" /\ delivered' = delivered
      BY <1>8, <2>1, <2>3, <2>7 DEF Tcp!More, Tcp!SendSome
    <3>2. EndsAt(wire'[socket_'], message', bytes_sent') BY <2>2, <2>3, <2>4
    <3> QED BY <2>5, <2>6, <3>1, <3>2 DEF SentInv, Tcp!ReturnedIsSent
  <2>8. CASE ~Tcp!More
    <3>1. bytes_sent + n = Pieces /\ connection' = "idle" /\ delivered' = delivered \cup {message}
      <4>1. connection' = "idle" /\ delivered' = delivered \cup {message} /\ n <= Pieces - bytes_sent
        BY <1>8, <2>8 DEF Tcp!SendSome
      <4>2. ~(bytes_sent' < Pieces) BY <2>8 DEF Tcp!More
      <4>3. ~(bytes_sent + n < Pieces) BY <2>3, <4>2
      <4> QED BY <4>1, <4>3
    <3>2. EndsAt(wire'[socket_'], message', Pieces) BY <2>2, <2>3, <2>4, <3>1
    <3>3. EndsWhole(wire[socket_])'
      <4>1. message' \in 0 .. message' BY <2>3
      <4> QED BY <3>2, <4>1 DEF EndsWhole
    <3>4. Len(r) \in DOMAIN r /\ r[Len(r)] = <<message, Pieces>>
      BY <2>2, <3>1 DEF EndsAt
    <3>5. Tcp!ReturnedIsSent' BY <2>1, <2>4, <2>6, <3>1, <3>4 DEF Tcp!ReturnedIsSent
    <3> QED BY <2>5, <3>1, <3>3, <3>5 DEF SentInv
  <2> QED BY <2>7, <2>8
<1>9. CASE Tcp!SendFails
  BY <1>9, SameWire DEF Tcp!SendFails, Tcp!ClosedOnError, Tcp!sending, Tcp!world, SentInv
<1>10. CASE Tcp!Destroy
  BY <1>10, SameWire DEF Tcp!Destroy, Tcp!sending, Tcp!world, SentInv
<1>11. CASE UNCHANGED <<Tcp!conn, connection, Tcp!sending>>
  BY <1>11, SameWire DEF Tcp!conn, Tcp!sending, SentInv, EndsWhole
<1> QED BY <1>1, <1>2, <1>3, <1>4, <1>5, <1>6, <1>7, <1>8, <1>9, <1>10, <1>11 DEF Tcp!Next, Tcp!Change, Tcp!vars

LEMMA NextTried ==
  ASSUME TcpConstants, ConnectionInv, TriedInv, [Tcp!Next]_(Tcp!vars)
  PROVE  /\ TriedInv'
         /\ [Tcp!GiveUp \/ (Tcp!Unresolved /\ tcp_faults' = tcp_faults) => tcp_faults > 0 \/ reachable = {}]_(Tcp!vars)
<1> USE DEF TcpConstants, ConnectionInv
<1>1. ASSUME NEW lazy \in BOOLEAN, Tcp!Construct(lazy) PROVE TriedInv'
  BY <1>1 DEF Tcp!Construct, Tcp!StartConnect, Tcp!world, TriedInv
<1>2. ASSUME Tcp!Log PROVE TriedInv'
  BY <1>2 DEF Tcp!Log, Tcp!StartConnect, Tcp!world, TriedInv
<1>3. ASSUME Tcp!Unresolved \/ Tcp!GiveUp PROVE TriedInv'
  BY <1>3 DEF Tcp!Unresolved, Tcp!GiveUp, Tcp!Throw, Tcp!world, TriedInv
<1>4. ASSUME Tcp!NoSocket PROVE TriedInv'
  BY <1>4 DEF Tcp!NoSocket, Tcp!SocketsWork, Tcp!Fault, Tcp!world, TriedInv
<1>5. ASSUME Tcp!NewSocket PROVE TriedInv'
  BY <1>5 DEF Tcp!NewSocket, Tcp!world, TriedInv
<1>6. ASSUME Tcp!Refused PROVE TriedInv'
  <2>1. reachable \subseteq up /\ (tcp_faults = 0 => reachable \subseteq at .. Addresses) /\ at \notin up
    BY <1>6 DEF Tcp!Refused, TriedInv
  <2>2. tcp_faults = 0 => reachable \subseteq at + 1 .. Addresses BY <2>1
  <2> QED BY <1>6, <2>1, <2>2 DEF Tcp!Refused, Tcp!NextAddress, Tcp!world, TriedInv
<1>7. ASSUME Tcp!Accepted \/ Tcp!SendFails \/ Tcp!Destroy \/ \E n \in 1 .. Pieces : Tcp!SendSome(n) PROVE TriedInv'
  BY <1>7 DEF Tcp!Accepted, Tcp!SendFails, Tcp!Destroy, Tcp!SendSome, Tcp!world, TriedInv
<1>8. ASSUME NEW a \in 1 .. Addresses, Tcp!Change(a) PROVE TriedInv'
  BY <1>8 DEF Tcp!Change, TriedInv
<1>9. ASSUME UNCHANGED Tcp!vars PROVE TriedInv'
  BY <1>9 DEF Tcp!vars, Tcp!world, TriedInv
<1>10. TriedInv' BY <1>1, <1>2, <1>3, <1>4, <1>5, <1>6, <1>7, <1>8, <1>9 DEF Tcp!Next
<1>11. ASSUME Tcp!GiveUp \/ (Tcp!Unresolved /\ tcp_faults' = tcp_faults) PROVE tcp_faults > 0 \/ reachable = {}
  BY <1>11 DEF Tcp!GiveUp, Tcp!Unresolved, Tcp!SocketsWork, Tcp!Fault, TriedInv
<1> QED BY <1>10, <1>11

(* Refusals, errors and reconnections leave no socket behind, a connection *)
(* gets whole messages and those of the calls that returned, and connect   *)
(* gives up only after a failed call or when no address answers: for any   *)
(* host, messages of any length and any number of them.                    *)
THEOREM TcpDelivers ==
  ASSUME TcpConstants
  PROVE  Tcp!Spec => [](Tcp!NoSocketLeft /\ Tcp!WholeMessages /\ Tcp!ReturnedIsSent) /\ Tcp!GivesUpOnlyIfDown
<1>1. Tcp!Init => ConnectionInv /\ SentInv /\ TriedInv
  BY DEF Tcp!Init, TcpConstants, ConnectionInv, SentInv, TriedInv, Tcp!ReturnedIsSent
<1>2. ConnectionInv /\ SentInv /\ TriedInv /\ [Tcp!Next]_(Tcp!vars) =>
        ConnectionInv' /\ SentInv' /\ TriedInv'
        /\ [Tcp!GiveUp \/ (Tcp!Unresolved /\ tcp_faults' = tcp_faults) => tcp_faults > 0 \/ reachable = {}]_(Tcp!vars)
  BY NextConnection, NextSent, NextTried
<1>3. ConnectionInv /\ SentInv => Tcp!NoSocketLeft /\ Tcp!WholeMessages /\ Tcp!ReturnedIsSent
  BY DEF ConnectionInv, SentInv, Tcp!NoSocketLeft, Tcp!WholeMessages, WholeOn
<1> QED BY <1>1, <1>2, <1>3, PTL DEF Tcp!Spec, Tcp!GivesUpOnlyIfDown

-----------------------------------------------------------------------------
(* The UDP sinks.                                                          *)

(* A client has a socket between the calls that open and close it.         *)
ClientInv ==
  /\ client \in [Clients -> {"unborn", "made", "bound", "ready", "dead"}]
  /\ client_socket \in [Clients -> BOOLEAN]
  /\ client_fds = {c \in Clients : client[c] \in {"bound", "ready"}}
  /\ \A c \in Clients : client_socket[c] <=> client[c] \in {"bound", "ready"}
  /\ Udp!WinsockCounted

(* What the instance means by Cardinality is what the theorems are about.  *)
LEMMA ClientsCounted == \A S : Udp!Cardinality(S) = Cardinality(S)
BY DEF Udp!Cardinality, Cardinality

LEMMA LivingChanges ==
  ASSUME IsFiniteSet(Clients), ClientInv, NEW c \in Clients, NEW s \in {"made", "bound", "ready", "dead"},
         client' = [client EXCEPT ![c] = s],
         client_winsock' = IF client[c] = "unborn" THEN client_winsock + Udp!Started
                    ELSE IF s = "dead" THEN client_winsock - Udp!Started ELSE client_winsock,
         client[c] = "unborn" => s # "dead",
         client[c] # "dead"
  PROVE  Udp!WinsockCounted'
<1>1. IsFiniteSet(Udp!Living) /\ Cardinality(Udp!Living) \in Nat
  BY FS_Subset, FS_CardinalityType DEF Udp!Living
<1>2. Udp!Started \in {0, 1} BY DEF Udp!Started
<1>3. client_winsock = Cardinality(Udp!Living) * Udp!Started BY ClientsCounted DEF ClientInv, Udp!WinsockCounted
<1>4. Udp!Started' = Udp!Started BY DEF Udp!Started
<1>5. CASE client[c] = "unborn"
  <2>1. Udp!Living' = Udp!Living \cup {c} /\ c \notin Udp!Living BY <1>5 DEF Udp!Living, ClientInv
  <2>2. Cardinality(Udp!Living') = Cardinality(Udp!Living) + 1 BY <1>1, <2>1, FS_AddElement
  <2> QED BY ClientsCounted, <1>1, <1>2, <1>3, <1>4, <1>5, <2>2 DEF Udp!WinsockCounted
<1>6. CASE client[c] # "unborn" /\ s = "dead"
  <2>1. Udp!Living' = Udp!Living \ {c} /\ c \in Udp!Living BY <1>6 DEF Udp!Living, ClientInv
  <2>2. Cardinality(Udp!Living') = Cardinality(Udp!Living) - 1 BY <1>1, <2>1, FS_RemoveElement
  <2> QED BY ClientsCounted, <1>1, <1>2, <1>3, <1>4, <1>6, <2>2 DEF Udp!WinsockCounted
<1>7. CASE client[c] # "unborn" /\ s # "dead"
  <2>1. Udp!Living' = Udp!Living BY <1>7 DEF Udp!Living, ClientInv
  <2> QED BY ClientsCounted, <1>3, <1>4, <1>7, <2>1 DEF Udp!WinsockCounted
<1> QED BY <1>5, <1>6, <1>7

LEMMA NextClient ==
  ASSUME IsFiniteSet(Clients), ClientInv, [Udp!Next]_(Udp!vars)
  PROVE  ClientInv'
<1> USE DEF ClientInv
<1>1. ASSUME NEW c \in Clients, Udp!Begin(c) PROVE ClientInv'
  BY <1>1, LivingChanges DEF Udp!Begin
<1>2. ASSUME NEW c \in Clients, Udp!NoSocket(c) PROVE ClientInv'
  BY <1>2, LivingChanges DEF Udp!NoSocket, Udp!Undone
<1>3. ASSUME NEW c \in Clients, Udp!Open(c) PROVE ClientInv'
  BY <1>3, LivingChanges DEF Udp!Open
<1>4. ASSUME NEW c \in Clients, Udp!Unusable(c) \/ Udp!Destroy(c) PROVE ClientInv'
  BY <1>4, LivingChanges DEF Udp!Unusable, Udp!Destroy, Udp!CleanedUp, Udp!Undone
<1>5. ASSUME NEW c \in Clients, Udp!Ready(c) PROVE ClientInv'
  BY <1>5, LivingChanges DEF Udp!Ready
<1>6. CASE UNCHANGED <<client, client_socket, client_fds, client_winsock>>
  BY <1>6 DEF Udp!WinsockCounted, Udp!Living, Udp!Started
<1> QED BY <1>1, <1>2, <1>3, <1>4, <1>5, <1>6 DEF Udp!Next, Udp!Send, Udp!vars

(* A client that failed or ended has left nothing behind, and Winsock runs *)
(* once for each that lives: for any clients and any calls that fail.      *)
THEOREM ClientsLeaveNothing ==
  ASSUME IsFiniteSet(Clients)
  PROVE  Udp!Spec => [](Udp!NothingLeft /\ Udp!WinsockCounted)
<1>1. Udp!Init => ClientInv
  <2> SUFFICES ASSUME Udp!Init PROVE ClientInv OBVIOUS
  <2>1. Udp!Living = {} BY DEF Udp!Init, Udp!Living
  <2>2. Cardinality(Udp!Living) * Udp!Started = 0 BY <2>1, FS_EmptySet DEF Udp!Started
  <2> QED BY ClientsCounted, <2>2 DEF Udp!Init, ClientInv, Udp!WinsockCounted
<1>2. ClientInv /\ [Udp!Next]_(Udp!vars) => ClientInv' BY NextClient
<1>3. ClientInv => Udp!NothingLeft /\ Udp!WinsockCounted
  BY DEF ClientInv, Udp!NothingLeft, Udp!Living
<1> QED BY <1>1, <1>2, <1>3, PTL DEF Udp!Spec

-----------------------------------------------------------------------------
(* The sinks of the system's logs.                                         *)

SystemLogs == {"syslog", "journal", "android", "events"}

(* What a sink has given its log, one record for each call that returned.  *)
Recorded1(rec, ans) ==
  /\ \A i \in DOMAIN rec : rec[i][1] \in DOMAIN ans /\ ans[rec[i][1]] = "returned"
  /\ \A i, j \in DOMAIN rec : rec[i][1] = rec[j][1] => i = j
  /\ \A n \in DOMAIN ans : ans[n] = "returned" => \E i \in DOMAIN rec : rec[i][1] = n

SystemInv ==
  /\ severity \in [Kinds -> System!Levels \cup {None}]
  /\ record \in [Kinds -> Seq(Nat \X System!Levels \X Nat)]
  /\ answered \in [Kinds -> Seq({"returned", "thrown"})]
  /\ \A k \in Kinds : Recorded1(record[k], answered[k])
  /\ \A k \in Kinds : \A i \in DOMAIN record[k] : record[k][i][3] = System!Severity(k, record[k][i][2])
  /\ System!SourcesBalanced

LEMMA Severities ==
  ASSUME NEW k \in SystemLogs
  PROVE  /\ \A l \in System!Levels : System!Severity(k, l) \in Nat
         /\ \A l, m \in System!Levels : l <= m => System!Severity(k, l) <= System!Severity(k, m)
BY DEF System!Severity, System!Levels, SystemLogs

(* A call that ends, with a record if it returns.                          *)
LEMMA AnswerRecorded ==
  ASSUME NEW rec \in Seq(Nat \X System!Levels \X Nat), NEW ans \in Seq({"returned", "thrown"}), Recorded1(rec, ans),
         NEW l \in System!Levels, NEW s \in Nat
  PROVE  /\ Recorded1(Append(rec, <<Len(ans) + 1, l, s>>), Append(ans, "returned"))
         /\ Recorded1(rec, Append(ans, "thrown"))
<1> USE DEF Recorded1
<1> DEFINE r == Append(rec, <<Len(ans) + 1, l, s>>)
           a == Append(ans, "returned")
           b == Append(ans, "thrown")
<1>1. /\ Len(rec) \in Nat /\ DOMAIN rec = 1 .. Len(rec) /\ DOMAIN r = 1 .. Len(rec) + 1
      /\ \A i \in 1 .. Len(rec) : r[i] = rec[i]
      /\ r[Len(rec) + 1][1] = Len(ans) + 1
  OBVIOUS
<1>2. /\ Len(ans) \in Nat /\ DOMAIN ans = 1 .. Len(ans) /\ DOMAIN a = 1 .. Len(ans) + 1
      /\ \A n \in 1 .. Len(ans) : a[n] = ans[n]
      /\ a[Len(ans) + 1] = "returned"
  OBVIOUS
<1>3. /\ DOMAIN b = 1 .. Len(ans) + 1
      /\ \A n \in 1 .. Len(ans) : b[n] = ans[n]
      /\ b[Len(ans) + 1] = "thrown"
  OBVIOUS
<1> HIDE DEF r, a, b
<1>4. Recorded1(r, a)
  <2>1. ASSUME NEW i \in DOMAIN r PROVE r[i][1] \in DOMAIN a /\ a[r[i][1]] = "returned"
    <3>1. CASE i = Len(rec) + 1 BY <1>1, <1>2, <3>1
    <3>2. CASE i # Len(rec) + 1
      <4>1. i \in DOMAIN rec /\ r[i] = rec[i] BY <1>1, <2>1, <3>2
      <4>2. rec[i][1] \in 1 .. Len(ans) /\ ans[rec[i][1]] = "returned" BY <1>2, <4>1
      <4> QED BY <1>2, <4>1, <4>2
    <3> QED BY <3>1, <3>2
  <2>2. ASSUME NEW i \in DOMAIN r, NEW j \in DOMAIN r, r[i][1] = r[j][1] PROVE i = j
    <3>1. \A x \in DOMAIN rec : r[x][1] \in 1 .. Len(ans) BY <1>1, <1>2, SMTT(40)
    <3>2. \A x \in DOMAIN r : x \in DOMAIN rec \/ x = Len(rec) + 1
      <4>1. Len(rec) \in Nat /\ DOMAIN rec = 1 .. Len(rec) /\ DOMAIN r = 1 .. Len(rec) + 1 BY <1>1
      <4> HIDE DEF Recorded1
      <4> QED BY <4>1
    <3>3. Len(ans) + 1 \notin 1 .. Len(ans) BY <1>2
    <3>4. CASE i = Len(rec) + 1 \/ j = Len(rec) + 1 BY <1>1, <2>2, <3>1, <3>2, <3>3, <3>4, SMTT(40)
    <3>5. CASE i \in DOMAIN rec /\ j \in DOMAIN rec BY <1>1, <2>2, <3>5
    <3> QED BY <3>2, <3>4, <3>5
  <2>3. ASSUME NEW n \in DOMAIN a, a[n] = "returned" PROVE \E i \in DOMAIN r : r[i][1] = n
    <3>1. CASE n = Len(ans) + 1
      <4>1. Len(rec) + 1 \in DOMAIN r /\ r[Len(rec) + 1][1] = n BY <1>1, <3>1
      <4> QED BY <4>1
    <3>2. CASE n # Len(ans) + 1
      <4>1. n \in DOMAIN ans /\ ans[n] = "returned" BY <1>2, <2>3, <3>2
      <4>2. PICK i \in DOMAIN rec : rec[i][1] = n BY <4>1
      <4> QED BY <1>1, <4>2
    <3> QED BY <3>1, <3>2
  <2> QED BY <2>1, <2>2, <2>3
<1>5. Recorded1(rec, b)
  <2>1. \A i \in DOMAIN rec : rec[i][1] \in DOMAIN b /\ b[rec[i][1]] = "returned"
    <3>1. \A i \in DOMAIN rec : rec[i][1] \in 1 .. Len(ans) /\ ans[rec[i][1]] = "returned" BY <1>2
    <3> QED BY <1>2, <1>3, <3>1
  <2>2. \A n \in DOMAIN b : b[n] = "returned" => n \in DOMAIN ans /\ ans[n] = "returned"
    BY <1>2, <1>3
  <2> QED BY <2>1, <2>2
<1> QED BY <1>4, <1>5 DEF r, a, b

LEMMA EndedRecorded ==
  ASSUME Kinds \subseteq SystemLogs, SystemInv, NEW k \in Kinds, severity[k] # None, System!SourcesBalanced',
         \/ System!Recorded(k) /\ System!Ended(k, "returned")
         \/ UNCHANGED record /\ System!Ended(k, "thrown")
  PROVE  SystemInv'
<1> USE DEF SystemInv
<1> DEFINE r == Append(record[k], <<Len(answered[k]) + 1, severity[k], System!Severity(k, severity[k])>>)
<1>1. severity[k] \in System!Levels /\ System!Severity(k, severity[k]) \in Nat /\ Len(answered[k]) \in Nat BY Severities
<1>2. severity' \in [Kinds -> System!Levels \cup {None}] BY DEF System!Ended
<1>3. answered' \in [Kinds -> Seq({"returned", "thrown"})]
  <2>1. Append(answered[k], "returned") \in Seq({"returned", "thrown"})
        /\ Append(answered[k], "thrown") \in Seq({"returned", "thrown"})
    OBVIOUS
  <2> QED BY <2>1 DEF System!Ended
<1>4. Recorded1(r, Append(answered[k], "returned")) /\ Recorded1(record[k], Append(answered[k], "thrown"))
  BY <1>1, AnswerRecorded
<1>5. r \in Seq(Nat \X System!Levels \X Nat) BY <1>1
<1>6. \A i \in DOMAIN r : r[i][3] = System!Severity(k, r[i][2])
  <2>1. \A i \in DOMAIN r : \/ i \in DOMAIN record[k] /\ r[i] = record[k][i]
                            \/ r[i] = <<Len(answered[k]) + 1, severity[k], System!Severity(k, severity[k])>>
    <3>1. record[k] \in Seq(Nat \X System!Levels \X Nat) OBVIOUS
    <3> QED BY <3>1
  <2> QED BY <2>1
<1> HIDE DEF r
<1>7. CASE System!Recorded(k) /\ System!Ended(k, "returned")
  <2>1. record' = [record EXCEPT ![k] = r] BY <1>7 DEF System!Recorded, r
  <2> QED BY <1>2, <1>3, <1>4, <1>5, <1>6, <1>7, <2>1 DEF System!Ended
<1>8. CASE UNCHANGED record /\ System!Ended(k, "thrown")
  BY <1>2, <1>3, <1>4, <1>8 DEF System!Ended
<1> QED BY <1>7, <1>8

LEMMA NextSystem ==
  ASSUME Kinds = SystemLogs, SystemInv, [System!Next]_(System!vars)
  PROVE  SystemInv'
<1> USE DEF SystemInv
<1>1. CASE UNCHANGED <<record, answered>> /\ severity' \in [Kinds -> System!Levels \cup {None}] /\ System!SourcesBalanced'
  BY <1>1
<1>2. ASSUME NEW k \in Kinds, NEW l \in System!Levels, System!Log(k, l) PROVE SystemInv'
  BY <1>1, <1>2 DEF System!Log, System!SourcesBalanced
<1>3. ASSUME NEW k \in Kinds, System!Destroy(k) PROVE SystemInv'
  BY <1>1, <1>3 DEF System!Destroy, System!SourcesBalanced
<1>4. CASE System!Syslog
  BY <1>4, EndedRecorded DEF System!Syslog, SystemLogs, System!SourcesBalanced
<1>5. CASE System!Journal
  BY <1>5, EndedRecorded DEF System!Journal, SystemLogs, System!SourcesBalanced
<1>6. CASE System!Android
  <2>1. CASE UNCHANGED <<record, answered, severity>>
    BY <1>1, <1>6, <2>1 DEF System!Android, System!SourcesBalanced
  <2>2. CASE System!Recorded("android") /\ System!Ended("android", "returned")
    BY <1>6, <2>2, EndedRecorded DEF System!Android, SystemLogs, System!SourcesBalanced
  <2>3. CASE UNCHANGED record /\ \E ret \in {"busy", "error"} : System!Ended("android", IF System!Failed(ret) THEN "thrown" ELSE "returned")
    <3>1. System!Ended("android", "thrown") BY <2>3 DEF System!Failed
    <3> QED BY <1>6, <2>3, <3>1, EndedRecorded DEF System!Android, SystemLogs, System!SourcesBalanced
  <2> QED BY <1>6, <2>1, <2>2, <2>3 DEF System!Android
<1>7. CASE System!Register
  <2>1. CASE UNCHANGED severity
    BY <1>1, <1>7, <2>1 DEF System!Register, System!Registered, System!SourcesBalanced, System!Ended
  <2>2. CASE System!Ended("events", "thrown") /\ UNCHANGED <<handle, sources>>
    BY <1>7, <2>2, EndedRecorded DEF System!Register, SystemLogs, System!SourcesBalanced
  <2> QED BY <1>7, <2>1, <2>2 DEF System!Register
<1>8. CASE System!Report
  BY <1>8, EndedRecorded DEF System!Report, SystemLogs, System!SourcesBalanced
<1>9. CASE UNCHANGED System!vars
  BY <1>1, <1>9 DEF System!vars, System!SourcesBalanced
<1> QED BY <1>2, <1>3, <1>4, <1>5, <1>6, <1>7, <1>8, <1>9 DEF System!Next

LEMMA RecordsCounted == \A S : System!Cardinality(S) = Cardinality(S)
BY DEF System!Cardinality, Cardinality

LEMMA SystemAsPromised ==
  ASSUME Kinds \subseteq SystemLogs, SystemInv
  PROVE  System!ReturnedIsRecorded /\ System!SeverityFollowsLevel /\ System!SourcesBalanced
<1> USE DEF SystemInv
<1>1. System!ReturnedIsRecorded
  <2> SUFFICES ASSUME NEW k \in Kinds, NEW n \in DOMAIN answered[k]
               PROVE  Cardinality({i \in DOMAIN record[k] : record[k][i][1] = n})
                        = IF answered[k][n] = "returned" THEN 1 ELSE 0
    BY RecordsCounted DEF System!ReturnedIsRecorded
  <2> DEFINE S == {i \in DOMAIN record[k] : record[k][i][1] = n}
  <2>1. CASE answered[k][n] = "returned"
    <3>1. PICK i \in DOMAIN record[k] : record[k][i][1] = n BY <2>1 DEF Recorded1
    <3>2. \A j \in DOMAIN record[k] : record[k][j][1] = n => j = i BY <3>1 DEF Recorded1
    <3>3. S = {i} BY <3>1, <3>2
    <3>4. Cardinality(S) = 1 BY <3>3, FS_Singleton
    <3> QED BY <2>1, <3>4
  <2>2. CASE answered[k][n] # "returned"
    <3>1. S = {} BY <2>2 DEF Recorded1
    <3>2. Cardinality(S) = 0 BY <3>1, FS_EmptySet
    <3> QED BY <2>2, <3>2
  <2> QED BY <2>1, <2>2
<1>2. System!SeverityFollowsLevel
  <2> SUFFICES ASSUME NEW k \in Kinds, NEW i \in DOMAIN record[k], NEW j \in DOMAIN record[k],
                      record[k][i][2] <= record[k][j][2]
               PROVE  record[k][i][3] <= record[k][j][3]
    BY DEF System!SeverityFollowsLevel
  <2>1. record[k][i][2] \in System!Levels /\ record[k][j][2] \in System!Levels
    <3>1. record[k] \in Seq(Nat \X System!Levels \X Nat) OBVIOUS
    <3>2. record[k][i] \in Nat \X System!Levels \X Nat /\ record[k][j] \in Nat \X System!Levels \X Nat BY <3>1
    <3> QED BY <3>2
  <2> QED BY <2>1, Severities
<1> QED BY <1>1, <1>2

(* Each of the four sinks records a message once if its call returns, and  *)
(* not at all if it throws, with a severity that follows the level, and    *)
(* the event source is registered once: for any number of retries.         *)
THEOREM SystemLogsAsReturned ==
  ASSUME Kinds = SystemLogs
  PROVE  System!Spec => [](System!ReturnedIsRecorded /\ System!SeverityFollowsLevel /\ System!SourcesBalanced)
<1>1. System!Init => SystemInv
  BY DEF System!Init, SystemInv, Recorded1, System!SourcesBalanced
<1>2. SystemInv /\ [System!Next]_(System!vars) => SystemInv' BY NextSystem
<1>3. SystemInv => System!ReturnedIsRecorded /\ System!SeverityFollowsLevel /\ System!SourcesBalanced
  BY SystemAsPromised
<1> QED BY <1>1, <1>2, <1>3, PTL DEF System!Spec

-----------------------------------------------------------------------------
(* The console sinks.                                                      *)

(* Colours are no characters.                                              *)
Chars == Threads \X Streams \X Nat
Bytes == Chars \cup Terminal!Codes

ConsoleConstants ==
  /\ None \notin Threads
  /\ Terminal!Codes \cap Chars = {}
  /\ Order \in Seq(Streams)

ConsoleTypes ==
  /\ colors_ \in [Streams -> Colours]
  /\ color_range \in [Threads -> Nat \X Nat] /\ length \in [Threads -> Nat]
  /\ printing \in [Threads -> Seq(Streams)] /\ ops \in [Threads -> Seq(Bytes)]
  /\ file \in [Streams -> Seq(Bytes)]
  /\ mutex_ \in Threads \cup {None}
  /\ pen \in Terminal!Codes /\ screen \in Seq(Threads \X Streams \X Nat \X Terminal!Codes)

(* Only who holds the mutex prints, and only into the file of its sink.    *)
OnePrints ==
  /\ \A t \in Threads : mutex_ # t => ops[t] = <<>>
  /\ \A t \in Threads : mutex_ = t => printing[t] # <<>>
  /\ \A s \in Streams : file[s] # <<>> =>
       /\ s \in Buffered /\ part # "windows"
       /\ \E t \in Threads : mutex_ = t /\ Head(printing[t]) = s
  /\ mutex_ = None => pen = Terminal!Original

(* The last character shown.                                               *)
LastIs(t, s, i) ==
  LET c == screen[Len(screen)] IN screen # <<>> /\ c[1] = t /\ c[2] = s /\ c[3] = i

(* What of a line is still to be shown, the colour and the character that  *)
(* came before it.                                                         *)
Coming(t, s, r) ==
  \/ r = <<>> /\ pen = Terminal!Original
  \/ r = <<<<t, s, 1>>>> /\ pen = Terminal!Original
  \/ r = <<<<t, s, 1>>, <<t, s, 2>>, <<t, s, 3>>>> /\ pen = Terminal!Original
  \/ r = <<<<t, s, 2>>, <<t, s, 3>>>> /\ pen = Terminal!Original /\ LastIs(t, s, 1)
  \/ r = <<<<t, s, 3>>>> /\ pen = Terminal!Original /\ LastIs(t, s, 2)
  \/ \E c \in Terminal!Codes : r = <<<<t, s, 1>>, c, <<t, s, 2>>, Terminal!Original, <<t, s, 3>>>>
       /\ pen = Terminal!Original
  \/ \E c \in Terminal!Codes : r = <<c, <<t, s, 2>>, Terminal!Original, <<t, s, 3>>>> /\ pen = Terminal!Original
       /\ LastIs(t, s, 1)
  \/ r = <<<<t, s, 2>>, Terminal!Original, <<t, s, 3>>>> /\ LastIs(t, s, 1)
  \/ r = <<Terminal!Original, <<t, s, 3>>>> /\ LastIs(t, s, 2)

Rest(t) == file[Head(printing[t])] \o ops[t]

LineComing == \A t \in Threads : mutex_ = t => Coming(t, Head(printing[t]), Rest(t))

OnlyRange == \A i \in DOMAIN screen : screen[i][4] # Terminal!Original => screen[i][3] = 2

ConsoleInv == ConsoleTypes /\ OnePrints /\ LineComing /\ Terminal!LinesWhole /\ OnlyRange /\ Terminal!RangeInText

LEMMA IsCode ==
  ASSUME ConsoleConstants
  PROVE  /\ Terminal!Original \in Terminal!Codes
         /\ \A t \in Threads, s \in Streams, i \in Nat : <<t, s, i>> \in Bytes /\ <<t, s, i>> \notin Terminal!Codes
         /\ \A b \in Bytes : b \in Terminal!Codes \/ \E t \in Threads, s \in Streams, i \in Nat : b = <<t, s, i>>
BY DEF ConsoleConstants, Terminal!Codes, Terminal!Original, Bytes, Chars

(* Showing the next byte of a line.                                        *)
LEMMA ShowsNext ==
  ASSUME ConsoleConstants, NEW t \in Threads, NEW s \in Streams, NEW r \in Seq(Bytes), r # <<>>,
         pen \in Terminal!Codes, screen \in Seq(Threads \X Streams \X Nat \X Terminal!Codes),
           UNCHANGED (part = "windows"),
         Coming(t, s, r), Terminal!Shown(Head(r)), Terminal!LinesWhole, OnlyRange
  PROVE  /\ pen' \in Terminal!Codes /\ screen' \in Seq(Threads \X Streams \X Nat \X Terminal!Codes)
         /\ Coming(t, s, Tail(r))' /\ Terminal!LinesWhole' /\ OnlyRange'
<1>1. UNCHANGED Terminal!Original BY DEF Terminal!Original
<1> DEFINE C(i) == <<t, s, i>>
<1>2. /\ Terminal!Original \in Terminal!Codes
      /\ \A i \in {1, 2, 3} : C(i) \notin Terminal!Codes /\ C(i)[1] = t /\ C(i)[2] = s /\ C(i)[3] = i
  BY IsCode
<1>3. ASSUME NEW i \in {1, 2, 3}, Head(r) = C(i), i > 1 => LastIs(t, s, i - 1), pen # Terminal!Original => i = 2
      PROVE  /\ UNCHANGED pen /\ screen' \in Seq(Threads \X Streams \X Nat \X Terminal!Codes)
             /\ LastIs(t, s, i)' /\ Terminal!LinesWhole' /\ OnlyRange'
  <2> DEFINE c == <<t, s, i, pen>>
  <2>1. screen' = Append(screen, c) /\ UNCHANGED pen BY <1>2, <1>3 DEF Terminal!Shown
  <2>2. c \in Threads \X Streams \X Nat \X Terminal!Codes /\ c[1] = t /\ c[2] = s /\ c[3] = i /\ c[4] = pen OBVIOUS
  <2> HIDE DEF c
  <2>3. /\ screen' \in Seq(Threads \X Streams \X Nat \X Terminal!Codes) /\ screen' # <<>>
        /\ Len(screen) \in Nat /\ Len(screen') = Len(screen) + 1 /\ screen'[Len(screen) + 1] = c
        /\ \A j \in 1 .. Len(screen) : screen'[j] = screen[j]
        /\ DOMAIN screen = 1 .. Len(screen) /\ DOMAIN screen' = 1 .. Len(screen) + 1
    BY <2>1, <2>2
  <2>4. LastIs(t, s, i)' BY <2>2, <2>3 DEF LastIs
  <2>5. OnlyRange'
    <3> SUFFICES ASSUME NEW j \in 1 .. Len(screen) + 1, screen'[j][4] # Terminal!Original PROVE screen'[j][3] = 2
      BY <1>1, <2>3 DEF OnlyRange
    <3>1. CASE j \in 1 .. Len(screen) BY <2>3, <3>1 DEF OnlyRange
    <3>2. CASE j = Len(screen) + 1 BY <1>3, <2>2, <2>3, <3>2
    <3> QED BY <2>3, <3>1, <3>2
  <2>6. Terminal!LinesWhole'
    <3> SUFFICES ASSUME NEW j \in 2 .. Len(screen) + 1, screen'[j][3] > 1
                 PROVE  <<screen'[j - 1][1], screen'[j - 1][2], screen'[j - 1][3]>>
                          = <<screen'[j][1], screen'[j][2], screen'[j][3] - 1>>
      BY <2>3 DEF Terminal!LinesWhole
    <3>1. CASE j \in 2 .. Len(screen)
      <4>1. j - 1 \in 1 .. Len(screen) /\ j \in 1 .. Len(screen) BY <2>3, <3>1
      <4> QED BY <2>3, <3>1, <4>1 DEF Terminal!LinesWhole
    <3>2. CASE j = Len(screen) + 1
      <4>1. i > 1 /\ LastIs(t, s, i - 1) BY <1>3, <2>2, <2>3, <3>2
      <4>2. j - 1 = Len(screen) /\ Len(screen) \in 1 .. Len(screen) BY <2>3, <3>2
      <4> QED BY <2>2, <2>3, <3>2, <4>1, <4>2 DEF LastIs
    <3> QED BY <2>3, <3>1, <3>2
  <2> QED BY <2>1, <2>3, <2>4, <2>5, <2>6
<1>4. ASSUME Head(r) \in Terminal!Codes
      PROVE  pen' = Head(r) /\ UNCHANGED screen /\ Terminal!LinesWhole' /\ OnlyRange' /\ \A i : LastIs(t, s, i)
               => LastIs(t, s, i)'
  <2>1. pen' = Head(r) /\ UNCHANGED screen BY <1>4 DEF Terminal!Shown
  <2> QED BY <1>1, <2>1 DEF Terminal!LinesWhole, OnlyRange, LastIs
<1> HIDE DEF C
<1>5. CASE r = <<C(1)>> /\ pen = Terminal!Original
  <2>1. Head(r) = C(1) /\ Tail(r) = <<>> BY <1>5
  <2> QED BY <1>1, <1>2, <1>3, <1>5, <2>1 DEF Coming
<1>6. CASE r = <<C(1), C(2), C(3)>> /\ pen = Terminal!Original
  <2>1. Head(r) = C(1) /\ Tail(r) = <<C(2), C(3)>> BY <1>6
  <2> QED BY <1>1, <1>2, <1>3, <1>6, <2>1 DEF Coming, C
<1>7. CASE r = <<C(2), C(3)>> /\ pen = Terminal!Original /\ LastIs(t, s, 1)
  <2>1. Head(r) = C(2) /\ Tail(r) = <<C(3)>> BY <1>7
  <2> QED BY <1>1, <1>2, <1>3, <1>7, <2>1 DEF Coming, C
<1>8. CASE r = <<C(3)>> /\ pen = Terminal!Original /\ LastIs(t, s, 2)
  <2>1. Head(r) = C(3) /\ Tail(r) = <<>> BY <1>8
  <2> QED BY <1>1, <1>2, <1>3, <1>8, <2>1 DEF Coming
<1>9. CASE \E c \in Terminal!Codes : r = <<C(1), c, C(2), Terminal!Original, C(3)>> /\ pen = Terminal!Original
  <2>1. PICK c \in Terminal!Codes : r = <<C(1), c, C(2), Terminal!Original, C(3)>> BY <1>9
  <2>2. Head(r) = C(1) /\ Tail(r) = <<c, C(2), Terminal!Original, C(3)>> BY <2>1
  <2> QED BY <1>1, <1>2, <1>3, <1>9, <2>2 DEF Coming, C
<1>10. CASE \E c \in Terminal!Codes : r = <<c, C(2), Terminal!Original, C(3)>> /\ pen = Terminal!Original
              /\ LastIs(t, s, 1)
  <2>1. PICK c \in Terminal!Codes : r = <<c, C(2), Terminal!Original, C(3)>> BY <1>10
  <2>2. Head(r) = c /\ Tail(r) = <<C(2), Terminal!Original, C(3)>> BY <2>1
  <2> QED BY <1>1, <1>4, <1>10, <2>2 DEF Coming, C
<1>11. CASE r = <<C(2), Terminal!Original, C(3)>> /\ LastIs(t, s, 1)
  <2>1. Head(r) = C(2) /\ Tail(r) = <<Terminal!Original, C(3)>> BY <1>11
  <2> QED BY <1>1, <1>2, <1>3, <1>11, <2>1 DEF Coming, C
<1>12. CASE r = <<Terminal!Original, C(3)>> /\ LastIs(t, s, 2)
  <2>1. Head(r) = Terminal!Original /\ Tail(r) = <<C(3)>> BY <1>12
  <2> QED BY <1>1, <1>2, <1>4, <1>12, <2>1 DEF Coming, C
<1> QED BY <1>5, <1>6, <1>7, <1>8, <1>9, <1>10, <1>11, <1>12 DEF Coming, C

LEMMA OneMore ==
  ASSUME NEW S, NEW q \in Seq(S), NEW c \in S, NEW r, r = q \o <<c>>
  PROVE  /\ r \in Seq(S) /\ Len(r) = Len(q) + 1 /\ r[Len(q) + 1] = c
         /\ \A i \in 1 .. Len(q) : r[i] = q[i]
OBVIOUS

LEMMA Joined ==
  ASSUME NEW S, NEW a \in S, NEW b \in S, NEW c \in S, NEW d \in S, NEW e \in S
  PROVE  <<a>> \o <<b>> \o <<c>> \o <<d>> \o <<e>> = <<a, b, c, d, e>>
<1> DEFINE x == <<a>> \o <<b>>
           y == x \o <<c>>
           z == y \o <<d>>
           v == z \o <<e>>
           w == <<a, b, c, d, e>>
<1>1. x \in Seq(S) /\ Len(x) = 2 /\ x[1] = a /\ x[2] = b OBVIOUS
<1> HIDE DEF x
<1>2. y \in Seq(S) /\ Len(y) = Len(x) + 1 /\ y[Len(x) + 1] = c /\ \A i \in 1 .. Len(x) : y[i] = x[i]
  <2>1. x \in Seq(S) BY <1>1
  <2> QED BY <2>1, OneMore
<1>3. z \in Seq(S) /\ Len(z) = Len(y) + 1 /\ z[Len(y) + 1] = d /\ \A i \in 1 .. Len(y) : z[i] = y[i]
  <2> HIDE DEF y
  <2> QED BY <1>2, OneMore
<1>4. v \in Seq(S) /\ Len(v) = Len(z) + 1 /\ v[Len(z) + 1] = e /\ \A i \in 1 .. Len(z) : v[i] = z[i]
  <2> HIDE DEF z
  <2> QED BY <1>3, OneMore
<1>5. w \in Seq(S) /\ Len(w) = 5 /\ w[1] = a /\ w[2] = b /\ w[3] = c /\ w[4] = d /\ w[5] = e OBVIOUS
<1>6. v = w
  <2> HIDE DEF v, w, z, y
  <2>1. Len(y) = 3 /\ y[1] = a /\ y[2] = b /\ y[3] = c BY <1>1, <1>2
  <2>2. Len(z) = 4 /\ z[1] = a /\ z[2] = b /\ z[3] = c /\ z[4] = d BY <1>3, <2>1
  <2>3. Len(v) = 5 /\ v[1] = a /\ v[2] = b /\ v[3] = c /\ v[4] = d /\ v[5] = e BY <1>4, <2>2
  <2>4. \A i \in 1 .. 5 : v[i] = w[i] BY <1>5, <2>3
  <2> QED BY <1>4, <1>5, <2>3, <2>4, SeqEqual
<1> QED BY <1>6 DEF x

LEMMA JoinedBytes ==
  \A a, b, c, d, e \in Bytes : <<a>> \o <<b>> \o <<c>> \o <<d>> \o <<e>> = <<a, b, c, d, e>>
BY Joined, ZenonT(40)

(* What a sink has still to print when a call enters it.                   *)
LEMMA LineEntered ==
  ASSUME ConsoleConstants, ConsoleTypes, NEW t \in Threads, Terminal!Enter(t), pen = Terminal!Original
  PROVE  LET s == Head(printing[t]) IN
         /\ ops' \in [Threads -> Seq(Bytes)] /\ \A u \in Threads : u # t => ops'[u] = ops[u]
         /\ Coming(t, s, ops'[t])
<1> DEFINE s == Head(printing[t])
           n == IF range[s] THEN 3 ELSE 1
           r == IF range[s] THEN <<1, 2>> ELSE Terminal!StartRange(t)
           C(i) == <<t, s, i>>
<1>1. s \in Streams BY DEF Terminal!Enter, ConsoleTypes
<1>2. \A i \in Nat : C(i) \in Bytes BY <1>1, IsCode
<1>3. colors_[s] \in Terminal!Codes /\ Terminal!Restore = Terminal!Original /\ Terminal!Original \in Terminal!Codes
        /\ Terminal!Codes \subseteq Bytes
  BY <1>1 DEF ConsoleTypes, Terminal!Codes, Terminal!Restore, Terminal!Original, Bytes
<1>4. /\ Terminal!Text(t, s, 0, 1) = <<C(1)>> /\ Terminal!Text(t, s, 1, 2) = <<C(2)>>
           /\ Terminal!Text(t, s, 2, 3) = <<C(3)>>
      /\ Terminal!Text(t, s, 0, 3) = <<C(1), C(2), C(3)>>
  BY DEF Terminal!Text
<1> DEFINE line == IF should_do_colors_[s] /\ r[2] > r[1] THEN Terminal!Coloured(t, s, r, n)
             ELSE Terminal!Text(t, s, 0, n)
<1>5. line \in {<<C(1)>>, <<C(1), C(2), C(3)>>, <<C(1), colors_[s], C(2), Terminal!Original, C(3)>>}
  <2>1. CASE ~range[s] BY <1>4, <2>1 DEF Terminal!StartRange
  <2>2. CASE range[s] /\ ~should_do_colors_[s] BY <1>4, <2>2
  <2>3. CASE range[s] /\ should_do_colors_[s]
    <3>1. r = <<1, 2>> /\ n = 3 BY <2>3
    <3>2. line = Terminal!Coloured(t, s, r, n) BY <2>3, <3>1
    <3> HIDE DEF line, r, n
    <3>3. r[1] = 1 /\ r[2] = 2 BY <3>1
    <3>4. line = <<C(1)>> \o <<colors_[s]>> \o <<C(2)>> \o <<Terminal!Original>> \o <<C(3)>>
      BY <1>3, <1>4, <3>1, <3>2, <3>3 DEF Terminal!Coloured
    <3> HIDE DEF C, s
    <3>5. C(1) \in Bytes /\ C(2) \in Bytes /\ C(3) \in Bytes /\ colors_[s] \in Bytes /\ Terminal!Original \in Bytes
      BY <1>2, <1>3
    <3> DEFINE Parts(a, b, c, d, e) == <<a>> \o <<b>> \o <<c>> \o <<d>> \o <<e>>
               Whole(a, b, c, d, e) == <<a, b, c, d, e>>
    <3>6. \A a, b, c, d, e \in Bytes : Parts(a, b, c, d, e) = Whole(a, b, c, d, e)
      BY JoinedBytes, ZenonT(40)
    <3>7. line = Whole(C(1), colors_[s], C(2), Terminal!Original, C(3))
      <4>1. line = Parts(C(1), colors_[s], C(2), Terminal!Original, C(3)) BY <3>4
      <4> HIDE DEF Parts, Whole
      <4> QED BY <3>5, <3>6, <4>1
    <3> QED BY <3>7
  <2> QED BY <2>1, <2>2, <2>3
<1>6. ops' = [ops EXCEPT ![t] = line] BY DEF Terminal!Enter
<1> HIDE DEF line
<1>7. line \in Seq(Bytes) /\ Coming(t, s, line)
  <2>1. line \in Seq(Bytes)
    <3> HIDE DEF C, s
    <3>1. C(1) \in Bytes /\ C(2) \in Bytes /\ C(3) \in Bytes /\ colors_[s] \in Bytes /\ Terminal!Original \in Bytes
      BY <1>2, <1>3
    <3>2. /\ <<C(1), colors_[s], C(2), Terminal!Original, C(3)>> \in Seq(Bytes)
          /\ <<C(1), C(2), C(3)>> \in Seq(Bytes) /\ <<C(1)>> \in Seq(Bytes)
      BY <3>1
    <3> QED BY <1>5, <3>2
  <2> QED BY <1>3, <1>5, <2>1 DEF Coming
<1> QED BY <1>6, <1>7 DEF ConsoleTypes

LEMMA ConsoleBegins ==
  ASSUME ConsoleConstants, Terminal!Init
  PROVE  ConsoleInv
<1> USE DEF Terminal!Init, ConsoleConstants
<1>1. ConsoleTypes BY DEF ConsoleTypes, Terminal!Codes, Terminal!Original
<1>2. OnePrints /\ LineComing BY DEF OnePrints, LineComing
<1>3. Terminal!LinesWhole /\ OnlyRange /\ Terminal!RangeInText
  BY DEF Terminal!LinesWhole, OnlyRange, Terminal!RangeInText
<1> QED BY <1>1, <1>2, <1>3 DEF ConsoleInv

LEMMA HeadAndTail ==
  ASSUME NEW S, NEW q \in Seq(S), q # <<>>
  PROVE  q = <<Head(q)>> \o Tail(q) /\ Head(q) \in S /\ Tail(q) \in Seq(S)
<1>1. Len(q) \in Nat \ {0} BY EmptySeq
<1>2. SubSeq(q, 1, Len(q)) = <<q[1]>> \o SubSeq(q, 2, Len(q)) BY <1>1, SubSeqRecursiveFirst
<1>3. SubSeq(q, 1, Len(q)) = q /\ Tail(q) = SubSeq(q, 2, Len(q)) BY SubSeqFull, TailIsSubSeq
<1>4. Head(q) = q[1] /\ Head(q) \in S /\ Tail(q) \in Seq(S) BY HeadTailProperties
<1> QED BY <1>2, <1>3, <1>4

LEMMA Moved ==
  ASSUME NEW S, NEW f \in Seq(S), NEW o \in Seq(S), o # <<>>
  PROVE  Append(f, Head(o)) \o Tail(o) = f \o o
<1>1. o = <<Head(o)>> \o Tail(o) /\ Head(o) \in S /\ Tail(o) \in Seq(S) BY HeadAndTail
<1>2. Append(f, Head(o)) = f \o <<Head(o)>> BY <1>1, AppendIsConcat
<1>3. <<Head(o)>> \in Seq(S) BY <1>1
<1>4. (f \o <<Head(o)>>) \o Tail(o) = f \o (<<Head(o)>> \o Tail(o)) BY <1>1, <1>3, ConcatAssociative
<1> QED BY <1>1, <1>2, <1>4

LEMMA HeadOfRest ==
  ASSUME NEW S, NEW f \in Seq(S), NEW o \in Seq(S), f # <<>>
  PROVE  f \o o # <<>> /\ f \o o \in Seq(S) /\ Head(f \o o) = Head(f) /\ Tail(f \o o) = Tail(f) \o o
<1> DEFINE y == f \o o
           x == Tail(f) \o o
<1>1. f = <<Head(f)>> \o Tail(f) /\ Head(f) \in S /\ Tail(f) \in Seq(S) BY HeadAndTail
<1>2. <<Head(f)>> \in Seq(S) BY <1>1
<1>3. y = <<Head(f)>> \o x BY <1>1, <1>2, ConcatAssociative
<1>4. x \in Seq(S) /\ y \in Seq(S) BY <1>1, ConcatProperties
<1>5. y # <<>> BY ConcatSimplifications
<1>6. Len(<<Head(f)>>) = 1 /\ <<Head(f)>>[1] = Head(f) OBVIOUS
<1> HIDE DEF x, y
<1>7. y[1] = Head(f)
  <2>1. /\ Len(x) \in Nat /\ 1 \in 1 .. 1 + Len(x) BY <1>4, LenProperties
  <2>2. \A i \in 1 .. 1 + Len(x) : y[i] = IF i <= 1 THEN <<Head(f)>>[i] ELSE x[i - 1]
    BY <1>2, <1>3, <1>4, <1>6, ConcatProperties
  <2> QED BY <1>6, <2>1, <2>2
<1>8. Head(y) = y[1] BY <1>4, <1>5
<1>9. y = <<Head(y)>> \o Tail(y) /\ Tail(y) \in Seq(S) BY <1>4, <1>5, HeadAndTail
<1>10. <<Head(f)>> \o Tail(y) = <<Head(f)>> \o x BY <1>3, <1>7, <1>8, <1>9
<1>11. Tail(y) = x BY <1>2, <1>4, <1>9, <1>10, ConcatSimplifications
<1> QED BY <1>4, <1>5, <1>7, <1>8, <1>11 DEF x, y

(* One byte reaches the terminal, from the buffer or straight.             *)
LEMMA StepShows ==
  ASSUME ConsoleConstants, ConsoleInv, NEW t \in Threads, mutex_ = t, Rest(t) # <<>>, Terminal!Shown(Head(Rest(t))),
         UNCHANGED <<(part = "windows"), colors_, mutex_, printing, Terminal!message>>,
         ops' \in [Threads -> Seq(Bytes)], file' \in [Streams -> Seq(Bytes)],
         Rest(t)' = Tail(Rest(t)),
         \A u \in Threads : u # t => ops'[u] = <<>>,
         \A s \in Streams : file'[s] # <<>> => file[s] # <<>>
  PROVE  ConsoleInv'
<1>1. PICK s, r : s = Head(printing[t]) /\ r = Rest(t) OBVIOUS
<1>2. printing[t] # <<>> /\ s \in Streams BY <1>1 DEF ConsoleInv, OnePrints, ConsoleTypes
<1>3. r \in Seq(Bytes)
  <2>1. file[s] \in Seq(Bytes) /\ ops[t] \in Seq(Bytes) BY <1>2 DEF ConsoleInv, ConsoleTypes
  <2> QED BY <1>1, <2>1, ConcatProperties DEF Rest
<1>4. /\ pen' \in Terminal!Codes /\ screen' \in Seq(Threads \X Streams \X Nat \X Terminal!Codes)
      /\ Coming(t, s, Tail(r))' /\ Terminal!LinesWhole' /\ OnlyRange'
  <2>1. pen \in Terminal!Codes /\ screen \in Seq(Threads \X Streams \X Nat \X Terminal!Codes) /\ Terminal!LinesWhole
          /\ OnlyRange
    BY DEF ConsoleInv, ConsoleTypes
  <2>2. Coming(t, s, r) /\ r # <<>> /\ Terminal!Shown(Head(r)) BY <1>1 DEF ConsoleInv, LineComing
  <2> QED BY <1>2, <1>3, <2>1, <2>2, ShowsNext
<1>5. ConsoleTypes' BY <1>4 DEF ConsoleInv, ConsoleTypes, Terminal!message
<1>6. OnePrints' BY DEF ConsoleInv, OnePrints, ConsoleConstants
<1>7. LineComing'
  <2>1. Head(printing[t])' = s /\ Rest(t)' = Tail(r) BY <1>1
  <2>2. Coming(t, Head(printing[t]), Rest(t))' BY <1>4, <2>1
  <2> QED BY <2>2 DEF LineComing, ConsoleInv
<1>8. Terminal!RangeInText' BY DEF ConsoleInv, Terminal!RangeInText, Terminal!message
<1> QED BY <1>4, <1>5, <1>6, <1>7, <1>8 DEF ConsoleInv

LEMMA LineStays ==
  ASSUME NEW t \in Threads, Coming(t, Head(printing[t]), Rest(t)), UNCHANGED <<(part = "windows"), pen, screen>>,
         Head(printing[t])' = Head(printing[t]), Rest(t)' = Rest(t)
  PROVE  Coming(t, Head(printing[t]), Rest(t))'
<1>1. PICK s, r : s = Head(printing[t]) /\ r = Rest(t) OBVIOUS
<1>2. Coming(t, s, r)
  <2>1. s = Head(printing[t]) /\ r = Rest(t) BY <1>1
  <2> QED BY <2>1
<1>3. Coming(t, s, r)' BY <1>2 DEF Coming, LastIs, Terminal!Original
<1>4. Head(printing[t])' = s /\ Rest(t)' = r BY <1>1
<1> QED BY <1>3, <1>4

LEMMA Unmoved ==
  ASSUME ConsoleInv, ConsoleTypes',
         UNCHANGED <<(part = "windows"), mutex_, printing, color_range, length, ops, file, pen, screen>>
  PROVE  ConsoleInv'
<1>1. OnePrints' BY DEF ConsoleInv, OnePrints, Terminal!Original
<1>2. LineComing'
  <2> SUFFICES ASSUME NEW t \in Threads, mutex_ = t PROVE Coming(t, Head(printing[t]), Rest(t))' BY DEF LineComing
  <2>1. Coming(t, Head(printing[t]), Rest(t)) BY DEF ConsoleInv, LineComing
  <2>2. Rest(t)' = Rest(t) BY DEF Rest
  <2> QED BY <2>1, <2>2, LineStays
<1> QED BY <1>1, <1>2 DEF ConsoleInv, Terminal!LinesWhole, OnlyRange, Terminal!RangeInText, Terminal!Original

LEMMA NextConsole ==
  ASSUME ConsoleConstants, ConsoleInv, [Terminal!Next]_(Terminal!vars)
  PROVE  ConsoleInv'
<1> USE DEF ConsoleInv
<1>1. ASSUME NEW t \in Threads, Terminal!Call(t) PROVE ConsoleInv'
  <2>1. printing' = [printing EXCEPT ![t] = Order] /\ mutex_ # t
        /\ UNCHANGED <<(part = "windows"), Terminal!settings, mutex_, Terminal!message, ops, Terminal!terminal,
             changes>>
    BY <1>1 DEF Terminal!Call, OnePrints
  <2>2. ConsoleTypes' BY <2>1 DEF ConsoleTypes, ConsoleConstants, Terminal!settings, Terminal!message, Terminal!terminal
  <2>3. OnePrints' BY <2>1 DEF OnePrints, Terminal!Original, Terminal!terminal, ConsoleTypes
  <2>4. LineComing'
    <3> SUFFICES ASSUME NEW u \in Threads, mutex_' = u PROVE Coming(u, Head(printing[u]), Rest(u))' BY DEF LineComing
    <3>1. Coming(u, Head(printing[u]), Rest(u)) BY <2>1 DEF LineComing
    <3>2. printing'[u] = printing[u] BY <2>1 DEF ConsoleTypes
    <3>3. Rest(u)' = Rest(u) BY <2>1, <3>2 DEF Rest, Terminal!terminal
    <3> QED BY <2>1, <3>1, <3>2, <3>3, LineStays DEF Terminal!terminal
  <2> QED BY <2>1, <2>2, <2>3, <2>4
       DEF Terminal!LinesWhole, OnlyRange, Terminal!RangeInText, Terminal!Original, Terminal!terminal, Terminal!message
<1>2. ASSUME NEW t \in Threads, Terminal!Enter(t) PROVE ConsoleInv'
  <2> DEFINE s == Head(printing[t])
  <2>1. mutex_ = None /\ mutex_' = t
          /\ UNCHANGED <<(part = "windows"), Terminal!settings, printing, Terminal!terminal, changes>>
               /\ printing[t] # <<>>
    BY <1>2 DEF Terminal!Enter, Terminal!Busy
  <2>2. pen = Terminal!Original /\ \A z \in Streams : file[z] = <<>> BY <2>1 DEF OnePrints, ConsoleConstants
  <2>3. /\ ops' \in [Threads -> Seq(Bytes)] /\ \A u \in Threads : u # t => ops'[u] = ops[u]
        /\ Coming(t, s, ops'[t])
    BY <1>2, <2>2, LineEntered
  <2>4. s \in Streams BY <2>1 DEF ConsoleTypes
  <2>5. /\ color_range' \in [Threads -> Nat \X Nat] /\ length' \in [Threads -> Nat]
        /\ color_range'[t][2] <= length'[t]
    <3> DEFINE n == IF range[s] THEN 3 ELSE 1
               r == IF range[s] THEN <<1, 2>> ELSE Terminal!StartRange(t)
    <3>1. color_range' = [color_range EXCEPT ![t] = r] /\ length' = [length EXCEPT ![t] = n] BY <1>2 DEF Terminal!Enter
    <3>2. r \in Nat \X Nat /\ n \in Nat /\ r[2] <= n BY DEF Terminal!StartRange
    <3> HIDE DEF r, n
    <3> QED BY <3>1, <3>2 DEF ConsoleTypes
  <2>6. ConsoleTypes' BY <2>1, <2>3, <2>5 DEF ConsoleTypes, Terminal!settings, Terminal!terminal
  <2>7. OnePrints' BY <2>1, <2>2, <2>3, <2>6 DEF OnePrints, Terminal!terminal, ConsoleConstants
  <2>8. LineComing'
    <3>1. Rest(t)' = ops'[t]
      <4>1. file'[s] = <<>> /\ ops'[t] \in Seq(Bytes) BY <2>1, <2>2, <2>3, <2>4 DEF Terminal!terminal
      <4> QED BY <2>1, <4>1, ConcatEmptySeq DEF Rest
    <3>2. PICK z, r : z = s /\ r = ops'[t] OBVIOUS
    <3>3. Coming(t, z, r)
      <4> HIDE DEF s
      <4> QED BY <2>3, <3>2
    <3>4. Coming(t, z, r)' BY <2>1, <3>3 DEF Coming, LastIs, Terminal!Original, Terminal!terminal
    <3>5. Coming(t, Head(printing[t]), Rest(t))' BY <2>1, <3>1, <3>2, <3>4
    <3> QED BY <2>1, <3>5 DEF LineComing, ConsoleConstants
  <2> QED BY <2>1, <2>5, <2>6, <2>7, <2>8
       DEF Terminal!LinesWhole, OnlyRange, Terminal!RangeInText, Terminal!Original, Terminal!terminal
<1>3. ASSUME NEW t \in Threads, Terminal!PrintNext(t) PROVE ConsoleInv'
  <2> DEFINE s == Head(printing[t])
             f == file[s]
             o == ops[t]
  <2>1. mutex_ = t /\ o # <<>> /\ o \in Seq(Bytes) BY <1>3 DEF Terminal!PrintNext, OnePrints, ConsoleTypes
  <2>2. printing[t] # <<>> /\ s \in Streams /\ f \in Seq(Bytes) BY <2>1 DEF OnePrints, ConsoleTypes
  <2>3. ops' = [ops EXCEPT ![t] = Tail(o)]
          /\ UNCHANGED <<(part = "windows"), Terminal!settings, mutex_, printing, Terminal!message, changes>>
    BY <1>3 DEF Terminal!PrintNext
  <2>4. Head(o) \in Bytes /\ Tail(o) \in Seq(Bytes) BY <2>1, HeadAndTail
  <2>5. ops' \in [Threads -> Seq(Bytes)] /\ ops'[t] = Tail(o) /\ \A u \in Threads : u # t => ops'[u] = <<>>
    BY <2>1, <2>3, <2>4 DEF ConsoleTypes, OnePrints
  <2>6. CASE s \in Buffered /\ part # "windows"
    <3>1. file' = [file EXCEPT ![s] = Append(f, Head(o))] /\ UNCHANGED <<pen, screen>>
      BY <1>3, <2>6 DEF Terminal!PrintNext
    <3>2. Append(f, Head(o)) \in Seq(Bytes) BY <2>2, <2>4, AppendProperties
    <3>3. file' \in [Streams -> Seq(Bytes)] /\ file'[s] = Append(f, Head(o)) BY <2>2, <3>1, <3>2 DEF ConsoleTypes
    <3>4. Rest(t)' = Rest(t)
      <4>1. Append(f, Head(o)) \o Tail(o) = f \o o BY <2>1, <2>2, Moved
      <4> QED BY <2>3, <2>5, <3>3, <4>1 DEF Rest
    <3>5. ConsoleTypes' BY <2>3, <2>5, <3>1, <3>3 DEF ConsoleTypes, Terminal!settings, Terminal!message
    <3>6. OnePrints' BY <2>1, <2>2, <2>3, <2>5, <2>6, <3>1 DEF OnePrints, ConsoleTypes, ConsoleConstants
    <3>7. LineComing'
      <4>1. Coming(t, Head(printing[t]), Rest(t))' BY <2>1, <2>3, <3>1, <3>4, LineStays DEF LineComing
      <4> QED BY <2>1, <2>3, <4>1 DEF LineComing
    <3> QED BY <2>3, <3>1, <3>5, <3>6, <3>7
         DEF Terminal!LinesWhole, OnlyRange, Terminal!RangeInText, Terminal!Original, Terminal!message
  <2>7. CASE ~(s \in Buffered /\ part # "windows")
    <3>1. Terminal!Shown(Head(o)) /\ UNCHANGED file BY <1>3, <2>7 DEF Terminal!PrintNext
    <3>2. f = <<>> BY <2>2, <2>7 DEF OnePrints
    <3>3. Rest(t) = o BY <2>1, <3>2, ConcatEmptySeq DEF Rest
    <3>4. Rest(t)' = Tail(o)
      <4>1. Rest(t)' = <<>> \o Tail(o) BY <2>3, <2>5, <3>1, <3>2 DEF Rest
      <4> QED BY <2>4, <4>1, ConcatEmptySeq
    <3>5. Rest(t) # <<>> /\ Terminal!Shown(Head(Rest(t))) /\ Rest(t)' = Tail(Rest(t)) BY <2>1, <3>1, <3>3, <3>4
    <3>6. file' \in [Streams -> Seq(Bytes)] BY <3>1 DEF ConsoleTypes
    <3>7. UNCHANGED <<(part = "windows"), colors_, mutex_, printing, Terminal!message>> BY <2>3 DEF Terminal!settings
    <3> QED BY <2>1, <2>5, <3>1, <3>5, <3>6, <3>7, StepShows
  <2> QED BY <2>6, <2>7
<1>4. ASSUME NEW s \in Streams, Terminal!Written(s) PROVE ConsoleInv'
  <2>1. PICK t \in Threads : mutex_ = t /\ Head(printing[t]) = s BY <1>4 DEF Terminal!Written, OnePrints
  <2> DEFINE f == file[s]
             o == ops[t]
  <2>2. f \in Seq(Bytes) /\ o \in Seq(Bytes) /\ f # <<>> BY <1>4 DEF Terminal!Written, ConsoleTypes
  <2>3. f \o o # <<>> /\ Head(f \o o) = Head(f) /\ Tail(f \o o) = Tail(f) \o o BY <2>2, HeadOfRest
  <2>4. Terminal!Shown(Head(f)) /\ file' = [file EXCEPT ![s] = Tail(f)]
        /\ UNCHANGED <<(part = "windows"), Terminal!settings, mutex_, printing, Terminal!message, ops, changes>>
    BY <1>4 DEF Terminal!Written
  <2>5. Tail(f) \in Seq(Bytes) BY <2>2, HeadAndTail
  <2>6. file' \in [Streams -> Seq(Bytes)] /\ file'[s] = Tail(f) /\ \A z \in Streams : file'[z] # <<>> => file[z] # <<>>
    BY <2>2, <2>4, <2>5 DEF ConsoleTypes
  <2>7. Rest(t) = f \o o /\ Rest(t)' = Tail(f) \o o BY <2>1, <2>4, <2>6 DEF Rest
  <2>8. Rest(t) # <<>> /\ Terminal!Shown(Head(Rest(t))) /\ Rest(t)' = Tail(Rest(t)) BY <2>3, <2>4, <2>7
  <2>9. ops' \in [Threads -> Seq(Bytes)] /\ \A u \in Threads : u # t => ops'[u] = <<>>
    BY <2>1, <2>4 DEF ConsoleTypes, OnePrints
  <2>10. UNCHANGED <<(part = "windows"), colors_, mutex_, printing, Terminal!message>> BY <2>4 DEF Terminal!settings
  <2> QED BY <2>1, <2>6, <2>8, <2>9, <2>10, StepShows
<1>5. ASSUME NEW t \in Threads, Terminal!Leave(t) PROVE ConsoleInv'
  <2> DEFINE s == Head(printing[t])
  <2>1. mutex_ = t /\ ops[t] = <<>> /\ file[s] = <<>> /\ mutex_' = None /\ printing' = [printing EXCEPT ![t] = Tail(@)]
        /\ UNCHANGED <<(part = "windows"), Terminal!settings, Terminal!message, ops, Terminal!terminal, changes>>
    BY <1>5 DEF Terminal!Leave, Terminal!Flushed
  <2>2. printing[t] # <<>> /\ printing[t] \in Seq(Streams) BY <2>1 DEF OnePrints, ConsoleTypes
  <2>3. Tail(printing[t]) \in Seq(Streams) BY <2>2, HeadAndTail
  <2>4. pen = Terminal!Original
    <3>1. Rest(t) = <<>>
      <4>1. <<>> \in Seq(Bytes) OBVIOUS
      <4> QED BY <2>1, <4>1, ConcatEmptySeq DEF Rest
    <3>2. Coming(t, s, <<>>) BY <2>1, <3>1 DEF LineComing
    <3> QED BY <3>2 DEF Coming
  <2>5. ConsoleTypes' BY <2>1, <2>2, <2>3 DEF ConsoleTypes, Terminal!settings, Terminal!message, Terminal!terminal
  <2>6. OnePrints' BY <2>1, <2>4 DEF OnePrints, Terminal!Original, Terminal!terminal, ConsoleConstants
  <2>7. LineComing' BY <2>1 DEF LineComing, ConsoleConstants
  <2> QED BY <2>1, <2>5, <2>6, <2>7
         DEF Terminal!LinesWhole, OnlyRange, Terminal!RangeInText, Terminal!Original, Terminal!terminal,
             Terminal!message, ConsoleConstants
<1>6. ASSUME NEW s \in Streams, Terminal!Set(s) PROVE ConsoleInv'
  <2>1. UNCHANGED <<(part = "windows"), mutex_, printing, Terminal!message, ops, Terminal!terminal>>
    BY <1>6 DEF Terminal!Set
  <2>2. colors_' \in [Streams -> Colours] BY <1>6 DEF Terminal!Set, ConsoleTypes
  <2>3. ConsoleTypes' BY <2>1, <2>2 DEF ConsoleTypes, Terminal!message, Terminal!terminal
  <2> QED BY <2>1, <2>3, Unmoved DEF Terminal!terminal, Terminal!message
<1>7. CASE UNCHANGED Terminal!vars
  <2>1. UNCHANGED <<(part = "windows"), Terminal!settings, mutex_, printing, Terminal!message, ops, Terminal!terminal>>
    BY <1>7 DEF Terminal!vars
  <2>2. ConsoleTypes' BY <2>1 DEF ConsoleTypes, Terminal!settings, Terminal!message, Terminal!terminal
  <2> QED BY <2>1, <2>2, Unmoved DEF Terminal!terminal, Terminal!message
<1> QED BY <1>1, <1>2, <1>3, <1>4, <1>5, <1>6, <1>7 DEF Terminal!Next

(* For any threads, sinks, colours and formats.                            *)
THEOREM LinesStayWhole ==
  ASSUME ConsoleConstants
  PROVE  Terminal!Spec => [](Terminal!LinesWhole /\ Terminal!RangeInText /\ Terminal!ColourRestored)
<1>1. Terminal!Init => ConsoleInv BY ConsoleBegins
<1>2. ConsoleInv /\ [Terminal!Next]_(Terminal!vars) => ConsoleInv' BY NextConsole
<1>3. ConsoleInv => Terminal!LinesWhole /\ Terminal!RangeInText /\ Terminal!ColourRestored
  BY DEF ConsoleInv, ConsoleTypes, OnePrints, OnlyRange, Terminal!ColourRestored, ConsoleConstants
<1> QED BY <1>1, <1>2, <1>3, PTL DEF Terminal!Spec

-----------------------------------------------------------------------------
(* Sets of numbers.                                                        *)

(* Induction without a predicate: a set of numbers has a least one.        *)
Less == {p \in Nat \X Nat : p[1] < p[2]}

LEMMA LeastNumber ==
  ASSUME NEW T \in SUBSET Nat, T # {}
  PROVE  \E n \in T : \A m \in T : n <= m
<1>1. OpToRel(<, Nat) = Less BY DEF OpToRel, Less
<1>2. IsWellFoundedOn(Less, Nat) BY <1>1, NatLessThanWellFounded
<1>3. PICK n \in T : \A m \in T : <<m, n>> \notin Less BY <1>2, WFMin
<1>4. \A m \in T : m \in Nat /\ n \in Nat /\ ~(m < n)
  <2> TAKE m \in T
  <2>1. m \in Nat /\ n \in Nat /\ <<m, n>> \notin Less BY <1>3
  <2>2. <<m, n>> \in Nat \X Nat /\ <<m, n>>[1] = m /\ <<m, n>>[2] = n BY <2>1
  <2> QED BY <2>1, <2>2 DEF Less
<1> QED BY <1>4

LEMMA GreatestNumber ==
  ASSUME NEW b \in Nat, NEW T \in SUBSET (0 .. b), T # {}
  PROVE  \E n \in T : \A m \in T : m <= n
<1> DEFINE D == {b - x : x \in T}
<1>1. D \in SUBSET Nat /\ D # {} OBVIOUS
<1>2. PICK d \in D : \A m \in D : d <= m BY <1>1, LeastNumber
<1>3. PICK n \in T : d = b - n BY <1>2
<1>4. ASSUME NEW m \in T PROVE m <= n
  <2>1. b - m \in D OBVIOUS
  <2>2. d <= b - m BY <1>2, <2>1
  <2> QED BY <1>3, <2>2
<1> QED BY <1>4

LEMMA FromZero ==
  ASSUME NEW T, 0 \in T, \A n \in Nat : n \in T => n + 1 \in T
  PROVE  Nat \subseteq T
<1>1. SUFFICES ASSUME Nat \ T # {} PROVE FALSE OBVIOUS
<1>2. PICK n \in Nat \ T : \A m \in Nat \ T : n <= m BY <1>1, LeastNumber
<1>3. n # 0 /\ n - 1 \in Nat /\ n - 1 + 1 = n BY <1>2
<1>4. n - 1 \in T BY <1>2, <1>3
<1> QED BY <1>2, <1>3, <1>4

-----------------------------------------------------------------------------
(* The rotation of files by size.                                          *)

(* What a file may hold once the messages up to x are logged.              *)
Files == [messages : Seq(Nat), bytes : Nat]
Holds(f) == {f.messages[a] : a \in DOMAIN f.messages}

RotatingConstants ==
  /\ FileSize \in Nat /\ FileCount \in Nat /\ FileMessages \in Nat
  /\ SizeOf \in [1 .. FileMessages -> Nat \ {0}]
  /\ None \notin Files /\ None \notin Nat

FileOK(f, x) ==
  /\ f \in Files /\ Holds(f) \subseteq 1 .. x
  /\ f.bytes = 0 => f.messages = <<>>
  /\ f.bytes <= FileSize \/ Len(f.messages) = 1
  /\ \A a, b \in DOMAIN f.messages : a < b => f.messages[a] < f.messages[b]

(* The files of a log, by their numbers.                                   *)
FilesOK(g, x) ==
  /\ g \in [Rotating!Indices -> Files \cup {None}]
  /\ \A i \in Rotating!Indices : g[i] # None => FileOK(g[i], x)
  /\ \A i, j \in Rotating!Indices : i > j /\ g[i] # None /\ g[j] # None =>
       \A m \in Holds(g[i]), n \in Holds(g[j]) : m < n

Top == IF msg = None THEN next - 1 ELSE msg - 1

RotatingTypes ==
  /\ current_size_ \in Nat /\ new_size \in Nat
  /\ rotation \in {"idle", "rename", "reopen", "write", "down"}
  /\ index \in Rotating!Indices
  /\ next \in Nat \ {0} /\ next <= FileMessages + 1 /\ rotation_faults \in Nat /\ crashes \in Nat
  /\ msg = None \/ (msg \in 1 .. FileMessages /\ msg = next - 1)

Phases ==
  /\ open => rotation \in {"idle", "write"} /\ rotated[0] # None
  /\ rotation = "write" => msg # None
  /\ rotation \in {"idle", "down"} => msg = None
  /\ failing => rotation = "reopen"
  /\ rotation = "reopen" /\ ~failing => index = 0

Sizes ==
  /\ open => rotated[0].bytes <= current_size_
  /\ open /\ rotation = "write" =>
       /\ rotated[0].bytes + SizeOf[msg] <= new_size
       /\ new_size <= FileSize \/ rotated[0].messages = <<>>

RotatingInv == RotatingTypes /\ Phases /\ FilesOK(rotated, Top) /\ Sizes

LEMMA ZeroIsIndex == ASSUME RotatingConstants PROVE 0 \in Rotating!Indices /\ FileCount \in Rotating!Indices
BY DEF RotatingConstants, Rotating!Indices

LEMMA EmptyIsOK ==
  ASSUME RotatingConstants, NEW x \in Nat
  PROVE  FileOK(Rotating!Empty, x) /\ Rotating!Empty # None /\ Holds(Rotating!Empty) = {}
<1>1. Rotating!Empty.messages = <<>> /\ Rotating!Empty.bytes = 0 /\ DOMAIN Rotating!Empty.messages = {}
  BY DEF Rotating!Empty
<1>2. Rotating!Empty \in Files BY DEF Rotating!Empty, Files
<1> QED BY <1>1, <1>2 DEF FileOK, Holds, RotatingConstants

LEMMA WithIsOK ==
  ASSUME RotatingConstants, NEW x \in Nat, NEW f, FileOK(f, x), x + 1 \in 1 .. FileMessages,
         f.bytes + SizeOf[x + 1] <= FileSize \/ f.messages = <<>>
  PROVE  /\ FileOK(Rotating!With(f, x + 1), x + 1) /\ Rotating!With(f, x + 1) # None
         /\ Rotating!With(f, x + 1).bytes = f.bytes + SizeOf[x + 1]
         /\ Holds(Rotating!With(f, x + 1)) = Holds(f) \cup {x + 1}
<1> DEFINE g == Rotating!With(f, x + 1)
           s == f.messages
           t == g.messages
<1>1. /\ g.messages = Append(s, x + 1) /\ g.bytes = f.bytes + SizeOf[x + 1]
      /\ s \in Seq(Nat) /\ f.bytes \in Nat /\ SizeOf[x + 1] \in Nat \ {0}
  BY DEF Rotating!With, FileOK, Files, RotatingConstants
<1>2. g \in Files BY <1>1 DEF Rotating!With, Files
<1> HIDE DEF g
<1>3. /\ Len(s) \in Nat /\ DOMAIN s = 1 .. Len(s) /\ DOMAIN t = 1 .. Len(s) + 1 /\ Len(t) = Len(s) + 1
      /\ t[Len(s) + 1] = x + 1 /\ \A a \in 1 .. Len(s) : t[a] = s[a]
  BY <1>1
<1> HIDE DEF s, t
<1>4. Holds(f) = {s[a] : a \in 1 .. Len(s)} /\ Holds(g) = {t[a] : a \in 1 .. Len(s) + 1}
  BY <1>3 DEF Holds, s, t
<1>5. Holds(g) = Holds(f) \cup {x + 1}
  <2>1. ASSUME NEW a \in 1 .. Len(s) + 1 PROVE t[a] \in Holds(f) \cup {x + 1}
    <3>1. CASE a = Len(s) + 1 BY <1>3, <3>1
    <3>2. CASE a # Len(s) + 1
      <4>1. a \in 1 .. Len(s) BY <1>3, <3>2
      <4> QED BY <1>3, <1>4, <4>1
    <3> QED BY <3>1, <3>2
  <2>2. ASSUME NEW a \in 1 .. Len(s) PROVE s[a] \in Holds(g)
    <3>1. a \in 1 .. Len(s) + 1 /\ t[a] = s[a] BY <1>3
    <3> QED BY <1>4, <3>1
  <2>3. x + 1 \in Holds(g)
    <3>1. Len(s) + 1 \in 1 .. Len(s) + 1 BY <1>3
    <3> QED BY <1>3, <1>4, <3>1
  <2> QED BY <1>4, <2>1, <2>2, <2>3
<1>6. Holds(f) \subseteq 1 .. x BY DEF FileOK
<1>7. Holds(g) \subseteq 1 .. x + 1 BY <1>5, <1>6
<1>8. ASSUME NEW a \in DOMAIN t, NEW b \in DOMAIN t, a < b PROVE t[a] < t[b]
  <2>1. a \in 1 .. Len(s) /\ t[a] = s[a] BY <1>3, <1>8
  <2>2. CASE b = Len(s) + 1
    <3>1. s[a] \in Holds(f) BY <1>4, <2>1
    <3>2. s[a] \in 1 .. x BY <1>6, <3>1
    <3> QED BY <1>3, <2>1, <2>2, <3>2
  <2>3. CASE b # Len(s) + 1
    <3>1. b \in 1 .. Len(s) /\ t[b] = s[b] BY <1>3, <2>3
    <3> QED BY <1>3, <1>8, <2>1, <3>1 DEF FileOK, s
  <2> QED BY <2>2, <2>3
<1>9. g.bytes <= FileSize \/ Len(t) = 1
  <2>1. CASE s = <<>> BY <1>3, <2>1
  <2>2. CASE s # <<>> BY <1>1, <2>2 DEF s
  <2> QED BY <2>1, <2>2
<1>10. g.bytes # 0 BY <1>1
<1>11. FileOK(g, x + 1) BY <1>2, <1>7, <1>8, <1>9, <1>10 DEF FileOK, t
<1>12. g # None BY <1>2 DEF RotatingConstants
<1> QED BY <1>1, <1>5, <1>11, <1>12 DEF g

LEMMA MoreLogged ==
  ASSUME NEW x \in Nat, NEW y \in Nat, x <= y, NEW g, FilesOK(g, x)
  PROVE  FilesOK(g, y)
<1>1. ASSUME NEW f, FileOK(f, x) PROVE FileOK(f, y)
  <2>1. Holds(f) \subseteq 1 .. y BY <1>1 DEF FileOK
  <2> QED BY <1>1, <2>1 DEF FileOK
<1> QED BY <1>1 DEF FilesOK

(* The file that is written is emptied, or made.                           *)
LEMMA EmptyFirst ==
  ASSUME RotatingConstants, NEW x \in Nat, NEW g, FilesOK(g, x), NEW h, h = [g EXCEPT ![0] = Rotating!Empty]
  PROVE  FilesOK(h, x)
<1>1. FileOK(Rotating!Empty, x) /\ Holds(Rotating!Empty) = {} /\ 0 \in Rotating!Indices BY EmptyIsOK, ZeroIsIndex
<1>2. Rotating!Empty \in Files BY <1>1 DEF FileOK
<1>3. h \in [Rotating!Indices -> Files \cup {None}] /\ h[0] = Rotating!Empty /\ \A i \in Rotating!Indices : i # 0
        => h[i] = g[i]
  BY <1>1, <1>2 DEF FilesOK
<1> QED BY <1>1, <1>3 DEF FilesOK

LEMMA RemoveOne ==
  ASSUME NEW x \in Nat, NEW g, FilesOK(g, x), NEW i \in Rotating!Indices, NEW h, h = [g EXCEPT ![i] = None]
  PROVE  FilesOK(h, x)
<1>1. h \in [Rotating!Indices -> Files \cup {None}] /\ h[i] = None /\ \A k \in Rotating!Indices : k # i => h[k] = g[k]
  BY DEF FilesOK
<1> QED BY <1>1 DEF FilesOK

LEMMA MoveOne ==
  ASSUME RotatingConstants, NEW x \in Nat, NEW g, FilesOK(g, x), NEW i \in Rotating!Indices, i # 0, g[i - 1] # None,
         NEW h, h = [g EXCEPT ![i] = g[i - 1], ![i - 1] = None]
  PROVE  /\ i - 1 \in Rotating!Indices /\ FilesOK(h, x)
         /\ h[i - 1] = None /\ h[i] = g[i - 1]
         /\ \A k \in Rotating!Indices : k # i /\ k # i - 1 => h[k] = g[k]
<1>1. i - 1 \in Rotating!Indices /\ i \in Nat /\ Rotating!Indices \subseteq Nat
  BY DEF Rotating!Indices, RotatingConstants
<1>2. /\ h \in [Rotating!Indices -> Files \cup {None}] /\ h[i - 1] = None /\ h[i] = g[i - 1]
      /\ \A k \in Rotating!Indices : k # i /\ k # i - 1 => h[k] = g[k]
  BY <1>1 DEF FilesOK
<1>3. ASSUME NEW k \in Rotating!Indices, h[k] # None PROVE FileOK(h[k], x) BY <1>1, <1>2, <1>3 DEF FilesOK
<1>4. ASSUME NEW k \in Rotating!Indices, NEW j \in Rotating!Indices, k > j, h[k] # None, h[j] # None,
             NEW m \in Holds(h[k]), NEW n \in Holds(h[j])
      PROVE  m < n
  <2>1. PICK k0 \in Rotating!Indices : k0 = IF k = i THEN i - 1 ELSE k BY <1>1
  <2>2. PICK j0 \in Rotating!Indices : j0 = IF j = i THEN i - 1 ELSE j BY <1>1
  <2>3. h[k] = g[k0] /\ h[j] = g[j0] BY <1>1, <1>2, <1>4, <2>1, <2>2
  <2>4. k0 > j0 BY <1>1, <1>2, <1>4, <2>1, <2>2
  <2> QED BY <1>4, <2>3, <2>4 DEF FilesOK
<1> QED BY <1>1, <1>2, <1>3, <1>4 DEF FilesOK

LEMMA WriteFirst ==
  ASSUME RotatingConstants, NEW x \in Nat, NEW g, FilesOK(g, x), g[0] # None, x + 1 \in 1 .. FileMessages,
         g[0].bytes + SizeOf[x + 1] <= FileSize \/ g[0].messages = <<>>,
         NEW h, h = [g EXCEPT ![0] = Rotating!With(g[0], x + 1)]
  PROVE  FilesOK(h, x + 1)
<1> DEFINE w == Rotating!With(g[0], x + 1)
<1>1. 0 \in Rotating!Indices /\ Rotating!Indices \subseteq Nat BY ZeroIsIndex DEF Rotating!Indices
<1>2. FileOK(w, x + 1) /\ Holds(w) = Holds(g[0]) \cup {x + 1}
  <2>1. FileOK(g[0], x) BY <1>1 DEF FilesOK
  <2> QED BY <2>1, WithIsOK
<1> HIDE DEF w
<1>3. w \in Files BY <1>2 DEF FileOK
<1>4. h \in [Rotating!Indices -> Files \cup {None}] /\ h[0] = w /\ \A i \in Rotating!Indices : i # 0 => h[i] = g[i]
  BY <1>1, <1>3 DEF FilesOK, w
<1>5. FilesOK(g, x + 1) BY MoreLogged
<1>6. ASSUME NEW i \in Rotating!Indices, NEW j \in Rotating!Indices, i > j, h[i] # None, h[j] # None,
             NEW m \in Holds(h[i]), NEW n \in Holds(h[j])
      PROVE  m < n
  <2>1. i # 0 /\ h[i] = g[i] BY <1>1, <1>4, <1>6
  <2>2. CASE n = x + 1 /\ j = 0
    <3>1. m \in 1 .. x BY <1>6, <2>1 DEF FilesOK, FileOK
    <3> QED BY <2>2, <3>1
  <2>3. CASE ~(n = x + 1 /\ j = 0)
    <3>1. g[j] # None /\ n \in Holds(g[j]) BY <1>2, <1>4, <1>6, <2>3
    <3> QED BY <1>6, <2>1, <3>1 DEF FilesOK
  <2> QED BY <2>2, <2>3
<1> QED BY <1>2, <1>4, <1>5, <1>6 DEF FilesOK

LEMMA RotatingBegins ==
  ASSUME RotatingConstants, Rotating!Init
  PROVE  RotatingInv
<1>1. rotated = [i \in Rotating!Indices |-> None] /\ 0 \in Rotating!Indices BY ZeroIsIndex DEF Rotating!Init
<1>2. FilesOK(rotated, Top) BY <1>1 DEF FilesOK
<1>3. RotatingTypes BY <1>1 DEF Rotating!Init, RotatingTypes, RotatingConstants
<1>4. Phases /\ Sizes BY DEF Rotating!Init, Phases, Sizes
<1> QED BY <1>2, <1>3, <1>4 DEF RotatingInv

LEMMA TopIsNat ==
  ASSUME RotatingTypes
  PROVE  Top \in Nat /\ (msg # None => Top + 1 = msg /\ msg = next - 1) /\ (msg = None => Top = next - 1)
BY DEF RotatingTypes, Top

LEMMA FirstFile ==
  ASSUME RotatingConstants, NEW x, FilesOK(rotated, x), rotated[0] # None
  PROVE  FileOK(rotated[0], x) /\ rotated[0].bytes \in Nat
<1>1. FileOK(rotated[0], x) BY ZeroIsIndex DEF FilesOK
<1> QED BY <1>1 DEF FileOK, Files

LEMMA NextConstruct ==
  ASSUME RotatingConstants, RotatingInv, NEW b \in BOOLEAN, Rotating!Construct(b)
  PROVE  RotatingInv'
<1> USE DEF RotatingInv
<1> DEFINE size == IF rotated[0] = None THEN 0 ELSE rotated[0].bytes
<1>1. /\ rotation = "down" /\ msg = None /\ msg' = None /\ Top' = Top /\ Top \in Nat
      /\ UNCHANGED <<rotation_faults, new_size, next, crashes>>
  BY TopIsNat DEF Rotating!Construct, Rotating!Fine, Phases, Top
<1>2. size \in Nat BY FirstFile
<1>3. 0 \in Rotating!Indices /\ FileCount \in Rotating!Indices BY ZeroIsIndex
<1>4. FilesOK(rotated', Top) /\ rotated'[0] # None /\ rotated'[0].bytes = size
  <2>1. CASE rotated[0] = None
    <3>1. rotated' = [rotated EXCEPT ![0] = Rotating!Empty] BY <2>1 DEF Rotating!Construct
    <3>2. FilesOK(rotated', Top) BY <1>1, <3>1, EmptyFirst
    <3>3. rotated'[0] = Rotating!Empty BY <1>3, <3>1 DEF FilesOK
    <3> QED BY <1>1, <2>1, <3>2, <3>3, EmptyIsOK DEF Rotating!Empty
  <2>2. CASE rotated[0] # None BY <2>2 DEF Rotating!Construct
  <2> QED BY <2>1, <2>2
<1> HIDE DEF size
<1>5. \/ current_size_' = 0 /\ rotation' = "rename" /\ open' = FALSE /\ index' = FileCount /\ failing' = FALSE
      \/ current_size_' = size /\ rotation' = "idle" /\ open' = TRUE /\ UNCHANGED <<index, failing>>
  BY DEF Rotating!Construct, Rotating!BeginRotation, Rotating!FirstIndex, size
<1>6. RotatingTypes' BY <1>1, <1>2, <1>3, <1>5 DEF RotatingTypes
<1>7. Phases' /\ Sizes' BY <1>1, <1>2, <1>4, <1>5 DEF Phases, Sizes
<1> QED BY <1>1, <1>4, <1>6, <1>7

LEMMA NextCrash ==
  ASSUME RotatingConstants, RotatingInv, Rotating!Crash
  PROVE  RotatingInv'
<1> USE DEF RotatingInv
<1>1. rotation' = "down" /\ open' = FALSE /\ msg' = None /\ failing' = FALSE /\ crashes' = crashes + 1
      /\ UNCHANGED <<rotated, current_size_, new_size, index, next, rotation_faults>>
  BY DEF Rotating!Crash
<1>2. RotatingTypes' BY <1>1 DEF RotatingTypes
<1>3. Top \in Nat /\ Top' \in Nat /\ Top <= Top' BY <1>1 DEF RotatingTypes, Top
<1>4. FilesOK(rotated', Top') BY <1>1, <1>3, MoreLogged
<1> QED BY <1>1, <1>2, <1>4 DEF Phases, Sizes

LEMMA NextLog ==
  ASSUME RotatingConstants, RotatingInv, Rotating!Log
  PROVE  RotatingInv'
<1> USE DEF RotatingInv
<1>1. /\ rotation = "idle" /\ next <= FileMessages /\ msg = None /\ next' = next + 1
      /\ new_size' = current_size_ + SizeOf[next] /\ UNCHANGED <<rotated, current_size_, crashes>>
  BY DEF Rotating!Log, Phases
<1>2. next \in 1 .. FileMessages /\ next # None /\ SizeOf[next] \in Nat /\ ~failing
  BY <1>1 DEF RotatingTypes, RotatingConstants, Phases
<1>3. Top = next - 1 /\ Top \in Nat BY <1>1, TopIsNat
<1>4. \/ ~Rotating!Rotates /\ rotation' = "write" /\ msg' = next /\ UNCHANGED <<rotation_faults, open, index, failing>>
      \/ /\ rotation_faults' \in {rotation_faults, rotation_faults + 1}
              /\ UNCHANGED <<rotation, msg, open, index, failing>>
      \/ /\ open /\ msg' = next /\ rotated[0].bytes > 0 /\ UNCHANGED rotation_faults
         /\ rotation' = "rename" /\ open' = FALSE /\ index' = FileCount /\ failing' = FALSE
      \/ /\ open /\ msg' = next /\ ~(rotated[0].bytes > 0) /\ UNCHANGED rotation_faults
         /\ rotation' = "write" /\ UNCHANGED <<open, index, failing>>
  BY DEF Rotating!Log, Rotating!Fine, Rotating!Faulty, Rotating!BeginRotation, Rotating!FirstIndex
<1>5. RotatingTypes'
  <2>1. index' \in Rotating!Indices /\ rotation_faults' \in Nat /\ rotation' \in {"idle", "write", "rename"}
    BY <1>1, <1>4, ZeroIsIndex DEF RotatingTypes
  <2>2. msg' \in {None, next} BY <1>1, <1>4
  <2>3. next' \in Nat \ {0} /\ next' <= FileMessages + 1 /\ next = next' - 1
    BY <1>1, <1>2 DEF RotatingTypes, RotatingConstants
  <2>4. current_size_' \in Nat /\ new_size' \in Nat /\ crashes' \in Nat BY <1>1, <1>2 DEF RotatingTypes
  <2> QED BY <1>2, <2>1, <2>2, <2>3, <2>4 DEF RotatingTypes
<1>6. Phases' BY <1>1, <1>2, <1>4 DEF Phases
<1>7. FilesOK(rotated', Top')
  <2>1. Top' \in Nat /\ Top <= Top' BY <1>1, <1>2, <1>3, <1>4 DEF Top, RotatingTypes
  <2> QED BY <1>1, <1>3, <2>1, MoreLogged
<1>8. Sizes'
  <2>1. (open' => open /\ rotated[0] # None) /\ (msg' = None => rotation' = "idle") BY <1>1, <1>2, <1>4 DEF Phases
  <2>2. open => FileOK(rotated[0], Top) /\ rotated[0].bytes \in Nat BY FirstFile DEF Phases
  <2>3. CASE msg' = None BY <1>1, <2>1, <2>3 DEF Sizes
  <2>4. CASE msg' = next
    <3>1. open' => rotated[0].bytes + SizeOf[next] <= new_size' BY <1>1, <1>2, <2>1, <2>2 DEF Sizes, RotatingTypes
    <3>2. open' => new_size' <= FileSize \/ rotated[0].messages = <<>>
      <4>1. CASE ~Rotating!Rotates BY <1>1, <1>2, <4>1 DEF Rotating!Rotates, RotatingTypes, RotatingConstants
      <4>2. CASE open' /\ ~(rotated[0].bytes > 0)
        <5>1. rotated[0].bytes = 0 BY <2>1, <2>2, <4>2
        <5> QED BY <2>1, <2>2, <4>2, <5>1 DEF FileOK
      <4>3. open' => ~Rotating!Rotates \/ ~(rotated[0].bytes > 0)
        <5>1. msg' # msg BY <1>1, <1>2, <2>4
        <5> QED BY <1>4, <5>1
      <4> QED BY <4>1, <4>2, <4>3
    <3> QED BY <1>1, <2>1, <2>4, <3>1, <3>2 DEF Sizes
  <2> QED BY <1>1, <1>4, <2>3, <2>4
<1> QED BY <1>5, <1>6, <1>7, <1>8

LEMMA NextRename ==
  ASSUME RotatingConstants, RotatingInv, Rotating!Rename
  PROVE  RotatingInv'
<1> USE DEF RotatingInv
<1>1. rotation = "rename" /\ ~open /\ ~failing /\ UNCHANGED <<open, current_size_, new_size, msg, next, crashes>>
  BY DEF Rotating!Rename, Phases
<1>2. Top' = Top /\ Top \in Nat BY <1>1, TopIsNat DEF Top
<1>3. index \in Rotating!Indices /\ index \in Nat /\ (index # 0 => index - 1 \in Rotating!Indices)
  BY DEF RotatingTypes, Rotating!Indices, RotatingConstants
<1>4. \/ index = 0 /\ rotation' = "reopen" /\ UNCHANGED <<rotation_faults, rotated, index, failing>>
      \/ index # 0 /\ index' = index - 1 /\ UNCHANGED <<rotation_faults, rotated, failing, rotation>>
      \/ /\ index # 0 /\ rotated[index - 1] # None
         /\ rotated' = Rotating!Renamed(index) /\ index' = index - 1 /\ UNCHANGED <<rotation_faults, failing, rotation>>
      \/ /\ index # 0 /\ rotation_faults' = rotation_faults + 1 /\ failing' = TRUE /\ rotation' = "reopen"
              /\ UNCHANGED index
         /\ rotated' \in {rotated, [rotated EXCEPT ![index] = None]}
  BY DEF Rotating!Rename, Rotating!Fine, Rotating!Faulty
<1>5. FilesOK(rotated', Top)
  <2>1. CASE rotated' = Rotating!Renamed(index) /\ index # 0 /\ rotated[index - 1] # None
    BY <1>2, <1>3, <2>1, MoveOne DEF Rotating!Renamed
  <2>2. CASE rotated' = [rotated EXCEPT ![index] = None] BY <1>2, <1>3, <2>2, RemoveOne
  <2>3. CASE UNCHANGED rotated BY <2>3
  <2> QED BY <1>4, <2>1, <2>2, <2>3
<1>6. RotatingTypes' BY <1>1, <1>3, <1>4 DEF RotatingTypes
<1>7. Phases' /\ Sizes' BY <1>1, <1>4 DEF Phases, Sizes
<1> QED BY <1>2, <1>5, <1>6, <1>7

LEMMA NextReopen ==
  ASSUME RotatingConstants, RotatingInv, Rotating!Reopen
  PROVE  RotatingInv'
<1> USE DEF RotatingInv
<1>1. rotation = "reopen" /\ ~open /\ UNCHANGED <<index, next, crashes>> BY DEF Rotating!Reopen, Phases
<1>2. Top \in Nat /\ 0 \in Rotating!Indices BY TopIsNat, ZeroIsIndex
<1>3. rotated' \in {rotated, [rotated EXCEPT ![0] = Rotating!Empty]} BY DEF Rotating!Reopen
<1>4. FilesOK(rotated', Top) BY <1>2, <1>3, EmptyFirst
<1>5. /\ open' => rotated' = [rotated EXCEPT ![0] = Rotating!Empty]
      /\ current_size_' \in {0, current_size_} /\ current_size_' \in Nat
      /\ msg # None => SizeOf[msg] \in Nat
  <2>1. open' => rotated' = [rotated EXCEPT ![0] = Rotating!Empty] BY DEF Rotating!Reopen, Rotating!Throw
  <2>2. current_size_' \in {0, current_size_} BY DEF Rotating!Reopen
  <2>3. msg # None => SizeOf[msg] \in Nat BY DEF RotatingTypes, RotatingConstants
  <2> QED BY <2>1, <2>2, <2>3 DEF RotatingTypes
<1>6. open' => rotated'[0] = Rotating!Empty BY <1>2, <1>5 DEF FilesOK
<1>7. RotatingTypes' BY <1>1, <1>5 DEF Rotating!Reopen, Rotating!Fine, Rotating!Faulty, Rotating!Throw, RotatingTypes
<1>8. Phases'
  <2>1. open' => rotated'[0] # None BY <1>6, EmptyIsOK
  <2> QED BY <1>1, <2>1 DEF Rotating!Reopen, Rotating!Throw, Phases
<1>9. FilesOK(rotated', Top')
  <2>1. Top' \in Nat /\ Top <= Top' BY <1>1, <1>7, TopIsNat DEF Rotating!Reopen, Rotating!Throw, Top, RotatingTypes
  <2> QED BY <1>2, <1>4, <2>1, MoreLogged
<1>10. Sizes'
  <2>1. open' => rotated'[0].bytes = 0 /\ rotated'[0].messages = <<>> BY <1>6 DEF Rotating!Empty
  <2>2. rotation' = "write" => msg' = msg /\ msg # None /\ new_size' = SizeOf[msg]
    BY <1>1 DEF Rotating!Reopen, Rotating!Throw
  <2> QED BY <1>5, <2>1, <2>2 DEF Sizes
<1> QED BY <1>7, <1>8, <1>9, <1>10

LEMMA NextWrite ==
  ASSUME RotatingConstants, RotatingInv, Rotating!Write
  PROVE  RotatingInv'
<1> USE DEF RotatingInv
<1>1. rotation = "write" /\ msg # None /\ ~failing /\ UNCHANGED <<new_size, index, next, crashes>>
  BY DEF Rotating!Write, Phases
<1>2. Top \in Nat /\ Top + 1 = msg /\ msg = next - 1 /\ msg \in 1 .. FileMessages /\ 0 \in Rotating!Indices
  BY <1>1, TopIsNat, ZeroIsIndex DEF RotatingTypes
<1>3. CASE ~open
  <2>1. rotation' = "down" /\ msg' = None /\ UNCHANGED <<rotated, open, current_size_, failing, rotation_faults>>
    BY <1>3 DEF Rotating!Write, Rotating!Fine
  <2>2. Top' = Top + 1 BY <1>1, <1>2, <2>1 DEF Top
  <2>3. FilesOK(rotated', Top') BY <1>2, <2>1, <2>2, MoreLogged
  <2>4. RotatingTypes' BY <1>1, <2>1 DEF RotatingTypes
  <2> QED BY <1>1, <1>3, <2>1, <2>3, <2>4 DEF Phases, Sizes
<1>4. CASE open
  <2>1. FileOK(rotated[0], Top) /\ rotated[0] # None /\ rotated[0].bytes \in Nat BY <1>4, FirstFile DEF Phases
  <2>2. SizeOf[msg] \in Nat /\ rotated[0].bytes + SizeOf[msg] <= new_size
        /\ (rotated[0].bytes + SizeOf[msg] <= FileSize \/ rotated[0].messages = <<>>)
    BY <1>1, <1>2, <1>4, <2>1 DEF Sizes, RotatingConstants, RotatingTypes
  <2>3. CASE /\ rotated' = [rotated EXCEPT ![0] = Rotating!With(@, msg)] /\ current_size_' = new_size
             /\ rotation' = "idle" /\ msg' = None /\ UNCHANGED <<open, failing, rotation_faults>>
    <3>1. Top' = Top + 1 BY <1>1, <1>2, <2>3 DEF Top
    <3>2. rotated' = [rotated EXCEPT ![0] = Rotating!With(rotated[0], Top + 1)] BY <1>2, <2>3
    <3>3. FilesOK(rotated', Top + 1) BY <1>2, <2>1, <2>2, <3>2, WriteFirst
    <3>4. rotated'[0] = Rotating!With(rotated[0], msg) BY <1>2, <2>3 DEF FilesOK
    <3>5. rotated'[0] # None /\ rotated'[0].bytes = rotated[0].bytes + SizeOf[msg] BY <1>2, <2>1, <2>2, <3>4, WithIsOK
    <3>6. RotatingTypes' BY <1>1, <2>3 DEF RotatingTypes
    <3>7. Phases' /\ Sizes' BY <1>1, <1>4, <2>2, <2>3, <3>5 DEF Phases, Sizes
    <3> QED BY <3>1, <3>3, <3>6, <3>7
  <2>4. CASE Rotating!Faulty /\ Rotating!Throw(TRUE) /\ UNCHANGED <<rotated, current_size_>>
    <3>1. rotation' = "idle" /\ open' = TRUE /\ msg' = None /\ failing' = FALSE
            /\ rotation_faults' = rotation_faults + 1
      BY <1>1, <2>4 DEF Rotating!Throw, Rotating!Faulty
    <3>2. Top' = Top + 1 BY <1>1, <1>2, <3>1 DEF Top
    <3>3. FilesOK(rotated', Top') BY <1>2, <2>4, <3>2, MoreLogged
    <3>4. RotatingTypes' BY <1>1, <2>4, <3>1 DEF RotatingTypes
    <3> QED BY <1>4, <2>1, <2>4, <3>1, <3>3, <3>4 DEF Phases, Sizes
  <2> QED BY <1>4, <2>3, <2>4 DEF Rotating!Write, Rotating!Fine
<1> QED BY <1>3, <1>4

LEMMA NextRotating ==
  ASSUME RotatingConstants, RotatingInv, [Rotating!Next]_(Rotating!vars)
  PROVE  RotatingInv'
<1>1. CASE UNCHANGED Rotating!vars
  <2>1. Top' = Top BY <1>1 DEF Rotating!vars, Top
  <2> QED BY <1>1, <2>1 DEF Rotating!vars, RotatingInv, RotatingTypes, Phases, Sizes
<1> QED BY <1>1, NextConstruct, NextCrash, NextLog, NextRename, NextReopen, NextWrite DEF Rotating!Next

LEMMA RotatingAsPromised ==
  ASSUME RotatingConstants, RotatingInv
  PROVE  Rotating!WithinSize /\ Rotating!FilesInOrder
<1>1. Rotating!WithinSize
  BY DEF RotatingInv, FilesOK, FileOK, Rotating!WithinSize, Rotating!Existing, Rotating!MessagesOf
<1>2. Rotating!FilesInOrder
  <2> SUFFICES ASSUME NEW i \in Rotating!Existing, NEW j \in Rotating!Existing, i >= j,
                      NEW a \in DOMAIN Rotating!MessagesOf(i), NEW b \in DOMAIN Rotating!MessagesOf(j), i > j \/ a < b
               PROVE  Rotating!MessagesOf(i)[a] < Rotating!MessagesOf(j)[b]
    BY DEF Rotating!FilesInOrder
  <2>1. i \in Rotating!Indices /\ j \in Rotating!Indices /\ rotated[i] # None /\ rotated[j] # None
          /\ FileOK(rotated[i], Top)
    BY DEF RotatingInv, FilesOK, Rotating!Existing
  <2>2. Rotating!MessagesOf(i)[a] \in Holds(rotated[i]) /\ Rotating!MessagesOf(j)[b] \in Holds(rotated[j])
    BY DEF Holds, Rotating!MessagesOf
  <2>3. CASE i > j BY <2>1, <2>2, <2>3 DEF RotatingInv, FilesOK
  <2>4. CASE ~(i > j)
    <3>1. i = j BY <2>1, <2>4 DEF Rotating!Indices, RotatingConstants
    <3> QED BY <2>1, <2>4, <3>1 DEF FileOK, Rotating!MessagesOf
  <2> QED BY <2>3, <2>4
<1> QED BY <1>1, <1>2

(* Which files there are, and the messages they hold.                      *)
Has(g) == {i \in Rotating!Indices : g[i] # None}
KeptIn(g) == UNION {Holds(g[i]) : i \in Has(g)}

(* Below a file there is one of every number, but for the gap that a       *)
(* rotation moves down.                                                    *)
Solid(g, gap) == \A k \in Has(g) : \A i \in 0 .. k - 1 : i \in Has(g) \cup gap
Rotation == rotation \in {"rename", "reopen"}
Gap == IF Rotation THEN {index} ELSE {}

(* What is kept is everything since some message, and since the first one  *)
(* unless there is a file of every number.                                 *)
Latest(g, gap, x) ==
  /\ Solid(g, gap)
  /\ \A m \in KeptIn(g) : m .. x \subseteq KeptIn(g)
  /\ KeptIn(g) = 1 .. x \/ Rotating!Indices \subseteq Has(g) \cup gap

LatestInv ==
  rotation_faults = 0 /\ crashes = 0 =>
    /\ rotation \in {"idle", "write"} => open
    /\ rotation = "down" => next = 1 /\ Has(rotated) = {}
    /\ ~failing
    /\ Rotation => msg # None /\ (index \notin Has(rotated) \/ (index = FileCount /\ Solid(rotated, {})))
    /\ rotation # "down" => Latest(rotated, Gap, Top)

LEMMA EmptiedIsLatest ==
  ASSUME RotatingConstants, NEW x \in Nat, NEW g, FilesOK(g, x), Latest(g, {0}, x),
         0 \notin Has(g) \/ (0 = FileCount /\ Solid(g, {})),
         NEW h, h = [g EXCEPT ![0] = Rotating!Empty]
  PROVE  Latest(h, {}, x)
<1>1. h[0] = Rotating!Empty /\ Rotating!Empty # None /\ Holds(Rotating!Empty) = {} /\ 0 \in Rotating!Indices
        /\ \A i \in Rotating!Indices : i # 0 => h[i] = g[i]
  BY EmptyIsOK, ZeroIsIndex DEF FilesOK
<1>2. Has(h) = Has(g) \cup {0} BY <1>1 DEF Has
<1>3. Solid(h, {})
  <2> SUFFICES ASSUME NEW k \in Has(h), NEW j \in 0 .. k - 1, j # 0 PROVE j \in Has(h) BY <1>2 DEF Solid
  <2>2. CASE k = 0 BY <2>2
  <2>3. CASE k # 0
    <3>1. k \in Has(g) BY <1>2, <2>3
    <3> QED BY <1>2, <3>1 DEF Latest, Solid
  <2> QED BY <2>2, <2>3
<1>4. CASE 0 \notin Has(g)
  <2>1. KeptIn(h) = KeptIn(g) BY <1>1, <1>2, <1>4 DEF KeptIn, Has
  <2> QED BY <1>2, <1>3, <2>1 DEF Latest
<1>5. CASE 0 = FileCount
  <2>1. Rotating!Indices = {0} BY <1>5 DEF Rotating!Indices
  <2>2. KeptIn(h) = {} BY <1>1, <2>1 DEF KeptIn, Has
  <2> QED BY <1>2, <1>3, <2>1, <2>2 DEF Latest
<1> QED BY <1>4, <1>5

LEMMA SkippedIsLatest ==
  ASSUME RotatingConstants, NEW x \in Nat, NEW g, NEW i \in Rotating!Indices, i # 0, Latest(g, {i}, x), g[i - 1] = None,
         i \notin Has(g) \/ (i = FileCount /\ Solid(g, {}))
  PROVE  i - 1 \notin Has(g) /\ Latest(g, {i - 1}, x)
<1>1. i \in Nat /\ i - 1 \in Rotating!Indices /\ i - 1 \notin Has(g) /\ Has(g) \subseteq Nat
  BY DEF Rotating!Indices, Has, RotatingConstants
<1>2. ASSUME NEW k \in Has(g), k >= i PROVE FALSE
  <2>1. i - 1 \in 0 .. k - 1 /\ i - 1 # i BY <1>1, <1>2
  <2> QED BY <1>1, <2>1 DEF Latest, Solid
<1>3. Solid(g, {i - 1})
  <2> SUFFICES ASSUME NEW k \in Has(g), NEW j \in 0 .. k - 1 PROVE j \in Has(g) BY DEF Solid
  <2>1. k < i /\ j # i BY <1>1, <1>2
  <2> QED BY <2>1 DEF Latest, Solid
<1>4. KeptIn(g) = 1 .. x BY <1>1 DEF Latest
<1> QED BY <1>1, <1>3, <1>4 DEF Latest

LEMMA MovedIsLatest ==
  ASSUME RotatingConstants, NEW x \in Nat, NEW g, FilesOK(g, x), NEW i \in Rotating!Indices, i # 0, g[i - 1] # None,
         Latest(g, {i}, x), i \notin Has(g) \/ (i = FileCount /\ Solid(g, {})),
         NEW h, h = [g EXCEPT ![i] = g[i - 1], ![i - 1] = None]
  PROVE  i - 1 \notin Has(h) /\ Latest(h, {i - 1}, x)
<1>1. i - 1 \in Rotating!Indices /\ i \in Nat /\ Rotating!Indices = 0 .. FileCount /\ FileCount \in Nat
  BY DEF Rotating!Indices, RotatingConstants
<1>2. h[i - 1] = None /\ h[i] = g[i - 1] /\ \A k \in Rotating!Indices : k # i /\ k # i - 1 => h[k] = g[k]
  BY <1>1 DEF FilesOK
<1>3. /\ Has(g) \subseteq Rotating!Indices /\ i - 1 \in Has(g) /\ i \in Has(h) /\ i - 1 \notin Has(h)
      /\ \A k \in Rotating!Indices : k # i /\ k # i - 1 => (k \in Has(h) <=> k \in Has(g))
  BY <1>1, <1>2 DEF Has
<1>4. Solid(h, {i - 1})
  <2> SUFFICES ASSUME NEW k \in Has(h), NEW j \in 0 .. k - 1, j # i - 1, j # i PROVE j \in Has(h)
    BY <1>3 DEF Solid
  <2>1. k \in Rotating!Indices BY DEF Has
  <2>2. j \in Rotating!Indices BY <1>1, <2>1
  <2>3. j \in Has(g)
    <3>1. CASE k = i
      <4>1. j \in 0 .. (i - 1) - 1 BY <1>1, <3>1
      <4> QED BY <1>3, <4>1 DEF Latest, Solid
    <3>2. CASE k # i
      <4>1. k \in Has(g) BY <1>3, <2>1, <3>2
      <4> QED BY <4>1 DEF Latest, Solid
    <3> QED BY <3>1, <3>2
  <2> QED BY <1>3, <2>2, <2>3
<1>5. ASSUME NEW k \in Has(h)
      PROVE  LET k0 == IF k = i THEN i - 1 ELSE k IN k0 \in Has(g) /\ k0 # i /\ h[k] = g[k0]
  <2>1. k \in Rotating!Indices BY DEF Has
  <2> QED BY <1>1, <1>2, <1>3, <2>1
<1>6. ASSUME NEW k \in Has(g), k # i PROVE Holds(g[k]) \subseteq KeptIn(h)
  <2>1. CASE k = i - 1 BY <1>2, <1>3, <2>1 DEF KeptIn
  <2>2. CASE k # i - 1
    <3>1. k \in Has(h) /\ h[k] = g[k] BY <1>2, <1>3, <1>6, <2>2
    <3> QED BY <3>1 DEF KeptIn
  <2> QED BY <2>1, <2>2
<1>7. ASSUME NEW m \in KeptIn(h) PROVE m \in KeptIn(g)
  <2>1. PICK k \in Has(h) : m \in Holds(h[k]) BY DEF KeptIn
  <2>2. PICK k0 \in Has(g) : h[k] = g[k0] BY <1>5
  <2> QED BY <2>1, <2>2 DEF KeptIn
<1>8. CASE i \notin Has(g)
  <2>1. KeptIn(h) = KeptIn(g) BY <1>6, <1>7, <1>8 DEF KeptIn
  <2>2. Rotating!Indices \subseteq Has(g) \cup {i} => Rotating!Indices \subseteq Has(h) \cup {i - 1}
    <3> SUFFICES ASSUME Rotating!Indices \subseteq Has(g) \cup {i}, NEW k \in Rotating!Indices, k # i - 1, k # i
      PROVE k \in Has(h)
      BY <1>3
    <3> QED BY <1>3
  <2> QED BY <1>3, <1>4, <2>1, <2>2 DEF Latest
<1>9. CASE i \in Has(g)
  <2>1. i = FileCount /\ Solid(g, {}) BY <1>9
  <2>2. Rotating!Indices \subseteq Has(g)
    <3> SUFFICES ASSUME NEW k \in Rotating!Indices, k # i PROVE k \in Has(g) BY <1>9
    <3>1. k \in 0 .. i - 1 BY <1>1, <2>1
    <3> QED BY <1>9, <2>1, <3>1 DEF Solid
  <2>3. Rotating!Indices \subseteq Has(h) \cup {i - 1}
    <3> SUFFICES ASSUME NEW k \in Rotating!Indices, k # i - 1, k # i PROVE k \in Has(h) BY <1>3
    <3> QED BY <1>3, <2>2
  <2>4. ASSUME NEW m \in KeptIn(h), NEW n \in m .. x PROVE n \in KeptIn(h)
    <3>1. m \in KeptIn(g) /\ n \in KeptIn(g) BY <1>7, <2>4 DEF Latest
    <3>2. PICK k \in Has(g) : n \in Holds(g[k]) BY <3>1 DEF KeptIn
    <3>3. CASE k # i BY <1>6, <3>2, <3>3
    <3>4. CASE k = i
      <4>1. PICK l \in Has(h) : m \in Holds(h[l]) BY <2>4 DEF KeptIn
      <4>2. PICK l0 \in Has(g) : l0 # i /\ h[l] = g[l0] BY <1>5
      <4>3. i > l0 /\ l0 \in Rotating!Indices /\ g[i] # None /\ g[l0] # None BY <1>1, <1>9, <2>1, <4>2 DEF Has
      <4>4. n < m BY <3>2, <3>4, <4>1, <4>2, <4>3 DEF FilesOK
      <4>5. m \in Nat BY <4>1, <4>2, <4>3 DEF FilesOK, FileOK
      <4> QED BY <2>4, <4>4, <4>5
    <3> QED BY <3>3, <3>4
  <2> QED BY <1>3, <1>4, <2>3, <2>4 DEF Latest
<1> QED BY <1>8, <1>9

LEMMA WrittenIsLatest ==
  ASSUME RotatingConstants, NEW x \in Nat, NEW g, FilesOK(g, x), Latest(g, {}, x), g[0] # None,
         x + 1 \in 1 .. FileMessages, g[0].bytes + SizeOf[x + 1] <= FileSize \/ g[0].messages = <<>>,
         NEW h, h = [g EXCEPT ![0] = Rotating!With(g[0], x + 1)]
  PROVE  Latest(h, {}, x + 1)
<1> DEFINE w == Rotating!With(g[0], x + 1)
<1>1. 0 \in Rotating!Indices BY ZeroIsIndex
<1>2. w # None /\ Holds(w) = Holds(g[0]) \cup {x + 1}
  <2>1. FileOK(g[0], x) BY <1>1 DEF FilesOK
  <2> QED BY <2>1, WithIsOK
<1> HIDE DEF w
<1>3. h[0] = w /\ \A k \in Rotating!Indices : k # 0 => h[k] = g[k] BY <1>1 DEF FilesOK, w
<1>4. Has(h) = Has(g) /\ 0 \in Has(g) BY <1>1, <1>2, <1>3 DEF Has
<1>5. KeptIn(h) = KeptIn(g) \cup {x + 1}
  <2>1. \A k \in Has(g) : Holds(h[k]) = IF k = 0 THEN Holds(g[0]) \cup {x + 1} ELSE Holds(g[k])
    <3> SUFFICES ASSUME NEW k \in Has(g) PROVE Holds(h[k]) = IF k = 0 THEN Holds(g[0]) \cup {x + 1} ELSE Holds(g[k])
      OBVIOUS
    <3>1. k \in Rotating!Indices BY DEF Has
    <3>2. CASE k = 0 BY <1>2, <1>3, <3>2
    <3>3. CASE k # 0 BY <1>3, <3>1, <3>3
    <3> QED BY <3>2, <3>3
  <2> QED BY <1>4, <2>1 DEF KeptIn
<1>6. \A m \in KeptIn(g) : m \in 1 .. x BY DEF KeptIn, Has, FilesOK, FileOK
<1>7. ASSUME NEW m \in KeptIn(h), NEW n \in m .. x + 1 PROVE n \in KeptIn(h)
  <2>1. CASE n = x + 1 BY <1>5, <2>1
  <2>2. CASE n # x + 1
    <3>1. m \in 1 .. x \/ m = x + 1 BY <1>5, <1>6
    <3>2. n \in m .. x /\ m # x + 1 BY <1>7, <2>2, <3>1
    <3> QED BY <1>5, <3>2 DEF Latest
  <2> QED BY <2>1, <2>2
<1>8. KeptIn(g) = 1 .. x => KeptIn(h) = 1 .. x + 1
  <2>1. 1 .. x + 1 = (1 .. x) \cup {x + 1} OBVIOUS
  <2> QED BY <1>5, <2>1
<1> QED BY <1>4, <1>5, <1>7, <1>8 DEF Latest, Solid

LEMMA NextLatest ==
  ASSUME RotatingConstants, RotatingInv, LatestInv, [Rotating!Next]_(Rotating!vars)
  PROVE  LatestInv'
<1> SUFFICES ASSUME rotation_faults' = 0, crashes' = 0
             PROVE  /\ rotation' \in {"idle", "write"} => open'
                    /\ rotation' = "down" => next' = 1 /\ Has(rotated') = {}
                    /\ ~failing'
                    /\ Rotation' => /\ msg' # None
                                    /\ index' \notin Has(rotated') \/ (index' = FileCount /\ Solid(rotated', {}))
                    /\ rotation' # "down" => Latest(rotated', Gap', Top')
  BY DEF LatestInv
<1> USE DEF RotatingInv
<1>1. 0 \in Rotating!Indices /\ Rotating!Indices \subseteq Nat /\ rotation_faults \in Nat /\ crashes \in Nat
        /\ Top \in Nat
  BY ZeroIsIndex, TopIsNat DEF RotatingTypes, Rotating!Indices, RotatingConstants
<1>2. \A b \in BOOLEAN : Rotating!Construct(b) =>
        /\ rotation_faults = 0 /\ crashes = 0 /\ rotation = "down" /\ UNCHANGED <<next>>
        /\ rotation' = "idle" /\ open' = TRUE /\ msg' = None /\ failing' = failing
        /\ rotated' = [rotated EXCEPT ![0] = Rotating!Empty]
  <2> SUFFICES ASSUME NEW b \in BOOLEAN, Rotating!Construct(b)
               PROVE  /\ rotation_faults = 0 /\ crashes = 0 /\ rotation = "down" /\ UNCHANGED <<next>>
                      /\ rotation' = "idle" /\ open' = TRUE /\ msg' = None /\ failing' = failing
                      /\ rotated' = [rotated EXCEPT ![0] = Rotating!Empty]
    OBVIOUS
  <2>1. rotation_faults = 0 /\ crashes = 0 /\ rotation = "down" /\ next' = next /\ msg' = None
    BY DEF Rotating!Construct, Rotating!Fine
  <2>2. rotated[0] = None BY <1>1, <2>1 DEF LatestInv, Has
  <2> QED BY <2>1, <2>2 DEF Rotating!Construct
<1>3. ASSUME NEW b \in BOOLEAN, Rotating!Construct(b) PROVE LatestInv'
  <2>1. /\ rotation_faults = 0 /\ crashes = 0 /\ rotation = "down" /\ next' = next /\ rotation' = "idle"
             /\ open' = TRUE /\ msg' = None
        /\ failing' = failing /\ rotated' = [rotated EXCEPT ![0] = Rotating!Empty]
    BY <1>2, <1>3
  <2>2. Has(rotated) = {} /\ next = 1 /\ ~failing /\ msg = None BY <2>1 DEF LatestInv, Phases
  <2>3. Latest(rotated, {0}, 0) /\ Solid(rotated, {}) BY <2>2 DEF Latest, Solid, KeptIn
  <2>4. Top = 0 /\ Top' = 0 BY <2>1, <2>2 DEF Top
  <2>5. Latest(rotated', {}, 0) BY <1>1, <2>1, <2>2, <2>3, <2>4, EmptiedIsLatest
  <2> QED BY <2>1, <2>2, <2>4, <2>5 DEF LatestInv, Rotation, Gap
<1>4. ~Rotating!Faulty BY <1>1 DEF Rotating!Faulty, RotatingTypes
<1>5. ASSUME Rotating!Log PROVE LatestInv'
  <2>1. rotation_faults = 0 /\ crashes = 0 /\ rotation = "idle" BY <1>1, <1>4, <1>5 DEF Rotating!Log, Rotating!Fine
  <2>2. open /\ ~failing /\ msg = None /\ Latest(rotated, {}, Top) BY <2>1 DEF LatestInv, Phases, Gap, Rotation
  <2>3. /\ msg' = next /\ ~failing' /\ rotated' = rotated
        /\ \/ rotation' = "write" /\ open'
           \/ rotation' = "rename" /\ index' = FileCount
    BY <1>4, <1>5, <2>2 DEF Rotating!Log, Rotating!BeginRotation, Rotating!FirstIndex
  <2>4. msg' # None /\ Top' = Top BY <2>2, <2>3 DEF Top, RotatingTypes, RotatingConstants
  <2>5. Solid(rotated, {}) BY <2>2 DEF Latest
  <2>6. Latest(rotated, {FileCount}, Top) BY <2>2 DEF Latest, Solid
  <2> QED BY <2>2, <2>3, <2>4, <2>5, <2>6 DEF LatestInv, Rotation, Gap
<1>6. ASSUME Rotating!Rename PROVE LatestInv'
  <2>1. rotation_faults = 0 /\ crashes = 0 /\ rotation = "rename" /\ UNCHANGED <<msg, next>>
    BY <1>1, <1>6 DEF Rotating!Rename, Rotating!Fine, Rotating!Faulty
  <2>2. /\ ~failing /\ msg # None /\ (index \notin Has(rotated) \/ (index = FileCount /\ Solid(rotated, {})))
        /\ Latest(rotated, {index}, Top)
    BY <2>1 DEF LatestInv, Gap, Rotation
  <2>3. Top' = Top /\ index \in Rotating!Indices BY <2>1 DEF Top, RotatingTypes
  <2>4. CASE index = 0
    <3>1. rotation' = "reopen" /\ UNCHANGED <<rotated, index, failing>> BY <1>6, <2>4 DEF Rotating!Rename
    <3> QED BY <2>1, <2>2, <2>3, <3>1 DEF LatestInv, Rotation, Gap
  <2>5. CASE index # 0 /\ rotated[index - 1] = None
    <3>1. index' = index - 1 /\ UNCHANGED <<rotated, failing, rotation>> BY <1>6, <2>5 DEF Rotating!Rename
    <3>2. index - 1 \notin Has(rotated) /\ Latest(rotated, {index - 1}, Top) BY <1>1, <2>2, <2>3, <2>5, SkippedIsLatest
    <3> QED BY <2>1, <2>2, <2>3, <3>1, <3>2 DEF LatestInv, Rotation, Gap
  <2>6. CASE index # 0 /\ rotated[index - 1] # None
    <3>1. rotated' = Rotating!Renamed(index) /\ index' = index - 1 /\ UNCHANGED <<failing, rotation>>
      BY <1>1, <1>6, <2>6 DEF Rotating!Rename, Rotating!Faulty
    <3>2. index - 1 \notin Has(rotated') /\ Latest(rotated', {index - 1}, Top)
      BY <1>1, <2>2, <2>3, <2>6, <3>1, MovedIsLatest DEF Rotating!Renamed
    <3> QED BY <2>1, <2>2, <2>3, <3>1, <3>2 DEF LatestInv, Rotation, Gap
  <2> QED BY <2>4, <2>5, <2>6
<1>7. ASSUME Rotating!Reopen PROVE LatestInv'
  <2>1. rotation_faults = 0 /\ crashes = 0 /\ rotation = "reopen" BY <1>1, <1>4, <1>7 DEF Rotating!Reopen, Rotating!Fine
  <2>2. /\ ~failing /\ msg # None /\ (index \notin Has(rotated) \/ (index = FileCount /\ Solid(rotated, {})))
        /\ Latest(rotated, {index}, Top) /\ index = 0
    BY <2>1 DEF LatestInv, Gap, Rotation, Phases
  <2>3. /\ rotated' = [rotated EXCEPT ![0] = Rotating!Empty] /\ rotation' = "write" /\ open' = TRUE
             /\ UNCHANGED <<msg, failing, next>>
    BY <1>4, <1>7, <2>2 DEF Rotating!Reopen
  <2>4. Latest(rotated', {}, Top) BY <1>1, <2>2, <2>3, EmptiedIsLatest
  <2>5. Top' = Top BY <2>3 DEF Top
  <2> QED BY <2>2, <2>3, <2>4, <2>5 DEF LatestInv, Rotation, Gap
<1>8. ASSUME Rotating!Write PROVE LatestInv'
  <2>1. rotation_faults = 0 /\ crashes = 0 /\ rotation = "write" BY <1>1, <1>4, <1>8 DEF Rotating!Write, Rotating!Fine
  <2>2. ~failing /\ open /\ msg # None /\ Latest(rotated, {}, Top) /\ rotated[0] # None
    BY <2>1 DEF LatestInv, Gap, Rotation, Phases
  <2>3. Top + 1 = msg /\ msg = next - 1 /\ msg \in 1 .. FileMessages BY <2>2, TopIsNat DEF RotatingTypes
  <2>4. rotated' = [rotated EXCEPT ![0] = Rotating!With(rotated[0], Top + 1)] /\ rotation' = "idle" /\ msg' = None
        /\ UNCHANGED <<open, failing, next>>
    BY <1>4, <1>8, <2>2, <2>3 DEF Rotating!Write
  <2>5. rotated[0].bytes + SizeOf[Top + 1] <= FileSize \/ rotated[0].messages = <<>>
    <3>1. rotated[0].bytes \in Nat /\ SizeOf[msg] \in Nat /\ new_size \in Nat
      BY <2>2, <2>3, FirstFile DEF RotatingTypes, RotatingConstants
    <3> QED BY <2>1, <2>2, <2>3, <3>1 DEF Sizes, RotatingConstants
  <2>6. Latest(rotated', {}, Top + 1) BY <1>1, <2>2, <2>3, <2>4, <2>5, WrittenIsLatest
  <2>7. Top' = Top + 1 BY <2>3, <2>4 DEF Top
  <2> QED BY <2>2, <2>4, <2>6, <2>7 DEF LatestInv, Rotation, Gap
<1>9. ~Rotating!Crash BY <1>1 DEF Rotating!Crash
<1>10. CASE UNCHANGED Rotating!vars
  <2>1. Top' = Top /\ Gap' = Gap /\ Rotation' = Rotation BY <1>10 DEF Rotating!vars, Top, Gap, Rotation
  <2> QED BY <1>10, <2>1 DEF Rotating!vars, LatestInv
<1> QED BY <1>3, <1>5, <1>6, <1>7, <1>8, <1>9, <1>10 DEF Rotating!Next, LatestInv

LEMMA LatestAsPromised ==
  ASSUME RotatingConstants, RotatingInv, LatestInv
  PROVE  Rotating!KeepsTheLatest
<1> SUFFICES ASSUME rotation_faults = 0, crashes = 0, rotation = "idle"
             PROVE  LET kept == UNION {{Rotating!MessagesOf(i)[a] : a \in DOMAIN Rotating!MessagesOf(i)} :
                      i \in Rotating!Existing}
                    IN /\ \A m \in kept : m .. next - 1 \subseteq kept
                       /\ Rotating!Existing # Rotating!Indices => kept = 1 .. next - 1
  BY DEF Rotating!KeepsTheLatest
<1>1. Rotating!Existing = Has(rotated) /\ Has(rotated) \subseteq Rotating!Indices BY DEF Rotating!Existing, Has
<1>2. UNION {{Rotating!MessagesOf(i)[a] : a \in DOMAIN Rotating!MessagesOf(i)} :
        i \in Rotating!Existing} = KeptIn(rotated)
  BY <1>1 DEF KeptIn, Holds, Rotating!MessagesOf
<1>3. Latest(rotated, {}, next - 1)
  <2>1. msg = None /\ Top = next - 1 BY DEF RotatingInv, Phases, Top
  <2> QED BY <2>1 DEF LatestInv, Gap, Rotation
<1> QED BY <1>1, <1>2, <1>3 DEF Latest

(* For any limits, sizes of messages, failures and crashes.                *)
THEOREM FilesAreKept ==
  ASSUME RotatingConstants
  PROVE  Rotating!Spec => [](Rotating!WithinSize /\ Rotating!FilesInOrder /\ Rotating!KeepsTheLatest)
<1>1. Rotating!Init => RotatingInv /\ LatestInv
  <2> SUFFICES ASSUME Rotating!Init PROVE LatestInv BY RotatingBegins
  <2>1. Has(rotated) = {} BY DEF Rotating!Init, Has
  <2> QED BY <2>1 DEF Rotating!Init, LatestInv, Rotation
<1>2. RotatingInv /\ LatestInv /\ [Rotating!Next]_(Rotating!vars) => (RotatingInv /\ LatestInv)'
  BY NextRotating, NextLatest
<1>3. RotatingInv /\ LatestInv => Rotating!WithinSize /\ Rotating!FilesInOrder /\ Rotating!KeepsTheLatest
  BY RotatingAsPromised, LatestAsPromised
<1> QED BY <1>1, <1>2, <1>3, PTL DEF Rotating!Spec

-----------------------------------------------------------------------------
(* The rotation of files by date.                                          *)

DatedConstants ==
  /\ PeriodParts \in Nat \ {0} /\ DatedCount \in Nat /\ LastTime \in Nat
  /\ None \notin Nat /\ None \notin Seq(Nat)

(* The period of a time.                                                   *)
LEMMA PeriodIs ==
  ASSUME PeriodParts \in Nat \ {0}, NEW t \in Nat
  PROVE  /\ Dated!PeriodOf(t) \in Nat
         /\ Dated!PeriodOf(t) * PeriodParts \in Nat
         /\ Dated!PeriodOf(t) * PeriodParts <= t /\ t < Dated!PeriodOf(t) * PeriodParts + PeriodParts
<1> DEFINE n == PeriodParts
<1>1. t \div n \in Nat /\ t = (t \div n) * n + (t % n) /\ t % n \in 0 .. n - 1 OBVIOUS
<1>2. (t \div n) * n \in Nat BY <1>1
<1> QED BY <1>1, <1>2 DEF Dated!PeriodOf

LEMMA Scaled ==
  ASSUME PeriodParts \in Nat \ {0}, NEW c \in Nat, NEW d \in Nat, c < d
  PROVE  c * PeriodParts + PeriodParts <= d * PeriodParts /\ c * PeriodParts \in Nat /\ d * PeriodParts \in Nat
<1>1. d = c + 1 + (d - c - 1) /\ d - c - 1 \in Nat OBVIOUS
<1>2. ASSUME NEW k \in Nat, d = c + 1 + k PROVE c * PeriodParts + PeriodParts <= d * PeriodParts
  <2>1. k * PeriodParts \in Nat /\ c * PeriodParts \in Nat OBVIOUS
  <2>2. d * PeriodParts = c * PeriodParts + PeriodParts + k * PeriodParts BY <1>2
  <2> QED BY <2>1, <2>2
<1> QED BY <1>1, <1>2

LEMMA BeforeNext ==
  ASSUME PeriodParts \in Nat \ {0}, NEW t \in Nat, NEW c \in Nat
  PROVE  t < c * PeriodParts + PeriodParts <=> Dated!PeriodOf(t) <= c
<1> DEFINE p == Dated!PeriodOf(t)
<1>1. p \in Nat /\ p * PeriodParts \in Nat /\ c * PeriodParts \in Nat /\ p * PeriodParts <= t
        /\ t < p * PeriodParts + PeriodParts
  BY PeriodIs
<1> HIDE DEF p
<1>2. CASE c < p
  <2>1. c * PeriodParts + PeriodParts <= p * PeriodParts BY <1>1, <1>2, Scaled
  <2> QED BY <1>1, <1>2, <2>1 DEF p
<1>3. CASE p < c
  <2>1. p * PeriodParts + PeriodParts <= c * PeriodParts BY <1>1, <1>3, Scaled
  <2> QED BY <1>1, <1>3, <2>1 DEF p
<1>4. CASE p = c BY <1>1, <1>4 DEF p
<1> QED BY <1>1, <1>2, <1>3, <1>4

LEMMA LaterPeriod ==
  ASSUME PeriodParts \in Nat \ {0}, NEW t \in Nat, NEW u \in Nat, t <= u
  PROVE  Dated!PeriodOf(t) <= Dated!PeriodOf(u)
<1>1. Dated!PeriodOf(u) \in Nat /\ Dated!PeriodOf(u) * PeriodParts \in Nat
        /\ u < Dated!PeriodOf(u) * PeriodParts + PeriodParts
  BY PeriodIs
<1>2. t < Dated!PeriodOf(u) * PeriodParts + PeriodParts BY <1>1
<1> QED BY <1>1, <1>2, BeforeNext

LEMMA NextIsMidnight ==
  ASSUME DatedConstants, NEW t \in Nat
  PROVE  Dated!NextRotation(t) = Dated!PeriodOf(t) * PeriodParts + PeriodParts
<1>1. Dated!PeriodOf(t) * PeriodParts \in Nat /\ Dated!PeriodOf(t) * PeriodParts <= t BY PeriodIs DEF DatedConstants
<1> QED BY <1>1 DEF Dated!NextRotation, DatedConstants

LEMMA PeriodsAre == ASSUME DatedConstants PROVE Dated!Periods \subseteq Nat /\ 0 \in Dated!Periods
<1>1. LastTime \div PeriodParts \in Nat BY DEF DatedConstants
<1> QED BY <1>1 DEF Dated!Periods

(* The files found at a start: those without a gap back from p.            *)
LEMMA FoundIs ==
  ASSUME DatedConstants, DatedCount > 0, NEW p \in Dated!Periods, NEW disk, disk[p] # None,
         NEW s, s = Dated!Found(p, disk)
  PROVE  /\ s \in Seq(Dated!Periods) /\ Len(s) \in 1 .. DatedCount /\ s[Len(s)] = p
         /\ \A i \in 1 .. Len(s) : disk[s[i]] # None
         /\ \A i, j \in 1 .. Len(s) : i < j => s[i] < s[j]
<1> DEFINE unbroken(k) == \A i \in p - k + 1 .. p : i >= 0 /\ disk[i] # None
           T == {k \in 0 .. DatedCount : unbroken(k)}
           n == CHOOSE k \in 0 .. DatedCount : unbroken(k) /\ (k = DatedCount \/ ~unbroken(k + 1))
<1>1. p \in Nat /\ Dated!Periods = 0 .. LastTime \div PeriodParts /\ LastTime \div PeriodParts \in Nat
        /\ DatedCount \in Nat
  BY PeriodsAre DEF Dated!Periods, DatedConstants
<1>2. 0 \in T
  <2>1. \A i \in p - 0 + 1 .. p : FALSE BY <1>1
  <2> QED BY <1>1, <2>1
<1>3. PICK k \in T : \A m \in T : m <= k
  <2>1. T \in SUBSET (0 .. DatedCount) /\ T # {} BY <1>2
  <2> HIDE DEF T
  <2> QED BY <1>1, <2>1, GreatestNumber
<1>4. k = DatedCount \/ ~unbroken(k + 1)
  <2>1. CASE k < DatedCount /\ unbroken(k + 1)
    <3>1. k + 1 \in T BY <1>1, <2>1
    <3>2. k + 1 <= k BY <1>3, <3>1
    <3> QED BY <1>1, <3>2
  <2> QED BY <1>1, <2>1
<1>5. n \in 0 .. DatedCount /\ unbroken(n) /\ (n = DatedCount \/ ~unbroken(n + 1))
  <2> HIDE DEF unbroken
  <2> QED BY <1>3, <1>4
<1>6. s = [i \in 1 .. n |-> p - n + i] BY DEF Dated!Found
<1> HIDE DEF n
<1>7. n # 0
  <2> SUFFICES ASSUME n = 0 PROVE FALSE OBVIOUS
  <2>1. ~unbroken(0 + 1) BY <1>1, <1>5
  <2>2. PICK i \in p - (0 + 1) + 1 .. p : ~(i >= 0 /\ disk[i] # None) BY <2>1
  <2>3. i = p BY <1>1, <2>2
  <2> QED BY <1>1, <2>2, <2>3
<1>8. n <= p + 1
  <2>1. p - n + 1 \in p - n + 1 .. p BY <1>1, <1>5, <1>7
  <2>2. p - n + 1 >= 0 BY <1>5, <2>1
  <2> QED BY <1>1, <1>5, <2>2
<1>9. \A i \in 1 .. n : p - n + i \in p - n + 1 .. p /\ p - n + i \in Dated!Periods BY <1>1, <1>5, <1>8
<1>10. \A i \in 1 .. n : disk[p - n + i] # None BY <1>5, <1>9
<1>11. s \in [1 .. n -> Dated!Periods] /\ n \in Nat BY <1>1, <1>5, <1>6, <1>9
<1>12. s \in Seq(Dated!Periods) /\ Len(s) = n BY <1>11
<1>13. n \in 1 .. DatedCount /\ s[n] = p
  <2>1. n \in 1 .. n /\ p - n + n = p BY <1>1, <1>5, <1>7
  <2> QED BY <1>1, <1>5, <1>6, <1>7, <2>1
<1>14. \A i, j \in 1 .. n : i < j => s[i] < s[j] BY <1>1, <1>5, <1>6
<1> QED BY <1>6, <1>10, <1>12, <1>13, <1>14

(* What a queue of file names holds.                                       *)
Queued == Dated!Periods \cup {None}

Queueing(q, n, s) ==
  /\ Dated!IsRing(q, Queued) /\ q.max = DatedCount + 1 /\ Dated!Size(q) = n
  /\ \A i \in 0 .. n - 1 : Dated!At(q, i) = s[i + 1]

LEMMA NoneQueued ==
  ASSUME DatedConstants, NEW s
  PROVE  Queueing(Dated!New(DatedCount, None), 0, s)
<1> DEFINE q == Dated!New(DatedCount, None)
<1>1. /\ q = [max |-> q.max, head |-> q.head, tail |-> q.tail, overrun |-> q.overrun, v |-> q.v]
      /\ q.max = DatedCount + 1 /\ q.head = 0 /\ q.tail = 0 /\ q.overrun = 0
      /\ q.v = [i \in 0 .. DatedCount |-> None]
  BY DEF Dated!New
<1> HIDE DEF q
<1>2. DatedCount \in Nat /\ DatedCount + 1 - 1 = DatedCount BY DEF DatedConstants
<1>3. q.v \in [0 .. q.max - 1 -> Queued] BY <1>1, <1>2 DEF Queued
<1>4. Dated!IsRing(q, Queued) BY <1>1, <1>2, <1>3 DEF Dated!IsRing
<1>5. Dated!Size(q) = 0 BY <1>1 DEF Dated!Size
<1> QED BY <1>1, <1>4, <1>5 DEF Queueing, q

LEMMA OneMoreQueued ==
  ASSUME DatedConstants, NEW n \in Nat, n < DatedCount, NEW s, NEW q, Queueing(q, n, s), s[n + 1] \in Dated!Periods
  PROVE  Queueing(Dated!PushBack(q, s[n + 1]), n + 1, s)
<1> DEFINE x == s[n + 1]
           r == Dated!PushBack(q, x)
<1>1. Dated!IsRing(q, Queued) /\ q.max = DatedCount + 1 /\ DatedCount \in Nat /\ Dated!Size(q) = n
  BY DEF Queueing, DatedConstants
<1>2. x \in Queued BY DEF Queued
<1>3. ~Dated!Full(q) BY <1>1, Dated!RingSize
<1> HIDE DEF x
<1>4. /\ Dated!IsRing(r, Queued) /\ r.max = q.max /\ Dated!Size(r) = n + 1
      /\ \A i \in 0 .. n : Dated!At(r, i) = IF i = n THEN x ELSE Dated!At(q, i)
  BY <1>1, <1>2, <1>3, Dated!Pushed
<1> HIDE DEF r
<1>5. \A i \in 0 .. n - 1 : Dated!At(q, i) = s[i + 1] BY DEF Queueing
<1>6. \A i \in 0 .. n + 1 - 1 : Dated!At(r, i) = s[i + 1]
  <2> TAKE i \in 0 .. n + 1 - 1
  <2>1. i \in 0 .. n /\ (i = n \/ i \in 0 .. n - 1) OBVIOUS
  <2> QED BY <1>4, <1>5, <2>1 DEF x
<1> QED BY <1>1, <1>4, <1>6 DEF Queueing, r, x

LEMMA FilledIs ==
  ASSUME DatedConstants, NEW s \in Seq(Dated!Periods), Len(s) <= DatedCount
  PROVE  Queueing(Dated!Filled(s), Len(s), s)
<1> DEFINE n == Len(s)
           turn(f, i) == IF i = 0 THEN Dated!New(DatedCount, None) ELSE Dated!PushBack(f[i - 1], s[i])
           fill == CHOOSE f : f = [i \in 0 .. n |-> turn(f, i)]
<1>1. n \in Nat /\ \A i \in 1 .. n : s[i] \in Dated!Periods OBVIOUS
<1>2. \E f : f = [i \in 0 .. n |-> turn(f, i)]
  <2> DEFINE T == {m \in Nat : \E f : f = [i \in 0 .. m |-> turn(f, i)]}
  <2>1. 0 \in T
    <3> DEFINE f == [i \in 0 .. 0 |-> Dated!New(DatedCount, None)]
    <3>1. f = [i \in 0 .. 0 |-> turn(f, i)] OBVIOUS
    <3> QED BY <3>1
  <2>2. ASSUME NEW m \in Nat, m \in T PROVE m + 1 \in T
    <3>1. PICK f : f = [i \in 0 .. m |-> turn(f, i)] BY <2>2
    <3> DEFINE g == [i \in 0 .. m + 1 |-> IF i <= m THEN f[i] ELSE Dated!PushBack(f[m], s[m + 1])]
    <3>2. ASSUME NEW i \in 0 .. m + 1 PROVE g[i] = turn(g, i)
      <4>1. CASE i = 0
        <5>1. 0 \in 0 .. m /\ 0 \in 0 .. m + 1 /\ 0 <= m OBVIOUS
        <5>2. g[0] = f[0] BY <5>1
        <5>3. f[0] = turn(f, 0) BY <3>1, <5>1
        <5> QED BY <4>1, <5>2, <5>3
      <4>2. CASE i # 0 /\ i <= m
        <5>1. i \in 0 .. m /\ i - 1 \in 0 .. m + 1 /\ i - 1 <= m BY <4>2
        <5>2. g[i] = f[i] /\ g[i - 1] = f[i - 1] BY <4>2, <5>1
        <5>3. f[i] = turn(f, i) BY <3>1, <5>1
        <5> QED BY <4>2, <5>2, <5>3
      <4>3. CASE i = m + 1
        <5>1. m \in 0 .. m + 1 /\ m <= m /\ ~(m + 1 <= m) /\ m + 1 \in 0 .. m + 1 /\ m + 1 # 0 /\ m + 1 - 1 = m OBVIOUS
        <5>2. g[m + 1] = Dated!PushBack(f[m], s[m + 1]) /\ g[m] = f[m] BY <5>1
        <5> QED BY <4>3, <5>1, <5>2
      <4> QED BY <4>1, <4>2, <4>3
    <3>3. g = [i \in 0 .. m + 1 |-> turn(g, i)]
      <4> HIDE DEF turn
      <4> QED BY <3>2
    <3> HIDE DEF g
    <3>4. \E h : h = [i \in 0 .. m + 1 |-> turn(h, i)] BY <3>3
    <3> QED BY <3>4
  <2> HIDE DEF T
  <2>3. Nat \subseteq T BY <2>1, <2>2, FromZero
  <2> QED BY <1>1, <2>3 DEF T
<1>3. fill = [i \in 0 .. n |-> turn(fill, i)] BY <1>2
<1>4. Dated!Filled(s) = fill[n] BY DEF Dated!Filled
<1> HIDE DEF fill
<1> DEFINE T == {m \in Nat : m <= n => Queueing(fill[m], m, s)}
<1>5. 0 \in T
  <2>1. fill[0] = Dated!New(DatedCount, None) BY <1>1, <1>3
  <2> QED BY <2>1, NoneQueued
<1>6. ASSUME NEW m \in Nat, m \in T PROVE m + 1 \in T
  <2> SUFFICES ASSUME m + 1 <= n PROVE Queueing(fill[m + 1], m + 1, s) OBVIOUS
  <2>1. Queueing(fill[m], m, s) /\ s[m + 1] \in Dated!Periods /\ m < DatedCount BY <1>1, <1>6 DEF DatedConstants
  <2>2. fill[m + 1] = Dated!PushBack(fill[m], s[m + 1])
    <3>1. m + 1 \in 0 .. n /\ m + 1 # 0 /\ m + 1 - 1 = m BY <1>1
    <3> QED BY <1>3, <3>1
  <2> QED BY <2>1, <2>2, OneMoreQueued
<1> HIDE DEF T
<1>7. Nat \subseteq T BY <1>5, <1>6, FromZero
<1> QED BY <1>1, <1>4, <1>7 DEF T

(* The file of a period, by the name's period.                             *)
DatedTypes ==
  /\ today \in Nat /\ Dated!PeriodOf(today) \in Dated!Periods
  /\ files \in [Dated!Periods -> Seq(Nat) \cup {None}]
  /\ \A p \in Dated!Existing : p <= Dated!PeriodOf(today) /\ \A i \in DOMAIN files[p] : Dated!PeriodOf(files[p][i]) = p
  /\ ~running => current = None

Made == Len(made)

FileOpen ==
  /\ made \in Seq(Dated!Periods) /\ Made > 0
  /\ \A i, j \in 1 .. Made : i < j => made[i] < made[j]
  /\ rotation_tp_ = made[Made] * PeriodParts + PeriodParts
  /\ current = None => made[Made] < Dated!PeriodOf(today)
  /\ current # None => current = made[Made] /\ files[current] # None
  /\ \A p \in Dated!Existing : p <= made[Made]

Kept == IF Made < DatedCount THEN Made ELSE DatedCount

FilesQueued ==
  /\ Dated!IsRing(filenames_q_, Queued) /\ filenames_q_.max = DatedCount + 1 /\ Dated!Size(filenames_q_) = Kept
  /\ \A i \in 0 .. Kept - 1 : Dated!At(filenames_q_, i) = made[Made - Kept + 1 + i]

OldDeleted ==
  /\ \A i \in 1 .. Made : files[made[i]] # None <=> i > Made - DatedCount \/ made[i] \in undeleted
  /\ \A p \in undeleted : \E i \in 1 .. Made : p = made[i] /\ i <= Made - DatedCount

DatedInv == DatedTypes /\ (running => FileOpen /\ (DatedCount > 0 => FilesQueued /\ OldDeleted))

LEMMA DatedBegins == ASSUME DatedConstants, Dated!Init PROVE DatedInv
<1>1. today \in Nat /\ Dated!PeriodOf(today) \in Dated!Periods
  <2>1. today \in 0 .. PeriodParts - 1 /\ PeriodParts \in Nat \ {0} BY DEF Dated!Init, DatedConstants
  <2>2. today \in Nat /\ today < 0 * PeriodParts + PeriodParts BY <2>1
  <2>3. Dated!PeriodOf(today) <= 0 BY <2>1, <2>2, BeforeNext
  <2>4. Dated!PeriodOf(today) \in Nat BY <2>1, <2>2, PeriodIs
  <2> QED BY <2>2, <2>3, <2>4, PeriodsAre
<1>2. files = [p \in Dated!Periods |-> None] /\ ~running /\ current = None BY DEF Dated!Init
<1>3. Dated!Existing = {} BY <1>2 DEF Dated!Existing
<1> QED BY <1>1, <1>2, <1>3 DEF DatedInv, DatedTypes

LEMMA MadeLast ==
  ASSUME DatedConstants, FileOpen
  PROVE  /\ Made \in Nat \ {0} /\ Made \in 1 .. Made /\ made[Made] \in Dated!Periods /\ made[Made] \in Nat
         /\ \A i \in 1 .. Made : made[i] \in Dated!Periods /\ made[i] \in Nat /\ made[i] <= made[Made]
<1>1. made \in Seq(Dated!Periods) /\ Made > 0 /\ Made = Len(made) BY DEF FileOpen, Made
<1>2. Made \in Nat \ {0} /\ Made \in 1 .. Made BY <1>1
<1>3. \A i \in 1 .. Made : made[i] \in Dated!Periods BY <1>1
<1>4. \A i \in 1 .. Made : made[i] \in Nat BY <1>3, PeriodsAre
<1>5. ASSUME NEW i \in 1 .. Made PROVE made[i] <= made[Made]
  <2>1. i < Made => made[i] < made[Made] BY <1>2 DEF FileOpen
  <2>2. i = Made => made[i] = made[Made] OBVIOUS
  <2>3. made[i] \in Nat /\ made[Made] \in Nat BY <1>2, <1>4
  <2> QED BY <1>2, <2>1, <2>2, <2>3
<1> QED BY <1>2, <1>3, <1>4, <1>5

(* What a message does, as it is logged when it is stamped.                *)
Continues ==
  /\ current # None /\ current = made[Made] /\ Dated!PeriodOf(today) = current
  /\ files' = [files EXCEPT ![current] = Append(@, today)]
  /\ UNCHANGED <<today, running, current, rotation_tp_, filenames_q_, made, undeleted>>

WithNew(p) == [files EXCEPT ![p] = <<today>>]

Changes ==
  LET p == Dated!PeriodOf(today)
  IN /\ made[Made] < p /\ files[p] = None
     /\ current' = p /\ rotation_tp_' = p * PeriodParts + PeriodParts /\ made' = Append(made, p)
     /\ IF DatedCount > 0 THEN Dated!DeleteOld(p, WithNew(p))
        ELSE files' = WithNew(p) /\ UNCHANGED <<filenames_q_, undeleted, dated_faults>>
     /\ UNCHANGED <<today, running>>

Fails ==
  /\ made[Made] < Dated!PeriodOf(today) /\ current' = None
  /\ UNCHANGED <<today, running, files, rotation_tp_, filenames_q_, made, undeleted>>

LEMMA LogIs ==
  ASSUME DatedConstants, DatedInv, NEW t \in 0 .. LastTime, Dated!Log(t)
  PROVE  running /\ FileOpen /\ (Continues \/ Changes \/ Fails)
<1> DEFINE p == Dated!PeriodOf(today)
<1>1. running /\ FileOpen /\ DatedTypes BY DEF Dated!Log, DatedInv
<1>2. today \in Nat /\ p \in Dated!Periods /\ p \in Nat /\ LastTime \in Nat
  BY <1>1, PeriodsAre DEF DatedTypes, DatedConstants
<1>3. t = today BY <1>2 DEF Dated!Log, DatedConstants
<1>4. /\ Made \in Nat \ {0} /\ made[Made] \in Dated!Periods /\ made[Made] \in Nat
      /\ rotation_tp_ = made[Made] * PeriodParts + PeriodParts
  BY <1>1, MadeLast DEF FileOpen
<1>5. today < rotation_tp_ <=> p <= made[Made] BY <1>2, <1>4, BeforeNext DEF DatedConstants
<1>6. CASE today < rotation_tp_
  <2>1. /\ current # None
        /\ files' = IF files[current] = None THEN files ELSE [files EXCEPT ![current] = Append(@, today)]
        /\ UNCHANGED <<today, running, current, rotation_tp_, filenames_q_, made, undeleted>>
    BY <1>3, <1>6 DEF Dated!Log
  <2>2. current = made[Made] /\ files[current] # None BY <1>1, <2>1 DEF FileOpen
  <2>3. current \in Dated!Existing BY <1>4, <2>2 DEF Dated!Existing
  <2>4. current <= p BY <1>1, <2>3 DEF DatedTypes
  <2>5. p = current BY <1>2, <1>4, <1>5, <1>6, <2>2, <2>4
  <2> QED BY <1>1, <2>1, <2>2, <2>5 DEF Continues
<1>7. CASE ~(today < rotation_tp_)
  <2>1. made[Made] < p BY <1>2, <1>4, <1>5, <1>7
  <2>2. files[p] = None
    <3>1. p \in Dated!Existing => p <= made[Made] BY <1>1 DEF FileOpen
    <3> QED BY <1>2, <1>4, <2>1, <3>1 DEF Dated!Existing
  <2>3. Dated!NextRotation(today) = p * PeriodParts + PeriodParts BY <1>2, NextIsMidnight
  <2>4. [Dated!Opened(p) EXCEPT ![p] = Append(@, today)] = WithNew(p)
    <3>1. files \in [Dated!Periods -> Seq(Nat) \cup {None}] BY <1>1 DEF DatedTypes
    <3>2. Dated!Opened(p) = [files EXCEPT ![p] = <<>>] BY <1>2, <2>2, <3>1 DEF Dated!Opened
    <3>3. Append(<<>>, today) = <<today>> BY <1>2
    <3> QED BY <1>2, <3>1, <3>2, <3>3 DEF WithNew
  <2>5. \/ /\ current' = p /\ rotation_tp_' = Dated!NextRotation(today) /\ made' = Append(made, p)
           /\ IF DatedCount > 0 THEN Dated!DeleteOld(p, [Dated!Opened(p) EXCEPT ![p] = Append(@, today)])
              ELSE files' = [Dated!Opened(p) EXCEPT ![p] = Append(@, today)]
                /\ UNCHANGED <<filenames_q_, undeleted, dated_faults>>
        \/ /\ current' = None
           /\ UNCHANGED <<files, rotation_tp_, filenames_q_, made, undeleted>>
    BY <1>3, <1>7 DEF Dated!Log
  <2>6. UNCHANGED <<today, running>> BY DEF Dated!Log
  <2> QED BY <1>1, <2>1, <2>2, <2>3, <2>4, <2>5, <2>6 DEF Changes, Fails
<1> QED BY <1>6, <1>7

(* What a start does.                                                      *)
Starts ==
  LET p == Dated!PeriodOf(today)
  IN /\ ~running /\ running' /\ UNCHANGED today
     /\ \E f \in Seq(Nat) : /\ files' = [files EXCEPT ![p] = f]
                            /\ f = <<>> \/ f = files[p]
     /\ current' = p /\ rotation_tp_' = p * PeriodParts + PeriodParts /\ undeleted' = {}
     /\ made' \in Seq(Dated!Periods) /\ Len(made') > 0 /\ made'[Len(made')] = p
     /\ \A i, j \in 1 .. Len(made') : i < j => made'[i] < made'[j]
     /\ DatedCount > 0 => /\ Len(made') <= DatedCount /\ Queueing(filenames_q_', Len(made'), made')
                          /\ \A i \in 1 .. Len(made') : files'[made'[i]] # None

LEMMA StartIs ==
  ASSUME DatedConstants, DatedInv, Dated!Construct
  PROVE  Starts
<1> DEFINE p == Dated!PeriodOf(today)
<1>1. DatedTypes /\ today \in Nat /\ p \in Dated!Periods /\ p \in Nat /\ DatedCount \in Nat
  BY PeriodsAre DEF DatedInv, DatedTypes, DatedConstants
<1>2. files \in [Dated!Periods -> Seq(Nat) \cup {None}] /\ files[p] \in Seq(Nat) \cup {None} BY <1>1 DEF DatedTypes
<1>3. PICK f \in Seq(Nat) : files' = [files EXCEPT ![p] = f] /\ (f = <<>> \/ f = files[p])
  <2>1. files' = [files EXCEPT ![p] = IF truncate_ \/ files[p] = None THEN <<>> ELSE files[p]]
    BY DEF Dated!Construct, Dated!Opened
  <2>2. <<>> \in Seq(Nat) OBVIOUS
  <2> QED BY <1>2, <2>1, <2>2
<1>4. files'[p] # None BY <1>1, <1>2, <1>3 DEF DatedConstants
<1>5. rotation_tp_' = p * PeriodParts + PeriodParts BY <1>1, NextIsMidnight DEF Dated!Construct
<1>6. /\ made' \in Seq(Dated!Periods) /\ Len(made') > 0 /\ made'[Len(made')] = p
      /\ \A i, j \in 1 .. Len(made') : i < j => made'[i] < made'[j]
      /\ DatedCount > 0 => /\ Len(made') <= DatedCount /\ Queueing(filenames_q_', Len(made'), made')
                           /\ \A i \in 1 .. Len(made') : files'[made'[i]] # None
  <2>1. CASE DatedCount = 0
    <3>1. made' = <<p>> BY <2>1 DEF Dated!Construct
    <3>2. <<p>> \in Seq(Dated!Periods) /\ Len(<<p>>) = 1 /\ <<p>>[1] = p BY <1>1
    <3> HIDE DEF p
    <3> QED BY <2>1, <3>1, <3>2
  <2>2. CASE DatedCount > 0
    <3>1. made' = Dated!Found(p, files') /\ filenames_q_' = Dated!Filled(made') BY <1>1, <2>2 DEF Dated!Construct
    <3>2. /\ made' \in Seq(Dated!Periods) /\ Len(made') \in 1 .. DatedCount /\ made'[Len(made')] = p
          /\ \A i \in 1 .. Len(made') : files'[made'[i]] # None
          /\ \A i, j \in 1 .. Len(made') : i < j => made'[i] < made'[j]
      BY <1>1, <1>4, <2>2, <3>1, FoundIs
    <3>3. Len(made') <= DatedCount /\ Len(made') > 0 BY <1>1, <3>2
    <3>4. Queueing(Dated!Filled(made'), Len(made'), made') BY <3>2, <3>3, FilledIs
    <3> QED BY <3>1, <3>2, <3>3, <3>4
  <2> QED BY <1>1, <2>1, <2>2
<1> QED BY <1>3, <1>5, <1>6 DEF Starts, Dated!Construct

(* A change of one file.                                                   *)
LEMMA FileChanged ==
  ASSUME DatedConstants, DatedTypes, today' = today, NEW p \in Dated!Periods, p <= Dated!PeriodOf(today),
           NEW f \in Seq(Nat),
         \A i \in DOMAIN f : Dated!PeriodOf(f[i]) = p, files' = [files EXCEPT ![p] = f], running'
  PROVE  DatedTypes'
<1>1. files' \in [Dated!Periods -> Seq(Nat) \cup {None}] /\ files'[p] = f /\ \A q \in Dated!Periods : q # p
        => files'[q] = files[q]
  BY DEF DatedTypes
<1>2. Dated!PeriodOf(today)' = Dated!PeriodOf(today) /\ Dated!Periods' = Dated!Periods
  BY DEF Dated!PeriodOf, Dated!Periods
<1>3. ASSUME NEW q \in Dated!Existing', NEW i \in DOMAIN files'[q]
      PROVE  Dated!PeriodOf(files'[q][i]) = q
  <2>1. q \in Dated!Periods /\ files'[q] # None BY <1>3 DEF Dated!Existing, Dated!Periods
  <2>2. CASE q = p BY <1>1, <1>3, <2>2
  <2>3. CASE q # p
    <3>1. files'[q] = files[q] /\ q \in Dated!Existing BY <1>1, <2>1, <2>3 DEF Dated!Existing
    <3> QED BY <1>3, <3>1 DEF DatedTypes
  <2> QED BY <2>2, <2>3
<1>4. ASSUME NEW q \in Dated!Existing' PROVE q <= Dated!PeriodOf(today)
  <2>1. q \in Dated!Periods /\ files'[q] # None BY <1>4 DEF Dated!Existing, Dated!Periods
  <2>2. q # p => q \in Dated!Existing BY <1>1, <2>1 DEF Dated!Existing
  <2> QED BY <2>2 DEF DatedTypes
<1>5. today' \in Nat /\ Dated!PeriodOf(today)' \in Dated!Periods' BY <1>2 DEF DatedTypes
<1>6. \A q \in Dated!Existing' : q <= Dated!PeriodOf(today)'
        /\ \A i \in DOMAIN files'[q] : Dated!PeriodOf(files'[q][i]) = q
  BY <1>2, <1>3, <1>4
<1> QED BY <1>1, <1>2, <1>5, <1>6 DEF DatedTypes, Dated!PeriodOf

(* Removing a file, or not, keeps what is known of the others.             *)
LEMMA FileRemoved ==
  ASSUME NEW g \in [Dated!Periods -> Seq(Nat) \cup {None}], NEW v \in Dated!Periods,
         NEW h, h = g \/ h = [g EXCEPT ![v] = None]
  PROVE  /\ h \in [Dated!Periods -> Seq(Nat) \cup {None}]
         /\ \A q \in Dated!Periods : h[q] = g[q] \/ (q = v /\ h[q] = None)
OBVIOUS

(* The file that is removed is the oldest of the last max_files.           *)
LEMMA VictimIs ==
  ASSUME DatedConstants, DatedCount > 0, FileOpen, FilesQueued
  PROVE  /\ Dated!Overdue(filenames_q_) <=> Made >= DatedCount
         /\ Dated!Overdue(filenames_q_) => /\ Made - DatedCount + 1 \in 1 .. Made
                                     /\ Dated!Victim(filenames_q_) = made[Made - DatedCount + 1]
                                     /\ ~Dated!Empty(filenames_q_)
<1>1. Made \in Nat \ {0} /\ DatedCount \in Nat \ {0} BY MadeLast DEF DatedConstants
<1>2. /\ Dated!IsRing(filenames_q_, Queued) /\ filenames_q_.max = DatedCount + 1 /\ Dated!Size(filenames_q_) = Kept
      /\ \A i \in 0 .. Kept - 1 : Dated!At(filenames_q_, i) = made[Made - Kept + 1 + i]
  BY DEF FilesQueued
<1>3. Dated!Full(filenames_q_) <=> Kept = DatedCount BY <1>1, <1>2, Dated!RingSize
<1>4. Dated!Full(filenames_q_) <=> Made >= DatedCount BY <1>1, <1>3 DEF Kept
<1>5. ASSUME Dated!Full(filenames_q_)
      PROVE  Made - DatedCount + 1 \in 1 .. Made /\ Dated!Victim(filenames_q_) = made[Made - DatedCount + 1]
             /\ ~Dated!Empty(filenames_q_)
  <2>1. Kept = DatedCount /\ Made >= DatedCount BY <1>3, <1>4, <1>5
  <2>2. ~Dated!Empty(filenames_q_) BY <1>1, <1>2, <2>1, Dated!RingSize
  <2>3. Dated!Oldest(filenames_q_) = Dated!At(filenames_q_, 0) BY <1>2, <2>2, Dated!Popped
  <2>4. 0 \in 0 .. Kept - 1 /\ Made - Kept + 1 + 0 = Made - DatedCount + 1 BY <1>1, <2>1
  <2>5. Dated!At(filenames_q_, 0) = made[Made - DatedCount + 1] BY <1>2, <2>4
  <2> QED BY <1>1, <2>1, <2>2, <2>3, <2>5 DEF Dated!Victim
<1> QED BY <1>4, <1>5 DEF Dated!Overdue

(* What a change of the file leaves on the disk.                           *)
LEMMA DiskChanged ==
  ASSUME DatedConstants, DatedTypes, FileOpen, DatedCount > 0 => FilesQueued, Changes
  PROVE  LET p == Dated!PeriodOf(today)
             gone == IF DatedCount > 0 /\ Made >= DatedCount THEN {made[Made - DatedCount + 1]} ELSE {}
         IN /\ p \in Dated!Periods /\ p \in Nat /\ p # made[Made] /\ made[Made] < p
            /\ made' \in Seq(Dated!Periods) /\ Len(made') = Made + 1 /\ made'[Made + 1] = p
            /\ \A i \in 1 .. Made : made'[i] = made[i]
            /\ gone \subseteq Dated!Periods /\ p \notin gone
            /\ files' \in [Dated!Periods -> Seq(Nat) \cup {None}]
            /\ files'[p] = <<today>> /\ <<today>> \in Seq(Nat) /\ <<today>> # None
            /\ \A q \in Dated!Periods \ {p} : files'[q] = files[q] \/ (q \in gone /\ files'[q] = None)
            /\ \A q \in gone : \/ files'[q] = None /\ undeleted' = undeleted
                               \/ files'[q] # None /\ undeleted' = undeleted \cup {q}
            /\ gone = {} => undeleted' = undeleted
<1> DEFINE p == Dated!PeriodOf(today)
           gone == IF DatedCount > 0 /\ Made >= DatedCount THEN {made[Made - DatedCount + 1]} ELSE {}
           w == WithNew(p)
<1>1. /\ p \in Dated!Periods /\ p \in Nat /\ made[Made] \in Nat /\ today \in Nat /\ Made \in Nat \ {0}
      /\ \A i \in 1 .. Made : made[i] \in Dated!Periods /\ made[i] \in Nat /\ made[i] <= made[Made]
  BY PeriodsAre, MadeLast DEF DatedTypes
<1>2. p # made[Made] /\ made[Made] < p BY <1>1 DEF Changes
<1>3. /\ made' \in Seq(Dated!Periods) /\ Len(made') = Made + 1 /\ made'[Made + 1] = p
      /\ \A i \in 1 .. Made : made'[i] = made[i]
  BY <1>1, AppendProperties DEF Changes, FileOpen, Made
<1>4. gone \subseteq Dated!Periods /\ p \notin gone
  <2>1. CASE DatedCount > 0 /\ Made >= DatedCount
    <3>1. Made - DatedCount + 1 \in 1 .. Made BY <1>1, <2>1 DEF DatedConstants
    <3>2. made[Made - DatedCount + 1] \in Dated!Periods /\ made[Made - DatedCount + 1] <= made[Made]
          /\ made[Made - DatedCount + 1] \in Nat
      BY <1>1, <3>1
    <3>3. made[Made - DatedCount + 1] # p BY <1>1, <1>2, <3>2
    <3> QED BY <3>2, <3>3
  <2> QED BY <2>1
<1>5. <<today>> \in Seq(Nat) /\ <<today>> # None
  <2>1. <<today>> \in Seq(Nat) BY <1>1
  <2>2. None \notin Seq(Nat) BY DEF DatedConstants
  <2> QED BY <2>1, <2>2
<1>6. /\ w \in [Dated!Periods -> Seq(Nat) \cup {None}] /\ w[p] = <<today>>
      /\ \A q \in Dated!Periods \ {p} : w[q] = files[q]
  BY <1>1, <1>5 DEF WithNew, DatedTypes
<1>7. CASE gone = {}
  <2>1. files' = w /\ undeleted' = undeleted
    <3>1. CASE DatedCount > 0
      <4>1. ~Dated!Overdue(filenames_q_) BY <1>7, <3>1, VictimIs
      <4> QED BY <3>1, <4>1 DEF Changes, Dated!DeleteOld
    <3>2. CASE ~(DatedCount > 0) BY <3>2 DEF Changes
    <3> QED BY <3>1, <3>2
  <2> HIDE DEF w, p
  <2> QED BY <1>1, <1>2, <1>3, <1>5, <1>6, <1>7, <2>1 DEF p
<1>8. CASE gone # {}
  <2>1. DatedCount > 0 /\ Made >= DatedCount BY <1>8
  <2>2. PICK v \in Dated!Periods : v = made[Made - DatedCount + 1] /\ gone = {v} BY <1>4, <2>1
  <2>3. Dated!Overdue(filenames_q_) /\ Dated!Victim(filenames_q_) = v BY <2>1, <2>2, VictimIs
  <2>4. \/ files' = [w EXCEPT ![v] = None] /\ undeleted' = undeleted
        \/ w[v] # None /\ files' = w /\ undeleted' = undeleted \cup {v}
    BY <2>1, <2>3 DEF Changes, Dated!DeleteOld
  <2>5. v # p BY <1>4, <2>2
  <2> HIDE DEF w, p, gone
  <2>6. files' \in [Dated!Periods -> Seq(Nat) \cup {None}] /\ \A q \in Dated!Periods : files'[q] = w[q]
          \/ (q = v /\ files'[q] = None)
    BY <1>6, <2>4, FileRemoved
  <2>7. \/ files'[v] = None /\ undeleted' = undeleted
        \/ files'[v] # None /\ undeleted' = undeleted \cup {v}
    BY <1>6, <2>4
  <2> QED BY <1>1, <1>2, <1>3, <1>4, <1>5, <1>6, <2>2, <2>5, <2>6, <2>7 DEF p, gone
<1> QED BY <1>7, <1>8

LEMMA NextPass ==
  ASSUME DatedConstants, DatedInv, Dated!Pass
  PROVE  DatedInv'
<1>1. today \in Nat /\ today' \in Nat /\ today <= today' /\ today' <= LastTime /\ LastTime \in Nat
        /\ PeriodParts \in Nat \ {0}
  BY DEF DatedInv, DatedTypes, Dated!Pass, DatedConstants
<1>2. Dated!PeriodOf(today) \in Nat /\ Dated!PeriodOf(today') \in Nat /\ Dated!PeriodOf(today) <= Dated!PeriodOf(today')
  BY <1>1, PeriodIs, LaterPeriod
<1>3. Dated!PeriodOf(today') \in Dated!Periods
  <2>1. Dated!PeriodOf(today') <= Dated!PeriodOf(LastTime) /\ Dated!PeriodOf(LastTime) \in Nat
    BY <1>1, PeriodIs, LaterPeriod
  <2>2. Dated!Periods = 0 .. Dated!PeriodOf(LastTime) BY DEF Dated!Periods, Dated!PeriodOf
  <2> QED BY <1>2, <2>1, <2>2
<1>4. UNCHANGED <<files, current, rotation_tp_, filenames_q_, running, made, undeleted>> BY DEF Dated!Pass
<1>5. Dated!PeriodOf(today)' = Dated!PeriodOf(today') /\ Dated!Periods' = Dated!Periods
        /\ Dated!Existing' = Dated!Existing /\ Made' = Made /\ Kept' = Kept
  BY <1>4 DEF Dated!PeriodOf, Dated!Periods, Dated!Existing, Made, Kept
<1>6. DatedTypes'
  <2>1. \A p \in Dated!Existing : p \in Nat /\ p <= Dated!PeriodOf(today')
    BY <1>2, PeriodsAre DEF DatedInv, DatedTypes, Dated!Existing
  <2>2. \A p \in Dated!Existing : \A i \in DOMAIN files[p] : Dated!PeriodOf(files[p][i])' = p
    <3>1. \A p \in Dated!Existing : \A i \in DOMAIN files[p] : Dated!PeriodOf(files[p][i]) = p
      BY DEF DatedInv, DatedTypes
    <3> QED BY <1>4, <3>1 DEF Dated!PeriodOf
  <2> QED BY <1>1, <1>3, <1>4, <1>5, <2>1, <2>2 DEF DatedInv, DatedTypes
<1>7. ASSUME FileOpen PROVE FileOpen'
  <2>1. made[Made] \in Nat BY <1>7, MadeLast
  <2>2. current = None => made[Made] < Dated!PeriodOf(today') BY <1>2, <1>7, <2>1 DEF FileOpen
  <2> QED BY <1>4, <1>5, <1>7, <2>2 DEF FileOpen
<1>8. FilesQueued => FilesQueued' BY <1>4, <1>5 DEF FilesQueued, Dated!IsRing, Dated!Size, Dated!At, Queued
<1>9. OldDeleted => OldDeleted' BY <1>4, <1>5 DEF OldDeleted
<1> QED BY <1>4, <1>6, <1>7, <1>8, <1>9 DEF DatedInv

LEMMA NextStart ==
  ASSUME DatedConstants, DatedInv, Dated!Construct
  PROVE  DatedInv'
<1> DEFINE p == Dated!PeriodOf(today)
<1>1. Starts BY StartIs
<1>2. DatedTypes /\ p \in Dated!Periods /\ p \in Nat /\ files \in [Dated!Periods -> Seq(Nat) \cup {None}]
  BY PeriodsAre DEF DatedInv, DatedTypes
<1>3. PICK f \in Seq(Nat) : files' = [files EXCEPT ![p] = f] /\ (f = <<>> \/ f = files[p]) BY <1>1 DEF Starts
<1>4. today' = today /\ running' BY <1>1 DEF Starts
<1>5. DatedTypes'
  <2>1. \A i \in DOMAIN f : Dated!PeriodOf(f[i]) = p
    <3>1. CASE f = <<>> BY <3>1
    <3>2. CASE f = files[p]
      <4>1. p \in Dated!Existing BY <1>2, <3>2 DEF Dated!Existing, DatedConstants
      <4> QED BY <1>2, <3>2, <4>1 DEF DatedTypes
    <3> QED BY <1>3, <3>1, <3>2
  <2>2. p <= Dated!PeriodOf(today) BY <1>2
  <2> HIDE DEF p
  <2> QED BY <1>2, <1>3, <1>4, <2>1, <2>2, FileChanged
<1>6. Dated!PeriodOf(today)' = p /\ Dated!Periods' = Dated!Periods BY <1>4 DEF Dated!PeriodOf, Dated!Periods
<1>7. f # None /\ files'[p] = f /\ \A q \in Dated!Periods : q # p => files'[q] = files[q]
  BY <1>2, <1>3 DEF DatedConstants
<1>8. FileOpen'
  <2>1. ASSUME NEW q \in Dated!Existing' PROVE q <= p
    <3>1. q \in Dated!Periods /\ files'[q] # None BY <2>1 DEF Dated!Existing, Dated!Periods
    <3>2. q # p => q \in Dated!Existing BY <1>7, <3>1 DEF Dated!Existing
    <3> QED BY <1>2, <3>2 DEF DatedTypes
  <2>2. p # None BY <1>2 DEF DatedConstants
  <2> QED BY <1>1, <1>6, <1>7, <2>1, <2>2 DEF FileOpen, Starts, Made
<1>9. ASSUME DatedCount > 0 PROVE FilesQueued' /\ OldDeleted'
  <2>1. /\ Made' > 0 /\ Made' <= DatedCount /\ Queueing(filenames_q_', Made', made') /\ undeleted' = {}
        /\ \A i \in 1 .. Made' : files'[made'[i]] # None
    BY <1>1, <1>9 DEF Starts, Made
  <2>2. Made' \in Nat /\ DatedCount \in Nat BY <1>1 DEF Made, Starts, DatedConstants
  <2>3. Kept' = Made' BY <2>1, <2>2 DEF Kept
  <2>4. \A i \in 0 .. Made' - 1 : Dated!At(filenames_q_', i) = made'[Made' - Made' + 1 + i]
    <3>1. \A m \in Nat : \A i \in 0 .. m - 1 : m - m + 1 + i = i + 1 OBVIOUS
    <3>2. \A i \in 0 .. Made' - 1 : Made' - Made' + 1 + i = i + 1 BY <2>2, <3>1, Zenon
    <3>3. \A i \in 0 .. Made' - 1 : Dated!At(filenames_q_', i) = made'[i + 1] BY <2>1 DEF Queueing
    <3> QED BY <3>2, <3>3, Zenon
  <2>5. FilesQueued'
    BY <2>1, <2>3, <2>4 DEF Queueing, FilesQueued, Dated!IsRing, Dated!Size, Dated!At, Queued, Dated!Periods
  <2>6. \A i \in 1 .. Made' : i > Made' - DatedCount BY <2>1, <2>2
  <2>7. OldDeleted' BY <2>1, <2>6 DEF OldDeleted
  <2> QED BY <2>5, <2>7
<1> QED BY <1>5, <1>8, <1>9 DEF DatedInv

LEMMA NextContinues ==
  ASSUME DatedConstants, DatedInv, running, Continues
  PROVE  DatedInv'
<1> DEFINE p == current
           f == Append(files[p], today)
<1>1. DatedTypes /\ FileOpen /\ today \in Nat /\ files \in [Dated!Periods -> Seq(Nat) \cup {None}]
        /\ p = Dated!PeriodOf(today) /\ p \in Dated!Periods
  BY DEF DatedInv, DatedTypes, Continues
<1>2. /\ files' = [files EXCEPT ![p] = f] /\ p = made[Made] /\ p # None
      /\ UNCHANGED <<today, running, current, rotation_tp_, filenames_q_, made, undeleted>>
  BY <1>1 DEF Continues
<1>3. files[p] # None /\ files[p] \in Seq(Nat) BY <1>1, <1>2 DEF FileOpen
<1>4. f \in Seq(Nat) /\ \A i \in DOMAIN f : f[i] = today \/ (i \in DOMAIN files[p] /\ f[i] = files[p][i])
  <2> DEFINE g == files[p]
  <2>1. g \in Seq(Nat) BY <1>3
  <2> HIDE DEF g
  <2>2. /\ Append(g, today) \in Seq(Nat) /\ Len(Append(g, today)) = Len(g) + 1 /\ Len(g) \in Nat
        /\ \A i \in 1 .. Len(g) : Append(g, today)[i] = g[i]
        /\ Append(g, today)[Len(g) + 1] = today
    BY <1>1, <2>1, AppendProperties
  <2>3. DOMAIN Append(g, today) = 1 .. Len(g) + 1 /\ DOMAIN g = 1 .. Len(g) BY <2>1, <2>2
  <2>4. \A i \in 1 .. Len(g) + 1 : i = Len(g) + 1 \/ i \in 1 .. Len(g) BY <2>2
  <2> QED BY <2>2, <2>3, <2>4 DEF g
<1> HIDE DEF f
<1>5. p \in Dated!Existing BY <1>1, <1>3 DEF Dated!Existing
<1>6. \A i \in DOMAIN f : Dated!PeriodOf(f[i]) = p BY <1>1, <1>4, <1>5 DEF DatedTypes
<1>7. p <= Dated!PeriodOf(today)
  <2>1. p \in Nat BY <1>1, PeriodsAre
  <2> QED BY <1>1, <2>1
<1>8. DatedTypes'
  <2> HIDE DEF p
  <2> QED BY <1>1, <1>2, <1>4, <1>6, <1>7, FileChanged
<1>9. f # None /\ files'[p] = f /\ \A q \in Dated!Periods : (files'[q] = None <=> files[q] = None)
  <2>1. f # None BY <1>4 DEF DatedConstants
  <2>2. files'[p] = f /\ \A q \in Dated!Periods : q # p => files'[q] = files[q] BY <1>1, <1>2
  <2> QED BY <1>3, <2>1, <2>2
<1>10. Dated!Existing' = Dated!Existing /\ Dated!Periods' = Dated!Periods /\ Made' = Made /\ Kept' = Kept
         /\ Dated!PeriodOf(today)' = Dated!PeriodOf(today)
  BY <1>2, <1>9 DEF Dated!Existing, Dated!Periods, Made, Kept, Dated!PeriodOf
<1>11. FileOpen' BY <1>1, <1>2, <1>9, <1>10 DEF FileOpen
<1>12. FilesQueued => FilesQueued' BY <1>2, <1>10 DEF FilesQueued, Dated!IsRing, Dated!Size, Dated!At, Queued
<1>13. OldDeleted => OldDeleted'
  <2>1. \A i \in 1 .. Made : made[i] \in Dated!Periods BY <1>1, MadeLast
  <2> QED BY <1>2, <1>9, <1>10, <2>1 DEF OldDeleted
<1> QED BY <1>2, <1>8, <1>11, <1>12, <1>13 DEF DatedInv

LEMMA NextFails ==
  ASSUME DatedConstants, DatedInv, running, Fails
  PROVE  DatedInv'
<1>1. /\ UNCHANGED <<today, running, files, rotation_tp_, filenames_q_, made, undeleted>> /\ current' = None
      /\ made[Made] < Dated!PeriodOf(today)
  BY DEF Fails
<1>2. Dated!Existing' = Dated!Existing /\ Dated!Periods' = Dated!Periods /\ Made' = Made /\ Kept' = Kept
        /\ Dated!PeriodOf(today)' = Dated!PeriodOf(today)
  BY <1>1 DEF Dated!Existing, Dated!Periods, Made, Kept, Dated!PeriodOf
<1>3. DatedTypes' BY <1>1, <1>2 DEF DatedInv, DatedTypes, Dated!PeriodOf
<1>4. FileOpen' BY <1>1, <1>2 DEF DatedInv, FileOpen
<1>5. FilesQueued => FilesQueued' BY <1>1, <1>2 DEF FilesQueued, Dated!IsRing, Dated!Size, Dated!At, Queued
<1>6. OldDeleted => OldDeleted' BY <1>1, <1>2 DEF OldDeleted
<1> QED BY <1>1, <1>3, <1>4, <1>5, <1>6 DEF DatedInv

LEMMA NextChanges ==
  ASSUME DatedConstants, DatedInv, running, Changes
  PROVE  DatedInv'
<1> DEFINE p == Dated!PeriodOf(today)
           gone == IF DatedCount > 0 /\ Made >= DatedCount THEN {made[Made - DatedCount + 1]} ELSE {}
<1>1. DatedTypes /\ FileOpen /\ (DatedCount > 0 => FilesQueued /\ OldDeleted) BY DEF DatedInv
<1>2. /\ p \in Dated!Periods /\ p \in Nat /\ p # made[Made] /\ made[Made] < p
      /\ made' \in Seq(Dated!Periods) /\ Len(made') = Made + 1 /\ made'[Made + 1] = p
      /\ \A i \in 1 .. Made : made'[i] = made[i]
      /\ gone \subseteq Dated!Periods /\ p \notin gone
      /\ files' \in [Dated!Periods -> Seq(Nat) \cup {None}]
      /\ files'[p] = <<today>> /\ <<today>> \in Seq(Nat) /\ <<today>> # None
      /\ \A q \in Dated!Periods \ {p} : files'[q] = files[q] \/ (q \in gone /\ files'[q] = None)
      /\ \A q \in gone : \/ files'[q] = None /\ undeleted' = undeleted
                         \/ files'[q] # None /\ undeleted' = undeleted \cup {q}
      /\ gone = {} => undeleted' = undeleted
  BY <1>1, DiskChanged
<1>3. UNCHANGED <<today, running>> /\ current' = p /\ rotation_tp_' = p * PeriodParts + PeriodParts BY DEF Changes
<1>4. /\ Made \in Nat \ {0} /\ DatedCount \in Nat /\ today \in Nat
      /\ \A i \in 1 .. Made : made[i] \in Dated!Periods /\ made[i] \in Nat /\ made[i] <= made[Made]
      /\ \A i, j \in 1 .. Made : i < j => made[i] < made[j]
  BY <1>1, MadeLast DEF DatedTypes, DatedConstants, FileOpen
<1>5. Dated!PeriodOf(today)' = p /\ Dated!Periods' = Dated!Periods /\ Made' = Made + 1
  BY <1>2, <1>3 DEF Dated!PeriodOf, Dated!Periods, Made
<1> HIDE DEF gone
<1>6. ASSUME NEW q \in Dated!Existing' PROVE q = p \/ (q \in Dated!Existing /\ files'[q] = files[q])
  <2>1. q \in Dated!Periods /\ files'[q] # None BY <1>6 DEF Dated!Existing, Dated!Periods
  <2> QED BY <1>2, <2>1 DEF Dated!Existing
<1>7. DatedTypes'
  <2>1. ASSUME NEW q \in Dated!Existing', NEW i \in DOMAIN files'[q] PROVE q <= p /\ Dated!PeriodOf(files'[q][i]) = q
    <3>1. CASE q = p
      <4>1. i = 1 /\ <<today>>[1] = today
        <5>1. i \in DOMAIN <<today>> BY <1>2, <2>1, <3>1
        <5> QED BY <5>1
      <4> HIDE DEF p
      <4> QED BY <1>2, <3>1, <4>1 DEF p
    <3>2. CASE q \in Dated!Existing /\ files'[q] = files[q] BY <1>1, <2>1, <3>2 DEF DatedTypes
    <3> QED BY <1>6, <3>1, <3>2
  <2>2. ASSUME NEW q \in Dated!Existing' PROVE q <= p
    <3>1. q = p \/ q \in Dated!Existing BY <1>6
    <3>2. q \in Dated!Existing => q <= p BY <1>1 DEF DatedTypes
    <3> QED BY <1>2, <3>1, <3>2
  <2> QED BY <1>1, <1>2, <1>3, <1>5, <2>1, <2>2 DEF DatedTypes, Dated!PeriodOf
<1>8. \A i, j \in 1 .. Made + 1 : i < j => made'[i] < made'[j]
  <2> TAKE i, j \in 1 .. Made + 1
  <2> HAVE i < j
  <2>0. i \in 1 .. Made BY <1>4
  <2>1. made'[i] = made[i] /\ made[i] \in Nat /\ made[i] <= made[Made] BY <1>2, <1>4, <2>0
  <2>2. CASE j = Made + 1
    <3>1. made[Made] \in Nat BY <1>4
    <3> HIDE DEF p
    <3> QED BY <1>2, <2>1, <2>2, <3>1
  <2>3. CASE j # Made + 1
    <3>1. j \in 1 .. Made BY <1>4, <2>3
    <3> QED BY <1>2, <1>4, <2>0, <2>1, <3>1
  <2> QED BY <2>2, <2>3
<1>9. FileOpen'
  <2>1. ASSUME NEW q \in Dated!Existing' PROVE q <= p
    <3>1. q = p \/ q \in Dated!Existing BY <1>6
    <3>2. q \in Dated!Existing => q <= p BY <1>1 DEF DatedTypes
    <3> QED BY <1>2, <3>1, <3>2
  <2>2. p # None BY <1>2 DEF DatedConstants
  <2>3. Made + 1 > 0 BY <1>4
  <2> QED BY <1>2, <1>3, <1>5, <1>8, <2>1, <2>2, <2>3 DEF FileOpen
<1>10. ASSUME DatedCount > 0 PROVE FilesQueued'
  <2> DEFINE q == filenames_q_
             r == filenames_q_'
  <2>1. /\ Dated!IsRing(q, Queued) /\ q.max = DatedCount + 1 /\ Dated!Size(q) = Kept /\ Kept \in Nat
        /\ \A i \in 0 .. Kept - 1 : Dated!At(q, i) = made[Made - Kept + 1 + i]
    BY <1>1, <1>4, <1>10 DEF FilesQueued, Kept
  <2>2. /\ Dated!Overdue(q) <=> Made >= DatedCount
        /\ Dated!Overdue(q) => ~Dated!Empty(q)
    BY <1>1, <1>10, VictimIs
  <2>3. p \in Queued /\ Queued' = Queued BY <1>2, <1>5 DEF Queued
  <2>4. r = IF Made >= DatedCount THEN Dated!PushBack(Dated!PopFront(q), p) ELSE Dated!PushBack(q, p)
    BY <1>10, <2>2 DEF Changes, Dated!DeleteOld
  <2> HIDE DEF q, r, p
  <2>5. CASE Made >= DatedCount
    <3> DEFINE s == Dated!PopFront(q)
    <3>1. Kept = DatedCount /\ Kept' = DatedCount BY <1>4, <1>5, <1>10, <2>5 DEF Kept
    <3>2. /\ Dated!IsRing(s, Queued) /\ s.max = q.max /\ Dated!Size(s) = DatedCount - 1
          /\ \A i \in 0 .. DatedCount - 2 : Dated!At(s, i) = Dated!At(q, i + 1)
      BY <2>1, <2>2, <2>5, <3>1, Dated!Popped
    <3> HIDE DEF s
    <3>3. s.max > 0 /\ ~Dated!Full(s) BY <1>4, <1>10, <2>1, <3>2, Dated!RingSize
    <3>4. /\ Dated!IsRing(r, Queued) /\ r.max = q.max /\ Dated!Size(r) = DatedCount - 1 + 1
          /\ \A i \in 0 .. DatedCount - 1 : Dated!At(r, i) = IF i = DatedCount - 1 THEN p ELSE Dated!At(s, i)
      BY <2>3, <2>4, <2>5, <3>2, <3>3, Dated!Pushed DEF s
    <3>5. ASSUME NEW i \in 0 .. DatedCount - 1 PROVE Dated!At(r, i) = made'[Made + 1 - DatedCount + 1 + i]
      <4>1. CASE i = DatedCount - 1
        <5>1. Made + 1 - DatedCount + 1 + i = Made + 1 BY <1>4, <4>1
        <5>2. Dated!At(r, i) = p BY <3>4, <4>1
        <5> QED BY <1>2, <5>1, <5>2
      <4>2. CASE i # DatedCount - 1
        <5>1. /\ i \in 0 .. DatedCount - 2 /\ i + 1 \in 0 .. Kept - 1
              /\ Made - Kept + 1 + (i + 1) = Made + 1 - DatedCount + 1 + i
              /\ Made + 1 - DatedCount + 1 + i \in 1 .. Made
          BY <1>4, <1>10, <2>5, <3>1, <4>2
        <5>2. Dated!At(r, i) = Dated!At(q, i + 1) BY <3>2, <3>4, <4>2, <5>1
        <5>3. Dated!At(q, i + 1) = made[Made + 1 - DatedCount + 1 + i] BY <2>1, <5>1
        <5>4. made'[Made + 1 - DatedCount + 1 + i] = made[Made + 1 - DatedCount + 1 + i] BY <1>2, <5>1
        <5> QED BY <5>2, <5>3, <5>4
      <4> QED BY <4>1, <4>2
    <3>6. DatedCount - 1 + 1 = DatedCount BY <1>4
    <3>7. Dated!IsRing(r, Queued) /\ r.max = DatedCount + 1 /\ Dated!Size(r) = Kept' BY <2>1, <3>1, <3>4, <3>6
    <3>8. Made' \in Nat /\ Kept' \in Nat BY <1>4, <1>5, <3>1
    <3>9. \A i \in 0 .. Kept' - 1 : Dated!At(r, i) = made'[Made' - Kept' + 1 + i] BY <1>4, <1>5, <3>1, <3>5, <3>8
    <3> QED BY <2>3, <3>7, <3>9 DEF FilesQueued, Dated!IsRing, Dated!Size, Dated!At, r
  <2>6. CASE ~(Made >= DatedCount)
    <3>1. Kept = Made /\ Kept' = Made + 1 BY <1>4, <1>5, <2>6 DEF Kept
    <3>2. q.max > 0 /\ ~Dated!Full(q) BY <1>4, <2>1, <2>6, <3>1, Dated!RingSize
    <3>3. /\ Dated!IsRing(r, Queued) /\ r.max = q.max /\ Dated!Size(r) = Made + 1
          /\ \A i \in 0 .. Made : Dated!At(r, i) = IF i = Made THEN p ELSE Dated!At(q, i)
      BY <2>1, <2>3, <2>4, <2>6, <3>1, <3>2, Dated!Pushed
    <3>4. ASSUME NEW i \in 0 .. Made + 1 - 1 PROVE Dated!At(r, i) = made'[Made + 1 - (Made + 1) + 1 + i]
      <4>1. Made + 1 - (Made + 1) + 1 + i = i + 1 /\ i \in 0 .. Made BY <1>4
      <4>2. CASE i = Made BY <1>2, <3>3, <4>1, <4>2
      <4>3. CASE i # Made
        <5>1. i \in 0 .. Kept - 1 /\ Made - Kept + 1 + i = i + 1 /\ i + 1 \in 1 .. Made BY <1>4, <3>1, <4>1, <4>3
        <5> QED BY <1>2, <2>1, <3>3, <4>1, <4>3, <5>1
      <4> QED BY <4>2, <4>3
    <3>5. Dated!IsRing(r, Queued) /\ r.max = DatedCount + 1 /\ Dated!Size(r) = Kept' BY <2>1, <3>1, <3>3
    <3>6. Made' \in Nat /\ Kept' \in Nat BY <1>4, <1>5, <3>1
    <3>7. \A i \in 0 .. Kept' - 1 : Dated!At(r, i) = made'[Made' - Kept' + 1 + i] BY <1>4, <1>5, <3>1, <3>4, <3>6
    <3> QED BY <2>3, <3>5, <3>7 DEF FilesQueued, Dated!IsRing, Dated!Size, Dated!At, r
  <2> QED BY <2>5, <2>6
<1>11. ASSUME DatedCount > 0 PROVE OldDeleted'
  <2> DEFINE v == Made - DatedCount + 1
  <2>1. /\ \A i \in 1 .. Made : files[made[i]] # None <=> i > Made - DatedCount \/ made[i] \in undeleted
        /\ \A x \in undeleted : \E i \in 1 .. Made : x = made[i] /\ i <= Made - DatedCount
    BY <1>1, <1>11 DEF OldDeleted
  <2>2. \A i, j \in 1 .. Made : made[i] = made[j] => i = j
    <3> TAKE i, j \in 1 .. Made
    <3>1. made[i] \in Nat /\ made[j] \in Nat /\ (i < j => made[i] < made[j]) /\ (j < i => made[j] < made[i]) BY <1>4
    <3> QED BY <3>1
  <2>3. gone = IF Made >= DatedCount THEN {made[v]} ELSE {} BY <1>11 DEF gone
  <2>4. Made >= DatedCount => v \in 1 .. Made BY <1>4, <1>11
  <2>5. ASSUME NEW i \in 1 .. Made PROVE made[i] # p
    <3>1. made[i] \in Nat /\ made[i] <= made[Made] /\ made[Made] \in Nat BY <1>4
    <3> HIDE DEF p
    <3> QED BY <1>2, <3>1
  <2>6. ASSUME NEW i \in 1 .. Made, Made >= DatedCount => i # v
        PROVE  /\ files'[made[i]] = files[made[i]]
               /\ made[i] \in undeleted' <=> made[i] \in undeleted
               /\ i > Made - DatedCount <=> i > Made + 1 - DatedCount
    <3>1. made[i] \notin gone BY <2>2, <2>3, <2>4, <2>6
    <3>2. files'[made[i]] = files[made[i]] BY <1>2, <1>4, <2>5, <3>1
    <3>3. undeleted' = undeleted \/ \E x \in gone : undeleted' = undeleted \cup {x} BY <1>2
    <3>4. i > Made - DatedCount <=> i > Made + 1 - DatedCount BY <1>4, <2>6
    <3> QED BY <3>1, <3>2, <3>3, <3>4
  <2>7. ASSUME Made >= DatedCount
        PROVE  /\ files'[made[v]] # None <=> made[v] \in undeleted'
               /\ ~(v > Made + 1 - DatedCount) /\ v \in 1 .. Made
    <3>1. made[v] \notin undeleted
      <4>1. ASSUME made[v] \in undeleted PROVE FALSE
        <5>1. PICK i \in 1 .. Made : made[v] = made[i] /\ i <= Made - DatedCount BY <2>1, <4>1
        <5>2. v = i BY <2>2, <2>4, <2>7, <5>1
        <5> QED BY <1>4, <5>1, <5>2
      <4> QED BY <4>1
    <3>2. made[v] \in gone BY <2>3, <2>7
    <3>3. \/ files'[made[v]] = None /\ undeleted' = undeleted
          \/ files'[made[v]] # None /\ undeleted' = undeleted \cup {made[v]}
      <4> HIDE DEF v, p
      <4> QED BY <1>2, <3>2
    <3> QED BY <1>4, <2>4, <2>7, <3>1, <3>3
  <2> HIDE DEF v, p
  <2>8. ASSUME NEW i \in 1 .. Made + 1
        PROVE  files'[made'[i]] # None <=> i > Made + 1 - DatedCount \/ made'[i] \in undeleted'
    <3>1. CASE i = Made + 1
      <4>1. made'[i] = p /\ files'[p] # None BY <1>2, <3>1
      <4>2. i > Made + 1 - DatedCount BY <1>4, <1>11, <3>1
      <4> QED BY <4>1, <4>2
    <3>2. CASE i # Made + 1
      <4>1. i \in 1 .. Made /\ made'[i] = made[i] BY <1>2, <1>4, <3>2
      <4> QED BY <2>1, <2>6, <2>7, <4>1
    <3> QED BY <3>1, <3>2
  <2>9. ASSUME NEW x \in undeleted'
        PROVE  \E i \in 1 .. Made + 1 : x = made'[i] /\ i <= Made + 1 - DatedCount
    <3>1. CASE x \in undeleted
      <4>1. PICK i \in 1 .. Made : x = made[i] /\ i <= Made - DatedCount BY <2>1, <3>1
      <4>2. i \in 1 .. Made + 1 /\ made'[i] = made[i] /\ i <= Made + 1 - DatedCount BY <1>2, <1>4, <4>1
      <4> QED BY <4>1, <4>2
    <3>2. CASE x \notin undeleted
      <4>1. gone # {} /\ x \in gone BY <1>2, <3>2
      <4>2. Made >= DatedCount /\ x = made[v] BY <2>3, <4>1
      <4>3. v \in 1 .. Made /\ v \in 1 .. Made + 1 /\ v <= Made + 1 - DatedCount /\ made'[v] = made[v]
        BY <1>2, <1>4, <2>4, <4>2 DEF v
      <4> QED BY <4>2, <4>3
    <3> QED BY <3>1, <3>2
  <2>10. Made' = Made + 1 /\ Made' \in Nat BY <1>4, <1>5
  <2>11. \A i \in 1 .. Made' : files'[made'[i]] # None <=> i > Made' - DatedCount \/ made'[i] \in undeleted'
    BY <1>4, <2>8, <2>10
  <2>12. \A x \in undeleted' : \E i \in 1 .. Made' : x = made'[i] /\ i <= Made' - DatedCount
    BY <1>4, <2>9, <2>10
  <2> QED BY <2>11, <2>12, Zenon DEF OldDeleted
<1> QED BY <1>3, <1>7, <1>9, <1>10, <1>11 DEF DatedInv

LEMMA NextDated ==
  ASSUME DatedConstants, DatedInv, [Dated!Next]_(Dated!vars)
  PROVE  DatedInv'
<1>1. CASE Dated!Construct BY <1>1, NextStart
<1>2. CASE Dated!Pass BY <1>2, NextPass
<1>3. CASE Dated!Stop
  <2>1. UNCHANGED <<today, files>> /\ current' = None /\ ~running' BY <1>3 DEF Dated!Stop
  <2>2. Dated!Existing' = Dated!Existing BY <2>1 DEF Dated!Existing, Dated!Periods
  <2>3. DatedTypes' BY <2>1, <2>2 DEF DatedInv, DatedTypes, Dated!PeriodOf, Dated!Periods
  <2> QED BY <2>1, <2>3 DEF DatedInv
<1>4. ASSUME NEW t \in 0 .. LastTime, Dated!Log(t) PROVE DatedInv'
  BY <1>4, LogIs, NextContinues, NextChanges, NextFails
<1>5. CASE UNCHANGED Dated!vars
  <2>1. UNCHANGED <<today, files, current, rotation_tp_, filenames_q_, running, made, undeleted>> BY <1>5 DEF Dated!vars
  <2>2. Dated!Existing' = Dated!Existing /\ Made' = Made /\ Kept' = Kept
    BY <2>1 DEF Dated!Existing, Dated!Periods, Made, Kept
  <2>3. DatedTypes' BY <2>1, <2>2 DEF DatedInv, DatedTypes, Dated!PeriodOf, Dated!Periods
  <2>4. FileOpen => FileOpen' BY <2>1, <2>2 DEF FileOpen, Dated!PeriodOf, Dated!Periods
  <2>5. FilesQueued => FilesQueued'
    BY <2>1, <2>2 DEF FilesQueued, Dated!IsRing, Dated!Size, Dated!At, Queued, Dated!Periods
  <2>6. OldDeleted => OldDeleted' BY <2>1, <2>2 DEF OldDeleted
  <2> QED BY <2>1, <2>3, <2>4, <2>5, <2>6 DEF DatedInv
<1> QED BY <1>1, <1>2, <1>3, <1>4, <1>5 DEF Dated!Next

Grows(s, t) == Len(s) <= Len(t) /\ SubSeq(t, 1, Len(s)) = s

LEMMA GrowsByOne ==
  ASSUME NEW s \in Seq(Nat), NEW x \in Nat
  PROVE  Grows(s, s) /\ Grows(s, Append(s, x))
<1> DEFINE t == Append(s, x)
           n == Len(s)
<1>1. /\ t \in Seq(Nat) /\ Len(t) = n + 1 /\ n \in Nat
      /\ \A i \in 1 .. n : t[i] = s[i] /\ s[i] \in Nat /\ t[i] \in Nat
  BY AppendProperties
<1> HIDE DEF t
<1> DEFINE g == SubSeq(s, 1, n)
           h == SubSeq(t, 1, n)
<1>2. /\ g \in Seq(Nat) /\ Len(g) = IF 1 <= n THEN n - 1 + 1 ELSE 0
      /\ \A i \in 1 .. n - 1 + 1 : g[i] = s[1 + i - 1]
  BY <1>1, SubSeqProperties
<1>3. /\ h \in Seq(Nat) /\ Len(h) = IF 1 <= n THEN n - 1 + 1 ELSE 0
      /\ \A i \in 1 .. n - 1 + 1 : h[i] = t[1 + i - 1]
  BY <1>1, SubSeqProperties
<1> HIDE DEF g, h
<1>4. \A i \in 1 .. n : i \in 1 .. n - 1 + 1 /\ 1 + i - 1 = i BY <1>1
<1>5. Len(g) = n /\ Len(h) = n BY <1>1, <1>2, <1>3
<1>6. \A i \in 1 .. n : g[i] = s[i] /\ h[i] = s[i] BY <1>1, <1>2, <1>3, <1>4
<1>7. g = s BY <1>2, <1>5, <1>6, SeqEqual
<1>8. h = s BY <1>3, <1>5, <1>6, SeqEqual
<1> QED BY <1>1, <1>7, <1>8 DEF Grows, g, h, t

LEMMA DatedAsPromised ==
  ASSUME DatedConstants, DatedInv
  PROVE  Dated!InItsFile /\ Dated!LastFilesKept
<1>1. Dated!InItsFile BY DEF DatedInv, DatedTypes, Dated!InItsFile
<1>2. ASSUME running, DatedCount > 0 PROVE Dated!LastFilesKept
  <2> DEFINE recent == {made[j] : j \in {k \in DOMAIN made : k > Len(made) - DatedCount}}
  <2>1. FileOpen /\ OldDeleted BY <1>2 DEF DatedInv
  <2>2. /\ DOMAIN made = 1 .. Made /\ Made = Len(made) /\ Made \in Nat /\ DatedCount \in Nat
        /\ \A i \in 1 .. Made : made[i] \in Nat
    BY <2>1, MadeLast DEF FileOpen, Made, DatedConstants
  <2>3. ASSUME NEW i \in 1 .. Made PROVE made[i] \in recent <=> i > Made - DatedCount
    <3>1. ASSUME NEW j \in 1 .. Made, made[j] = made[i] PROVE j = i
      <4>1. (j < i => made[j] < made[i]) /\ (i < j => made[i] < made[j]) BY <2>1 DEF FileOpen
      <4> QED BY <2>2, <3>1, <4>1
    <3> QED BY <2>2, <3>1
  <2>4. \A i \in 1 .. Made : files[made[i]] # None <=> made[i] \in recent \/ made[i] \in undeleted
    BY <2>1, <2>3 DEF OldDeleted
  <2> QED BY <2>2, <2>4 DEF Dated!LastFilesKept
<1> QED BY <1>1, <1>2 DEF Dated!LastFilesKept

LEMMA NextKeeps ==
  ASSUME DatedConstants, DatedInv, DatedInv', [Dated!Next]_(Dated!vars)
  PROVE  /\ current' # None => files'[current'] # None
         /\ running => \A p \in Dated!Existing : files'[p] # None => Grows(files[p], files'[p])
<1>1. current' # None => files'[current'] # None BY DEF DatedInv, DatedTypes, FileOpen
<1>2. ASSUME running, NEW p \in Dated!Existing, files'[p] # None PROVE Grows(files[p], files'[p])
  <2>1. DatedTypes /\ FileOpen BY <1>2 DEF DatedInv
  <2>2. p \in Dated!Periods /\ files[p] # None /\ files[p] \in Seq(Nat) /\ today \in Nat
        /\ files \in [Dated!Periods -> Seq(Nat) \cup {None}]
    BY <2>1 DEF DatedTypes, Dated!Existing
  <2>3. files'[p] = files[p] \/ files'[p] = Append(files[p], today)
    <3>1. ASSUME NEW t \in 0 .. LastTime, Dated!Log(t) PROVE files'[p] = files[p] \/ files'[p] = Append(files[p], today)
      <4>1. CASE Continues BY <2>2, <4>1 DEF Continues
      <4>2. CASE Changes
        <5>1. DatedCount > 0 => FilesQueued BY <1>2 DEF DatedInv
        <5> DEFINE gone == IF DatedCount > 0 /\ Made >= DatedCount THEN {made[Made - DatedCount + 1]} ELSE {}
        <5>2. \A q \in Dated!Periods \ {Dated!PeriodOf(today)} : files'[q] = files[q]
                \/ (q \in gone /\ files'[q] = None)
          BY <2>1, <4>2, <5>1, DiskChanged
        <5>3. p # Dated!PeriodOf(today) BY <2>2, <4>2 DEF Changes
        <5> HIDE DEF gone
        <5> QED BY <1>2, <2>2, <5>2, <5>3
      <4>3. CASE Fails BY <4>3 DEF Fails
      <4> QED BY <3>1, <4>1, <4>2, <4>3, LogIs
    <3>2. ~Dated!Construct BY <1>2 DEF Dated!Construct
    <3>3. Dated!Stop \/ Dated!Pass \/ UNCHANGED Dated!vars => files' = files BY DEF Dated!Stop, Dated!Pass, Dated!vars
    <3> QED BY <3>1, <3>2, <3>3 DEF Dated!Next
  <2> QED BY <2>2, <2>3, GrowsByOne
<1> QED BY <1>1, <1>2

(* Whatever the periods, the number of files and the errors, a message is  *)
(* in the file of its period, the last files are kept and the others go,   *)
(* never the one that is written, and no rotation empties a file.          *)
THEOREM DatedFilesAreKept ==
  ASSUME DatedConstants
  PROVE  Dated!Spec => [](Dated!InItsFile /\ Dated!LastFilesKept) /\ Dated!CurrentKept /\ Dated!NothingTruncated
<1>1. Dated!Init => DatedInv BY DatedBegins
<1>2. DatedInv /\ [Dated!Next]_(Dated!vars) => DatedInv' BY NextDated
<1>3. DatedInv => Dated!InItsFile /\ Dated!LastFilesKept BY DatedAsPromised
<1>4. DatedInv /\ DatedInv' /\ [Dated!Next]_(Dated!vars) =>
        [current' # None => files'[current'] # None]_(Dated!vars)
  BY NextKeeps
<1>5. DatedInv /\ DatedInv' /\ [Dated!Next]_(Dated!vars) =>
        [running => \A p \in Dated!Existing : files'[p] # None =>
           Len(files[p]) <= Len(files'[p]) /\ SubSeq(files'[p], 1, Len(files[p])) = files[p]]_(Dated!vars)
  BY NextKeeps DEF Grows
<1> QED BY <1>1, <1>2, <1>3, <1>4, <1>5, PTL DEF Dated!Spec, Dated!CurrentKept, Dated!NothingTruncated

-----------------------------------------------------------------------------
(* The names of files.                                                     *)

Signs == {"x", ".", "/", "1"}

LEMMA LastIsAt ==
  ASSUME NEW s \in Seq(Signs), NEW c, NEW k \in Nat
  PROVE  Naming!LastOf(c, s) = k <=>
           /\ k = 0 \/ (k <= Len(s) /\ s[k] = c)
           /\ \A i \in 1 .. Len(s) : s[i] = c => i <= k
<1> DEFINE T == {0} \cup {i \in DOMAIN s : s[i] = c}
<1>1. DOMAIN s = 1 .. Len(s) /\ Len(s) \in Nat OBVIOUS
<1>2. T \in SUBSET (0 .. Len(s)) /\ T # {} BY <1>1
<1>3. PICK n \in T : \A m \in T : m <= n BY <1>1, <1>2, GreatestNumber
<1>4. \A m \in T : m \in Nat BY <1>1
<1>5. Naming!LastOf(c, s) \in T /\ \A m \in T : Naming!LastOf(c, s) >= m
  <2>1. \A m \in T : n >= m BY <1>3, <1>4
  <2>2. Naming!LastOf(c, s) = CHOOSE x \in T : \A y \in T : x >= y BY DEF Naming!LastOf, Naming!Max
  <2> QED BY <2>1, <2>2
<1> QED BY <1>1, <1>4, <1>5

LEMMA SomeLast ==
  ASSUME NEW s \in Seq(Signs), NEW c
  PROVE  Naming!LastOf(c, s) \in 0 .. Len(s)
<1> DEFINE T == {0} \cup {i \in DOMAIN s : s[i] = c}
<1>1. DOMAIN s = 1 .. Len(s) /\ Len(s) \in Nat OBVIOUS
<1>2. T \in SUBSET (0 .. Len(s)) /\ T # {} BY <1>1
<1>3. PICK n \in T : \A m \in T : m <= n BY <1>1, <1>2, GreatestNumber
<1>4. \A m \in T : n >= m BY <1>1, <1>3
<1>5. Naming!LastOf(c, s) = CHOOSE x \in T : \A y \in T : x >= y BY DEF Naming!LastOf, Naming!Max
<1> QED BY <1>2, <1>4, <1>5

(* A sequence between two of its positions.                                *)
LEMMA Between ==
  ASSUME NEW s \in Seq(Signs), NEW i \in 1 .. Len(s) + 1, NEW j \in 0 .. Len(s), i <= j + 1
  PROVE  /\ SubSeq(s, i, j) \in Seq(Signs) /\ Len(SubSeq(s, i, j)) = j - i + 1
         /\ \A k \in 1 .. j - i + 1 : SubSeq(s, i, j)[k] = s[i + k - 1]
<1>1. \A k \in i .. j : s[k] \in Signs OBVIOUS
<1>2. /\ SubSeq(s, i, j) \in Seq(Signs)
      /\ Len(SubSeq(s, i, j)) = IF i <= j THEN j - i + 1 ELSE 0
      /\ \A k \in 1 .. j - i + 1 : SubSeq(s, i, j)[k] = s[i + k - 1]
  BY <1>1, SubSeqProperties
<1> QED BY <1>2

(* The positions of what is joined.                                        *)
LEMMA Joining ==
  ASSUME NEW S, NEW a \in Seq(S), NEW b \in Seq(S), NEW p, p = Len(a), NEW q, q = Len(b)
  PROVE  /\ a \o b \in Seq(S) /\ Len(a \o b) = p + q
         /\ \A k \in 1 .. p : (a \o b)[k] = a[k]
         /\ \A k \in 1 .. q : (a \o b)[p + k] = b[k]
<1>1. p \in Nat /\ q \in Nat OBVIOUS
<1>2. /\ a \o b \in Seq(S) /\ Len(a \o b) = p + q
      /\ \A i \in 1 .. p + q : (a \o b)[i] = IF i <= p THEN a[i] ELSE b[i - p]
  BY ConcatProperties
<1>3. \A k \in 1 .. p : k \in 1 .. p + q /\ k <= p BY <1>1
<1>4. \A k \in 1 .. q : p + k \in 1 .. p + q /\ ~(p + k <= p) /\ p + k - p = k BY <1>1
<1> QED BY <1>2, <1>3, <1>4

(* Taking a name apart, by the positions of its last separator and dot.    *)
LEMMA SplitAt ==
  ASSUME NEW s \in Seq(Signs), NEW f, f = Naming!LastOf("/", s), NEW e, e = Naming!LastOf(".", s)
  PROVE  /\ f \in 0 .. Len(s) /\ e \in 0 .. Len(s) /\ Len(s) \in Nat
         /\ Naming!NoExtension(s, e) <=> e = 0 \/ e = Len(s) \/ e <= f + 1
         /\ Naming!NoExtension(s, e) => Naming!SplitByExtension(s) = <<s, <<>>>>
         /\ ~Naming!NoExtension(s, e) => /\ Naming!SplitByExtension(s) = <<SubSeq(s, 1, e - 1), SubSeq(s, e, Len(s))>>
                                  /\ f + 1 < e /\ e < Len(s)
<1>1. f \in 0 .. Len(s) /\ e \in 0 .. Len(s) /\ Len(s) \in Nat BY SomeLast
<1>2. Naming!NoExtension(s, e) <=> e = 0 \/ e = Len(s) \/ e <= f + 1
  <2>1. Naming!NoExtension(s, e) <=> e \in {0, 1, Len(s)} \/ (f # 0 /\ f >= e - 1) BY DEF Naming!NoExtension
  <2> QED BY <1>1, <2>1
<1> QED BY <1>1, <1>2 DEF Naming!SplitByExtension

LEMMA NameSplits ==
  ASSUME name \in Seq(Signs)
  PROVE  Naming!SplitAsDocumented
<1> DEFINE f == Naming!LastOf("/", name)
           e == Naming!LastOf(".", name)
           n == Len(name)
           dot == Naming!LastOf(".", Naming!Component)
           base == IF dot \in {0, 1, Len(Naming!Component)} THEN Naming!Component
                   ELSE SubSeq(Naming!Component, 1, dot - 1)
<1>1. /\ f \in 0 .. n /\ e \in 0 .. n /\ n \in Nat
      /\ Naming!NoExtension(name, e) <=> e = 0 \/ e = n \/ e <= f + 1
      /\ Naming!NoExtension(name, e) => Naming!SplitByExtension(name) = <<name, <<>>>>
      /\ ~Naming!NoExtension(name, e)
           => /\ Naming!SplitByExtension(name) = <<SubSeq(name, 1, e - 1), SubSeq(name, e, n)>>
                                  /\ f + 1 < e /\ e < n
  BY SplitAt
<1>2. /\ e = 0 \/ (e <= n /\ name[e] = ".")
      /\ \A i \in 1 .. n : name[i] = "." => i <= e
  BY <1>1, LastIsAt
<1>3. /\ Naming!Component \in Seq(Signs) /\ Len(Naming!Component) = n - f
      /\ \A k \in 1 .. n - f : Naming!Component[k] = name[f + k]
  <2>1. f + 1 \in 1 .. n + 1 /\ f + 1 <= n + 1 /\ n \in 0 .. n BY <1>1
  <2> HIDE DEF f, n
  <2>2. /\ SubSeq(name, f + 1, n) \in Seq(Signs) /\ Len(SubSeq(name, f + 1, n)) = n - (f + 1) + 1
        /\ \A k \in 1 .. n - (f + 1) + 1 : SubSeq(name, f + 1, n)[k] = name[f + 1 + k - 1]
    BY <2>1, Between DEF n
  <2>3. n - (f + 1) + 1 = n - f /\ \A k \in 1 .. n - f : f + 1 + k - 1 = f + k BY <1>1
  <2> QED BY <2>2, <2>3 DEF Naming!Component, f, n
<1>4. dot = IF e > f THEN e - f ELSE 0
  <2> DEFINE d == IF e > f THEN e - f ELSE 0
  <2> HIDE DEF f, e, n
  <2>1. d \in Nat BY <1>1
  <2>2. d = 0 \/ (d <= Len(Naming!Component) /\ Naming!Component[d] = ".")
    <3>1. CASE e > f
      <4>1. d \in 1 .. n - f /\ f + d = e BY <1>1, <3>1
      <4> QED BY <1>1, <1>2, <1>3, <3>1, <4>1
    <3> QED BY <1>1, <3>1
  <2>3. ASSUME NEW k \in 1 .. Len(Naming!Component), Naming!Component[k] = "." PROVE k <= d
    <3>1. k \in 1 .. n - f /\ f + k \in 1 .. n /\ name[f + k] = "." BY <1>1, <1>3, <2>3
    <3>2. f + k <= e BY <1>2, <3>1
    <3> QED BY <1>1, <3>1, <3>2
  <2> QED BY <1>3, <2>1, <2>2, <2>3, LastIsAt
<1>5. CASE Naming!NoExtension(name, e)
  <2>1. dot \in {0, 1, Len(Naming!Component)}
    <3> HIDE DEF f, e, n, dot
    <3> QED BY <1>1, <1>3, <1>4, <1>5
  <2>2. base = Naming!Component BY <2>1
  <2>3. Naming!SplitByExtension(name)[1] = name /\ Naming!SplitByExtension(name)[2] = <<>> BY <1>1, <1>5
  <2>4. name \o <<>> = name /\ Len(<<>>) = 0 BY ConcatEmptySeq
  <2>5. Len(Naming!SplitByExtension(name)[2]) = Len(Naming!Component) - Len(base)
    <3> HIDE DEF f, e, n, base
    <3>1. Len(base) = n - f /\ n - f \in Int /\ Len(<<>>) = 0 BY <1>1, <1>3, <2>2
    <3> QED BY <1>3, <2>3, <3>1
  <2> QED BY <2>3, <2>4, <2>5 DEF Naming!SplitAsDocumented
<1>6. CASE ~Naming!NoExtension(name, e)
  <2>1. dot = e - f /\ dot \notin {0, 1, Len(Naming!Component)} /\ dot \in 1 .. Len(Naming!Component)
    <3> HIDE DEF f, e, n, dot
    <3>1. f \in Nat /\ e \in Nat /\ n \in Nat /\ f + 1 < e /\ e < n BY <1>1, <1>6
    <3>2. dot = e - f /\ Len(Naming!Component) = n - f BY <1>3, <1>4, <3>1
    <3> QED BY <3>1, <3>2
  <2>2. base = SubSeq(Naming!Component, 1, dot - 1) BY <2>1
  <2>3. Len(base) = e - f - 1
    <3>1. 1 \in 1 .. Len(Naming!Component) + 1 /\ dot - 1 \in 0 .. Len(Naming!Component) /\ 1 <= dot - 1 + 1
      BY <1>3, <2>1
    <3> HIDE DEF dot, base
    <3>2. Len(SubSeq(Naming!Component, 1, dot - 1)) = dot - 1 - 1 + 1 BY <1>3, <3>1, Between
    <3>3. dot \in Int BY <2>1
    <3> HIDE DEF f, e
    <3> QED BY <2>1, <2>2, <3>2, <3>3
  <2>4. Naming!SplitByExtension(name)[1] = SubSeq(name, 1, e - 1)
          /\ Naming!SplitByExtension(name)[2] = SubSeq(name, e, n)
    BY <1>1, <1>6
  <2>5. SubSeq(name, 1, e - 1) \o SubSeq(name, e, n) = name
    <3>1. 1 \in 1 .. n + 1 /\ e - 1 \in 1 - 1 .. n /\ n \in e - 1 .. n /\ e - 1 + 1 = e BY <1>1, <1>6
    <3>2. SubSeq(name, 1, e - 1) \o SubSeq(name, e - 1 + 1, n) = SubSeq(name, 1, n)
      <4> DEFINE k == e - 1
      <4>1. k \in 1 - 1 .. n /\ n \in k .. n BY <3>1
      <4> HIDE DEF e, k
      <4>2. SubSeq(name, 1, k) \o SubSeq(name, k + 1, n) = SubSeq(name, 1, n) BY <3>1, <4>1, ConcatAdjacentSubSeq
      <4> QED BY <4>2 DEF k
    <3>3. SubSeq(name, 1, n) = name BY SubSeqFull
    <3> QED BY <3>1, <3>2, <3>3
  <2>6. Len(SubSeq(name, e, n)) = n - e + 1
    <3>1. e \in 1 .. n + 1 /\ n \in 0 .. n /\ e <= n + 1 BY <1>1, <1>6
    <3> HIDE DEF e
    <3> QED BY <3>1, Between
  <2>7. Len(Naming!SplitByExtension(name)[2]) = Len(Naming!Component) - Len(base)
    <3> HIDE DEF f, e, n, base
    <3> QED BY <1>1, <1>3, <1>6, <2>3, <2>4, <2>6
  <2> QED BY <2>4, <2>5, <2>7 DEF Naming!SplitAsDocumented
<1> QED BY <1>5, <1>6

(* The name with a number put before its extension.                        *)
LEMMA NumberedIs ==
  ASSUME NEW s \in Seq(Signs), NEW d \in Seq({"1"}), d # <<>>
  PROVE  /\ Naming!Numbered(s, d) \in Seq(Signs) /\ Len(Naming!Numbered(s, d)) = Len(s) + Len(d) + 1
         /\ Naming!DirName(Naming!Numbered(s, d)) = Naming!DirName(s)
         /\ \/ Naming!SplitByExtension(Naming!Numbered(s, d))[2] = Naming!SplitByExtension(s)[2]
            \/ Naming!SplitByExtension(s)[2] = <<>>
<1> DEFINE f == Naming!LastOf("/", s)
           e == Naming!LastOf(".", s)
           n == Len(s)
           w == Len(d)
           r == Naming!Numbered(s, d)
<1>1. /\ f \in 0 .. n /\ e \in 0 .. n /\ n \in Nat
      /\ Naming!NoExtension(s, e) => Naming!SplitByExtension(s) = <<s, <<>>>>
      /\ ~Naming!NoExtension(s, e) => /\ Naming!SplitByExtension(s) = <<SubSeq(s, 1, e - 1), SubSeq(s, e, n)>>
                               /\ f + 1 < e /\ e < n
  BY SplitAt
<1>2. w \in Nat \ {0} /\ d \in Seq(Signs) /\ \A k \in 1 .. w : d[k] = "1"
  <2>1. \A k \in 1 .. w : d[k] \in {"1"} OBVIOUS
  <2>2. w \in Nat \ {0} BY EmptySeq
  <2>3. {"1"} \subseteq Signs BY DEF Signs
  <2> QED BY <2>1, <2>2, <2>3, SeqMonotonic
(* Where the number is put.                                                *)
<1> DEFINE p == IF Naming!NoExtension(s, e) THEN n ELSE e - 1
           a == Naming!SplitByExtension(s)[1]
           b == Naming!SplitByExtension(s)[2]
<1>3. /\ p \in f .. n /\ a \in Seq(Signs) /\ Len(a) = p /\ b \in Seq(Signs) /\ Len(b) = n - p
      /\ \A k \in 1 .. p : a[k] = s[k]
      /\ \A k \in 1 .. n - p : b[k] = s[p + k]
  <2>1. CASE Naming!NoExtension(s, e)
    <3>1. a = s /\ b = <<>> /\ p = n BY <1>1, <2>1
    <3>2. <<>> \in Seq(Signs) /\ Len(<<>>) = 0 BY EmptySeq
    <3> HIDE DEF a, b, p, e, f
    <3> QED BY <1>1, <3>1, <3>2
  <2>2. CASE ~Naming!NoExtension(s, e)
    <3>1. a = SubSeq(s, 1, e - 1) /\ b = SubSeq(s, e, n) /\ p = e - 1 BY <1>1, <2>2
    <3>2. e - 1 \in 0 .. n /\ e \in 1 .. n + 1 /\ 1 \in 1 .. n + 1 /\ n \in 0 .. n /\ e <= n + 1 BY <1>1, <2>2
    <3> HIDE DEF a, b, p, e, f
    <3>3. /\ a \in Seq(Signs) /\ Len(a) = e - 1 - 1 + 1 /\ \A k \in 1 .. e - 1 - 1 + 1 : a[k] = s[1 + k - 1]
      <4> DEFINE j == e - 1
      <4>1. j \in 0 .. n /\ 1 <= j + 1 BY <1>1, <1>1, <3>2
      <4> HIDE DEF j
      <4>2. /\ SubSeq(s, 1, j) \in Seq(Signs) /\ Len(SubSeq(s, 1, j)) = j - 1 + 1
            /\ \A k \in 1 .. j - 1 + 1 : SubSeq(s, 1, j)[k] = s[1 + k - 1]
        BY <3>2, <4>1, Between
      <4> QED BY <3>1, <4>2 DEF j
    <3>4. /\ b \in Seq(Signs) /\ Len(b) = n - e + 1 /\ \A k \in 1 .. n - e + 1 : b[k] = s[e + k - 1]
      BY <3>1, <3>2, Between
    <3>5. \A k \in 1 .. p : k \in 1 .. e - 1 - 1 + 1 /\ 1 + k - 1 = k BY <1>1, <3>1
    <3>6. \A k \in 1 .. n - p : k \in 1 .. n - e + 1 /\ e + k - 1 = p + k BY <1>1, <3>1
    <3>7. p = e - 1 - 1 + 1 /\ n - p = n - e + 1 /\ p \in f .. n BY <1>1, <2>2, <3>1
    <3> QED BY <3>3, <3>4, <3>5, <3>6, <3>7
  <2> QED BY <2>1, <2>2
<1>4. /\ r \in Seq(Signs) /\ Len(r) = n + w + 1
      /\ \A k \in 1 .. p : r[k] = s[k]
      /\ r[p + 1] = "."
      /\ \A k \in 1 .. w : r[p + 1 + k] = "1"
      /\ \A k \in 1 .. n - p : r[p + 1 + w + k] = s[p + k]
  <2> DEFINE u == a \o <<".">>
             v == u \o d
  <2>1. r = v \o b BY DEF Naming!Numbered
  <2>2. <<".">> \in Seq(Signs) /\ Len(<<".">>) = 1 /\ <<".">>[1] = "." BY DEF Signs
  <2>3. p \in Nat /\ n - p \in Nat /\ w \in Nat /\ n \in Nat
    <3> HIDE DEF a, b, p, e, f
    <3> QED BY <1>1, <1>2, <1>3
  <2> HIDE DEF r, a, b, p, e, f
  <2>4. /\ u \in Seq(Signs) /\ Len(u) = p + 1 /\ \A k \in 1 .. p : u[k] = a[k]
        /\ \A k \in 1 .. 1 : u[p + k] = <<".">>[k]
    <3> DEFINE o == <<".">>
    <3>1. o \in Seq(Signs) /\ Len(o) = 1 BY <2>2
    <3> HIDE DEF o
    <3> DEFINE q == Len(o)
    <3> HIDE DEF q
    <3>2. /\ a \o o \in Seq(Signs) /\ Len(a \o o) = p + q /\ \A k \in 1 .. p : (a \o o)[k] = a[k]
          /\ \A k \in 1 .. q : (a \o o)[p + k] = o[k]
      <4>1. a \in Seq(Signs) /\ p = Len(a) BY <1>3
      <4>2. o \in Seq(Signs) /\ q = Len(o) BY <3>1 DEF q
      <4> QED BY <4>1, <4>2, Joining
    <3> QED BY <3>1, <3>2 DEF o, q
  <2> HIDE DEF u
  <2>5. /\ v \in Seq(Signs) /\ Len(v) = p + 1 + w /\ \A k \in 1 .. p + 1 : v[k] = u[k]
        /\ \A k \in 1 .. w : v[p + 1 + k] = d[k]
    BY <1>2, <2>4, Joining
  <2> HIDE DEF v
  <2>6. /\ r \in Seq(Signs) /\ Len(r) = p + 1 + w + (n - p) /\ \A k \in 1 .. p + 1 + w : r[k] = v[k]
        /\ \A k \in 1 .. n - p : r[p + 1 + w + k] = b[k]
    <3> DEFINE m == p + 1 + w
               x == n - p
    <3>1. v \in Seq(Signs) /\ b \in Seq(Signs) /\ Len(v) = m /\ Len(b) = x BY <1>3, <2>5
    <3> HIDE DEF m, x
    <3>2. /\ v \o b \in Seq(Signs) /\ Len(v \o b) = m + x /\ \A k \in 1 .. m : (v \o b)[k] = v[k]
          /\ \A k \in 1 .. x : (v \o b)[m + k] = b[k]
      <4>1. v \in Seq(Signs) /\ m = Len(v) BY <3>1
      <4>2. b \in Seq(Signs) /\ x = Len(b) BY <3>1
      <4> QED BY <4>1, <4>2, Joining
    <3> QED BY <2>1, <3>2 DEF m, x
  <2> HIDE DEF n, w
  <2>7. Len(r) = n + w + 1 BY <2>3, <2>6
  <2>8. \A k \in 1 .. p : k \in 1 .. p + 1 /\ k \in 1 .. p + 1 + w BY <2>3
  <2>9. p + 1 \in 1 .. p + 1 /\ p + 1 \in 1 .. p + 1 + w /\ 1 \in 1 .. 1 BY <2>3
  <2>10. \A k \in 1 .. w : p + 1 + k \in 1 .. p + 1 + w BY <2>3
  <2>11. \A k \in 1 .. p : r[k] = s[k] BY <1>3, <2>4, <2>5, <2>6, <2>8
  <2>12. r[p + 1] = "."
    <3>1. u[p + 1] = "." BY <2>2, <2>4, <2>9
    <3> QED BY <2>5, <2>6, <2>9, <3>1
  <2>13. \A k \in 1 .. w : r[p + 1 + k] = "1" BY <1>2, <2>5, <2>6, <2>10
  <2>14. \A k \in 1 .. n - p : r[p + 1 + w + k] = s[p + k] BY <1>3, <2>6
  <2> QED BY <2>6, <2>7, <2>11, <2>12, <2>13, <2>14
(* Each position of the new name is one of the old, or of the number.      *)
<1> HIDE DEF p, a, b, r, w
<1>5. ASSUME NEW i \in 1 .. n + w + 1
      PROVE  \/ i \in 1 .. p /\ r[i] = s[i]
             \/ i = p + 1 /\ r[i] = "."
             \/ i \in p + 2 .. p + 1 + w /\ r[i] = "1"
             \/ i \in p + 2 + w .. n + w + 1 /\ i - w - 1 \in p + 1 .. n /\ r[i] = s[i - w - 1]
  <2> HIDE DEF n, e, f
  <2>0. p \in Nat /\ n - p \in Nat /\ w \in Nat /\ n \in Nat BY <1>1, <1>2, <1>3
  <2>1. CASE i <= p + 1
    <3>1. i \in 1 .. p \/ i = p + 1 BY <2>0, <2>1
    <3> QED BY <1>4, <3>1
  <2>2. CASE p + 1 < i /\ i <= p + 1 + w
    <3>1. i - p - 1 \in 1 .. w /\ p + 1 + (i - p - 1) = i /\ i \in p + 2 .. p + 1 + w BY <2>0, <2>2
    <3> QED BY <1>4, <3>1
  <2>3. CASE p + 1 + w < i
    <3>1. /\ i - w - 1 - p \in 1 .. n - p /\ p + 1 + w + (i - w - 1 - p) = i /\ p + (i - w - 1 - p) = i - w - 1
          /\ i \in p + 2 + w .. n + w + 1 /\ i - w - 1 \in p + 1 .. n
      BY <2>0, <2>3
    <3> QED BY <1>4, <3>1
  <2> QED BY <2>0, <2>1, <2>2, <2>3
<1>6. /\ f = 0 \/ (f <= n /\ s[f] = "/")
      /\ \A i \in 1 .. n : s[i] = "/" => i <= f
  BY <1>1, LastIsAt
<1>7. /\ e = 0 \/ (e <= n /\ s[e] = ".")
      /\ \A i \in 1 .. n : s[i] = "." => i <= e
  BY <1>1, LastIsAt
<1>8. Naming!LastOf("/", r) = f
  <2> HIDE DEF n, e, f
  <2>1. f = 0 \/ (f <= Len(r) /\ r[f] = "/") BY <1>1, <1>2, <1>3, <1>4, <1>6
  <2>2. ASSUME NEW i \in 1 .. Len(r), r[i] = "/" PROVE i <= f
    <3>1. i \in 1 .. n + w + 1 BY <1>4
    <3>2. \/ i \in 1 .. p /\ s[i] = "/"
          \/ i - w - 1 \in p + 1 .. n /\ s[i - w - 1] = "/"
      BY <1>5, <2>2, <3>1
    <3>3. i \in 1 .. p => i \in 1 .. n BY <1>1, <1>3
    <3>4. i - w - 1 \in p + 1 .. n => i - w - 1 \in 1 .. n /\ ~(i - w - 1 <= f) BY <1>1, <1>2, <1>3
    <3> QED BY <1>6, <3>2, <3>3, <3>4
  <2> QED BY <1>1, <1>4, <2>1, <2>2, LastIsAt
<1>9. Naming!DirName(r) = Naming!DirName(s)
  <2>1. CASE f = 0 BY <1>8, <2>1 DEF Naming!DirName
  <2>2. CASE f # 0
    <3>1. Naming!DirName(r) = SubSeq(r, 1, f - 1) /\ Naming!DirName(s) = SubSeq(s, 1, f - 1)
      BY <1>8, <2>2 DEF Naming!DirName
    <3> DEFINE j == f - 1
    <3> HIDE DEF n, e, f
    <3>2. j \in 0 .. n /\ j \in 0 .. Len(r) /\ 1 <= j + 1 /\ 1 \in 1 .. n + 1 /\ 1 \in 1 .. Len(r) + 1 /\ j - 1 + 1 = j
      BY <1>1, <1>2, <1>3, <1>4, <2>2
    <3>3. \A k \in 1 .. j : k \in 1 .. p /\ 1 + k - 1 = k BY <1>1, <1>3
    <3> HIDE DEF j
    <3>4. /\ SubSeq(s, 1, j) \in Seq(Signs) /\ Len(SubSeq(s, 1, j)) = j - 1 + 1
          /\ \A k \in 1 .. j - 1 + 1 : SubSeq(s, 1, j)[k] = s[1 + k - 1]
      BY <3>2, Between DEF n
    <3>5. /\ SubSeq(r, 1, j) \in Seq(Signs) /\ Len(SubSeq(r, 1, j)) = j - 1 + 1
          /\ \A k \in 1 .. j - 1 + 1 : SubSeq(r, 1, j)[k] = r[1 + k - 1]
      BY <1>4, <3>2, Between
    <3>6. \A k \in 1 .. j : SubSeq(s, 1, j)[k] = SubSeq(r, 1, j)[k] BY <1>4, <3>2, <3>3, <3>4, <3>5
    <3>7. SubSeq(s, 1, j) = SubSeq(r, 1, j) BY <3>2, <3>4, <3>5, <3>6, SeqEqual
    <3> QED BY <3>1, <3>7 DEF j
  <2> QED BY <2>1, <2>2
<1>10. CASE Naming!NoExtension(s, e) BY <1>1, <1>4, <1>9, <1>10 DEF r, n, w
<1>11. CASE ~Naming!NoExtension(s, e)
  <2>1. p = e - 1 /\ f + 1 < e /\ e < n /\ b = SubSeq(s, e, n) BY <1>1, <1>11 DEF p, b
  <2> DEFINE x == e + w + 1
  <2>2. Naming!LastOf(".", r) = x
    <3> HIDE DEF n, e, f
    <3>1. x \in Nat /\ x <= Len(r) /\ r[x] = "."
      <4>1. 1 \in 1 .. n - p /\ p + 1 + w + 1 = x /\ p + 1 = e BY <1>1, <1>2, <2>1
      <4>2. r[x] = s[e] BY <1>4, <4>1
      <4>3. s[e] = "." BY <1>1, <1>7, <2>1
      <4>4. x \in Nat /\ x <= n + w + 1 BY <1>1, <1>2, <2>1
      <4> QED BY <1>4, <4>2, <4>3, <4>4
    <3>2. ASSUME NEW i \in 1 .. Len(r), r[i] = "." PROVE i <= x
      <4>1. i \in 1 .. n + w + 1 BY <1>4
      <4>2. \/ i <= x
            \/ i - w - 1 \in p + 1 .. n /\ s[i - w - 1] = "."
        BY <1>1, <1>2, <1>5, <2>1, <3>2, <4>1
      <4>3. i - w - 1 \in p + 1 .. n => i - w - 1 \in 1 .. n /\ (i - w - 1 <= e => i <= x) BY <1>1, <1>2, <2>1
      <4> QED BY <1>7, <2>1, <4>2, <4>3
    <3> HIDE DEF x
    <3> QED BY <1>4, <3>1, <3>2, LastIsAt
  <2>3. Naming!SplitByExtension(r)[2] = SubSeq(r, x, Len(r))
    <3>1. /\ Naming!NoExtension(r, x) <=> x = 0 \/ x = Len(r) \/ x <= f + 1
          /\ ~Naming!NoExtension(r, x) => Naming!SplitByExtension(r) = <<SubSeq(r, 1, x - 1), SubSeq(r, x, Len(r))>>
      <4> HIDE DEF x, f
      <4> QED BY <1>4, <1>8, <2>2, SplitAt
    <3>2. ~(x = 0 \/ x = Len(r) \/ x <= f + 1)
      <4> HIDE DEF n, e, f
      <4> QED BY <1>1, <1>2, <1>4, <2>1
    <3> HIDE DEF x
    <3> QED BY <3>1, <3>2
  <2>4. SubSeq(r, x, Len(r)) = SubSeq(s, e, n)
    <3> DEFINE m == Len(r)
    <3>1. /\ x \in 1 .. m + 1 /\ m \in 0 .. m /\ x <= m + 1 /\ e \in 1 .. n + 1 /\ n \in 0 .. n /\ e <= n + 1
          /\ m - x + 1 = n - e + 1
          /\ \A k \in 1 .. n - e + 1 : k \in 1 .. n - p /\ x + k - 1 = p + 1 + w + k /\ e + k - 1 = p + k
      <4> HIDE DEF n, e, f
      <4> QED BY <1>1, <1>2, <1>4, <2>1
    <3> HIDE DEF x, e
    <3>2. /\ SubSeq(s, e, n) \in Seq(Signs) /\ Len(SubSeq(s, e, n)) = n - e + 1
          /\ \A k \in 1 .. n - e + 1 : SubSeq(s, e, n)[k] = s[e + k - 1]
      BY <3>1, Between
    <3>3. /\ SubSeq(r, x, m) \in Seq(Signs) /\ Len(SubSeq(r, x, m)) = m - x + 1
          /\ \A k \in 1 .. m - x + 1 : SubSeq(r, x, m)[k] = r[x + k - 1]
      BY <1>4, <3>1, Between
    <3>4. \A k \in 1 .. n - e + 1 : SubSeq(r, x, m)[k] = SubSeq(s, e, n)[k]
      <4> TAKE k \in 1 .. n - e + 1
      <4>1. k \in 1 .. n - p /\ x + k - 1 = p + 1 + w + k /\ e + k - 1 = p + k BY <3>1
      <4>2. r[p + 1 + w + k] = s[p + k] BY <1>4, <4>1
      <4>3. SubSeq(s, e, n)[k] = s[e + k - 1] BY <3>2
      <4>4. SubSeq(r, x, m)[k] = r[x + k - 1] BY <3>1, <3>3
      <4> QED BY <4>1, <4>2, <4>3, <4>4
    <3> DEFINE g == SubSeq(r, x, m)
               h == SubSeq(s, e, n)
    <3>5. g \in Seq(Signs) /\ h \in Seq(Signs) /\ Len(g) = n - e + 1 /\ Len(h) = n - e + 1 BY <3>1, <3>2, <3>3
    <3>6. \A k \in 1 .. n - e + 1 : g[k] = h[k] BY <3>4
    <3> HIDE DEF n, g, h
    <3>7. g = h BY <3>5, <3>6, SeqEqual
    <3> QED BY <3>7 DEF g, h, m, n
  <2> QED BY <1>4, <1>9, <2>1, <2>3, <2>4 DEF r, n, w, b
<1> QED BY <1>10, <1>11

LEMMA RotatesInFolder ==
  ASSUME name \in Seq(Signs)
  PROVE  Naming!RotationStaysInFolder
<1> DEFINE one == <<"1">>
           two == <<"1", "1">>
<1>1. one \in Seq({"1"}) /\ one # <<>> /\ Len(one) = 1 OBVIOUS
<1>2. two \in Seq({"1"}) /\ two # <<>> /\ Len(two) = 2 OBVIOUS
<1> HIDE DEF one, two
<1>3. /\ Len(Naming!Numbered(name, one)) = Len(name) + Len(one) + 1
      /\ Naming!DirName(Naming!Numbered(name, one)) = Naming!DirName(name)
      /\ \/ Naming!SplitByExtension(Naming!Numbered(name, one))[2] = Naming!SplitByExtension(name)[2]
         \/ Naming!SplitByExtension(name)[2] = <<>>
  BY <1>1, NumberedIs
<1>4. /\ Len(Naming!Numbered(name, two)) = Len(name) + Len(two) + 1
      /\ Naming!DirName(Naming!Numbered(name, two)) = Naming!DirName(name)
  BY <1>2, NumberedIs
<1>5. Len(name) \in Nat OBVIOUS
<1>6. name # Naming!Numbered(name, one) /\ name # Naming!Numbered(name, two)
        /\ Naming!Numbered(name, one) # Naming!Numbered(name, two)
  BY <1>1, <1>2, <1>3, <1>4, <1>5
<1> QED BY <1>3, <1>4, <1>6 DEF Naming!RotationStaysInFolder, one, two

(* Any name is split where its comment says, and the names its rotation    *)
(* makes are in its folder, different, and of the same extension.          *)
THEOREM NamesAreSplit == Naming!Spec => [](Naming!SplitAsDocumented /\ Naming!RotationStaysInFolder)
<1>1. Naming!Init => name \in Seq(Signs) BY DEF Naming!Init
<1>2. name \in Seq(Signs) /\ [Naming!Next]_name => (name \in Seq(Signs))'
  <2>1. {"x", ".", "/", "1"} = Signs BY DEF Signs
  <2> QED BY <2>1 DEF Naming!Next
<1>3. name \in Seq(Signs) => Naming!SplitAsDocumented /\ Naming!RotationStaysInFolder BY NameSplits, RotatesInFolder
<1> QED BY <1>1, <1>2, <1>3, PTL DEF Naming!Spec

-----------------------------------------------------------------------------
(* The parts, as LogSinks runs them.                                       *)
LEMMA PartsBegin ==
  ASSUME Init
  PROVE  /\ Rotating!Init /\ Dated!Init /\ Naming!Init
         /\ Tcp!Init /\ Udp!Init /\ Terminal!Init /\ System!Init
BY DEF Init

LEMMA StepOfEach ==
  ASSUME [Next]_vars
  PROVE  /\ [Rotating!Next]_(Rotating!vars)
         /\ [Dated!Next]_(Dated!vars)
         /\ [Naming!Next]_name
         /\ [Tcp!Next]_(Tcp!vars)
         /\ [Udp!Next]_(Udp!vars)
         /\ [Terminal!Next]_(Terminal!vars)
         /\ [System!Next]_(System!vars)
BY DEF Next, Step, vars, rotatingVars, datedVars, tcpVars, udpVars, consoleVars, systemVars,
       Rotating!vars, Dated!vars, Tcp!vars, Tcp!conn, Tcp!sending, Tcp!world, Udp!vars, System!vars,
       Terminal!vars, Terminal!settings, Terminal!message, Terminal!terminal

(* No line of a sink is cut by one of another sink or thread, a colour     *)
(* range lies in the text it is used for, only the range is coloured, and  *)
(* the terminal has its colour back whenever nobody prints: for any        *)
(* threads, sinks, colours and terminal.                                   *)
THEOREM LinesAlwaysWhole ==
  ASSUME ConsoleConstants
  PROVE  Spec => []LinesWhole
<1>1. Terminal!Spec => [](Terminal!LinesWhole /\ Terminal!RangeInText /\ Terminal!ColourRestored)
  BY LinesStayWhole
<1>2. Init => Terminal!Init BY PartsBegin
<1>3. [Next]_vars => [Terminal!Next]_(Terminal!vars) BY StepOfEach
<1> QED BY <1>1, <1>2, <1>3, PTL DEF Spec, LinesWhole, Terminal!Spec

(* The files of a log keep to their size and number, their messages stay   *)
(* in order, only the oldest go and never the file that is written; a      *)
(* numbered name splits as documented: for any sizes, numbers of files,    *)
(* periods, times, failures of the file system, crashes and restarts.      *)
THEOREM FilesAlwaysKept ==
  ASSUME RotatingConstants, DatedConstants
  PROVE  Spec => FilesKept
<1>1. Rotating!Spec => [](Rotating!WithinSize /\ Rotating!FilesInOrder /\ Rotating!KeepsTheLatest)
  BY FilesAreKept
<1>2. Dated!Spec => [](Dated!InItsFile /\ Dated!LastFilesKept) /\ Dated!CurrentKept /\ Dated!NothingTruncated
  BY DatedFilesAreKept
<1>3. Naming!Spec => [](Naming!SplitAsDocumented /\ Naming!RotationStaysInFolder) BY NamesAreSplit
<1>4. Init => Rotating!Init /\ Dated!Init /\ Naming!Init BY PartsBegin
<1>5. [Next]_vars => [Rotating!Next]_(Rotating!vars) /\ [Dated!Next]_(Dated!vars) /\ [Naming!Next]_name
  BY StepOfEach
<1> QED BY <1>1, <1>2, <1>3, <1>4, <1>5, PTL DEF Spec, FilesKept, Rotating!Spec, Dated!Spec, Naming!Spec

(* Whatever a call that returned has handed over is there, whole and once, *)
(* for any host, clients, messages and calls that fail.                    *)
THEOREM RecordsAlwaysDelivered ==
  ASSUME TcpConstants, IsFiniteSet(Clients), Kinds = SystemLogs
  PROVE  Spec => RecordsDelivered
<1>1. Tcp!Spec => [](Tcp!NoSocketLeft /\ Tcp!WholeMessages /\ Tcp!ReturnedIsSent) /\ Tcp!GivesUpOnlyIfDown
  BY TcpDelivers
<1>2. Udp!Spec => [](Udp!NothingLeft /\ Udp!WinsockCounted) BY ClientsLeaveNothing
<1>3. System!Spec => [](System!ReturnedIsRecorded /\ System!SeverityFollowsLevel /\ System!SourcesBalanced)
  BY SystemLogsAsReturned
<1>4. Init => Tcp!Init /\ Udp!Init /\ System!Init BY PartsBegin
<1>5. [Next]_vars => [Tcp!Next]_(Tcp!vars) /\ [Udp!Next]_(Udp!vars) /\ [System!Next]_(System!vars)
  BY StepOfEach
<1> QED BY <1>1, <1>2, <1>3, <1>4, <1>5, PTL DEF Spec, RecordsDelivered, Tcp!Spec, Udp!Spec, System!Spec
=============================================================================

------------------------ MODULE ControlChannelProofs ------------------------
(***************************************************************************)
(* Theorems about ControlChannel, for any connections, any words and any   *)
(* number of texts.                                                        *)
(***************************************************************************)
EXTENDS ControlChannel, SequenceTheorems, TLAPS

(* The place of a part in the stream of its connection, counted from 1,    *)
(* and how many parts of that stream the server has read.                  *)
Place(p) == 2 * p.text - 2 + p.part
Read(c) == 2 * Len(texts[c]) - Len(buffer[c]) - Len(network[c])

(* Buffer and network hold the end of the stream, and whatever was         *)
(* executed lies before it.                                                *)
Stream(c) ==
  /\ \A k \in 1 .. Len(buffer[c]) : Place(buffer[c][k]) = Read(c) + k
  /\ \A k \in 1 .. Len(network[c]) :
       Place(network[c][k]) = Read(c) + Len(buffer[c]) + k

Past(c) ==
  \A i \in 1 .. Len(executed) :
    executed[i].conn = c => 2 * executed[i].text <= Read(c)

StreamInv == \A c \in Connections : Stream(c)
PastInv == \A c \in Connections : Past(c)

-----------------------------------------------------------------------------
(* The sequences of a connection.                                          *)
LEMMA Typed ==
  ASSUME TypeOK, NEW c \in Connections
  PROVE  /\ texts[c] \in Seq(Words) /\ Len(texts[c]) \in Nat
         /\ network[c] \in Seq(Parts) /\ Len(network[c]) \in Nat
         /\ buffer[c] \in Seq(Parts) /\ Len(buffer[c]) \in Nat
         /\ executed \in Seq([conn : Connections, text : 1 .. MaxTexts])
         /\ Len(executed) \in Nat
<1>1. /\ texts[c] \in Seq(Words) /\ network[c] \in Seq(Parts)
      /\ buffer[c] \in Seq(Parts)
      /\ executed \in Seq([conn : Connections, text : 1 .. MaxTexts])
  BY DEF TypeOK
<1> QED
  BY <1>1, LenProperties

(* What a send puts on the network.                                        *)
LEMMA SendAppends ==
  ASSUME TypeOK, NEW c \in Connections, NEW word \in Words, Send(c, word)
  PROVE  /\ texts'[c] \in Seq(Words) /\ Len(texts'[c]) = Len(texts[c]) + 1
         /\ \A k \in 1 .. Len(texts[c]) : texts'[c][k] = texts[c][k]
         /\ network'[c] \in Seq(Parts) /\ Len(network'[c]) = Len(network[c]) + 2
         /\ \A k \in 1 .. Len(network[c]) : network'[c][k] = network[c][k]
         /\ Place(network'[c][Len(network[c]) + 1]) = 2 * Len(texts[c]) + 1
         /\ Place(network'[c][Len(network[c]) + 2]) = 2 * Len(texts[c]) + 2
<1> DEFINE L == Len(texts[c])
           N == Len(network[c])
           p == [text |-> L + 1, part |-> 1]
           q == [text |-> L + 1, part |-> 2]
<1>1. L \in Nat /\ N \in Nat /\ texts[c] \in Seq(Words) /\ network[c] \in Seq(Parts)
  BY Typed
<1>2. texts'[c] = Append(texts[c], word) /\ network'[c] = network[c] \o <<p, q>>
  BY DEF Send, TypeOK
<1>3. L + 1 \in 1 .. MaxTexts
  BY <1>1, MaxTextsAssumption DEF Send
<1>4. p \in Parts /\ q \in Parts
  BY <1>3 DEF Parts
<1>5. /\ <<p, q>> \in Seq(Parts) /\ Len(<<p, q>>) = 2
      /\ <<p, q>>[1] = p /\ <<p, q>>[2] = q
  BY <1>4
<1>6. Place(p) = 2 * L + 1 /\ Place(q) = 2 * L + 2
  BY <1>1 DEF Place
<1> HIDE DEF p, q, L, N
<1>7. /\ texts'[c] \in Seq(Words) /\ Len(texts'[c]) = L + 1
      /\ \A k \in 1 .. L : texts'[c][k] = texts[c][k]
  BY <1>1, <1>2, AppendProperties DEF L
<1>8. /\ network'[c] \in Seq(Parts) /\ Len(network'[c]) = N + 2
      /\ \A k \in 1 .. N + 2 :
           network'[c][k] = IF k <= N THEN network[c][k] ELSE <<p, q>>[k - N]
  BY <1>1, <1>2, <1>5, ConcatProperties DEF N
<1>9. /\ \A k \in 1 .. N : network'[c][k] = network[c][k]
      /\ network'[c][N + 1] = p /\ network'[c][N + 2] = q
  <2>1. \A k \in 1 .. N : k \in 1 .. N + 2 /\ k <= N
    BY <1>1
  <2>2. /\ N + 1 \in 1 .. N + 2 /\ ~(N + 1 <= N) /\ (N + 1) - N = 1
        /\ N + 2 \in 1 .. N + 2 /\ ~(N + 2 <= N) /\ (N + 2) - N = 2
    BY <1>1
  <2> QED
    BY <1>5, <1>8, <2>1, <2>2
<1> QED
  BY <1>6, <1>7, <1>8, <1>9 DEF L, N

(* What an arrival moves into the buffer.                                  *)
LEMMA ArriveMoves ==
  ASSUME TypeOK, NEW c \in Connections, NEW n \in 1 .. Len(network[c]), Arrive(c, n)
  PROVE  /\ buffer'[c] \in Seq(Parts) /\ Len(buffer'[c]) = Len(buffer[c]) + n
         /\ network'[c] \in Seq(Parts) /\ Len(network'[c]) = Len(network[c]) - n
         /\ \A k \in 1 .. Len(buffer[c]) + n :
              buffer'[c][k] = IF k <= Len(buffer[c]) THEN buffer[c][k]
                              ELSE network[c][k - Len(buffer[c])]
         /\ \A k \in 1 .. Len(network[c]) - n : network'[c][k] = network[c][n + k]
<1> DEFINE B == Len(buffer[c])
           N == Len(network[c])
           front == SubSeq(network[c], 1, n)
           rest == SubSeq(network[c], n + 1, N)
<1>1. /\ B \in Nat /\ N \in Nat /\ n \in 1 .. N
      /\ buffer[c] \in Seq(Parts) /\ network[c] \in Seq(Parts)
  BY Typed
<1>2. buffer'[c] = buffer[c] \o front /\ network'[c] = rest
  BY DEF Arrive, TypeOK
<1>3. \A k \in 1 .. N : network[c][k] \in Parts
  BY <1>1, ElementOfSeq
<1>4. /\ front \in Seq(Parts) /\ Len(front) = n
      /\ \A k \in 1 .. n : front[k] = network[c][k]
  <2>1. 1 \in Int /\ n \in Int /\ 1 <= n /\ \A k \in 1 .. n : network[c][k] \in Parts
    BY <1>1, <1>3
  <2> HIDE DEF N
  <2>2. /\ front \in Seq(Parts)
        /\ Len(front) = IF 1 <= n THEN n - 1 + 1 ELSE 0
        /\ \A k \in 1 .. n - 1 + 1 : front[k] = network[c][1 + k - 1]
    BY <2>1, SubSeqProperties
  <2> HIDE DEF front
  <2>3. n - 1 + 1 = n /\ \A k \in 1 .. n : 1 + k - 1 = k
    BY <2>1
  <2> QED
    BY <2>1, <2>2, <2>3
<1>5. /\ rest \in Seq(Parts) /\ Len(rest) = N - n
      /\ \A k \in 1 .. N - n : rest[k] = network[c][n + k]
  <2>1. n + 1 \in Int /\ N \in Int /\ \A k \in n + 1 .. N : network[c][k] \in Parts
    BY <1>1, <1>3
  <2> HIDE DEF N
  <2>2. /\ rest \in Seq(Parts)
        /\ Len(rest) = IF n + 1 <= N THEN N - (n + 1) + 1 ELSE 0
        /\ \A k \in 1 .. N - (n + 1) + 1 : rest[k] = network[c][(n + 1) + k - 1]
    BY <2>1, SubSeqProperties
  <2> HIDE DEF rest
  <2>3. N - (n + 1) + 1 = N - n /\ \A k \in 1 .. N - n : (n + 1) + k - 1 = n + k
    BY <1>1
  <2>4. Len(rest) = N - n
    BY <1>1, <2>2
  <2> QED
    BY <2>2, <2>3, <2>4
<1> HIDE DEF front, rest, B, N
<1>6. /\ buffer'[c] \in Seq(Parts) /\ Len(buffer'[c]) = B + n
      /\ \A k \in 1 .. B + n :
           buffer'[c][k] = IF k <= B THEN buffer[c][k] ELSE front[k - B]
  <2> DEFINE b == buffer[c]
  <2>1. b \in Seq(Parts) /\ Len(b) = B /\ front \in Seq(Parts) /\ Len(front) = n
    BY <1>1, <1>4 DEF B
  <2> HIDE DEF b
  <2>2. /\ b \o front \in Seq(Parts) /\ Len(b \o front) = Len(b) + Len(front)
        /\ \A k \in 1 .. Len(b) + Len(front) :
             (b \o front)[k] = IF k <= Len(b) THEN b[k] ELSE front[k - Len(b)]
    BY ONLY <2>1, ConcatProperties
  <2> QED
    BY <1>2, <2>1, <2>2 DEF b
<1>7. \A k \in 1 .. B + n : ~(k <= B) => front[k - B] = network[c][k - B]
  BY <1>1, <1>4
<1> QED
  BY <1>2, <1>5, <1>6, <1>7 DEF B, N

(* What a readyRead takes out of the buffer, and what it executes.         *)
LEMMA ReadyReadTakes ==
  ASSUME TypeOK, StreamInv, NEW c \in Connections, onReadyRead(c)
  PROVE  /\ Len(buffer[c]) >= 1
         /\ buffer'[c] = << >> /\ Len(buffer'[c]) = 0
         /\ \/ executed' = executed
            \/ \E t \in 1 .. MaxTexts :
                 /\ Len(buffer[c]) = 2 /\ 2 * t = Read(c) + 2
                 /\ executed' = Append(executed, [conn |-> c, text |-> t])
<1> DEFINE chunk == buffer[c]
<1>1. chunk \in Seq(Parts) /\ Len(chunk) \in Nat
  BY Typed
<1>2. chunk # << >> => Len(chunk) >= 1
  BY <1>1, EmptySeq
<1>3. buffer'[c] = << >> /\ Len(buffer'[c]) = 0
  BY DEF onReadyRead, LeftInBuffer, TypeOK
<1>4. ASSUME executed' # executed
      PROVE  \E t \in 1 .. MaxTexts :
               /\ Len(buffer[c]) = 2 /\ 2 * t = Read(c) + 2
               /\ executed' = Append(executed, [conn |-> c, text |-> t])
  <2>1. /\ parseCommand(parseMessage(c, chunk)) # "none"
        /\ executed' = Append(executed, [conn |-> c, text |-> chunk[1].text])
    BY <1>4 DEF onReadyRead
  <2>2. Len(chunk) = 2 /\ chunk[1].text = chunk[2].text
    BY <2>1 DEF parseCommand, parseMessage, Executable
  <2>3. chunk[1] \in Parts /\ chunk[2] \in Parts
    BY <1>1, <2>2, ElementOfSeq
  <2>4. Place(chunk[1]) = Read(c) + 1 /\ Place(chunk[2]) = Read(c) + 2
    BY <2>2 DEF StreamInv, Stream
  <2>5. /\ chunk[1].text \in 1 .. MaxTexts
        /\ chunk[1].part \in {1, 2} /\ chunk[2].part \in {1, 2}
    BY <2>3 DEF Parts
  <2>6. Read(c) \in Int
    BY Typed DEF Read
  <2> HIDE DEF chunk
  <2>7. 2 * chunk[1].text = Read(c) + 2
    BY <2>2, <2>4, <2>5, <2>6, MaxTextsAssumption DEF Place
  <2> QED
    BY <2>1, <2>2, <2>5, <2>7 DEF chunk
<1> QED
  BY <1>2, <1>3, <1>4 DEF onReadyRead

-----------------------------------------------------------------------------
(* An action of one connection leaves the others' part of the state alone. *)
OthersKept(c) ==
  \A d \in Connections \ {c} :
    /\ texts'[d] = texts[d] /\ network'[d] = network[d]
    /\ buffer'[d] = buffer[d] /\ answers'[d] = answers[d]

LEMMA OneConnection ==
  ASSUME TypeOK, NEW c \in Connections,
         \/ Connect(c) \/ Confirm(c) \/ ServerStep(c)
         \/ \E word \in Words : Send(c, word)
         \/ \E n \in 1 .. 2 * MaxTexts : Arrive(c, n)
  PROVE  OthersKept(c)
BY DEF TypeOK, OthersKept, Connect, Confirm, ServerStep, onNewConnection, onReadyRead,
       Send, Arrive

LEMMA InitInv == Init => TypeOK /\ StreamInv /\ PastInv /\ ExecutedInOrder
<1> SUFFICES ASSUME Init PROVE TypeOK /\ StreamInv /\ PastInv /\ ExecutedInOrder
  OBVIOUS
<1>1. /\ << >> \in Seq(Words) /\ << >> \in Seq(Parts) /\ Len(<< >>) = 0
      /\ << >> \in Seq([conn : Connections, text : 1 .. MaxTexts])
  OBVIOUS
<1>2. TypeOK
  BY <1>1 DEF Init, TypeOK
<1>3. \A c \in Connections : Len(buffer[c]) = 0 /\ Len(network[c]) = 0
  BY <1>1 DEF Init
<1>4. StreamInv
  <2> SUFFICES ASSUME NEW c \in Connections PROVE Stream(c)
    BY DEF StreamInv
  <2>1. 1 .. Len(buffer[c]) = {} /\ 1 .. Len(network[c]) = {}
    BY <1>3
  <2> QED
    BY <2>1, Zenon DEF Stream
<1>5. PastInv /\ ExecutedInOrder
  BY DEF Init, PastInv, Past, ExecutedInOrder
<1> QED
  BY <1>2, <1>4, <1>5

LEMMA NextTypeOK == TypeOK /\ StreamInv /\ [Next]_vars => TypeOK'
<1> SUFFICES ASSUME TypeOK, StreamInv, [Next]_vars PROVE TypeOK'
  OBVIOUS
<1> DEFINE Amount(c) == answers[c] + Len(buffer[c]) + Len(network[c])
<1>1. ASSUME NEW c \in Connections, Connect(c) PROVE TypeOK'
  BY <1>1 DEF Connect, TypeOK
<1>2. ASSUME NEW c \in Connections, Confirm(c) PROVE TypeOK'
  BY <1>2 DEF Confirm, TypeOK
<1>3. ASSUME NEW c \in Connections, NEW word \in Words, Send(c, word) PROVE TypeOK'
  <2>1. /\ texts'[c] \in Seq(Words) /\ Len(texts'[c]) = Len(texts[c]) + 1
        /\ network'[c] \in Seq(Parts) /\ Len(network'[c]) = Len(network[c]) + 2
    BY <1>3, SendAppends
  <2>2. /\ texts' \in [Connections -> Seq(Words)]
        /\ network' \in [Connections -> Seq(Parts)]
    BY <1>3, <2>1 DEF Send, TypeOK
  <2>3. UNCHANGED <<conn, buffer, executed, answers, confirmed>>
    BY <1>3 DEF Send
  <2>4. Amount(c)' <= 2 * Len(texts'[c])
    <3>1. /\ Len(buffer[c]) \in Nat /\ Len(network[c]) \in Nat /\ Len(texts[c]) \in Nat
          /\ answers[c] \in Nat /\ Amount(c) <= 2 * Len(texts[c])
      BY Typed DEF TypeOK
    <3>2. 2 * Len(texts'[c]) = 2 * Len(texts[c]) + 2
      BY <2>1, <3>1
    <3>3. Len(buffer'[c]) = Len(buffer[c]) /\ answers'[c] = answers[c]
      BY <2>3
    <3>4. Amount(c)' = Amount(c) + 2
      BY ONLY <2>1, <3>1, <3>3
    <3> QED
      BY ONLY <3>1, <3>2, <3>4, SMTT(40)
  <2>5. \A d \in Connections \ {c} : Amount(d)' <= 2 * Len(texts'[d])
    BY <1>3, OneConnection DEF OthersKept, TypeOK
  <2>6. \A d \in Connections : Amount(d)' <= 2 * Len(texts'[d])
    BY <2>4, <2>5
  <2> QED
    BY <2>2, <2>3, <2>6 DEF TypeOK
<1>4. ASSUME NEW c \in Connections, NEW n \in 1 .. 2 * MaxTexts, Arrive(c, n)
      PROVE  TypeOK'
  <2>0. n \in 1 .. Len(network[c])
    BY <1>4 DEF Arrive
  <2>1. /\ buffer'[c] \in Seq(Parts) /\ Len(buffer'[c]) = Len(buffer[c]) + n
        /\ network'[c] \in Seq(Parts) /\ Len(network'[c]) = Len(network[c]) - n
    BY <1>4, <2>0, ArriveMoves
  <2>2. /\ buffer' \in [Connections -> Seq(Parts)]
        /\ network' \in [Connections -> Seq(Parts)]
    BY <1>4, <2>1 DEF Arrive, TypeOK
  <2>3. UNCHANGED <<conn, texts, executed, answers, confirmed>>
    BY <1>4 DEF Arrive
  <2>4. Amount(c)' <= 2 * Len(texts'[c])
    <3>1. /\ Len(buffer[c]) \in Nat /\ Len(network[c]) \in Nat /\ Len(texts[c]) \in Nat
          /\ answers[c] \in Nat /\ Amount(c) <= 2 * Len(texts[c]) /\ n \in Nat
      BY Typed, <2>0, SMTT(40) DEF TypeOK
    <3> QED
      BY <2>1, <2>3, <3>1
  <2>5. \A d \in Connections \ {c} : Amount(d)' <= 2 * Len(texts'[d])
    BY <1>4, OneConnection DEF OthersKept, TypeOK
  <2>6. \A d \in Connections : Amount(d)' <= 2 * Len(texts'[d])
    BY <2>4, <2>5
  <2> QED
    BY <2>2, <2>3, <2>6 DEF TypeOK
<1>5. ASSUME NEW c \in Connections, onNewConnection(c) PROVE TypeOK'
  BY <1>5 DEF onNewConnection, TypeOK
<1>6. ASSUME NEW c \in Connections, onReadyRead(c) PROVE TypeOK'
  <2>1. /\ Len(buffer[c]) >= 1
        /\ buffer'[c] = << >> /\ Len(buffer'[c]) = 0
        /\ \/ executed' = executed
           \/ \E t \in 1 .. MaxTexts : executed' = Append(executed, [conn |-> c, text |-> t])
    BY <1>6, ReadyReadTakes
  <2>2. executed' \in Seq([conn : Connections, text : 1 .. MaxTexts])
    <3> DEFINE Commands == [conn : Connections, text : 1 .. MaxTexts]
    <3>1. executed \in Seq(Commands)
      BY Typed
    <3>2. CASE executed' = executed
      BY <3>1, <3>2
    <3>3. ASSUME NEW t \in 1 .. MaxTexts,
                 executed' = Append(executed, [conn |-> c, text |-> t])
          PROVE  executed' \in Seq(Commands)
      <4>1. [conn |-> c, text |-> t] \in Commands
        OBVIOUS
      <4> QED
        BY <3>1, <3>3, <4>1, AppendProperties
    <3> QED
      BY <2>1, <3>2, <3>3
  <2>3. /\ UNCHANGED <<conn, texts, network, confirmed>>
        /\ buffer' \in [Connections -> Seq(Parts)]
        /\ answers' = [answers EXCEPT ![c] = @ + 1]
    BY <1>6 DEF onReadyRead, TypeOK, LeftInBuffer
  <2>4. answers' \in [Connections -> Nat] /\ answers'[c] = answers[c] + 1
    BY <2>3 DEF TypeOK
  <2>5. Amount(c)' <= 2 * Len(texts'[c])
    <3>1. /\ Len(buffer[c]) \in Nat /\ Len(network[c]) \in Nat /\ Len(texts[c]) \in Nat
          /\ answers[c] \in Nat /\ Amount(c) <= 2 * Len(texts[c])
      BY Typed DEF TypeOK
    <3> QED
      BY <2>1, <2>3, <2>4, <3>1
  <2>6. \A d \in Connections \ {c} : Amount(d)' <= 2 * Len(texts'[d])
    BY <1>6, OneConnection DEF OthersKept, TypeOK, ServerStep
  <2>7. \A d \in Connections : Amount(d)' <= 2 * Len(texts'[d])
    BY <2>5, <2>6
  <2>8. \A d \in Connections : confirmed'[d] <= answers'[d]
    BY <2>3, <2>4 DEF TypeOK
  <2> QED
    BY <2>2, <2>3, <2>4, <2>7, <2>8 DEF TypeOK
<1>7. CASE UNCHANGED vars
  BY <1>7 DEF vars, TypeOK
<1> QED
  BY <1>1, <1>2, <1>3, <1>4, <1>5, <1>6, <1>7 DEF Next, ServerStep

-----------------------------------------------------------------------------
(* What is still on its way keeps its place in the stream, for the acting  *)
(* connection c; for the others nothing changes.                           *)
LEMMA NextStreamInv == TypeOK /\ StreamInv /\ [Next]_vars => StreamInv'
<1> SUFFICES ASSUME TypeOK, StreamInv, [Next]_vars PROVE StreamInv'
  OBVIOUS
<1>1. ASSUME NEW c \in Connections, OthersKept(c), Stream(c)' PROVE StreamInv'
  <2>1. ASSUME NEW d \in Connections \ {c} PROVE Stream(d)'
    <3>1. Stream(d)
      BY DEF StreamInv
    <3>2. texts'[d] = texts[d] /\ network'[d] = network[d] /\ buffer'[d] = buffer[d]
      BY <1>1 DEF OthersKept
    <3> QED
      BY <3>1, <3>2, Zenon DEF Stream, Read
  <2> QED
    BY <1>1, <2>1 DEF StreamInv
<1>2. ASSUME NEW c \in Connections, Connect(c) \/ Confirm(c) \/ onNewConnection(c)
      PROVE  StreamInv'
  BY <1>2 DEF Connect, Confirm, onNewConnection, StreamInv, Stream, Read
<1>3. ASSUME NEW c \in Connections, NEW word \in Words, Send(c, word) PROVE StreamInv'
  <2> DEFINE B == Len(buffer[c])
             N == Len(network[c])
             L == Len(texts[c])
  <2>1. B \in Nat /\ N \in Nat /\ L \in Nat
    BY Typed
  <2>2. /\ Len(texts'[c]) = L + 1 /\ Len(network'[c]) = N + 2
        /\ \A k \in 1 .. N : network'[c][k] = network[c][k]
        /\ Place(network'[c][N + 1]) = 2 * L + 1
        /\ Place(network'[c][N + 2]) = 2 * L + 2
    BY <1>3, SendAppends
  <2>3. buffer' = buffer
    BY <1>3 DEF Send
  <2>4. Read(c)' = Read(c) /\ Read(c) = 2 * L - B - N
    BY <2>1, <2>2, <2>3 DEF Read
  <2>5. /\ \A k \in 1 .. B : Place(buffer[c][k]) = Read(c) + k
        /\ \A k \in 1 .. N : Place(network[c][k]) = Read(c) + B + k
    BY DEF StreamInv, Stream
  <2> HIDE DEF B, N, L
  <2>6. \A k \in 1 .. N + 2 : k \in 1 .. N \/ k = N + 1 \/ k = N + 2
    BY <2>1
  <2>7. 2 * L + 1 = Read(c) + B + (N + 1) /\ 2 * L + 2 = Read(c) + B + (N + 2)
    BY <2>1, <2>4
  <2>8. \A k \in 1 .. N + 2 : Place(network'[c][k]) = Read(c) + B + k
    BY <2>2, <2>5, <2>6, <2>7
  <2>9. Stream(c)'
    BY <2>2, <2>3, <2>4, <2>5, <2>8 DEF Stream, B, N
  <2> QED
    BY <1>1, <1>3, <2>9, OneConnection
<1>4. ASSUME NEW c \in Connections, NEW n \in 1 .. 2 * MaxTexts, Arrive(c, n)
      PROVE  StreamInv'
  <2> DEFINE B == Len(buffer[c])
             N == Len(network[c])
  <2>1. B \in Nat /\ N \in Nat /\ Len(texts[c]) \in Nat /\ n \in 1 .. N
    BY <1>4, Typed DEF Arrive
  <2>2. /\ Len(buffer'[c]) = B + n /\ Len(network'[c]) = N - n
        /\ \A k \in 1 .. B + n :
             buffer'[c][k] = IF k <= B THEN buffer[c][k] ELSE network[c][k - B]
        /\ \A k \in 1 .. N - n : network'[c][k] = network[c][n + k]
    BY <1>4, <2>1, ArriveMoves
  <2>3. texts' = texts
    BY <1>4 DEF Arrive
  <2>4. Read(c)' = Read(c) /\ Read(c) \in Int
    BY <2>1, <2>2, <2>3 DEF Read
  <2>5. /\ \A k \in 1 .. B : Place(buffer[c][k]) = Read(c) + k
        /\ \A k \in 1 .. N : Place(network[c][k]) = Read(c) + B + k
    BY DEF StreamInv, Stream
  <2> HIDE DEF B, N
  <2>6. ASSUME NEW k \in 1 .. B + n PROVE Place(buffer'[c][k]) = Read(c) + k
    <3>1. CASE k <= B
      <4>1. k \in 1 .. B
        BY <2>1, <3>1
      <4> QED
        BY <2>2, <2>5, <3>1, <4>1
    <3>2. CASE ~(k <= B)
      <4>1. k - B \in 1 .. N /\ Read(c) + B + (k - B) = Read(c) + k
        BY <2>1, <2>4, <3>2
      <4> QED
        BY <2>2, <2>5, <3>2, <4>1
    <3> QED
      BY <3>1, <3>2
  <2>7. ASSUME NEW k \in 1 .. N - n
        PROVE  Place(network'[c][k]) = Read(c) + (B + n) + k
    <3>1. n + k \in 1 .. N /\ Read(c) + B + (n + k) = Read(c) + (B + n) + k
      BY <2>1, <2>4
    <3> QED
      BY <2>2, <2>5, <3>1
  <2>8. Stream(c)'
    BY <2>2, <2>4, <2>6, <2>7 DEF Stream
  <2> QED
    BY <1>1, <1>4, <2>8, OneConnection
<1>5. ASSUME NEW c \in Connections, onReadyRead(c) PROVE StreamInv'
  <2> DEFINE B == Len(buffer[c])
             N == Len(network[c])
  <2>1. B \in Nat /\ N \in Nat /\ Len(texts[c]) \in Nat
    BY Typed
  <2>2. Len(buffer'[c]) = 0
    BY <1>5, ReadyReadTakes
  <2>3. texts' = texts /\ network' = network
    BY <1>5 DEF onReadyRead
  <2>4. Read(c)' = Read(c) + B /\ Read(c) \in Int
    BY <2>1, <2>2, <2>3 DEF Read
  <2>5. \A k \in 1 .. N : Place(network[c][k]) = Read(c) + B + k
    BY DEF StreamInv, Stream
  <2> HIDE DEF B
  <2>6. \A k \in 1 .. N : Place(network[c][k]) = Read(c)' + 0 + k
    BY <2>1, <2>4, <2>5
  <2>7. Stream(c)'
    BY <2>2, <2>3, <2>6 DEF Stream
  <2> QED
    BY <1>1, <1>5, <2>7, OneConnection DEF ServerStep
<1>6. CASE UNCHANGED vars
  BY <1>6 DEF vars, StreamInv, Stream, Read
<1> QED
  BY <1>2, <1>3, <1>4, <1>5, <1>6 DEF Next, ServerStep

(* Every variable stays of its type, and the server never answers more     *)
(* often than parts arrived.                                               *)
THEOREM ControlTypeCorrect == Spec => []TypeOK
BY InitInv, NextTypeOK, NextStreamInv, PTL DEF Spec

-----------------------------------------------------------------------------
LEMMA ExecutedTexts ==
  ASSUME TypeOK, NEW i \in 1 .. Len(executed)
  PROVE  executed[i].conn \in Connections /\ executed[i].text \in 1 .. MaxTexts
<1> DEFINE Commands == [conn : Connections, text : 1 .. MaxTexts]
<1>1. executed \in Seq(Commands)
  BY DEF TypeOK
<1> HIDE DEF Commands
<1>2. executed[i] \in Commands
  BY <1>1, ElementOfSeq
<1> QED
  BY <1>2 DEF Commands

LEMMA AppendedCommand ==
  ASSUME TypeOK, NEW x \in [conn : Connections, text : 1 .. MaxTexts],
         executed' = Append(executed, x)
  PROVE  /\ Len(executed') = Len(executed) + 1
         /\ \A i \in 1 .. Len(executed) : executed'[i] = executed[i]
         /\ executed'[Len(executed) + 1] = x
<1> DEFINE old == executed
           Commands == [conn : Connections, text : 1 .. MaxTexts]
<1>1. old \in Seq(Commands) /\ x \in Commands /\ executed' = Append(old, x)
  BY DEF TypeOK
<1> HIDE DEF old, Commands
<1>2. /\ Len(executed') = Len(old) + 1
      /\ \A i \in 1 .. Len(old) : executed'[i] = old[i]
      /\ executed'[Len(old) + 1] = x
  BY ONLY <1>1, AppendProperties
<1> QED
  BY <1>2 DEF old

(* The stream only advances, and only what was read is executed.           *)
LEMMA ReadAdvances ==
  ASSUME TypeOK, StreamInv, [Next]_vars, NEW d \in Connections
  PROVE  Read(d) \in Int /\ Read(d)' \in Int /\ Read(d) <= Read(d)'
<1>1. Read(d) \in Int
  BY Typed DEF Read
<1>2. TypeOK'
  BY NextTypeOK
<1>3. ASSUME NEW c \in Connections, OthersKept(c), d # c PROVE Read(d)' = Read(d)
  BY <1>3 DEF OthersKept, Read
<1>4. ASSUME NEW word \in Words, Send(d, word) PROVE Read(d)' = Read(d)
  <2>1. /\ Len(texts'[d]) = Len(texts[d]) + 1 /\ Len(network'[d]) = Len(network[d]) + 2
        /\ buffer' = buffer
    BY <1>4, SendAppends DEF Send
  <2> QED
    BY <2>1, Typed DEF Read
<1>5. ASSUME NEW n \in 1 .. 2 * MaxTexts, Arrive(d, n) PROVE Read(d)' = Read(d)
  <2>1. /\ n \in 1 .. Len(network[d]) /\ texts' = texts
    BY <1>5 DEF Arrive
  <2>2. /\ Len(network'[d]) = Len(network[d]) - n /\ Len(buffer'[d]) = Len(buffer[d]) + n
    BY <1>5, <2>1, ArriveMoves
  <2> QED
    BY <2>1, <2>2, Typed DEF Read
<1>6. ASSUME onReadyRead(d) PROVE Read(d)' = Read(d) + Len(buffer[d])
  <2>1. Len(buffer'[d]) = 0 /\ texts' = texts /\ network' = network
    BY <1>6, ReadyReadTakes DEF onReadyRead
  <2> QED
    BY <2>1, Typed DEF Read
<1>7. ASSUME UNCHANGED <<texts, network, buffer>> PROVE Read(d)' = Read(d)
  BY <1>7 DEF Read
<1>8. Len(buffer[d]) \in Nat
  BY Typed
<1>9. Read(d)' = Read(d) \/ Read(d)' = Read(d) + Len(buffer[d])
  <2>1. ASSUME NEW c \in Connections, Connect(c) \/ Confirm(c) \/ onNewConnection(c)
        PROVE  Read(d)' = Read(d)
    BY <1>7, <2>1 DEF Connect, Confirm, onNewConnection
  <2>2. ASSUME NEW c \in Connections, NEW word \in Words, Send(c, word)
        PROVE  Read(d)' = Read(d)
    BY <1>3, <1>4, <2>2, OneConnection
  <2>3. ASSUME NEW c \in Connections, NEW n \in 1 .. 2 * MaxTexts, Arrive(c, n)
        PROVE  Read(d)' = Read(d)
    BY <1>3, <1>5, <2>3, OneConnection
  <2>4. ASSUME NEW c \in Connections, onReadyRead(c)
        PROVE  Read(d)' = Read(d) \/ Read(d)' = Read(d) + Len(buffer[d])
    BY <1>3, <1>6, <2>4, OneConnection DEF ServerStep
  <2>5. UNCHANGED vars => Read(d)' = Read(d)
    BY <1>7 DEF vars
  <2> QED
    BY <2>1, <2>2, <2>3, <2>4, <2>5 DEF Next, ServerStep
<1> QED
  BY <1>1, <1>8, <1>9

(* A step executes nothing, or one command that ends where the server has  *)
(* read its connection's stream to.                                        *)
LEMMA ExecutesAtRead ==
  ASSUME TypeOK, StreamInv, [Next]_vars
  PROVE  \/ executed' = executed
         \/ \E c \in Connections, t \in 1 .. MaxTexts :
              /\ onReadyRead(c)
              /\ 2 * t = Read(c) + 2 /\ Read(c)' = 2 * t
              /\ executed' = Append(executed, [conn |-> c, text |-> t])
<1>1. ASSUME NEW c \in Connections, onReadyRead(c)
      PROVE  \/ executed' = executed
             \/ \E t \in 1 .. MaxTexts :
                  /\ 2 * t = Read(c) + 2 /\ Read(c)' = 2 * t
                  /\ executed' = Append(executed, [conn |-> c, text |-> t])
  <2>1. Len(buffer[c]) = 2 => Read(c)' = Read(c) + 2
    <3>1. Len(buffer'[c]) = 0 /\ texts' = texts /\ network' = network
      BY <1>1, ReadyReadTakes DEF onReadyRead
    <3> QED
      BY <3>1, Typed DEF Read
  <2> QED
    BY <1>1, <2>1, ReadyReadTakes
<1>2. ASSUME NEW c \in Connections, onReadyRead(c)
      PROVE  \/ executed' = executed
             \/ \E d \in Connections, t \in 1 .. MaxTexts :
                  /\ onReadyRead(d)
                  /\ 2 * t = Read(d) + 2 /\ Read(d)' = 2 * t
                  /\ executed' = Append(executed, [conn |-> d, text |-> t])
  BY <1>1, <1>2
<1> QED
  BY <1>2 DEF Next, ServerStep, Connect, Confirm, onNewConnection, Send, Arrive, vars

LEMMA NextPastInv == TypeOK /\ StreamInv /\ PastInv /\ [Next]_vars => PastInv'
<1> SUFFICES ASSUME TypeOK, StreamInv, PastInv, [Next]_vars, NEW d \in Connections
             PROVE  Past(d)'
  BY DEF PastInv
<1>1. Read(d) \in Int /\ Read(d)' \in Int /\ Read(d) <= Read(d)'
  BY ReadAdvances
<1>2. \A i \in 1 .. Len(executed) : executed[i].text \in Int
  BY ExecutedTexts, MaxTextsAssumption
<1>3. \A i \in 1 .. Len(executed) : executed[i].conn = d => 2 * executed[i].text <= Read(d)'
  BY <1>1, <1>2 DEF PastInv, Past
<1>4. CASE executed' = executed
  BY <1>3, <1>4 DEF Past
<1>5. ASSUME NEW c \in Connections, NEW t \in 1 .. MaxTexts, Read(c)' = 2 * t,
             executed' = Append(executed, [conn |-> c, text |-> t])
      PROVE  Past(d)'
  <2> DEFINE x == [conn |-> c, text |-> t]
             n == Len(executed)
  <2>1. x \in [conn : Connections, text : 1 .. MaxTexts] /\ x.conn = c /\ x.text = t
    OBVIOUS
  <2> HIDE DEF x
  <2>2. /\ Len(executed') = n + 1
        /\ \A i \in 1 .. n : executed'[i] = executed[i]
        /\ executed'[n + 1] = x
    BY <1>5, <2>1, AppendedCommand DEF x
  <2>3. n \in Nat /\ \A i \in 1 .. n + 1 : i \in 1 .. n \/ i = n + 1
    BY Typed
  <2>4. x.conn = d => 2 * x.text <= Read(d)'
    BY <1>1, <1>5, <2>1
  <2> HIDE DEF n
  <2>5. \A i \in 1 .. n : executed'[i].conn = d => 2 * executed'[i].text <= Read(d)'
    BY <1>3, <2>2 DEF n
  <2> QED
    BY <2>2, <2>3, <2>4, <2>5 DEF Past
<1> QED
  BY <1>4, <1>5, ExecutesAtRead

LEMMA NextExecutedInOrder ==
  TypeOK /\ StreamInv /\ PastInv /\ ExecutedInOrder /\ [Next]_vars => ExecutedInOrder'
<1> SUFFICES ASSUME TypeOK, StreamInv, PastInv, ExecutedInOrder, [Next]_vars
             PROVE  ExecutedInOrder'
  OBVIOUS
<1>1. CASE executed' = executed
  BY <1>1 DEF ExecutedInOrder
<1>2. ASSUME NEW c \in Connections, NEW t \in 1 .. MaxTexts, 2 * t = Read(c) + 2,
             executed' = Append(executed, [conn |-> c, text |-> t])
      PROVE  ExecutedInOrder'
  <2> DEFINE x == [conn |-> c, text |-> t]
             n == Len(executed)
  <2>1. x \in [conn : Connections, text : 1 .. MaxTexts] /\ x.conn = c /\ x.text = t
    OBVIOUS
  <2> HIDE DEF x
  <2>2. /\ Len(executed') = n + 1
        /\ \A i \in 1 .. n : executed'[i] = executed[i]
        /\ executed'[n + 1] = x
    BY <1>2, <2>1, AppendedCommand DEF x
  <2>3. n \in Nat /\ \A i \in 1 .. n + 1 : i \in 1 .. n \/ i = n + 1
    BY Typed
  <2>4. \A i \in 1 .. n : executed[i].text \in Int
    BY ExecutedTexts, MaxTextsAssumption
  <2>5. Read(c) \in Int
    BY Typed DEF Read
  <2>6. \A i \in 1 .. n : executed[i].conn = c => 2 * executed[i].text <= Read(c)
    BY DEF PastInv, Past
  <2>7. \A i \in 1 .. n : executed[i].conn = c => executed[i].text < x.text
    BY <1>2, <2>1, <2>4, <2>5, <2>6
  <2>8. \A i, j \in 1 .. n :
          i < j /\ executed[i].conn = executed[j].conn => executed[i].text < executed[j].text
    BY DEF ExecutedInOrder
  <2> HIDE DEF n
  <2>9. ASSUME NEW i \in 1 .. n + 1, NEW j \in 1 .. n + 1, i < j,
               executed'[i].conn = executed'[j].conn
        PROVE  executed'[i].text < executed'[j].text
    <3>1. i \in 1 .. n
      BY <2>3, <2>9
    <3>2. CASE j \in 1 .. n
      BY <2>2, <2>8, <2>9, <3>1, <3>2
    <3>3. CASE j = n + 1
      BY <2>1, <2>2, <2>7, <2>9, <3>1, <3>3
    <3> QED
      BY <2>3, <3>2, <3>3
  <2> QED
    BY <2>2, <2>9 DEF ExecutedInOrder
<1> QED
  BY <1>1, <1>2, ExecutesAtRead

(* However the network cuts and joins the texts of any number of managers, *)
(* TcpServer executes no command twice and none out of its sender's order. *)
THEOREM ControlKeepsOrder == Spec => []ExecutedInOrder
BY InitInv, NextTypeOK, NextStreamInv, NextPastInv, NextExecutedInOrder, PTL DEF Spec

-----------------------------------------------------------------------------
(* A patient manager has at most one text on its way, whole.               *)
OneTextAtATime ==
  \A c \in Connections :
    \/ /\ Len(buffer[c]) = 0 /\ Len(network[c]) = 0
       /\ answers[c] = Len(texts[c])
    \/ /\ Len(buffer[c]) = 2 /\ Len(network[c]) = 0
       /\ Len(texts[c]) = answers[c] + 1
    \/ /\ Len(buffer[c]) = 0 /\ Len(network[c]) = 2
       /\ Len(texts[c]) = answers[c] + 1

LEMMA ExecutedGrows ==
  ASSUME TypeOK, StreamInv, [Next]_vars, NEW i \in 1 .. Len(executed)
  PROVE  i \in 1 .. Len(executed') /\ executed'[i] = executed[i]
<1>1. CASE executed' = executed
  BY <1>1
<1>2. ASSUME NEW c \in Connections, NEW t \in 1 .. MaxTexts,
             executed' = Append(executed, [conn |-> c, text |-> t])
      PROVE  i \in 1 .. Len(executed') /\ executed'[i] = executed[i]
  <2> DEFINE x == [conn |-> c, text |-> t]
  <2>1. x \in [conn : Connections, text : 1 .. MaxTexts]
    OBVIOUS
  <2> HIDE DEF x
  <2>2. Len(executed') = Len(executed) + 1 /\ executed'[i] = executed[i]
    BY <1>2, <2>1, AppendedCommand DEF x
  <2>3. Len(executed) \in Nat
    BY Typed
  <2> QED
    BY <2>2, <2>3
<1> QED
  BY <1>1, <1>2, ExecutesAtRead

LEMMA PlaceDecides ==
  ASSUME NEW t \in Int, NEW part \in {1, 2}, NEW L \in Int,
         2 * t - 2 + part \in {2 * L - 1, 2 * L}
  PROVE  t = L
OBVIOUS

(* A whole text in the buffer is the last one sent, and is executed if the *)
(* server has a case for it.                                               *)
LEMMA WholeTextIsExecuted ==
  ASSUME TypeOK, StreamInv, NEW c \in Connections, onReadyRead(c),
         Len(buffer[c]) = 2, Len(network[c]) = 0,
         texts[c][Len(texts[c])] \in Executable
  PROVE  /\ Len(texts[c]) \in 1 .. MaxTexts
         /\ executed' = Append(executed, [conn |-> c, text |-> Len(texts[c])])
<1> DEFINE chunk == buffer[c]
           L == Len(texts[c])
<1>1. chunk \in Seq(Parts) /\ Len(chunk) = 2 /\ L \in Nat
  BY Typed
<1>2. chunk[1] \in Parts /\ chunk[2] \in Parts
  BY <1>1, ElementOfSeq
<1>3. Read(c) = 2 * L - 2
  BY <1>1 DEF Read
<1>4. Place(chunk[1]) = Read(c) + 1 /\ Place(chunk[2]) = Read(c) + 2
  BY <1>1 DEF StreamInv, Stream
<1>5. /\ chunk[1].text \in 1 .. MaxTexts /\ chunk[2].text \in 1 .. MaxTexts
      /\ chunk[1].part \in {1, 2} /\ chunk[2].part \in {1, 2}
  BY <1>2 DEF Parts
<1>6. executed' = IF parseCommand(parseMessage(c, chunk)) = "none" THEN executed
                  ELSE Append(executed, [conn |-> c, text |-> chunk[1].text])
  BY DEF onReadyRead
<1>7. texts[c][L] \in Executable
  OBVIOUS
<1> HIDE DEF chunk, L
<1>8. chunk[1].text = L /\ chunk[2].text = L
  <2>1. Read(c) + 1 = 2 * L - 1 /\ Read(c) + 2 = 2 * L
    BY ONLY <1>1, <1>3
  <2>2. chunk[1].text \in Int /\ chunk[2].text \in Int
    BY ONLY <1>5, MaxTextsAssumption
  <2>3. /\ Place(chunk[1]) = 2 * chunk[1].text - 2 + chunk[1].part
        /\ Place(chunk[2]) = 2 * chunk[2].text - 2 + chunk[2].part
    BY ONLY Zenon DEF Place
  <2>4. 2 * chunk[1].text - 2 + chunk[1].part = 2 * L - 1
    BY ONLY <1>4, <2>1, <2>3, Zenon
  <2>5. 2 * chunk[2].text - 2 + chunk[2].part = 2 * L
    BY ONLY <1>4, <2>1, <2>3, Zenon
  <2>6. L \in Int
    BY ONLY <1>1
  <2>7. chunk[1].text = L
    BY ONLY <1>5, <2>2, <2>4, <2>6, PlaceDecides
  <2>8. chunk[2].text = L
    BY ONLY <1>5, <2>2, <2>5, <2>6, PlaceDecides
  <2> QED
    BY ONLY <2>7, <2>8
<1>9. parseMessage(c, chunk) = texts[c][L]
  BY <1>1, <1>8 DEF parseMessage
<1>10. parseCommand(parseMessage(c, chunk)) # "none"
  BY <1>7, <1>9 DEF parseCommand, Executable
<1> QED
  BY <1>5, <1>6, <1>8, <1>10 DEF L

LEMMA InitPatient == Init => OneTextAtATime /\ AnsweredIsExecuted
<1> SUFFICES ASSUME Init PROVE OneTextAtATime /\ AnsweredIsExecuted
  OBVIOUS
<1>1. \A c \in Connections : /\ Len(buffer[c]) = 0 /\ Len(network[c]) = 0
                             /\ Len(texts[c]) = 0 /\ answers[c] = 0
  BY DEF Init
<1> QED
  BY <1>1 DEF OneTextAtATime, AnsweredIsExecuted

LEMMA NextPatient ==
  TypeOK /\ StreamInv /\ OneTextAtATime /\ AnsweredIsExecuted /\ [Next /\ Patient]_vars
    => OneTextAtATime' /\ AnsweredIsExecuted'
<1> SUFFICES ASSUME TypeOK, StreamInv, OneTextAtATime, AnsweredIsExecuted,
                    [Next /\ Patient]_vars
             PROVE  OneTextAtATime' /\ AnsweredIsExecuted'
  OBVIOUS
<1> DEFINE One(c) ==
             \/ /\ Len(buffer[c]) = 0 /\ Len(network[c]) = 0
                /\ answers[c] = Len(texts[c])
             \/ /\ Len(buffer[c]) = 2 /\ Len(network[c]) = 0
                /\ Len(texts[c]) = answers[c] + 1
             \/ /\ Len(buffer[c]) = 0 /\ Len(network[c]) = 2
                /\ Len(texts[c]) = answers[c] + 1
           Known(c, k) == \E i \in 1 .. Len(executed) : executed[i] = [conn |-> c, text |-> k]
           Done(c) == \A k \in 1 .. Len(texts[c]) :
                        answers[c] >= k /\ texts[c][k] \in Executable => Known(c, k)
<1>1. \A c \in Connections : One(c) /\ Done(c)
  BY Zenon DEF OneTextAtATime, AnsweredIsExecuted
<1>2. ASSUME \A c \in Connections : One(c)' /\ Done(c)'
      PROVE  OneTextAtATime' /\ AnsweredIsExecuted'
  BY <1>2, Zenon DEF OneTextAtATime, AnsweredIsExecuted
<1>3. \A c \in Connections, k \in Nat : Known(c, k) => Known(c, k)'
  BY ExecutedGrows
<1> HIDE DEF Known
<1>4. ASSUME NEW c \in Connections,
             texts'[c] = texts[c], network'[c] = network[c],
             buffer'[c] = buffer[c], answers'[c] = answers[c]
      PROVE  One(c)' /\ Done(c)'
  <2>1. Len(texts[c]) \in Nat
    BY Typed
  <2>2. \A k \in 1 .. Len(texts[c]) : k \in Nat
    BY <2>1
  <2> QED
    BY <1>1, <1>3, <1>4, <2>2
<1>5. ASSUME NEW c \in Connections, OthersKept(c), One(c)', Done(c)'
      PROVE  OneTextAtATime' /\ AnsweredIsExecuted'
  <2>1. \A d \in Connections \ {c} : One(d)' /\ Done(d)'
    BY <1>4, <1>5 DEF OthersKept
  <2> QED
    BY <1>2, <1>5, <2>1
<1>6. ASSUME NEW c \in Connections, Connect(c) \/ Confirm(c) \/ onNewConnection(c)
      PROVE  OneTextAtATime' /\ AnsweredIsExecuted'
  BY <1>2, <1>4, <1>6 DEF Connect, Confirm, onNewConnection
<1>7. ASSUME NEW c \in Connections, NEW word \in Words, Send(c, word), Patient
      PROVE  OneTextAtATime' /\ AnsweredIsExecuted'
  <2> DEFINE L == Len(texts[c])
  <2>1. /\ Len(texts'[c]) = L + 1 /\ Len(network'[c]) = Len(network[c]) + 2
        /\ \A k \in 1 .. L : texts'[c][k] = texts[c][k]
        /\ buffer' = buffer /\ answers' = answers
    BY <1>7, SendAppends DEF Send
  <2>2. L \in Nat /\ answers[c] \in Nat /\ confirmed[c] \in Nat /\ confirmed[c] <= answers[c]
    BY Typed DEF TypeOK
  <2>3. confirmed[c] = L
    BY <1>7, <2>1, <2>2 DEF Patient
  <2>4. Len(buffer[c]) = 0 /\ Len(network[c]) = 0 /\ answers[c] = L
    BY <1>1, <2>2, <2>3
  <2>5. One(c)'
    BY <2>1, <2>4
  <2>6. \A k \in 1 .. L + 1 : answers[c] >= k => k \in 1 .. L /\ k \in Nat
    BY <2>2, <2>4
  <2>7. Done(c)'
    BY <1>1, <1>3, <2>1, <2>6
  <2> QED
    BY <1>5, <1>7, <2>5, <2>7, OneConnection
<1>8. ASSUME NEW c \in Connections, NEW n \in 1 .. 2 * MaxTexts, Arrive(c, n), Patient
      PROVE  OneTextAtATime' /\ AnsweredIsExecuted'
  <2>1. n \in 1 .. Len(network[c]) /\ texts' = texts /\ answers' = answers
    BY <1>8 DEF Arrive
  <2>2. Len(network'[c]) = Len(network[c]) - n /\ Len(buffer'[c]) = Len(buffer[c]) + n
    BY <1>8, <2>1, ArriveMoves
  <2>3. Len(network[c]) \in Nat /\ Len(texts[c]) \in Nat
    BY Typed
  <2>4. network'[c] = << >>
    BY <1>8, <2>1, <2>2, <2>3 DEF Patient
  <2>5. Len(network'[c]) = 0
    BY <2>4
  <2>6. One(c)'
    <3>1. Len(network[c]) = n /\ n # 0
      BY <2>1, <2>2, <2>3, <2>5
    <3>2. Len(buffer[c]) = 0 /\ Len(network[c]) = 2 /\ Len(texts[c]) = answers[c] + 1
      BY <1>1, <3>1
    <3>3. Len(buffer'[c]) = 2
      BY <2>2, <3>1, <3>2
    <3> QED
      BY <2>1, <2>5, <3>2, <3>3
  <2>7. \A k \in 1 .. Len(texts[c]) : k \in Nat
    BY <2>3
  <2>8. Done(c)'
    BY <1>1, <1>3, <2>1, <2>7
  <2> QED
    BY <1>5, <1>8, <2>6, <2>8, OneConnection
<1>9. ASSUME NEW c \in Connections, onReadyRead(c)
      PROVE  OneTextAtATime' /\ AnsweredIsExecuted'
  <2> DEFINE L == Len(texts[c])
  <2>1. L \in Nat /\ answers[c] \in Nat
    BY Typed DEF TypeOK
  <2>2. /\ Len(buffer[c]) >= 1 /\ Len(buffer'[c]) = 0
        /\ texts' = texts /\ network' = network /\ answers'[c] = answers[c] + 1
    BY <1>9, ReadyReadTakes DEF onReadyRead, TypeOK
  <2>3. Len(buffer[c]) = 2 /\ Len(network[c]) = 0 /\ L = answers[c] + 1
    BY <1>1, <2>2
  <2>4. One(c)'
    BY <2>2, <2>3
  <2>5. ASSUME texts[c][L] \in Executable PROVE Known(c, L)'
    <3> DEFINE x == [conn |-> c, text |-> L]
    <3>1. L \in 1 .. MaxTexts /\ executed' = Append(executed, x)
      BY <1>9, <2>3, <2>5, WholeTextIsExecuted
    <3>2. x \in [conn : Connections, text : 1 .. MaxTexts]
      BY <3>1
    <3> HIDE DEF x
    <3>3. Len(executed') = Len(executed) + 1 /\ executed'[Len(executed) + 1] = x
      BY <3>1, <3>2, AppendedCommand
    <3>4. Len(executed) + 1 \in 1 .. Len(executed')
      BY <3>3, Typed
    <3>5. \E i \in 1 .. Len(executed') : executed'[i] = [conn |-> c, text |-> L]
      BY <3>3, <3>4 DEF x
    <3> QED
      BY <2>2, <3>5 DEF Known
  <2>6. \A k \in 1 .. L : k \in Nat /\ (k = L \/ answers[c] >= k)
    BY <2>1, <2>3
  <2>7. Done(c)'
    BY <1>1, <1>3, <2>2, <2>5, <2>6
  <2> QED
    BY <1>5, <1>9, <2>4, <2>7, OneConnection DEF ServerStep
<1>10. CASE UNCHANGED vars
  BY <1>2, <1>4, <1>10 DEF vars
<1> QED
  BY <1>6, <1>7, <1>8, <1>9, <1>10 DEF Next, ServerStep

(* A manager that waits for each answer, on a network that delivers every  *)
(* text whole, may take the answer for the execution of its command.       *)
THEOREM PatientIsServed == PatientSpec => []AnsweredIsExecuted
<1>1. [Next /\ Patient]_vars => [Next]_vars
  OBVIOUS
<1> QED
  BY <1>1, InitInv, InitPatient, NextTypeOK, NextStreamInv, NextPatient, PTL DEF PatientSpec

=============================================================================

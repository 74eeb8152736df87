--------------------------- MODULE ControlChannel ---------------------------
(***************************************************************************)
(* The TCP control channel: managers send commands as JSON texts with no   *)
(* framing, TcpServer takes whatever a readyRead finds in the buffer for   *)
(* one command, executes it and answers with one byte.  TCP delivers the   *)
(* bytes of a connection in order, in pieces of its own choosing: a text   *)
(* is modelled as two parts that may arrive apart, or together with parts  *)
(* of the texts before and after it.                                       *)
(***************************************************************************)
EXTENDS Naturals, Sequences

CONSTANTS
  Connections,  \* the connections managers may open
  Words,        \* the "command" members managers write
  MaxTexts      \* bound: how many texts are sent on each connection

(* "send" is a command parseCommand knows and the switch does not.         *)
Executable == {"config", "subscribe", "start", "stop"}

ASSUME WordsAssumption == Words \subseteq Executable \cup {"send", "other"}
ASSUME MaxTextsAssumption == MaxTexts \in Nat

VARIABLES
  conn,      \* each connection: "closed", "pending" or "accepted"
  texts,     \* the command words sent on each connection, in order
  network,   \* parts sent and not yet arrived
  buffer,    \* parts arrived and not yet read by the server
  executed,  \* [conn, text] of every command executed, in order
  answers,   \* how many answer bytes the server wrote to each connection
  confirmed  \* how many of them the manager has read

vars == <<conn, texts, network, buffer, executed, answers, confirmed>>

Parts == [text : 1 .. MaxTexts, part : {1, 2}]

TypeOK ==
  /\ conn \in [Connections -> {"closed", "pending", "accepted"}]
  /\ texts \in [Connections -> Seq(Words)]
  /\ network \in [Connections -> Seq(Parts)]
  /\ buffer \in [Connections -> Seq(Parts)]
  /\ executed \in Seq([conn : Connections, text : 1 .. MaxTexts])
  /\ answers \in [Connections -> Nat]
  /\ confirmed \in [Connections -> Nat]
  /\ \A c \in Connections :
       /\ confirmed[c] <= answers[c]
       /\ answers[c] + Len(buffer[c]) + Len(network[c]) <= 2 * Len(texts[c])

Init ==
  /\ conn = [c \in Connections |-> "closed"]
  /\ texts = [c \in Connections |-> << >>]
  /\ network = [c \in Connections |-> << >>]
  /\ buffer = [c \in Connections |-> << >>]
  /\ executed = << >>
  /\ answers = [c \in Connections |-> 0]
  /\ confirmed = [c \in Connections |-> 0]

-----------------------------------------------------------------------------
(* Slips a change of the code could make, see EdgeNode.                    *)
parseCommand_WithoutStop(word) ==
  IF word \in {"config", "subscribe", "start"} THEN word ELSE "none"
parseMessage_FirstPart(c, chunk) == texts[c][chunk[1].text]
onNewConnection_OnlyOne(c) ==
  /\ conn[c] = "pending"
  /\ \A d \in Connections : conn[d] # "accepted"
  /\ conn' = [conn EXCEPT ![c] = "accepted"]
  /\ UNCHANGED <<texts, network, buffer, executed, answers, confirmed>>
-----------------------------------------------------------------------------
(* Managers and the network.                                               *)

Connect(c) ==
  /\ conn[c] = "closed"
  /\ conn' = [conn EXCEPT ![c] = "pending"]
  /\ UNCHANGED <<texts, network, buffer, executed, answers, confirmed>>

Send(c, word) ==
  /\ conn[c] \in {"pending", "accepted"}
  /\ Len(texts[c]) < MaxTexts
  /\ texts' = [texts EXCEPT ![c] = Append(@, word)]
  /\ network' = [network EXCEPT ![c] =
                   @ \o <<[text |-> Len(texts[c]) + 1, part |-> 1],
                          [text |-> Len(texts[c]) + 1, part |-> 2]>>]
  /\ UNCHANGED <<conn, buffer, executed, answers, confirmed>>

Arrive(c, n) ==
  /\ n \in 1 .. Len(network[c])
  /\ buffer' = [buffer EXCEPT ![c] = @ \o SubSeq(network[c], 1, n)]
  /\ network' = [network EXCEPT ![c] = SubSeq(@, n + 1, Len(@))]
  /\ UNCHANGED <<conn, texts, executed, answers, confirmed>>

Confirm(c) ==
  /\ confirmed[c] < answers[c]
  /\ confirmed' = [confirmed EXCEPT ![c] = @ + 1]
  /\ UNCHANGED <<conn, texts, network, buffer, executed, answers>>

-----------------------------------------------------------------------------
(* The server's slots, run one at a time by the event loop.                *)

onNewConnection(c) ==
  /\ conn[c] = "pending"
  /\ conn' = [conn EXCEPT ![c] = "accepted"]
  /\ UNCHANGED <<texts, network, buffer, executed, answers, confirmed>>

(* A chunk that is not exactly one JSON text has no "command".             *)
parseMessage(c, chunk) ==
  IF Len(chunk) = 2 /\ chunk[1].text = chunk[2].text THEN texts[c][chunk[1].text] ELSE ""

(* The case of the switch that runs, if any.                               *)
parseCommand(word) == IF word \in Executable THEN word ELSE "none"

LeftInBuffer(chunk) == << >>

onReadyRead(c) ==
  /\ conn[c] = "accepted"
  /\ buffer[c] # << >>
  /\ LET chunk == buffer[c]
     IN  /\ buffer' = [buffer EXCEPT ![c] = LeftInBuffer(chunk)]
         /\ executed' = IF parseCommand(parseMessage(c, chunk)) = "none" THEN executed
                        ELSE Append(executed, [conn |-> c, text |-> chunk[1].text])
  /\ answers' = [answers EXCEPT ![c] = @ + 1]
  /\ UNCHANGED <<conn, texts, network, confirmed>>

ServerStep(c) == onNewConnection(c) \/ onReadyRead(c)

Next ==
  \E c \in Connections :
    \/ Connect(c)
    \/ \E word \in Words : Send(c, word)
    \/ \E n \in 1 .. 2 * MaxTexts : Arrive(c, n)
    \/ Confirm(c)
    \/ ServerStep(c)

Spec == Init /\ [][Next]_vars

(* The event loop runs every slot that is due; TCP delivers what was sent. *)
FairSpec ==
  /\ Spec
  /\ \A c \in Connections :
       /\ WF_vars(ServerStep(c))
       /\ WF_vars(\E n \in 1 .. 2 * MaxTexts : Arrive(c, n))

-----------------------------------------------------------------------------
(* However the texts are cut and joined, no command is executed twice or   *)
(* out of the order in which its connection sent it.                       *)
ExecutedInOrder ==
  \A i, j \in 1 .. Len(executed) :
    i < j /\ executed[i].conn = executed[j].conn => executed[i].text < executed[j].text

(* Whatever a manager sends is read to the last part and answered, even if *)
(* it is sent before the connection is accepted.                           *)
EverythingIsRead ==
  \A c \in Connections :
    Len(texts[c]) > 0 ~> network[c] = << >> /\ buffer[c] = << >> /\ answers[c] > 0

-----------------------------------------------------------------------------
(* A patient manager sends a text only when the last one was answered, and *)
(* is lucky: every text arrives in one piece.  Nothing in the code asks    *)
(* for the first or can rely on the second.                                *)
Patient ==
  \A c \in Connections :
    /\ Len(texts'[c]) > Len(texts[c]) => confirmed[c] = Len(texts[c])
    /\ Len(network'[c]) < Len(network[c]) => network'[c] = << >>

PatientSpec == Init /\ [][Next /\ Patient]_vars

(* Then an answer means what the manager takes it for: the command it      *)
(* belongs to has been executed, if it is one the server has.              *)
AnsweredIsExecuted ==
  \A c \in Connections : \A k \in 1 .. Len(texts[c]) :
    answers[c] >= k /\ texts[c][k] \in Executable =>
      \E i \in 1 .. Len(executed) : executed[i] = [conn |-> c, text |-> k]

=============================================================================

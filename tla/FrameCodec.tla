----------------------------- MODULE FrameCodec -----------------------------
(***************************************************************************)
(* What a worker makes of the bytes of one message, and the next program   *)
(* in the pipeline of the result.  data_frame is a QString and a           *)
(* QByteArray in a QDataStream; nothing frames or checks them, the stream  *)
(* status is never looked at, and a message may come from any peer.        *)
(* Scale: a byte is a digit below Base, a length word is two bytes where   *)
(* Qt has four, a character is two bytes as in Qt.                         *)
(***************************************************************************)
EXTENDS Naturals, Sequences

CONSTANTS Base, MaxLen   \* bounds: byte values, message length

VARIABLES
  reader,  \* who reads: "node", or "next", the program behind a subscriber
  step,    \* the field to read next, past the last when all are read
  buf,     \* the message
  pos,     \* bytes the stream has consumed
  status,  \* the QDataStream's status
  frame    \* the data_frame

vars == <<reader, step, buf, pos, status, frame>>

Byte == 0 .. Base - 1
NullWord == Base * Base - 1     \* 0xFFFFFFFF
Null == [null |-> TRUE, data |-> << >>]
Bytes(s) == [null |-> FALSE, data |-> s]

Word(n) == <<n \div Base, n % Base>>
Encode(v) == IF v.null THEN Word(NullWord) ELSE Word(Len(v.data)) \o v.data

-----------------------------------------------------------------------------
(* Slips a change of the code could make.                                  *)

Fields_Swapped == <<"image", "context">>

-----------------------------------------------------------------------------
(* QDataStream's operators.                                                *)

Rest == SubSeq(buf, pos + 1, Len(buf))

(* in >> quint32: what is there is consumed, a short word counts as 0.     *)
WordHere == IF Len(Rest) < 2 THEN 0 ELSE Rest[1] * Base + Rest[2]
AfterWord == IF Len(Rest) < 2 THEN Len(buf) ELSE pos + 2

Payload(n) == SubSeq(buf, AfterWord + 1, IF AfterWord + n < Len(buf) THEN AfterWord + n ELSE Len(buf))

Whole(n, got) == Len(got) = n

(* A QString of odd length is refused before its payload is consumed.      *)
ReadValue(field) ==
  LET n == IF WordHere = NullWord THEN 0 ELSE WordHere
      odd == field = "context" /\ n % 2 = 1
      got == IF odd THEN << >> ELSE Payload(n)
  IN /\ frame' = [frame EXCEPT ![field] =
                     IF WordHere = NullWord \/ ~Whole(n, got) THEN Null ELSE Bytes(got)]
     /\ pos' = AfterWord + Len(got)
     /\ status' = IF status # "Ok" THEN status
                  ELSE IF odd THEN "ReadCorruptData"
                  ELSE IF Len(Rest) < 2 \/ Len(got) < n THEN "ReadPastEnd" ELSE "Ok"

-----------------------------------------------------------------------------
(* data_frame and its users.                                               *)

Fields == <<"context", "image">>

EncodeFrame(f) == Encode(f.context) \o Encode(f.image)

EmptyFrame == [context |-> Null, image |-> Null]

Init ==
  /\ reader = "node"
  /\ step = 1
  /\ buf \in UNION {[1 .. n -> Byte] : n \in 0 .. MaxLen}
  /\ pos = 0
  /\ status = "Ok"
  /\ frame = EmptyFrame

ReadField ==
  /\ step \in 1 .. Len(Fields)
  /\ ReadValue(Fields[step])
  /\ step' = step + 1
  /\ UNCHANGED <<reader, buf>>

(* doHandle looks at no part of the frame: its JSON holds the time it took *)
(* itself.  One character stands for that text.                            *)
Json == <<1, 1>>
Result == Encode(Bytes(Json))

Handle ==
  /\ reader = "node"
  /\ step = Len(Fields) + 1
  /\ reader' = "next"
  /\ buf' = Result
  /\ step' = 1
  /\ pos' = 0
  /\ status' = "Ok"
  /\ frame' = EmptyFrame

Next == ReadField \/ Handle

Spec == Init /\ [][Next]_vars

-----------------------------------------------------------------------------
Read == step = Len(Fields) + 1

Begins(s, t) == Len(s) <= Len(t) /\ SubSeq(t, 1, Len(s)) = s

(* A frame that was read without an error is the one the message starts    *)
(* with: no field is cut short, none is read from another field's bytes.   *)
OkMeansWhole == Read /\ status = "Ok" => Begins(EncodeFrame(frame), buf)

(* Whatever follows it, a frame that an upstream node encoded is read back *)
(* as it was, with null and empty told apart.                              *)
Values(n) == {Null, Bytes(<< >>)} \cup {Bytes(s) : s \in [1 .. n -> Byte]}
FrameReadsBack ==
  Read => \A c \in Values(2), i \in Values(1) :
    LET f == [context |-> c, image |-> i] IN
    Begins(EncodeFrame(f), buf) => frame = f /\ status = "Ok"

(* The next program finds the JSON where it expects a context, and behind  *)
(* it no image: empty, though not null, with the stream past its end.      *)
ResultIsContext ==
  Read /\ reader = "next" =>
    frame = [context |-> Bytes(Json), image |-> Bytes(<< >>)] /\ status = "ReadPastEnd"
=============================================================================

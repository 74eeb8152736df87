----------------------------- MODULE DupFilter -----------------------------
(***************************************************************************)
(* dup_filter_sink on top of dist_sink: repeated messages are skipped and  *)
(* counted, what passes goes to every child sink in turn.  A call is one   *)
(* step under the sink's mutex; a child that throws ends it where it is.   *)
(* Each child has a handle on the message levels it takes.                 *)
(***************************************************************************)
EXTENDS Integers, Sequences

CONSTANTS
  Children, SinkLevel, \* the child sinks and the level of each
  Orders,              \* the lists of children set at once
  Payloads, Levels,
  Info,                \* the level of the "Skipped" message
  max_skip_duration_,
  MaxTime, MaxMessages, MaxFaults,  \* bounds
  None

VARIABLES
  sinks_,              \* the children, in order
  last_msg_time_, last_msg_payload_, skip_counter_,
  announced,           \* per child, the messages its "Skipped" lines count
  shown,               \* per child, the message it wrote last
  given,               \* history: the message logged last
  skipped,             \* history: the messages filtered, in number
  witness,             \* history: the readers of the last message passed on
  logged, faults

filter == <<last_msg_time_, last_msg_payload_, skip_counter_>>
written == <<announced, shown>>
vars == <<sinks_, filter, written, given, skipped, witness, logged, faults>>

-----------------------------------------------------------------------------
(* Slips a change of the code could make.                                  *)

Counted_Kept == skip_counter_

-----------------------------------------------------------------------------
Init ==
  /\ \E all \in Orders : sinks_ = all
  /\ last_msg_time_ = 0 /\ last_msg_payload_ = "" /\ skip_counter_ = 0
  /\ announced = [s \in Children |-> 0] /\ shown = [s \in Children |-> None]
  /\ given = None /\ skipped = 0 /\ witness = {} /\ logged = 0 /\ faults = 0

(* The children among the first n of a list.                               *)
Among(list, n) == {s \in Children : \E i \in 1 .. n : list[i] = s}

(* add_sink, remove_sink (which takes every copy out) and set_sinks.       *)
SetSinks(new) ==
  /\ sinks_ # new /\ sinks_' = new
  /\ witness' = witness \cap Among(new, Len(new))
  /\ UNCHANGED <<filter, written, given, skipped, logged, faults>>

AddSink(s) == s \notin Among(sinks_, Len(sinks_)) /\ SetSinks(Append(sinks_, s))

RemoveSink(s) == SetSinks(SelectSeq(sinks_, LAMBDA r : r # s))

(* filter_: TRUE for a message to show.                                    *)
Filter(m) == m.time - last_msg_time_ > max_skip_duration_ \/ m.payload # last_msg_payload_

ShouldLog(s, lvl) == lvl >= SinkLevel[s]

(* dist_sink::sink_it_ over the first n children of the list: whom a       *)
(* message of the level reaches.                                           *)
SinkIt(lvl, n) == {s \in Among(sinks_, n) : ShouldLog(s, lvl)}

(* What is left in the counter once a message has passed.                  *)
Counted == 0

Skip(m) ==
  /\ ~Filter(m)
  /\ skip_counter_' = skip_counter_ + 1 /\ skipped' = skipped + 1
  /\ UNCHANGED <<last_msg_time_, last_msg_payload_, written, witness, faults>>

(* The "Skipped" line, and the message itself.                             *)
Notify(n) ==
  announced' = [s \in Children |-> IF s \in SinkIt(Info, n) THEN announced[s] + skip_counter_ ELSE announced[s]]
Write(m, lvl, n) == shown' = [s \in Children |-> IF s \in SinkIt(lvl, n) THEN m ELSE shown[s]]

Show(m, lvl) ==
  /\ Filter(m)
  /\ Notify(Len(sinks_)) /\ Write(m, lvl, Len(sinks_))
  /\ last_msg_time_' = m.time /\ last_msg_payload_' = m.payload /\ skip_counter_' = Counted
  /\ witness' = Among(sinks_, Len(sinks_))
  /\ UNCHANGED <<skipped, faults>>

(* The child after the first n throws, at the notice or at the message:    *)
(* those before it have it, the others do not, and the filter keeps its    *)
(* state.                                                                  *)
ShowThrows(m, lvl) ==
  /\ Filter(m)
  /\ faults < MaxFaults /\ faults' = faults + 1
  /\ \E n \in 0 .. Len(sinks_) - 1 :
       \/ skip_counter_ > 0 /\ ShouldLog(sinks_[n + 1], Info) /\ Notify(n) /\ UNCHANGED shown
       \/ ShouldLog(sinks_[n + 1], lvl) /\ Notify(Len(sinks_)) /\ Write(m, lvl, n)
  /\ witness' = {}
  /\ UNCHANGED <<filter, skipped>>

(* The clock may be set back, and threads reach the mutex in another order *)
(* than they made their messages.                                          *)
Log(p, time, lvl) ==
  /\ logged < MaxMessages /\ logged' = logged + 1
  /\ LET m == [payload |-> p, time |-> time]
     IN given' = m /\ (Skip(m) \/ Show(m, lvl) \/ ShowThrows(m, lvl))
  /\ UNCHANGED sinks_

Next ==
  \/ \E p \in Payloads, time \in 0 .. MaxTime, lvl \in Levels : Log(p, time, lvl)
  \/ \E s \in Children : AddSink(s) \/ RemoveSink(s)
  \/ \E all \in Orders : SetSinks(all)

Spec == Init /\ [][Next]_vars

-----------------------------------------------------------------------------
(* No message is skipped silently (the example at the head of the file):   *)
(* as long as no child throws, every message filtered is either still in   *)
(* the counter or in the "Skipped" lines of each child that takes them.    *)
SkippedCounted ==
  [][sinks_' = sinks_ /\ faults' = 0 =>
       \A s \in SinkIt(Info, Len(sinks_)) :
         announced'[s] + skip_counter_' - skipped' = announced[s] + skip_counter_ - skipped]_vars

(* A message is left out only if each child that was there has the same as *)
(* its last line, and not one more than max_skip_duration older.           *)
RepeatsAreShown ==
  [][skipped' > skipped =>
       \A s \in witness : (\A l \in Levels : ShouldLog(s, l)) =>
         /\ shown[s].payload = given'.payload
         /\ given'.time - shown[s].time <= max_skip_duration_]_vars
=============================================================================

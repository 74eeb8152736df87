--------------------------- MODULE FormatterClock ---------------------------
(***************************************************************************)
(* What a pattern_formatter remembers between messages: the broken-down    *)
(* time of the last second, the date text of the full format and the time  *)
(* zone offset of %z.  Messages come in the order the sink gets them,      *)
(* which need not be that of their times, and the system clock may be set  *)
(* back.  Times are counted in fractions of a second; local time changes   *)
(* its offset at one moment.                                               *)
(***************************************************************************)
EXTENDS Integers, Sequences

CONSTANTS
  Patterns,            \* sets of flags among "+", "Y", "z", "v"
  PerSecond,
  Refresh,             \* seconds after which the offset is read again
  Start, Stop, Change, \* the times there are, and when local time changes
  Lag,                 \* how late a message may come
  MaxBack,             \* how far the clock may be set back
  MaxChanges,          \* bound: new patterns and clones
  None

VARIABLES
  now,
  pattern_, need_localtime_, cached_tm_, last_log_secs_,
  cache_timestamp_, cached_datetime_, \* of full_formatter
  last_update_, offset_minutes_,      \* of z_formatter
  shown,                              \* what the last message shows
  changes

full == <<cache_timestamp_, cached_datetime_>>
zone == <<last_update_, offset_minutes_>>
formatters == <<full, zone>>
vars == <<now, pattern_, need_localtime_, cached_tm_, last_log_secs_, formatters, shown, changes>>

Secs(t) == t \div PerSecond
OffsetAt(t) == IF t < Change THEN 60 ELSE 120
TimeFlags == {"+", "Y", "z"}

(* localtime: the broken-down time, with the offset it was computed with.  *)
LocalTime(t) == <<Secs(t), OffsetAt(Secs(t) * PerSecond)>>

Nothing == [time |-> None, date |-> None, full |-> None, offset |-> None]

-----------------------------------------------------------------------------
(* Slips a change of the code could make.                                  *)

SameSecond_Later(s, last) == s <= last

-----------------------------------------------------------------------------
(* The formatters of a new list: their caches are empty.                   *)
Fresh ==
  /\ cache_timestamp_' = 0 /\ cached_datetime_' = None
  /\ last_update_' = 0 /\ offset_minutes_' = 0

Init ==
  /\ now = Start
  /\ pattern_ = {"+"} /\ need_localtime_ = TRUE
  /\ cached_tm_ = None /\ last_log_secs_ = 0
  /\ cache_timestamp_ = 0 /\ cached_datetime_ = None
  /\ last_update_ = 0 /\ offset_minutes_ = 0
  /\ shown = Nothing /\ changes = 0

(* set_pattern keeps the broken-down time; a clone starts from nothing.    *)
SetPattern(p, cloned) ==
  /\ changes < MaxChanges /\ changes' = changes + 1
  /\ UNCHANGED now
  /\ pattern_' = p
  /\ need_localtime_' = (p \cap TimeFlags # {})
  /\ Fresh
  /\ IF cloned THEN cached_tm_' = None /\ last_log_secs_' = 0
     ELSE UNCHANGED <<cached_tm_, last_log_secs_>>
  /\ shown' = Nothing

SameSecond(s, last) == s = last

(* full_formatter: the date is written once a second.                      *)
FormatFull(t) ==
  IF ~SameSecond(Secs(t), cache_timestamp_) \/ cached_datetime_ = None
  THEN cache_timestamp_' = Secs(t) /\ cached_datetime_' = cached_tm_'
  ELSE UNCHANGED full

(* get_cached_offset.                                                      *)
StillFresh(t) == t - last_update_ < Refresh * PerSecond

FormatOffset(t) ==
  IF StillFresh(t) THEN UNCHANGED zone
  ELSE offset_minutes_' = cached_tm_'[2] /\ last_update_' = t

(* format of a message logged at t.                                        *)
Format(t) ==
  /\ IF need_localtime_ /\ ~SameSecond(Secs(t), last_log_secs_)
     THEN cached_tm_' = LocalTime(t) /\ last_log_secs_' = Secs(t)
     ELSE UNCHANGED <<cached_tm_, last_log_secs_>>
  /\ IF "+" \in pattern_ THEN FormatFull(t) ELSE UNCHANGED full
  /\ IF "z" \in pattern_ THEN FormatOffset(t) ELSE UNCHANGED zone
  /\ shown' = [time |-> t,
               date |-> IF "Y" \in pattern_ THEN cached_tm_' ELSE None,
               full |-> IF "+" \in pattern_ THEN cached_datetime_' ELSE None,
               offset |-> IF "z" \in pattern_ THEN offset_minutes_' ELSE None]
  /\ UNCHANGED <<now, pattern_, need_localtime_, changes>>

Tick == now < Stop /\ now' = now + 1 /\ UNCHANGED <<pattern_, need_localtime_, cached_tm_, last_log_secs_, formatters, shown, changes>>

SetBack ==
  /\ now - MaxBack >= Start /\ MaxBack > 0 /\ now = Stop
  /\ now' = now - MaxBack
  /\ UNCHANGED <<pattern_, need_localtime_, cached_tm_, last_log_secs_, formatters, shown, changes>>

Next ==
  \/ \E p \in Patterns, cloned \in BOOLEAN : SetPattern(p, cloned)
  \/ \E t \in Start .. Stop : t \in now - Lag .. now /\ Format(t)
  \/ Tick \/ SetBack

Spec == Init /\ [][Next]_vars

-----------------------------------------------------------------------------
(* A message shows its own date and time, whatever the order of the        *)
(* messages and the patterns before.                                       *)
DateIsRight ==
  /\ shown.date # None => shown.date = LocalTime(shown.time)
  /\ shown.full # None => shown.full = LocalTime(shown.time)

(* "refresh every 10 seconds": the offset shown was that of local time at  *)
(* some moment less than that before the message; only a message that came *)
(* late or a clock that was set back makes it one after the message.       *)
OffsetIsFresh ==
  shown.offset # None =>
    \E t \in Start .. Stop : shown.offset = OffsetAt(Secs(t) * PerSecond) /\ t > shown.time - Refresh * PerSecond
                             /\ t <= shown.time + Lag + MaxBack
=============================================================================

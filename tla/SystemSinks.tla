---------------------------- MODULE SystemSinks ----------------------------
(***************************************************************************)
(* The sinks for the logs of the operating system: syslog, the systemd     *)
(* journal, Android's log and the Windows event log.  Each turns the level *)
(* of a message into a severity of its own, makes one call (Android's is   *)
(* tried again while it is busy) and reports a failure by an exception.    *)
(* Severities are numbered upwards from the least severe; the sinks have   *)
(* nothing in common, so a behaviour is about one of them.                 *)
(***************************************************************************)
EXTENDS Naturals, Sequences, FiniteSets

CONSTANTS
  Kinds,                   \* the sinks that exist, of "syslog", "journal", "android", "events"
  Retries,                 \* SPDLOG_ANDROID_RETRIES
  MaxMessages, MaxFaults,  \* bounds
  None

Levels == 0 .. 5           \* trace, debug, info, warn, err, critical

VARIABLES
  level,      \* per sink, the level of the message in hand, None between two
  retry_count,
  handle,     \* whether the event log has its source registered
  sources,    \* sources registered with the system, in number
  record,     \* per sink, what the system has been given: <<number, level, severity>>
  answered,   \* per sink, how its calls ended: number -> "returned" or "thrown"
  alive,
  faults

vars == <<level, retry_count, handle, sources, record, answered, alive, faults>>

Fault == faults < MaxFaults /\ faults' = faults + 1

-----------------------------------------------------------------------------
Init ==
  /\ level = [k \in Kinds |-> None]
  /\ retry_count = 0
  /\ handle = FALSE /\ sources = 0
  /\ record = [k \in Kinds |-> <<>>]
  /\ answered = [k \in Kinds |-> <<>>]
  /\ \E k \in Kinds : alive = {k}
  /\ faults = 0

(* syslog_levels_, convert_to_android_ and get_event_type: syslog and the  *)
(* journal have one severity for trace and debug, and so has the event log *)
(* for those two and for err and critical.                                 *)
Severity(k, l) ==
  CASE k \in {"syslog", "journal"} -> IF l = 0 THEN 1 ELSE l
    [] k = "android" -> l
    [] k = "events" -> IF l = 0 THEN 1 ELSE IF l = 5 THEN 4 ELSE l

Ended(k, how) ==
  /\ answered' = [answered EXCEPT ![k] = Append(@, how)]
  /\ level' = [level EXCEPT ![k] = None]

Recorded(k) == record' = [record EXCEPT ![k] = Append(@, <<Len(answered[k]) + 1, level[k], Severity(k, level[k])>>)]

(* sink_it_ up to its system call.                                         *)
Log(k, l) ==
  /\ k \in alive /\ level[k] = None /\ Len(answered[k]) < MaxMessages
  /\ level' = [level EXCEPT ![k] = l]
  /\ retry_count' = IF k = "android" THEN 0 ELSE retry_count
  /\ UNCHANGED <<handle, sources, record, answered, alive, faults>>

(* syslog says nothing about its outcome.                                  *)
Syslog ==
  /\ level["syslog"] # None
  /\ Recorded("syslog") /\ Ended("syslog", "returned")
  /\ UNCHANGED <<retry_count, handle, sources, alive, faults>>

Journal ==
  /\ level["journal"] # None
  /\ \/ Recorded("journal") /\ Ended("journal", "returned") /\ UNCHANGED faults
     \/ Fault /\ Ended("journal", "thrown") /\ UNCHANGED record
  /\ UNCHANGED <<retry_count, handle, sources, alive>>

Failed(ret) == ret \in {"busy", "error"}

Android ==
  /\ level["android"] # None
  /\ \/ /\ Recorded("android") /\ Ended("android", "returned")
        /\ UNCHANGED <<retry_count, faults>>
     \/ /\ retry_count < Retries /\ Fault
        /\ retry_count' = retry_count + 1
        /\ UNCHANGED <<level, record, answered>>
     \/ /\ Fault
        /\ \E ret \in (IF retry_count = Retries THEN {"busy", "error"} ELSE {"error"}) :
             Ended("android", IF Failed(ret) THEN "thrown" ELSE "returned")
        /\ UNCHANGED <<retry_count, record>>
  /\ UNCHANGED <<handle, sources, alive>>

Registered == handle

(* event_log_handle: register the source when it is first needed.          *)
Register ==
  /\ level["events"] # None /\ ~Registered
  /\ \/ handle' = TRUE /\ sources' = sources + 1 /\ UNCHANGED <<level, answered, faults>>
     \/ Fault /\ Ended("events", "thrown") /\ UNCHANGED <<handle, sources>>
  /\ UNCHANGED <<retry_count, record, alive>>

Report ==
  /\ level["events"] # None /\ handle
  /\ \/ Recorded("events") /\ Ended("events", "returned") /\ UNCHANGED faults
     \/ Fault /\ Ended("events", "thrown") /\ UNCHANGED record
  /\ UNCHANGED <<retry_count, handle, sources, alive>>

(* ~win_eventlog_sink, ~syslog_sink.  *)
Destroy(k) ==
  /\ k \in alive /\ level[k] = None
  /\ alive' = alive \ {k}
  /\ IF k = "events" /\ handle THEN handle' = FALSE /\ sources' = sources - 1 ELSE UNCHANGED <<handle, sources>>
  /\ UNCHANGED <<level, retry_count, record, answered, faults>>

Next ==
  \/ \E k \in Kinds : Destroy(k) \/ \E l \in Levels : Log(k, l)
  \/ Syslog \/ Journal \/ Android \/ Register \/ Report

Spec == Init /\ [][Next]_vars

-----------------------------------------------------------------------------
(* A call that returns has its message in the system's log, once, and one  *)
(* that throws has it not, however often a busy log was tried.             *)
ReturnedIsRecorded ==
  \A k \in Kinds : \A n \in DOMAIN answered[k] :
    Cardinality({i \in DOMAIN record[k] : record[k][i][1] = n}) = IF answered[k][n] = "returned" THEN 1 ELSE 0

(* In each log a message of a higher level is at least as severe.          *)
SeverityFollowsLevel ==
  \A k \in Kinds : \A i, j \in DOMAIN record[k] :
    record[k][i][2] <= record[k][j][2] => record[k][i][3] <= record[k][j][3]

(* Registration failures, retries and the destructor leave no event source *)
(* registered twice or for ever.                                           *)
SourcesBalanced == sources = IF handle THEN 1 ELSE 0
=============================================================================

----------------------------- MODULE DatedFiles -----------------------------
(***************************************************************************)
(* daily_file_sink and hourly_file_sink, which differ in the length of a   *)
(* period and in the daily sink's time of rotation.  Time is counted in    *)
(* parts of a period; a file is named by its period.  A record is taken by *)
(* the sink when it has the mutex, at its time stamp or later.             *)
(***************************************************************************)
EXTENDS CircularQ

CONSTANTS
  Parts,        \* parts of a period that are told apart
  RotationTime, \* the part at which the sink rotates, 0 for hourly_file_sink
  max_files_, truncate_,
  Late,         \* how long after its time stamp a message may be written
  MaxTime, MaxRestarts, MaxFaults,  \* bounds
  None


VARIABLES
  now,
  files,         \* on disk: of each period, None or the time stamps written
  current,       \* the period of the open file, None if closed
  rotation_tp_,
  filenames_q_,
  running,
  made,          \* history: files this process opened or found, the latest last
  undeleted,     \* history: files whose removal failed
  restarts, faults

vars == <<now, files, current, rotation_tp_, filenames_q_, running, made, undeleted, restarts, faults>>

Periods == 0 .. MaxTime \div Parts
PeriodOf(t) == t \div Parts
Existing == {p \in Periods : files[p] # None}

-----------------------------------------------------------------------------
Init ==
  /\ now \in 0 .. Parts - 1
  /\ files = [p \in Periods |-> None]
  /\ current = None /\ rotation_tp_ = 0
  /\ filenames_q_ = Disabled
  /\ running = FALSE
  /\ made = <<>> /\ undeleted = {}
  /\ restarts = 0 /\ faults = 0

(* next_rotation_tp_: today at the time of rotation, or tomorrow.          *)
NextRotation(t) ==
  LET today == PeriodOf(t) * Parts + RotationTime
  IN IF today > t THEN today ELSE today + Parts

(* file_helper_.open.                                                      *)
Opened(p) == [files EXCEPT ![p] = IF truncate_ \/ @ = None THEN <<>> ELSE @]

(* init_filenames_q_: the files that exist, back from now to the first gap. *)
Found(p, disk) ==
  LET unbroken(k) == \A i \in p - k + 1 .. p : i >= 0 /\ disk[i] # None
      n == CHOOSE k \in 0 .. max_files_ :
             unbroken(k) /\ (k = max_files_ \/ ~unbroken(k + 1))
  IN [i \in 1 .. n |-> p - n + i]

Filled(s) ==
  LET fill[i \in 0 .. Len(s)] ==
        IF i = 0 THEN New(max_files_, None) ELSE PushBack(fill[i - 1], s[i])
  IN fill[Len(s)]

Construct ==
  LET p == PeriodOf(now)
  IN /\ ~running
     /\ running' = TRUE
     /\ files' = Opened(p)
     /\ current' = p
     /\ rotation_tp_' = NextRotation(now)
     /\ made' = IF max_files_ = 0 THEN <<p>> ELSE Found(p, files')
     /\ filenames_q_' = IF max_files_ = 0 THEN Disabled ELSE Filled(made')
     /\ undeleted' = {}
     /\ UNCHANGED <<now, restarts, faults>>

Stop ==
  /\ running /\ restarts < MaxRestarts
  /\ restarts' = restarts + 1
  /\ running' = FALSE /\ current' = None
  /\ UNCHANGED <<now, files, rotation_tp_, filenames_q_, made, undeleted, faults>>

Overdue(q) == Full(q)
Victim(q) == Oldest(q)

(* delete_old_: what fails to go is forgotten, and the error is reported.  *)
DeleteOld(p, disk) ==
  LET q == filenames_q_
  IN IF ~Overdue(q)
     THEN /\ filenames_q_' = PushBack(q, p) /\ files' = disk /\ UNCHANGED <<faults, undeleted>>
     ELSE /\ filenames_q_' = PushBack(PopFront(q), p)
          /\ \/ files' = [disk EXCEPT ![Victim(q)] = None] /\ UNCHANGED <<faults, undeleted>>
             \/ /\ faults < MaxFaults /\ disk[Victim(q)] # None
                /\ faults' = faults + 1 /\ files' = disk
                /\ undeleted' = undeleted \cup {Victim(q)}

(* sink_it_ with a message stamped time.                                   *)
Log(time) ==
  LET p == PeriodOf(time)
      write(disk, f) == [disk EXCEPT ![f] = Append(@, time)]
  IN /\ running /\ time \in now - Late .. now /\ time >= 0
     /\ IF time < rotation_tp_
          THEN /\ current # None
               /\ files' = IF files[current] = None THEN files ELSE write(files, current)
               /\ UNCHANGED <<current, rotation_tp_, filenames_q_, made, undeleted, faults>>
          ELSE \/ /\ current' = p
                  /\ rotation_tp_' = NextRotation(now)
                  /\ made' = Append(made, p)
                  /\ IF max_files_ > 0
                       THEN DeleteOld(p, write(Opened(p), p))
                       ELSE files' = write(Opened(p), p) /\ UNCHANGED <<filenames_q_, undeleted, faults>>
               \/ /\ faults < MaxFaults          \* the file does not open
                  /\ faults' = faults + 1 /\ current' = None
                  /\ UNCHANGED <<files, rotation_tp_, filenames_q_, made, undeleted>>
     /\ UNCHANGED <<now, running, restarts>>

Pass == now < MaxTime /\ now' = now + 1 /\ UNCHANGED <<files, current, rotation_tp_, filenames_q_,
                                              running, made, undeleted, restarts, faults>>

Next == Construct \/ Stop \/ Pass \/ \E t \in 0 .. MaxTime : Log(t)

Spec == Init /\ [][Next]_vars

(* A file need not be told apart by more than two messages.                *)
FewMessages == \A p \in Existing : Len(files[p]) <= 1

-----------------------------------------------------------------------------
(* A message is in the file of its period, or of the one before until the  *)
(* time of rotation.                                                       *)
InItsFile ==
  \A p \in Existing : \A i \in DOMAIN files[p] :
    PeriodOf(files[p][i]) = p \/ PeriodOf(files[p][i] - RotationTime) = p

(* The file that is being written is never the one that goes.              *)
CurrentKept == [][current' # None => files'[current'] # None]_vars

(* No rotation empties a file that holds messages.                         *)
NothingTruncated ==
  [][running => \A p \in Existing : files'[p] # None =>
       Len(files[p]) <= Len(files'[p]) /\ SubSeq(files'[p], 1, Len(files[p])) = files[p]]_vars

(* Of the files the sink opened or found at its start the last max_files   *)
(* are kept and the others deleted, unless their removal failed.           *)
LastFilesKept ==
  running /\ max_files_ > 0 =>
    LET recent == {made[i] : i \in {j \in DOMAIN made : j > Len(made) - max_files_}}
    IN \A i \in DOMAIN made : files[made[i]] # None <=> made[i] \in recent \cup undeleted
=============================================================================

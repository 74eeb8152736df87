--------------------------- MODULE RotatingFiles ---------------------------
(***************************************************************************)
(* rotating_file_sink and the file_helper under it, on a file system whose *)
(* calls may fail and with crashes and restarts in between.  A message is  *)
(* its number; its size is SizeOf.  File 0 is the one being written.       *)
(* What stdio buffers counts as written.                                   *)
(***************************************************************************)
EXTENDS Naturals, Sequences

CONSTANTS
  max_size_, max_files_,
  SizeOf,       \* the formatted size of each message
  MaxMessages,  \* bound: messages logged
  MaxFaults,    \* bound: calls of the file system that fail
  MaxCrashes,   \* bound: restarts
  None


VARIABLES
  file,          \* each file's messages and size, None if it does not exist
  open,          \* fd_ is not null
  current_size_,
  new_size,      \* of the file with the message being logged
  pc,            \* "idle", "rename" while rotating, "reopen", "write", "down"
  index,         \* i of the rotation's loop
  failing,       \* the rotation is to throw once the file is truncated
  msg,           \* the message being logged, None at start-up
  next,          \* the next message
  faults, crashes

vars == <<file, open, current_size_, new_size, pc, index, failing, msg, next, faults, crashes>>

Indices == 0 .. max_files_
Empty == [messages |-> <<>>, bytes |-> 0]
With(f, m) == [messages |-> Append(f.messages, m), bytes |-> f.bytes + SizeOf[m]]

-----------------------------------------------------------------------------
(* Slips a change of the code could make.                                  *)

Rotates_Late == current_size_ > max_size_

-----------------------------------------------------------------------------
Init ==
  /\ file = [i \in Indices |-> None]
  /\ open = FALSE /\ current_size_ = 0 /\ new_size = 0
  /\ pc = "down" /\ index = 0 /\ failing = FALSE /\ msg = None
  /\ next = 1 /\ faults = 0 /\ crashes = 0

Faulty == faults < MaxFaults /\ faults' = faults + 1
Fine   == UNCHANGED faults

(* The exception leaves the sink for the logger's error handler, or leaves *)
(* the constructor and there is no sink.                                   *)
Throw(isOpen) ==
  /\ pc' = IF msg = None THEN "down" ELSE "idle"
  /\ open' = (isOpen /\ msg # None)
  /\ msg' = None /\ failing' = FALSE

FirstIndex == max_files_

(* rotate_() closes the file and goes through the names from the last.     *)
BeginRotation == open' = FALSE /\ index' = FirstIndex /\ failing' = FALSE

(* The constructor: open for appending, ask the size, rotate_on_open.  A   *)
(* failure to open leaves no sink.                                         *)
Construct(rotate_on_open) ==
  LET size == IF file[0] = None THEN 0 ELSE file[0].bytes
  IN /\ pc = "down" /\ Fine
     /\ IF file[0] = None THEN file' = [file EXCEPT ![0] = Empty] ELSE UNCHANGED file
     /\ msg' = None
     /\ IF rotate_on_open /\ size > 0
          THEN current_size_' = 0 /\ pc' = "rename" /\ BeginRotation
          ELSE current_size_' = size /\ pc' = "idle" /\ open' = TRUE /\ UNCHANGED <<index, failing>>
     /\ UNCHANGED <<new_size, next, crashes>>

Crash ==
  /\ pc # "down" /\ crashes < MaxCrashes
  /\ crashes' = crashes + 1
  /\ pc' = "down" /\ open' = FALSE /\ msg' = None /\ failing' = FALSE
  /\ UNCHANGED <<file, current_size_, new_size, index, next, faults>>

Rotates == current_size_ + SizeOf[next] > max_size_

(* sink_it_ up to the write.  The file is flushed before its size is read  *)
(* and size() throws on a closed one.                                      *)
Log ==
  /\ pc = "idle" /\ next <= MaxMessages
  /\ next' = next + 1
  /\ new_size' = current_size_ + SizeOf[next]
  /\ IF ~Rotates THEN pc' = "write" /\ msg' = next /\ Fine /\ UNCHANGED <<open, index, failing>>
     ELSE \/ /\ Faulty /\ UNCHANGED <<pc, msg, open, index, failing>>
          \/ /\ ~open /\ Fine /\ UNCHANGED <<pc, msg, open, index, failing>>
          \/ /\ open /\ Fine /\ msg' = next
             /\ IF file[0].bytes > 0 THEN pc' = "rename" /\ BeginRotation
                                      ELSE pc' = "write" /\ UNCHANGED <<open, index, failing>>
  /\ UNCHANGED <<file, current_size_, crashes>>

Renamed(i) == [file EXCEPT ![i] = file[i - 1], ![i - 1] = None]

(* One turn of rotate_'s loop: the target is removed first; after two      *)
(* failures the log is truncated anyway.                                   *)
Rename ==
  /\ pc = "rename"
  /\ IF index = 0 THEN pc' = "reopen" /\ Fine /\ UNCHANGED <<file, index, failing>>
     ELSE IF file[index - 1] = None
     THEN index' = index - 1 /\ Fine /\ UNCHANGED <<file, failing, pc>>
     ELSE \/ /\ file' = Renamed(index) /\ Fine
             /\ index' = index - 1 /\ UNCHANGED <<failing, pc>>
          \/ /\ Faulty
             /\ file' \in {file, [file EXCEPT ![index] = None]}
             /\ failing' = TRUE /\ pc' = "reopen" /\ UNCHANGED index
  /\ UNCHANGED <<open, current_size_, new_size, msg, next, crashes>>

(* reopen(true): five tries, the file truncated and then opened.           *)
Reopen ==
  /\ pc = "reopen"
  /\ \/ /\ Fine
        /\ file' = [file EXCEPT ![0] = Empty]
        /\ current_size_' = IF failing \/ msg = None THEN 0 ELSE current_size_
        /\ new_size' = IF msg = None THEN 0 ELSE SizeOf[msg]
        /\ IF failing THEN Throw(TRUE)
           ELSE pc' = (IF msg = None THEN "idle" ELSE "write") /\ open' = TRUE /\ UNCHANGED <<msg, failing>>
     \/ /\ Faulty
        /\ file' \in {file, [file EXCEPT ![0] = Empty]}
        /\ Throw(FALSE)
        /\ UNCHANGED <<current_size_, new_size>>
  /\ UNCHANGED <<index, next, crashes>>

(* file_helper::write does not look whether the file is open.              *)
Write ==
  /\ pc = "write"
  /\ IF ~open
       THEN pc' = "down" /\ msg' = None /\ Fine /\ UNCHANGED <<file, open, current_size_, failing>>
       ELSE \/ /\ Fine
               /\ file' = [file EXCEPT ![0] = With(@, msg)]
               /\ current_size_' = new_size
               /\ pc' = "idle" /\ msg' = None /\ UNCHANGED <<open, failing>>
            \/ Faulty /\ Throw(TRUE) /\ UNCHANGED <<file, current_size_>>
  /\ UNCHANGED <<new_size, index, next, crashes>>

Next == (\E b \in BOOLEAN : Construct(b)) \/ Crash \/ Log \/ Rename \/ Reopen \/ Write

Spec == Init /\ [][Next]_vars

-----------------------------------------------------------------------------
Existing == {i \in Indices : file[i] # None}
MessagesOf(i) == file[i].messages

(* No file outgrows max_size, unless it is a single message that does,     *)
(* through rotations that fail, crashes and restarts.                      *)
WithinSize == \A i \in Existing : file[i].bytes <= max_size_ \/ Len(MessagesOf(i)) = 1

(* Read from the last name to the first, the files hold messages in the    *)
(* order they were logged and none twice.                                  *)
FilesInOrder ==
  \A i, j \in Existing : i >= j =>
    \A a \in DOMAIN MessagesOf(i), b \in DOMAIN MessagesOf(j) :
      i > j \/ a < b => MessagesOf(i)[a] < MessagesOf(j)[b]

(* Without faults only the oldest messages go: what is kept is everything  *)
(* since some message, and nothing goes while a name is free.              *)
KeepsTheLatest ==
  faults = 0 /\ crashes = 0 /\ pc = "idle" =>
    LET kept == UNION {{MessagesOf(i)[a] : a \in DOMAIN MessagesOf(i)} : i \in Existing}
    IN /\ \A m \in kept : m .. next - 1 \subseteq kept
       /\ Existing # Indices => kept = 1 .. next - 1
=============================================================================

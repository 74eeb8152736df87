------------------------------ MODULE LogSinks ------------------------------
(***************************************************************************)
(* The way of a log message through spdlog: the registry that hands out    *)
(* the loggers, the queue of the asynchronous ones, a logger with its      *)
(* sinks, what a sink's formatter remembers between messages, and the      *)
(* sinks themselves; and beside it the way of the node's own messages, the *)
(* frames that it reads and sends.  These share no state, so a behaviour   *)
(* runs one of them, "part", while the others stay as they begin.          *)
(***************************************************************************)
EXTENDS Naturals

CONSTANTS
  Threads, None,
  Names, Loggers, NameOf, First, ConfigLevels, Settings, Tables,
  RegistryThreads, RegistryFlushers,                                         \* see LogRegistry
  Queues, Items, MaxSize, MaxOverrun,                                        \* see RingQueue
  Sinks, SinkLevel, MaxLevel, Configured, TraceSize, MaxCalls, MaxErrors,    \* see Logger
  Addresses, Pieces, TcpMessages, MaxSockets, TcpFaults, MaxChanges,         \* see TcpSink
  Clients, UdpMessages, UdpFaults,                                           \* see UdpSink
  Children, ChildLevel, Orders, Payloads, MessageLevels, SkippedLevel,       \* see DupFilter
  MaxSkip, MaxTime, FilterMessages, FilterFaults,
  FileSize, FileCount, SizeOf, FileMessages, FileFaults, MaxCrashes,         \* see RotatingFiles
  PeriodParts, DatedCount, truncate_, LastTime, MaxRestarts, DatedFaults,    \* see DatedFiles
  MaxLength,                                                                 \* see FileNames
  Streams, Order, Buffered, Colours, Plain, Preset,                          \* see Console
  Kinds, Retries, SystemMessages, SystemFaults,                              \* see SystemSinks
  Patterns, PerSecond, Refresh, ClockStart, ClockStop, OffsetChange, Lag,    \* see FormatterClock
  MaxBack, MaxPatterns,
  Base, MaxLen                                                               \* see FrameCodec

VARIABLES
  part,   \* which one runs
  (* LogRegistry *)
  loggers_, default_, log_levels_, global_level, setting_, automatic, level, setting,
  dirty, map_lock, flusher_lock, installed, old, pc, ending, fstate, active, tracked, uniform,
  (* RingQueue *)
  ring,
  (* Logger *)
  level_, flush_level, enabled, trace, trace_lock, todo, calls, errors, levelOf, tried, unflushed, broken, returned,
  (* DupFilter *)
  sinks_, last_msg_time_, last_msg_payload_, skip_counter_, announced, shown, given, skipped, witness, logged, filter_faults,
  (* RotatingFiles *)
  rotated, open, current_size_, new_size, rotation, index, failing, msg, next, rotation_faults, crashes,
  (* DatedFiles *)
  today, files, current, rotation_tp_, filenames_q_, running, made, undeleted, restarts, dated_faults,
  (* FileNames *)
  name,
  (* TcpSink *)
  socket_, fds, winsock, connection, at, message, bytes_sent, wire, delivered, up, reachable, tcp_faults, tcp_changes,
  (* UdpSink *)
  client, client_socket, client_fds, client_winsock, sent, failed, udp_faults,
  (* Console *)
  colors_, should_do_colors_, range, mutex_, printing, color_range, length, ops, file, pen, screen, changes,
  (* SystemSinks *)
  severity, retry_count, handle, sources, record, answered, alive, system_faults,
  (* FormatterClock *)
  now, pattern_, need_localtime_, cached_tm_, last_log_secs_, cache_timestamp_, cached_datetime_,
  last_update_, offset_minutes_, displayed, patterns_set,
  (* FrameCodec *)
  reader, step, buf, pos, status, frame

Registry == INSTANCE LogRegistry WITH Threads <- RegistryThreads, Flushers <- RegistryFlushers, Levels <- ConfigLevels
Queue == INSTANCE RingQueue
Log == INSTANCE Logger
Filter == INSTANCE DupFilter WITH
  SinkLevel <- ChildLevel, Levels <- MessageLevels, Info <- SkippedLevel, max_skip_duration_ <- MaxSkip,
  MaxMessages <- FilterMessages, MaxFaults <- FilterFaults, faults <- filter_faults
Rotating == INSTANCE RotatingFiles WITH
  max_size_ <- FileSize, max_files_ <- FileCount, MaxMessages <- FileMessages, MaxFaults <- FileFaults,
  file <- rotated, pc <- rotation, faults <- rotation_faults
(* Rotation at midnight or on the hour, of messages written at their time. *)
Dated == INSTANCE DatedFiles WITH
  Parts <- PeriodParts, RotationTime <- 0, Late <- 0, max_files_ <- DatedCount, MaxTime <- LastTime,
  MaxFaults <- DatedFaults, now <- today, faults <- dated_faults
Naming == INSTANCE FileNames WITH Letter <- "x", Dot <- ".", Slash <- "/", Digit <- "1"
Tcp == INSTANCE TcpSink WITH
  Windows <- FALSE, MaxMessages <- TcpMessages, MaxFaults <- TcpFaults,
  pc <- connection, returned <- delivered, faults <- tcp_faults, changes <- tcp_changes
Udp == INSTANCE UdpSink WITH
  Windows <- TRUE, MaxMessages <- UdpMessages, MaxFaults <- UdpFaults,
  pc <- client, socket_ <- client_socket, fds <- client_fds, winsock <- client_winsock, faults <- udp_faults
Terminal == INSTANCE Console WITH
  Windows <- part = "windows", Sinks <- Streams, Logger <- Order, Default <- Plain, MaxChanges <- 1, todo <- printing
System == INSTANCE SystemSinks WITH
  MaxMessages <- SystemMessages, MaxFaults <- SystemFaults, level <- severity, faults <- system_faults
Clock == INSTANCE FormatterClock WITH
  Start <- ClockStart, Stop <- ClockStop, Change <- OffsetChange, MaxChanges <- MaxPatterns,
  shown <- displayed, changes <- patterns_set
Frames == INSTANCE FrameCodec

registryVars == <<loggers_, default_, log_levels_, global_level, setting_, automatic, level, setting,
  dirty, map_lock, flusher_lock, installed, old, pc, ending, fstate, active, tracked, uniform>>
loggerVars == <<level_, flush_level, enabled, trace, trace_lock, todo, calls, errors, levelOf, tried, unflushed, broken, returned>>
filterVars == <<sinks_, last_msg_time_, last_msg_payload_, skip_counter_, announced, shown, given, skipped, witness, logged, filter_faults>>
rotatingVars == <<rotated, open, current_size_, new_size, rotation, index, failing, msg, next, rotation_faults, crashes>>
datedVars == <<today, files, current, rotation_tp_, filenames_q_, running, made, undeleted, restarts, dated_faults>>
tcpVars == <<socket_, fds, winsock, connection, at, message, bytes_sent, wire, delivered, up, reachable, tcp_faults, tcp_changes>>
udpVars == <<client, client_socket, client_fds, client_winsock, sent, failed, udp_faults>>
consoleVars == <<colors_, should_do_colors_, range, mutex_, printing, color_range, length, ops, file, pen, screen, changes>>
systemVars == <<severity, retry_count, handle, sources, record, answered, alive, system_faults>>
clockVars == <<now, pattern_, need_localtime_, cached_tm_, last_log_secs_, cache_timestamp_, cached_datetime_,
  last_update_, offset_minutes_, displayed, patterns_set>>
frameVars == <<reader, step, buf, pos, status, frame>>
vars == <<part, registryVars, ring, loggerVars, filterVars, rotatingVars, datedVars, name, tcpVars, udpVars, consoleVars, systemVars,
  clockVars, frameVars>>

One(S) == CHOOSE x \in S : TRUE

Init ==
  /\ part \in {"registry", "queue", "logger", "filter", "rotating", "dated", "names",
               "tcp", "udp", "ansi", "windows", "system", "clock", "frames"}
  /\ Registry!Init /\ (part # "registry" => global_level = One(ConfigLevels) /\ setting_ = One(Settings))
  /\ Queue!Init
  /\ Log!Init
  /\ Filter!Init /\ (part # "filter" => sinks_ = <<>>)
  /\ Rotating!Init
  /\ Dated!Init /\ (part # "dated" => today = 0)
  /\ Naming!Init
  /\ Tcp!Init
  /\ Udp!Init
  /\ Terminal!Init
  /\ part \notin {"ansi", "windows"} => \A s \in Streams : ~should_do_colors_[s] /\ ~range[s]
  /\ System!Init /\ (part # "system" => alive = {One(Kinds)})
  /\ Clock!Init
  /\ Frames!Init /\ (part # "frames" => buf = <<>>)

(* A step of the parts p, the only ones with these variables.              *)
Step(p, A) ==
  /\ part \in p /\ UNCHANGED part
  /\ A
  /\ "registry" \notin p => UNCHANGED registryVars
  /\ "queue" \notin p => UNCHANGED ring
  /\ "logger" \notin p => UNCHANGED loggerVars
  /\ "filter" \notin p => UNCHANGED filterVars
  /\ "rotating" \notin p => UNCHANGED rotatingVars
  /\ "dated" \notin p => UNCHANGED datedVars
  /\ "names" \notin p => UNCHANGED name
  /\ "tcp" \notin p => UNCHANGED tcpVars
  /\ "udp" \notin p => UNCHANGED udpVars
  /\ "ansi" \notin p => UNCHANGED consoleVars
  /\ "system" \notin p => UNCHANGED systemVars
  /\ "clock" \notin p => UNCHANGED clockVars
  /\ "frames" \notin p => UNCHANGED frameVars

Next ==
  \/ Step({"registry"}, Registry!Next)
  \/ Step({"queue"}, Queue!Next)
  \/ Step({"logger"}, Log!Next)
  \/ Step({"filter"}, Filter!Next)
  \/ Step({"rotating"}, Rotating!Next)
  \/ Step({"dated"}, Dated!Next)
  \/ Step({"names"}, Naming!Next)
  \/ Step({"tcp"}, Tcp!Next)
  \/ Step({"udp"}, Udp!Next)
  \/ Step({"ansi", "windows"}, Terminal!Next)
  \/ Step({"system"}, System!Next)
  \/ Step({"clock"}, Clock!Next)
  \/ Step({"frames"}, Frames!Next)

Spec == Init /\ [][Next]_vars

(* Bounds of the queue's counter and of what one file holds.               *)
Bounds == Queue!Counted /\ Dated!FewMessages

-----------------------------------------------------------------------------
(* The default logger is the one its name finds, no change of a setting    *)
(* misses a logger, and levels hold alike for loggers made before and      *)
(* after they were configured.                                             *)
RegistryAgrees == Registry!RegistryAgrees

(* The ring of the asynchronous loggers and of the backtrace is a bounded  *)
(* queue that drops the oldest and counts them; full() is what a blocking  *)
(* producer takes it for, and last_raw() gives the latest in order.        *)
QueueKeepsLast == Queue!ImplementsBoundedQueue /\ [](Queue!FullMeansNoRoom /\ Queue!LastAreLast)

(* A sink that throws does not keep a message from those after it, severe  *)
(* messages are flushed when their call returns, dumps share a backtrace   *)
(* out, and no thread keeps its lock.                                      *)
EverySinkServed == Log!EverySinkTried /\ Log!SevereIsFlushed /\ Log!DumpedOnce /\ Log!LockGivenBack

(* No message is skipped silently by dup_filter_sink, and one that keeps   *)
(* coming is seen again.                                                   *)
RepeatsCounted == Filter!SkippedCounted /\ Filter!RepeatsAreShown

(* Rotation by size and by date: sizes and numbers of files are kept to,   *)
(* messages stay in order, only the oldest go, never the file that is      *)
(* written, and the numbered names split as documented.                    *)
FilesKept ==
  /\ [](Rotating!WithinSize /\ Rotating!FilesInOrder /\ Rotating!KeepsTheLatest)
  /\ [](Dated!InItsFile /\ Dated!LastFilesKept)
  /\ Dated!CurrentKept /\ Dated!NothingTruncated
  /\ [](Naming!SplitAsDocumented /\ Naming!RotationStaysInFolder)

(* What a call that returned has handed over is there, whole and once, on  *)
(* a connection or in the system's log; failures leave no socket, Winsock  *)
(* or event source behind, and connecting tries every address.             *)
RecordsDelivered ==
  /\ [](Tcp!NoSocketLeft /\ Tcp!WholeMessages /\ Tcp!ReturnedIsSent) /\ Tcp!GivesUpOnlyIfDown
  /\ [](Udp!NothingLeft /\ Udp!WinsockCounted)
  /\ [](System!ReturnedIsRecorded /\ System!SeverityFollowsLevel /\ System!SourcesBalanced)

(* Sinks on one terminal cut none of each other's lines, colour only the   *)
(* range of a message and leave the terminal as it was.                    *)
LinesWhole == Terminal!LinesWhole /\ Terminal!RangeInText /\ Terminal!ColourRestored

(* Whatever the order of the messages and the changes of the pattern, the  *)
(* cached date is that of the message and the offset no older than said.   *)
ClockRight == Clock!DateIsRight /\ Clock!OffsetIsFresh

(* A frame that is read without an error is the one that was sent, and     *)
(* what the node sends is read as it meant it.                             *)
FramesReadBack == part = "frames" => Frames!OkMeansWhole /\ Frames!FrameReadsBack /\ Frames!ResultIsContext
=============================================================================

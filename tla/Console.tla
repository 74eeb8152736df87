------------------------------ MODULE Console ------------------------------
(***************************************************************************)
(* The console sinks: ansicolor_sink and wincolor_sink for stdout and for  *)
(* stderr, both on one terminal, behind the one console mutex.  A log call *)
(* of a thread goes through the sinks of its logger with one message       *)
(* object, whose colour range each formatter may fill in.                  *)
(***************************************************************************)
EXTENDS Naturals, Sequences

CONSTANTS
  Threads,
  Sinks, Logger,         \* the sinks, and in the order of the logger
  Buffered,              \* the sinks whose FILE is buffered (stdout)
  Colours,
  Default, Preset,       \* the colour of a terminal as such, and of a Windows console
  MaxChanges,            \* bound: changes of settings
  None

VARIABLES
  Windows,               \* the system, the same for ever
  colors_, should_do_colors_,
  range,                 \* per sink, whether its pattern has a colour range
  mutex_,                \* who holds the console mutex
  todo,                  \* per thread, the sinks the call has still to go to
  color_range,           \* per thread, color_range_start and _end of its message
  length,                \* per thread, the length of the text formatted last
  ops,                   \* per thread, the bytes log has still to print in the sink it is in
  file,                  \* per sink, the bytes in the buffer of its FILE
  pen, screen,           \* the terminal: its colour, <<thread, sink, character, colour>>
  changes

settings == <<colors_, should_do_colors_, range>>
message == <<color_range, length>>
terminal == <<file, pen, screen>>
vars == <<Windows, settings, mutex_, todo, message, ops, terminal, changes>>

Original == IF Windows THEN Preset ELSE Default
Codes == Colours \cup {Default, Preset}

(* The bytes of a formatted text, by the numbers of its characters.        *)
Text(t, s, from, to) == [i \in 1 .. (IF to > from THEN to - from ELSE 0) |-> <<t, s, from + i>>]

(* What ends the colour: the reset code, or on Windows the attributes      *)
(* read when the colour was set.                                           *)
Restore == IF Windows THEN pen ELSE Default

-----------------------------------------------------------------------------
(* Slips a change of the code could make.                                  *)

Busy_OwnMutex(s) == mutex_ # None /\ Head(todo[mutex_]) = s

-----------------------------------------------------------------------------
Init ==
  /\ Windows \in BOOLEAN
  /\ \E c \in Colours : colors_ = [s \in Sinks |-> c]
  /\ should_do_colors_ \in [Sinks -> BOOLEAN]
  /\ range \in [Sinks -> BOOLEAN]
  /\ mutex_ = None
  /\ todo = [t \in Threads |-> <<>>]
  /\ color_range = [t \in Threads |-> <<0, 0>>]
  /\ length = [t \in Threads |-> 0]
  /\ ops = [t \in Threads |-> <<>>]
  /\ file = [s \in Sinks |-> <<>>]
  /\ pen = Original /\ screen = <<>> /\ changes = 0

(* One call of each thread is enough for every pair of calls to meet.      *)
Call(t) ==
  /\ todo[t] = <<>> /\ length[t] = 0
  /\ todo' = [todo EXCEPT ![t] = Logger]
  /\ UNCHANGED <<Windows, settings, mutex_, message, ops, terminal, changes>>

(* What a byte does once it reaches the terminal.                         *)
Shown(b) ==
  IF b \in Codes THEN pen' = b /\ UNCHANGED screen
                 ELSE screen' = Append(screen, <<b[1], b[2], b[3], pen>>) /\ UNCHANGED pen

Busy(s) == mutex_ # None

(* The range is set back before formatting; only a pattern with a colour   *)
(* range sets it.                                                          *)
StartRange(t) == <<0, 0>>

Coloured(t, s, r, n) ==
  Text(t, s, 0, r[1]) \o <<colors_[s]>> \o Text(t, s, r[1], r[2]) \o <<Restore>> \o Text(t, s, r[2], n)

(* log: take the mutex, format, and choose what to print.                  *)
Enter(t) ==
  /\ todo[t] # <<>> /\ ops[t] = <<>>
  /\ LET s == Head(todo[t])
         n == IF range[s] THEN 3 ELSE 1
         r == IF range[s] THEN <<1, 2>> ELSE StartRange(t)
     IN /\ ~Busy(s)
        /\ mutex_' = t
        /\ color_range' = [color_range EXCEPT ![t] = r]
        /\ length' = [length EXCEPT ![t] = n]
        /\ ops' = [ops EXCEPT ![t] = IF should_do_colors_[s] /\ r[2] > r[1]
                                     THEN Coloured(t, s, r, n) ELSE Text(t, s, 0, n)]
  /\ UNCHANGED <<Windows, settings, todo, terminal, changes>>

(* print_range_ and print_ccode_: the bytes go into the buffer of the FILE *)
(* if it has one.  On Windows they go straight to the console.             *)
PrintNext(t) ==
  /\ ops[t] # <<>>
  /\ LET s == Head(todo[t])
         byte == Head(ops[t])
     IN IF s \in Buffered /\ ~Windows
        THEN file' = [file EXCEPT ![s] = Append(@, byte)] /\ UNCHANGED <<pen, screen>>
        ELSE Shown(byte) /\ UNCHANGED file
  /\ ops' = [ops EXCEPT ![t] = Tail(@)]
  /\ UNCHANGED <<Windows, settings, mutex_, todo, message, changes>>

(* The C library writes what is buffered when it likes, at the latest in   *)
(* fflush.                                                                 *)
Written(s) ==
  /\ file[s] # <<>>
  /\ Shown(Head(file[s]))
  /\ file' = [file EXCEPT ![s] = Tail(@)]
  /\ UNCHANGED <<Windows, settings, mutex_, todo, message, ops, changes>>

Flushed(s) == file[s] = <<>>

(* fflush has returned, and the mutex is given back.                       *)
Leave(t) ==
  /\ mutex_ = t /\ ops[t] = <<>>
  /\ Flushed(Head(todo[t]))
  /\ todo' = [todo EXCEPT ![t] = Tail(@)]
  /\ mutex_' = None
  /\ UNCHANGED <<Windows, settings, message, ops, terminal, changes>>

(* set_color and set_pattern wait for the mutex, as set_color_mode does on *)
(* Windows only.                                                           *)
Set(s) ==
  /\ changes < MaxChanges /\ changes' = changes + 1
  /\ \/ ~Busy(s) /\ \E c \in Colours : colors_' = [colors_ EXCEPT ![s] = c] /\ UNCHANGED <<should_do_colors_, range>>
     \/ ~Busy(s) /\ range' = [range EXCEPT ![s] = ~@] /\ UNCHANGED <<colors_, should_do_colors_>>
     \/ /\ Windows => ~Busy(s)
        /\ should_do_colors_' = [should_do_colors_ EXCEPT ![s] = ~@]
        /\ UNCHANGED <<colors_, range>>
  /\ UNCHANGED <<Windows, mutex_, todo, message, ops, terminal>>

Next ==
  \/ \E t \in Threads : Call(t) \/ PrintNext(t) \/ Leave(t) \/ Enter(t)
  \/ \E s \in Sinks : Written(s) \/ Set(s)

Spec == Init /\ [][Next]_vars

-----------------------------------------------------------------------------
(* A line of one sink is never cut by a line of the other, although they   *)
(* are different sinks on different streams: the characters of a call in a *)
(* sink are next to each other, in order, and a line follows a whole one.  *)
LinesWhole ==
  \A i \in 2 .. Len(screen) :
    LET c == screen[i]
        b == screen[i - 1]
    IN c[3] > 1 => <<b[1], b[2], b[3]>> = <<c[1], c[2], c[3] - 1>>

(* Only the range of a message is coloured, and whenever nobody prints the *)
(* terminal has its colour back and no byte waits in a buffer.             *)
ColourRestored ==
  /\ mutex_ = None => pen = Original /\ \A s \in Sinks : file[s] = <<>>
  /\ \A i \in DOMAIN screen : screen[i][4] # Original => screen[i][3] = 2

(* The message object goes from sink to sink: the range a sink uses lies   *)
(* inside the text its own formatter made.                                 *)
RangeInText == \A t \in Threads : mutex_ = t => color_range[t][2] <= length[t]
=============================================================================

--------------------------- MODULE PatternFields ---------------------------
(***************************************************************************)
(* What the formatters of a pattern append to the buffer: the text of each *)
(* flag, the length its formatter declares for it beforehand, and          *)
(* scoped_padder, which pads in its constructor and pads or truncates in   *)
(* its destructor.  A text is a sequence of one-character strings; a name, *)
(* of which only the length matters, is a letter repeated.                 *)
(***************************************************************************)
EXTENDS Integers, Sequences

CONSTANTS
  Messages,     \* the messages that are formatted, with their broken-down time
  Flags,
  Paddings,     \* records with enabled, width, side, truncate
  MaxFields     \* bound

VARIABLES
  msg, dest,
  color_range,  \* color_range_start and color_range_end
  thrown,       \* whether a resize got a negative size
  last,         \* history: the flag and the padding of the last field
  fields

vars == <<msg, dest, color_range, thrown, last, fields>>

-----------------------------------------------------------------------------
Repeat(c, n) == [i \in 1 .. n |-> c]
DigitChar(d) == <<"0", "1", "2", "3", "4", "5", "6", "7", "8", "9">>[d + 1]

(* append_int for a number that is not negative.                           *)
Decimal[n \in Nat] == IF n < 10 THEN <<DigitChar(n)>> ELSE Decimal[n \div 10] \o <<DigitChar(n % 10)>>

(* pad_uint, and pad3, pad6 and pad9 by it.                                *)
PadUint(n, width) ==
  Repeat("0", IF Len(Decimal[n]) < width THEN width - Len(Decimal[n]) ELSE 0) \o Decimal[n]

Pad2(n) == IF n \in 0 .. 99 THEN <<DigitChar(n \div 10), DigitChar(n % 10)>> ELSE PadUint(n, 2)

To12h(t) == IF t.hour > 12 THEN t.hour - 12 ELSE t.hour
AmPm(t) == IF t.hour >= 12 THEN <<"P", "M">> ELSE <<"A", "M">>

(* The tables of names, by their lengths; September is "Sept".             *)
Weekday(t) == Repeat("d", 3)
FullWeekday(t) == Repeat("d", <<6, 6, 7, 9, 8, 6, 8>>[t.wday + 1])
MonthName(t) == Repeat("m", IF t.mon = 8 THEN 4 ELSE 3)
FullMonth(t) == Repeat("m", <<7, 8, 5, 5, 3, 4, 4, 6, 9, 7, 8, 8>>[t.mon + 1])

Hms(t) == Pad2(t.hour) \o <<":">> \o Pad2(t.min) \o <<":">> \o Pad2(t.sec)

DateTime(t) ==
  Weekday(t) \o <<" ">> \o MonthName(t) \o <<" ">> \o Decimal[t.mday] \o <<" ">> \o Hms(t) \o <<" ">> \o Decimal[t.year + 1900]

ShortDate(t) == Pad2(t.mon + 1) \o <<"/">> \o Pad2(t.mday) \o <<"/">> \o Pad2(t.year % 100)

Offset(minutes) ==
  LET total == IF minutes < 0 THEN -minutes ELSE minutes
  IN <<IF minutes < 0 THEN "-" ELSE "+">> \o Pad2(total \div 60) \o <<":">> \o Pad2(total % 60)

(* basename: what follows the last separator.                              *)
Basename(path) ==
  LET seps == {i \in DOMAIN path : path[i] = "/"}
  IN IF seps = {} THEN path
     ELSE SubSeq(path, (CHOOSE i \in seps : \A j \in seps : j <= i) + 1, Len(path))

-----------------------------------------------------------------------------
(* Slips a change of the code could make.                                  *)

RightPad_Half(remaining, side) ==
  IF side = "left" THEN 0 ELSE IF side = "center" THEN remaining \div 2 ELSE remaining

-----------------------------------------------------------------------------
(* full_formatter without the colour range: what comes before the level,   *)
(* the level and what comes after it.                                      *)
FullBefore(m) ==
  <<"[">> \o Decimal[m.tm.year + 1900] \o <<"-">> \o Pad2(m.tm.mon + 1) \o <<"-">> \o Pad2(m.tm.mday) \o <<" ">> \o Hms(m.tm)
    \o <<".">> \o PadUint(m.nanos \div 1000000, 3) \o <<"]", " ">>
    \o (IF m.name = <<>> THEN <<>> ELSE <<"[">> \o m.name \o <<"]", " ">>) \o <<"[">>

FullAfter(m) ==
  <<"]", " ">>
    \o (IF m.source = <<>> THEN <<>> ELSE <<"[">> \o Basename(m.source) \o <<":">> \o Decimal[m.line] \o <<"]", " ">>)
    \o m.payload

(* The texts of the fields, by flag.                                       *)
NameText(f, m) == CASE f = "n" -> m.name [] f = "l" -> m.level [] f = "L" -> <<m.level[1]>>

DateText(f, t) ==
  CASE f = "a" -> Weekday(t) [] f = "A" -> FullWeekday(t) [] f \in {"b", "h"} -> MonthName(t) [] f = "B" -> FullMonth(t)

YearText(f, t) ==
  CASE f = "c" -> DateTime(t) [] f = "C" -> Pad2(t.year % 100) [] f \in {"D", "x"} -> ShortDate(t) [] f = "Y" -> Decimal[t.year + 1900]

TwoDigits(f, t) ==
  CASE f = "m" -> Pad2(t.mon + 1) [] f = "d" -> Pad2(t.mday) [] f = "H" -> Pad2(t.hour)
    [] f = "I" -> Pad2(To12h(t)) [] f = "M" -> Pad2(t.min) [] f = "S" -> Pad2(t.sec)

Fraction(f, m) ==
  CASE f = "e" -> PadUint(m.nanos \div 1000000, 3) [] f = "f" -> PadUint(m.nanos \div 1000, 6)
    [] f = "F" -> PadUint(m.nanos, 9) [] f = "E" -> Decimal[m.seconds]

ClockText(f, t) ==
  CASE f = "p" -> AmPm(t) [] f \in {"T", "X"} -> Hms(t) [] f = "R" -> Pad2(t.hour) \o <<":">> \o Pad2(t.min)
    [] f = "r" -> Pad2(To12h(t)) \o <<":">> \o Pad2(t.min) \o <<":">> \o Pad2(t.sec) \o <<" ">> \o AmPm(t)

IdText(f, m) == CASE f = "t" -> Decimal[m.thread_id] [] f = "P" -> Decimal[m.pid] [] f = "v" -> m.payload [] f = "z" -> Offset(m.offset)

(* Without a source location these show nothing, padded.                   *)
SourceText(f, m) ==
  IF m.source = <<>> THEN <<>>
  ELSE CASE f = "@" -> m.source \o <<":">> \o Decimal[m.line] [] f = "g" -> m.source
         [] f = "s" -> Basename(m.source) [] f = "#" -> Decimal[m.line] [] f = "!" -> m.funcname

Text(f, m) ==
  CASE f \in {"n", "l", "L"} -> NameText(f, m)
    [] f \in {"a", "A", "b", "h", "B"} -> DateText(f, m.tm)
    [] f \in {"c", "C", "D", "x", "Y"} -> YearText(f, m.tm)
    [] f \in {"m", "d", "H", "I", "M", "S"} -> TwoDigits(f, m.tm)
    [] f \in {"e", "f", "F", "E"} -> Fraction(f, m)
    [] f \in {"p", "T", "X", "R", "r"} -> ClockText(f, m.tm)
    [] f \in {"t", "P", "v", "z"} -> IdText(f, m)
    [] OTHER -> SourceText(f, m)

(* The size a formatter gives to its padder: a constant for the fields of  *)
(* date and time, the length of the text for the others.                   *)
Declared(f, m) ==
  CASE f = "c" -> 24 [] f \in {"D", "x"} -> 10 [] f = "Y" -> 4
    [] f \in {"C", "m", "d", "H", "I", "M", "S", "p"} -> 2
    [] f = "e" -> 3 [] f = "f" -> 6 [] f = "F" -> 9 [] f = "E" -> 10
    [] f = "r" -> 11 [] f = "R" -> 5 [] f \in {"T", "X"} -> 8 [] f = "z" -> 6
    [] OTHER -> Len(Text(f, m))

(* The constructor of scoped_padder: what it puts before the text.         *)
LeftPad(remaining, side) ==
  CASE side = "left" -> remaining [] side = "center" -> remaining \div 2 [] side = "right" -> 0

(* What the destructor has left to put after it.                           *)
RightPad(remaining, side) ==
  CASE side = "left" -> 0 [] side = "center" -> (remaining \div 2) + (remaining % 2) [] side = "right" -> remaining

(* format of flag f with a padding.                                        *)
Format(f, pad) ==
  LET remaining == pad.width - Declared(f, msg)
      whole == dest \o Text(f, msg)
      size == Len(whole) + remaining
  IN IF ~pad.enabled THEN dest' = whole /\ UNCHANGED thrown
     ELSE IF remaining > 0
     THEN /\ dest' = dest \o Repeat(" ", LeftPad(remaining, pad.side)) \o Text(f, msg)
                          \o Repeat(" ", RightPad(remaining, pad.side))
          /\ UNCHANGED thrown
     ELSE IF ~pad.truncate THEN dest' = whole /\ UNCHANGED thrown
     ELSE IF size >= 0 THEN dest' = SubSeq(whole, 1, size) /\ UNCHANGED thrown
     ELSE thrown' = TRUE /\ UNCHANGED dest

Field(f, pad) == Format(f, pad) /\ last' = <<f, pad>> /\ UNCHANGED color_range

Full ==
  /\ dest' = dest \o FullBefore(msg) \o msg.level \o FullAfter(msg)
  /\ color_range' = <<Len(dest \o FullBefore(msg)), Len(dest \o FullBefore(msg) \o msg.level)>>
  /\ last' = <<>>
  /\ UNCHANGED thrown

ColorStop(n) == n

ColorMark ==
  /\ \/ color_range' = <<Len(dest), color_range[2]>>
     \/ color_range' = <<color_range[1], ColorStop(Len(dest))>>
  /\ last' = <<>>
  /\ UNCHANGED <<dest, thrown>>

Init ==
  /\ msg \in Messages
  /\ dest = <<>> /\ color_range = <<0, 0>> /\ thrown = FALSE /\ last = <<>> /\ fields = 0

Next ==
  /\ fields < MaxFields /\ ~thrown
  /\ fields' = fields + 1 /\ UNCHANGED msg
  /\ \/ \E f \in Flags, pad \in Paddings : Field(f, pad)
     \/ Full
     \/ ColorMark

Spec == Init /\ [][Next]_vars

-----------------------------------------------------------------------------
(* What a padding means: at least so many characters, spaces on the given  *)
(* side or, for the centre, on both, the odd one on the right; with the    *)
(* truncation mark at most so many, from the start of the text.            *)
Fitted(text, pad) ==
  LET missing == pad.width - Len(text)
      left == IF pad.side = "left" THEN missing ELSE IF pad.side = "center" THEN missing \div 2 ELSE 0
  IN IF ~pad.enabled \/ missing = 0 THEN text
     ELSE IF missing > 0 THEN [i \in 1 .. pad.width |-> IF i - left \in DOMAIN text THEN text[i - left] ELSE " "]
     ELSE IF pad.truncate THEN SubSeq(text, 1, pad.width) ELSE text

(* Each formatter leaves what was there and adds its text, fitted into the *)
(* padding; the padder knows no more of it than the size declared.         *)
FieldsFit ==
  [][last' # <<>> => ~thrown' /\ dest' = dest \o Fitted(Text(last'[1], msg), last'[2])]_vars

(* Whatever comes after it, the colour range stays inside the text.        *)
ColourInside == color_range[1] <= Len(dest) /\ color_range[2] <= Len(dest)
=============================================================================

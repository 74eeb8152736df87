---------------------------- MODULE FormatChrono ----------------------------
(***************************************************************************)
(* How the bundled fmt shows times: parse_chrono_format, the two checkers  *)
(* that a format is read with first, tm_writer for dates and chrono_       *)
(* formatter for durations of integers, which converts them to seconds     *)
(* with safe_duration_cast.  A behaviour goes through the days of some     *)
(* years, the counts of some durations, or writes a format.  What is shown *)
(* is a sequence of characters, names taken as one.                        *)
(***************************************************************************)
EXTENDS Integers, Sequences, FiniteSets, SequencesExt

CONSTANTS
  FirstYear, LastYear,   \* sets: the first years to go through, and the last
  Kinds,                 \* durations: num, den, signed, digits of the type and the counts from and to
  IntDigits, MaxDigits,  \* numeric_limits<int>::digits and <intmax_t>::digits, scaled down
  Alphabet, MaxFormat    \* the characters of formats, and their number (bound)

VARIABLES
  what,     \* "date", "duration" or "format"
  tm,       \* the fields of std::tm, the year from 0 on
  kind, count,
  format

vars == <<what, tm, kind, count, format>>

Div(a, b) == IF a < 0 THEN -((-a) \div b) ELSE a \div b   \* as C++ divides
Rem(a, b) == a - b * Div(a, b)
Pow2 == [n \in 0 .. 30 |-> 2 ^ n]

-----------------------------------------------------------------------------
(* parse_chrono_format.                                                    *)

Standard == {"Y", "y", "C", "G", "g", "a", "A", "w", "u", "b", "B", "m", "U", "W", "V", "j", "d", "e", "H", "I", "M", "S",
             "c", "x", "X", "D", "F", "r", "R", "T", "p", "Q", "q", "z", "Z"}
WithE == {"Y", "y", "C", "c", "x", "X"}
WithO == {"y", "m", "U", "W", "V", "d", "e", "w", "u", "H", "I", "M", "S"}

On(flag, modifier) == [flag |-> flag, modifier |-> modifier]
OnText(c) == On(c, "text")

(* What follows a "%": a modifier or the flag.                             *)
Directive(r, c) ==
  LET Done(op) == [r EXCEPT !.ops = Append(@, op), !.mode = "text"]
  IN CASE r.mode = "%" /\ c = "%"          -> Done(OnText("%"))
       [] r.mode = "%" /\ c = "n"          -> Done(OnText("\n"))
       [] r.mode = "%" /\ c = "t"          -> Done(OnText("\t"))
       [] r.mode = "%" /\ c = "h"          -> Done(On("b", ""))
       [] r.mode = "%" /\ c \in Standard   -> Done(On(c, ""))
       [] r.mode = "%" /\ c \in {"E", "O"} -> [r EXCEPT !.mode = c]
       [] r.mode = "E" /\ c \in WithE      -> Done(On(c, "E"))
       [] r.mode = "O" /\ c \in WithO      -> Done(On(c, "O"))
       [] OTHER                            -> [r EXCEPT !.mode = "invalid"]

Take(r, c) ==
  CASE r.mode \in {"end", "invalid"} -> r
    [] r.mode = "text" /\ c = "}"    -> [r EXCEPT !.mode = "end"]
    [] r.mode = "text" /\ c = "%"    -> [r EXCEPT !.mode = "%", !.at = @ + 1]
    [] r.mode = "text"               -> [r EXCEPT !.ops = Append(@, OnText(c)), !.at = @ + 1]
    [] OTHER                         -> [Directive(r, c) EXCEPT !.at = @ + 1]

(* The calls of the handler, and how far the format was read.              *)
Parsed(s) ==
  LET r == FoldLeft(Take, [ops |-> <<>>, mode |-> "text", at |-> 0], s)
  IN IF r.mode \in {"text", "end"} THEN r ELSE [r EXCEPT !.mode = "invalid"]

(* tm_format_checker and chrono_format_checker.                            *)
ForDates == Standard \ {"Q", "q"}
ForDurations == {"H", "I", "M", "S", "r", "R", "T", "p", "Q", "q"}
Accepted(r, supported) == r.mode # "invalid" /\ \A i \in DOMAIN r.ops : r.ops[i].modifier = "text" \/ r.ops[i].flag \in supported

-----------------------------------------------------------------------------
(* The days that tm_writer computes.                                       *)

Hour12(h) == LET z == IF h < 12 THEN h ELSE h - 12 IN IF z = 0 THEN 12 ELSE z

YearLower(year) == LET l == Rem(year, 100) IN IF l < 0 THEN -l ELSE l

IsoYearWeeks(year) ==
  LET P(y) == Rem(y + Div(y, 4) - Div(y, 100) + Div(y, 400), 7)
  IN 52 + (IF P(year) = 4 \/ P(year - 1) = 3 THEN 1 ELSE 0)

IsoWeekNum(yday, wday) == Div(yday + 11 - (IF wday = 0 THEN 7 ELSE wday), 7)

IsoWeekYear(t) ==
  LET w == IsoWeekNum(t.yday, t.wday)
  IN IF w < 1 THEN t.year - 1 ELSE IF w > IsoYearWeeks(t.year) THEN t.year + 1 ELSE t.year

IsoWeekOfYear(t) ==
  LET w == IsoWeekNum(t.yday, t.wday)
  IN IF w < 1 THEN IsoYearWeeks(t.year - 1) ELSE IF w > IsoYearWeeks(t.year) THEN 1 ELSE w

Dec0Week(t) == Div(t.yday + 7 - t.wday, 7)
Dec1Week(t) == Div(t.yday + 7 - (IF t.wday = 0 THEN 6 ELSE t.wday - 1), 7)

-----------------------------------------------------------------------------
(* Characters.                                                             *)

Chars == <<"0", "1", "2", "3", "4", "5", "6", "7", "8", "9">>
Digit(n) == Chars[n + 1]
RECURSIVE Decimal(_)
Decimal(n) == IF n < 10 THEN <<Digit(n)>> ELSE Append(Decimal(n \div 10), Digit(n % 10))
Padded(n, width, c) ==
  LET digits == Decimal(n) IN [i \in 1 .. (IF width > Len(digits) THEN width - Len(digits) ELSE 0) |-> c] \o digits

Write1(n) == <<Digit(n % 10)>>
Write2(n) == <<Digit((n % 100) \div 10), Digit(n % 10)>>

WriteYearExtended(year) == IF year < 0 THEN <<"-">> \o Padded(-year, 3, "0") ELSE Padded(year, 4, "0")
WriteYear(year) == IF year \in 0 .. 9999 THEN Write2(year \div 100) \o Write2(year % 100) ELSE WriteYearExtended(year)

Century(year) ==
  LET upper == Div(year, 100)
  IN CASE year \in -99 .. -1  -> <<"-", "0">>
       [] upper \in 0 .. 99   -> Write2(upper)
       [] upper < 0           -> <<"-">> \o Decimal(-upper)
       [] OTHER               -> Decimal(upper)

(* Each number is made binary coded decimal in its part of one integer.    *)
Digit2Separated(a, b, c, sep) ==
  LET Bcd(x) == LET y == x + (((x * 205) \div 2048) % 16) * 6 IN <<Digit((y \div 16) % 16), Digit(y % 16)>>
  IN Bcd(a) \o <<sep>> \o Bcd(b) \o <<sep>> \o Bcd(c)

UtcOffset(offset) ==
  LET minutes == (IF offset < 0 THEN -offset ELSE offset) \div 60
  IN <<IF offset < 0 THEN "-" ELSE "+">> \o Write2(minutes \div 60) \o Write2(minutes % 60)

Weekdays == <<"Sun", "Mon", "Tue", "Wed", "Thu", "Fri", "Sat">>
Weekday == <<"Sunday", "Monday", "Tuesday", "Wednesday", "Thursday", "Friday", "Saturday">>
Months == <<"Jan", "Feb", "Mar", "Apr", "May", "Jun", "Jul", "Aug", "Sep", "Oct", "Nov", "Dec">>
Month == <<"January", "February", "March", "April", "May", "June",
           "July", "August", "September", "October", "November", "December">>

-----------------------------------------------------------------------------
(* tm_writer, in the classic locale or in another, which std::time_put is  *)
(* asked to write for.                                                     *)

TwoDigits == {"m", "U", "W", "V", "d", "H", "I", "M", "S", "y"}
Number(t, flag) ==
  CASE flag = "m" -> t.mon + 1 [] flag = "U" -> Dec0Week(t) [] flag = "W" -> Dec1Week(t)
    [] flag = "V" -> IsoWeekOfYear(t) [] flag = "d" -> t.mday [] flag = "H" -> t.hour [] flag = "I" -> Hour12(t.hour)
    [] flag = "M" -> t.min [] flag = "S" -> t.sec [] flag = "y" -> YearLower(t.year)

AmPm(t) == <<IF t.hour < 12 THEN "A" ELSE "P", "M">>
IsoTime(t) == Digit2Separated(t.hour, t.min, t.sec, ":")
HourMinute(t) == Write2(t.hour) \o <<":">> \o Write2(t.min)
Time12(t) == Digit2Separated(Hour12(t.hour), t.min, t.sec, ":") \o <<" ">> \o AmPm(t)
UsDate(t) == Digit2Separated(t.mon + 1, t.mday, YearLower(t.year), "/")
DayOfYear(t) == Write1((t.yday + 1) \div 100) \o Write2((t.yday + 1) % 100)
DaySpace(t) == <<IF t.mday < 10 THEN " " ELSE Digit(t.mday \div 10), Digit(t.mday % 10)>>
DateTime(t) ==
  <<Weekdays[t.wday + 1], " ", Months[t.mon + 1], " ">> \o DaySpace(t) \o <<" ">> \o IsoTime(t) \o <<" ">> \o WriteYear(t.year)

IsoDate(t) ==
  IF t.year \in 0 .. 9999
  THEN Write2(t.year \div 100) \o Digit2Separated(t.year % 100, t.mon + 1, t.mday, "-")
  ELSE WriteYearExtended(t.year) \o SubSeq(Digit2Separated(0, t.mon + 1, t.mday, "-"), 3, 8)

(* Those that no locale changes.                                           *)
Fixed(t, flag) ==
  CASE flag = "G" -> WriteYear(IsoWeekYear(t))
    [] flag = "g" -> Write2(YearLower(IsoWeekYear(t)))
    [] flag = "j" -> DayOfYear(t)
    [] flag = "D" -> UsDate(t)
    [] flag = "F" -> IsoDate(t)
    [] flag = "R" -> HourMinute(t)
    [] flag = "T" -> IsoTime(t)
    [] flag = "z" -> UtcOffset(t.gmtoff)
    [] flag \in {"Q", "q"} -> <<>>

(* Those that a locale changes only where a modifier asks for it.          *)
Plain(t, flag) ==
  CASE flag \in TwoDigits -> Write2(Number(t, flag))
    [] flag = "w" -> Write1(t.wday)
    [] flag = "u" -> Write1(IF t.wday = 0 THEN 7 ELSE t.wday)
    [] flag = "e" -> DaySpace(t)
    [] flag = "Y" -> WriteYear(t.year)
    [] flag = "C" -> Century(t.year)

Classic(t, flag) ==
  CASE flag = "a" -> <<Weekdays[t.wday + 1]>>
    [] flag = "A" -> <<Weekday[t.wday + 1]>>
    [] flag = "b" -> <<Months[t.mon + 1]>>
    [] flag = "B" -> <<Month[t.mon + 1]>>
    [] flag = "p" -> AmPm(t)
    [] flag = "c" -> DateTime(t)
    [] flag = "x" -> UsDate(t)
    [] flag = "X" -> IsoTime(t)
    [] flag = "r" -> Time12(t)
    [] flag = "Z" -> <<t.zone>>

ShowDate(t, op, classic) ==
  LET asked == IF op.modifier = "" THEN <<"%", op.flag>> ELSE <<"%", op.modifier, op.flag>>
  IN CASE op.modifier = "text" -> <<op.flag>>
       [] op.modifier # "text" /\ op.flag \in {"G", "g", "j", "D", "F", "R", "T", "z", "Q", "q"} -> Fixed(t, op.flag)
       [] op.modifier # "text" /\ op.flag \in TwoDigits \cup {"w", "u", "e", "Y", "C"} ->
            IF classic \/ op.modifier = "" THEN Plain(t, op.flag) ELSE asked
       [] OTHER -> IF classic THEN Classic(t, op.flag) ELSE asked

Shown(t, ops) == FlattenSeq([i \in DOMAIN ops |-> ShowDate(t, ops[i], TRUE)])

-----------------------------------------------------------------------------
(* Integer types, conversions without loss and safe_duration_cast.         *)

Type(signed, digits) == [signed |-> signed, digits |-> digits]
MaxOf(T) == Pow2[T.digits] - 1
MinOf(T) == IF T.signed THEN -Pow2[T.digits] ELSE 0
InType(T, n) == n \in MinOf(T) .. MaxOf(T)
Failed == [ec |-> TRUE, value |-> 0]
Value(n) == [ec |-> FALSE, value |-> n]

(* lossless_integral_conversion, in its three forms.                       *)
Lossless(from, F, T) ==
  IF CASE F = T -> FALSE
       [] F # T /\ F.signed = T.signed -> F.digits > T.digits /\ (from < MinOf(T) \/ from > MaxOf(T))
       [] F.signed /\ ~T.signed        -> from < 0 \/ (F.digits > T.digits /\ from > MaxOf(T))
       [] ~F.signed /\ T.signed        -> F.digits >= T.digits /\ from > MaxOf(T)
  THEN Failed ELSE Value(from)

(* common_type with intmax_t, which no type but its own unsigned exceeds.  *)
Intermediate(T) == IF T.digits > MaxDigits THEN T ELSE Type(TRUE, MaxDigits)

(* Slips a change of the code could make.                                  *)
Overflows_Below(n, num, T) == num # 1 /\ n < Div(MinOf(T), num)

(* The comparison before the multiplication.                               *)
Overflows(n, num, T) == num # 1 /\ (n > Div(MaxOf(T), num) \/ n < Div(MinOf(T), num))

(* safe_duration_cast to seconds of the same type.                         *)
SafeCast(n, num, den, T) ==
  LET I == Intermediate(T)
      c == Lossless(n, T, I)
  IN IF c.ec \/ Overflows(c.value, num, I) THEN Failed ELSE Lossless(Div(c.value * num, den), I, T)

-----------------------------------------------------------------------------
(* chrono_formatter: the type of rep, and what the constructor makes.      *)

Rep(k) ==
  IF k.digits < IntDigits THEN Type(FALSE, IntDigits + 1)
  ELSE Type(FALSE, IF k.signed THEN k.digits + 1 ELSE k.digits)

Val(k, n) ==
  LET wrap == Pow2[Rep(k).digits]
      val == n % wrap
  IN IF n < 0 THEN (wrap - val) % wrap ELSE val

Seconds(k, n) == SafeCast(Val(k, n), k.num, k.den, Rep(k))

(* count_fractional_digits, for the periods it ends for.                   *)
FractionalDigits(k) == CHOOSE n \in 0 .. 9 : (k.num * 10 ^ n) % k.den = 0 /\ \A m \in 0 .. n - 1 : (k.num * 10 ^ m) % k.den # 0

Fraction(k, n) ==
  LET digits == FractionalDigits(k)
  IN IF digits = 0 THEN <<>>
     ELSE <<".">> \o Padded((((Val(k, n) * k.num) % k.den) * 10 ^ digits) \div k.den, digits, "0")

(* format_duration_unit.                                                   *)
Unit(k) ==
  CASE k.num = 60 -> <<"m">> [] k.num = 3600 -> <<"h">> [] k.num = 1 /\ k.den = 1 -> <<"s">> [] k.num = 1 /\ k.den = 10 -> <<"ds">>
    [] OTHER -> <<"[">> \o Decimal(k.num) \o (IF k.den = 1 THEN <<>> ELSE <<"/">> \o Decimal(k.den)) \o <<"]", "s">>

ClockOf(s) == [hour |-> (s \div 3600) % 24, min |-> (s \div 60) % 60, sec |-> s % 60]
HourOf12(s) == LET h == (s \div 3600) % 12 IN IF h <= 0 THEN 12 ELSE h

(* The numbers written the standard way.                                   *)
Numbers(k, n, flag) ==
  LET s == Seconds(k, n).value
      t == ClockOf(s)
      Two(x) == Padded(x, 2, "0")
      minutes == Two(t.hour) \o <<":">> \o Two(t.min)
      seconds == Two(t.sec) \o Fraction(k, n)
  IN CASE flag = "Q" -> Decimal(Val(k, n))
       [] flag = "H" -> Two(t.hour)
       [] flag = "I" -> Two(HourOf12(s))
       [] flag = "M" -> Two(t.min)
       [] flag = "S" -> seconds
       [] flag = "R" -> minutes
       [] flag = "T" -> minutes \o <<":">> \o seconds

(* What a directive writes after what is already there.  The first of the  *)
(* numbers above takes the sign; what tm_writer writes takes none.         *)
ShowDuration(k, n, r, op) ==
  LET s == Seconds(k, n).value
      t == ClockOf(s)
      sign == IF r.negative THEN <<"-">> ELSE <<>>
      Write(text) == [r EXCEPT !.out = @ \o text]
  IN CASE op.modifier = "text"              -> Write(<<op.flag>>)
       [] op.modifier = "" /\ op.flag = "q" -> Write(Unit(k))
       [] op.modifier = "" /\ op.flag \in {"r", "p"} -> Write(Classic(t, op.flag))
       [] op.modifier = "" /\ op.flag \notin {"q", "r", "p"} ->
            [negative |-> FALSE, out |-> r.out \o sign \o Numbers(k, n, op.flag)]
       [] OTHER -> Write(Write2(Number(IF op.flag = "I" THEN [t EXCEPT !.hour = HourOf12(s)] ELSE t, op.flag)))

(* formatter<duration>::format of a format that was accepted.              *)
ShownDuration(k, n, ops) ==
  IF Seconds(k, n).ec THEN <<>>
  ELSE FoldLeft(LAMBDA r, op : ShowDuration(k, n, r, op), [out |-> <<>>, negative |-> n < 0], ops).out

-----------------------------------------------------------------------------
(* The days of the calendar, to begin with and to go on with.              *)

Leap(y) == y % 4 = 0 /\ (y % 100 # 0 \/ y % 400 = 0)
DaysIn(y, mon) == IF mon = 1 /\ Leap(y) THEN 29 ELSE <<31, 28, 31, 30, 31, 30, 31, 31, 30, 31, 30, 31>>[mon + 1]
NewYear(y) == (y + (y + 3) \div 4 - (y + 99) \div 100 + (y + 399) \div 400 + 6) % 7

FirstDay(y) ==
  [year |-> y, mon |-> 0, mday |-> 1, yday |-> 0, wday |-> NewYear(y), hour |-> 0, min |-> 0, sec |-> 59,
   gmtoff |-> -12600, zone |-> "UTC"]

NextDay(t) ==
  LET lastOfMonth == t.mday = DaysIn(t.year, t.mon)
      lastOfYear == lastOfMonth /\ t.mon = 11
  IN [t EXCEPT !.year = IF lastOfYear THEN @ + 1 ELSE @, !.mon = IF lastOfMonth THEN (@ + 1) % 12 ELSE @,
               !.mday = IF lastOfMonth THEN 1 ELSE @ + 1, !.yday = IF lastOfYear THEN 0 ELSE @ + 1,
               !.wday = (@ + 1) % 7, !.hour = (@ + 5) % 24, !.min = (@ + 7) % 60, !.sec = (@ + 1) % 61,
               !.gmtoff = IF @ > 40000 THEN -43200 ELSE @ + 900]

Init ==
  /\ what \in {"date", "duration", "format"}
  /\ IF what = "date" THEN \E y \in FirstYear : tm = FirstDay(y) ELSE tm = FirstDay(1)
  /\ IF what = "duration" THEN kind \in Kinds ELSE kind = CHOOSE k \in Kinds : TRUE
  /\ count = kind.from
  /\ format = <<>>

PassDay ==
  /\ what = "date" /\ ~(tm.year \in LastYear /\ tm.yday > 10)
  /\ tm' = NextDay(tm)
  /\ UNCHANGED <<what, kind, count, format>>

Longer ==
  /\ what = "duration" /\ count < kind.to
  /\ count' = count + 1
  /\ UNCHANGED <<what, tm, kind, format>>

Extend ==
  /\ what = "format" /\ Len(format) < MaxFormat
  /\ \E c \in Alphabet : format' = Append(format, c)
  /\ UNCHANGED <<what, tm, kind, count>>

Next == PassDay \/ Longer \/ Extend

Spec == Init /\ [][Next]_vars

-----------------------------------------------------------------------------
(* The week of a date, by ISO 8601 or counted from the first Sunday or     *)
(* Monday, goes up by one where a week begins, and the year it belongs to  *)
(* changes with it; 4 January is in the first.                             *)
WeeksFollow ==
  [][PassDay =>
       /\ IF tm'.wday # 1
          THEN IsoWeekOfYear(tm') = IsoWeekOfYear(tm) /\ IsoWeekYear(tm') = IsoWeekYear(tm)
          ELSE IF IsoWeekYear(tm') = IsoWeekYear(tm) THEN IsoWeekOfYear(tm') = IsoWeekOfYear(tm) + 1
          ELSE IsoWeekYear(tm') = IsoWeekYear(tm) + 1 /\ IsoWeekOfYear(tm') = 1
       /\ tm'.year = tm.year => /\ Dec0Week(tm') = Dec0Week(tm) + (IF tm'.wday = 0 THEN 1 ELSE 0)
                                /\ Dec1Week(tm') = Dec1Week(tm) + (IF tm'.wday = 1 THEN 1 ELSE 0)
       /\ tm.yday = 3 => IsoWeekYear(tm) = tm.year /\ IsoWeekOfYear(tm) = 1]_vars

(* A directive for several fields shows what those for each of them show,  *)
(* and the century with the year of the century is the year.               *)
SameAs(s, u) == Shown(tm, Parsed(s).ops) = Shown(tm, Parsed(u).ops)
PartsAgree ==
  what = "date" =>
    /\ SameAs(<<"%", "T">>, <<"%", "H", ":", "%", "M", ":", "%", "S">>)
    /\ SameAs(<<"%", "D">>, <<"%", "m", "/", "%", "d", "/", "%", "y">>)
    /\ SameAs(<<"%", "F">>, <<"%", "Y", "-", "%", "m", "-", "%", "d">>)
    /\ SameAs(<<"%", "r">>, <<"%", "I", ":", "%", "M", ":", "%", "S", " ", "%", "p">>)
    /\ SameAs(<<"%", "c">>, <<"%", "a", " ", "%", "b", " ", "%", "e", " ", "%", "T", " ", "%", "Y">>)
    /\ \A year \in {tm.year, -tm.year, 100 * tm.year, -100 * tm.year} :
         WriteYear(year) = Century(year) \o Write2(YearLower(year)) /\ Len(WriteYear(year)) >= 4

(* A duration is shown whole, its sign once, or refused, which is only     *)
(* done when its seconds do not fit the type.                              *)
Read(text) == FoldLeft(LAMBDA n, c : 10 * n + (CHOOSE i \in 0 .. 9 : Digit(i) = c), 0, text)
DurationWhole ==
  what = "duration" =>
    LET size == IF count < 0 THEN -count ELSE count
        seconds == (size * kind.num) \div kind.den
        out == ShownDuration(kind, count, Parsed(<<"%", "T">>).ops)
        text == IF count < 0 THEN Tail(out) ELSE out
        Field(i) == Read(SubSeq(text, i, i + 1))
    IN IF ~InType(Rep(kind), seconds) THEN Seconds(kind, count).ec
       ELSE /\ ~Seconds(kind, count).ec
            /\ (out[1] = "-") = (count < 0)
            /\ 3600 * Field(1) + 60 * Field(4) + Field(7) = seconds % 86400
            /\ Len(text) > 8 => Read(SubSeq(text, 10, Len(text))) * kind.den
                                  = ((size * kind.num) % kind.den) * 10 ^ (Len(text) - 9)
            /\ Len(text) = 8 => (size * kind.num) % kind.den = 0

(* Whatever a checker accepts is written as it was checked: every          *)
(* character of the format belongs to one call, in order, and a negative   *)
(* duration has one sign if a number of it is shown the standard way.      *)
Unparsed(op) ==
  CASE op.modifier = "text" /\ op.flag = "%"  -> <<"%", "%">>
    [] op.modifier = "text" /\ op.flag = "\n" -> <<"%", "n">>
    [] op.modifier = "text" /\ op.flag = "\t" -> <<"%", "t">>
    [] op.modifier = "text" /\ op.flag \notin {"%", "\n", "\t"} -> <<op.flag>>
    [] op.modifier = "" -> <<"%", op.flag>>
    [] OTHER -> <<"%", op.modifier, op.flag>>
AsFull(s) == [i \in DOMAIN s |-> IF s[i] = "h" THEN "b" ELSE s[i]]
Signs(out) == {i \in DOMAIN out : out[i] = "-"}
FormatWhole ==
  what = "format" =>
    LET r == Parsed(format)
        out == ShownDuration(kind, count, r.ops)
        signed == count < 0 /\ \E i \in DOMAIN r.ops :
                    r.ops[i].modifier = "" /\ r.ops[i].flag \in {"H", "I", "M", "S", "R", "T", "Q"}
    IN /\ Accepted(r, ForDates) =>
            /\ AsFull(FlattenSeq([i \in DOMAIN r.ops |-> Unparsed(r.ops[i])])) = AsFull(SubSeq(format, 1, r.at))
            /\ r.at = Len(format) \/ format[r.at + 1] = "}"
       /\ Accepted(r, ForDurations) => Cardinality(Signs(out)) = IF signed THEN 1 ELSE 0
=============================================================================

----------------------------- MODULE FormatFields -----------------------------
(***************************************************************************)
(* What the bundled fmt writes for an argument: integers in their bases,   *)
(* with prefixes and separators, characters, booleans, pointers, strings   *)
(* of UTF-8, and floating-point numbers, each padded to a width.  A writer *)
(* announces the size of its text before it writes it, and the padding is  *)
(* computed from that size.  A behaviour takes an argument and its         *)
(* specifications, and widens the field step by step.                      *)
(***************************************************************************)
EXTENDS FormatFloats

CONSTANTS
  Items,      \* the arguments: records with a kind, and n, float or bytes
  SpecsOf(_), \* the specifications an item may have
  Locales,    \* records with grouping, sep and point
  IntBits,    \* of an int
  CharMax,
  ExpLower, ExpUpper,  \* of the general format
  Byte,       \* the codes of the characters in strings
  WidthStep, MaxWidth  \* bounds

VARIABLES item, specs, locale

vars == <<item, specs, locale>>

NoPrefix == <<>>
NotLocal == [grouping |-> <<>>, sep |-> "", point |-> "."]
Repeat(c, n) == [i \in 1 .. n |-> c]

-----------------------------------------------------------------------------
(* Digits.                                                                 *)

Digit == [d \in 0 .. 15 |-> <<"0", "1", "2", "3", "4", "5", "6", "7", "8", "9", "a", "b", "c", "d", "e", "f">>[d + 1]]
UpperDigit == [d \in 0 .. 15 |-> <<"0", "1", "2", "3", "4", "5", "6", "7", "8", "9", "A", "B", "C", "D", "E", "F">>[d + 1]]
Chars(buf) == [i \in DOMAIN buf |-> Digit[buf[i]]]

Digits2(value) == <<Digit[value \div 10], Digit[value % 10]>>

(* By two digits at a time.                                                *)
RECURSIVE FormatDecimal(_)
FormatDecimal(value) ==
  IF value >= 100 THEN FormatDecimal(value \div 100) \o Digits2(value % 100)
  ELSE IF value < 10 THEN <<Digit[value]>> ELSE Digits2(value)

RECURSIVE FormatUint(_, _, _)
FormatUint(value, bits, digits) ==
  (IF value \div Pow2[bits] = 0 THEN <<>> ELSE FormatUint(value \div Pow2[bits], bits, digits))
    \o <<digits[value % Pow2[bits]]>>

-----------------------------------------------------------------------------
(* UTF-8.                                                                  *)

CodePointLength(byte) ==
  LET group == byte \div 8
  IN CASE group \in 24 .. 27 -> 2 [] group \in 28 .. 29 -> 3 [] group = 30 -> 4 [] OTHER -> 1

(* A zero is read beyond the end.                                          *)
ByteAt(s, i) == IF i \in DOMAIN s THEN Byte[s[i]] ELSE 0

Utf8Decode(s, i) ==
  LET len == CodePointLength(ByteAt(s, i))
      Tail6(k) == ByteAt(s, i + k) % 64
      lead == ByteAt(s, i) % <<128, 32, 16, 8>>[len]
      cp == (lead * Pow2[18] + Tail6(1) * Pow2[12] + Tail6(2) * Pow2[6] + Tail6(3)) \div Pow2[<<18, 12, 6, 0>>[len]]
  IN [len |-> len, cp |-> cp,
      error |-> \/ cp < <<0, 128, 2048, 65536>>[len]
                \/ cp \div 2048 = 27
                \/ cp > 1114111
                \/ \E k \in 1 .. len - 1 : ByteAt(s, i + k) \div 64 # 2]

(* for_each_codepoint: what is passed to the function for each.            *)
RECURSIVE CodePoints(_, _)
CodePoints(s, i) ==
  IF i > Len(s) THEN <<>> ELSE <<Utf8Decode(s, i)>> \o CodePoints(s, i + CodePointLength(ByteAt(s, i)))

Wide == << <<4352, 4447>>, <<9001, 9002>>, <<11904, 12350>>, <<12352, 42191>>, <<44032, 55203>>, <<63744, 64255>>,
           <<65040, 65049>>, <<65072, 65135>>, <<65280, 65376>>, <<65504, 65510>>, <<131072, 196605>>,
           <<196608, 262141>>, <<127744, 128591>>, <<129280, 129535>> >>
ColumnsOf(p) == IF ~p.error /\ \E r \in Range(Wide) : p.cp \in r[1] .. r[2] THEN 2 ELSE 1
ComputeWidth(s) == FoldLeft(LAMBDA w, p : w + ColumnsOf(p), 0, CodePoints(s, 1))

-----------------------------------------------------------------------------
(* Padding.  A writer has its size, its width, its text and the alignment  *)
(* it takes when none is asked for; "before" is written ahead of it.       *)

Writer(align, size, text) == [align |-> align, size |-> size, width |-> size, text |-> text, before |-> <<>>]

(* The part of the padding on the left.                                    *)
LeftPadding(align, default, padding) ==
  CASE align = "none"    -> IF default = "left" THEN 0 ELSE padding
    [] align = "left"    -> 0
    [] align \in {"right", "numeric"} -> padding
    [] align = "center"  -> padding \div 2

Fill(n, fill) == FlattenSeq([i \in 1 .. n |-> fill])

WritePadded(w, s) ==
  LET padding == IF s.width > w.width THEN s.width - w.width ELSE 0
      left == LeftPadding(s.align, w.align, padding)
  IN w.before \o Fill(left, s.fill) \o w.text \o Fill(padding - left, s.fill)

-----------------------------------------------------------------------------
(* Grouping of digits.                                                     *)

(* next: the positions, from the right, below n.                           *)
RECURSIVE SeparatorsFrom(_, _, _, _)
SeparatorsFrom(grouping, group, pos, n) ==
  LET step == IF group > Len(grouping) THEN Last(grouping) ELSE grouping[group]
  IN IF (group <= Len(grouping) /\ (step <= 0 \/ step = CharMax)) \/ pos + step >= n THEN <<>>
     ELSE <<pos + step>> \o SeparatorsFrom(grouping, IF group > Len(grouping) THEN group ELSE group + 1, pos + step, n)

(* thousands_sep_impl has no separator without a grouping.                 *)
Separator(loc) == IF loc.grouping = <<>> THEN "" ELSE loc.sep
Separators(loc, n) == IF Separator(loc) = "" THEN <<>> ELSE SeparatorsFrom(loc.grouping, 1, 0, n)

CountSeparators(loc, n) == Len(Separators(loc, n))
Grouped(digits, separators, sep) ==
  FlattenSeq([i \in DOMAIN digits |->
    IF Len(digits) - i + 1 \in Range(separators) THEN <<sep, digits[i]>> ELSE <<digits[i]>>])
Apply(loc, digits) == Grouped(digits, Separators(loc, Len(digits)), Separator(loc))

-----------------------------------------------------------------------------
(* Integers.                                                               *)

SignChars(sign) == CASE sign = "plus" -> <<"+">> [] sign = "space" -> <<" ">> [] OTHER -> <<>>

(* In the unsigned type of the same width.                                 *)
ToUnsigned(n) == n % Pow2[IntBits]
MakeWriteIntArg(n, sign) ==
  IF n < 0 THEN [abs |-> (0 - ToUnsigned(n)) % Pow2[IntBits], prefix |-> <<"-">>]
  ELSE [abs |-> ToUnsigned(n), prefix |-> SignChars(sign)]

(* write_int_data: the size, and the zeros before the digits.              *)
WriteIntData(num_digits, prefix, s) ==
  LET size == Len(prefix) + num_digits
  IN CASE s.align = "numeric" /\ s.width > size -> [size |-> s.width, padding |-> s.width - size]
       [] s.align # "numeric" /\ s.precision > num_digits ->
            [size |-> Len(prefix) + s.precision, padding |-> s.precision - num_digits]
       [] OTHER -> [size |-> size, padding |-> 0]

WriteIntDigits(num_digits, digits, prefix, s) ==
  LET data == WriteIntData(num_digits, prefix, s)
  IN Writer("right", data.size, prefix \o Repeat("0", data.padding) \o digits)

WriteIntLocalized(abs, prefix, loc) ==
  Writer("right", Len(prefix) + CountDigits64(abs) + CountSeparators(loc, CountDigits64(abs)),
         prefix \o Apply(loc, FormatDecimal(abs)))

WriteChar(c) == Writer("left", 1, <<c>>)

(* The prefix of an octal number counts as a digit of its precision.       *)
OctalPrefix(abs, num_digits, s) == IF s.alt /\ s.precision <= num_digits /\ abs # 0 THEN <<"0">> ELSE <<>>

Bits(type) == CASE type \in {"x", "X"} -> 4 [] type = "o" -> 3 [] type \in {"b", "B"} -> 1
BasePrefix(abs, num_digits, s) ==
  CASE s.type = "o" -> OctalPrefix(abs, num_digits, s)
    [] s.type # "o" -> IF s.alt THEN <<"0", s.type>> ELSE <<>>
WriteBase2(arg, num_digits, s) ==
  WriteIntDigits(num_digits, FormatUint(arg.abs, Bits(s.type), IF s.type = "X" THEN UpperDigit ELSE Digit),
                 arg.prefix \o BasePrefix(arg.abs, num_digits, s), s)
WriteInt(arg, s, loc) ==
  CASE s.type \in {"none", "d"} /\ s.localized -> WriteIntLocalized(arg.abs, arg.prefix, loc)
    [] s.type \in {"none", "d"} /\ ~s.localized ->
         WriteIntDigits(CountDigits32(arg.abs), FormatDecimal(arg.abs), arg.prefix, s)
    [] s.type \in {"x", "X", "o", "b", "B"} -> WriteBase2(arg, CountDigitsOf(arg.abs, Bits(s.type)), s)
    [] s.type = "c" -> WriteChar(CHOOSE c \in DOMAIN Byte : Byte[c] = arg.abs % 256)

(* Without specifications, and format_int, which both begin with the       *)
(* absolute value.                                                         *)
PlainInt(n) ==
  LET abs == IF n < 0 THEN (Pow2[IntBits] - 1 - ToUnsigned(n) + 1) % Pow2[IntBits] ELSE ToUnsigned(n)
  IN Writer("right", (IF n < 0 THEN 1 ELSE 0) + CountDigits32(abs), (IF n < 0 THEN <<"-">> ELSE <<>>) \o FormatDecimal(abs))
FormatInt(n) ==
  LET digits == FormatDecimal(IF n < 0 THEN (0 - ToUnsigned(n)) % Pow2[IntBits] ELSE ToUnsigned(n))
  IN IF n < 0 THEN <<"-">> \o digits ELSE digits

WritePtr(value) == Writer("right", CountDigitsOf(value, 4) + 2, <<"0", "x">> \o FormatUint(value, 4, Digit))

-----------------------------------------------------------------------------
(* Strings.                                                                *)

(* Of chars, where an index is that of a byte.                             *)
CodePointIndex(str, n) == IF n < Len(str) THEN n ELSE Len(str)
Cut(str, precision) ==
  IF precision >= 0 /\ precision < Len(str) THEN SubSeq(str, 1, CodePointIndex(str, precision)) ELSE str

WriteCut(text, s) == [Writer("left", Len(text), text) EXCEPT !.width = IF s.width # 0 THEN ComputeWidth(text) ELSE 0]
WriteString(str, s) == WriteCut(Cut(str, s.precision), s)

WriteBytes(text) == Writer("left", Len(text), text)
BoolText(n) == IF n = 1 THEN <<"t", "r", "u", "e">> ELSE <<"f", "a", "l", "s", "e">>

-----------------------------------------------------------------------------
(* Floating-point numbers.                                                 *)

(* parse_float_type_spec, with the sign of the number.                     *)
FloatSpecs(s, negative) ==
  LET format == CASE s.type \in {"e", "E"} -> "exp" [] s.type \in {"f", "F"} -> "fixed" [] OTHER -> "general"
  IN [format |-> format, upper |-> s.type \in {"E", "F", "G"}, locale |-> s.localized,
      showpoint |-> s.alt \/ (format # "general" /\ s.precision # 0),
      sign |-> IF negative THEN <<"-">> ELSE SignChars(s.sign),
      precision |-> 0]

(* Spaces take the place of the zeros of a padding.                        *)
Nonfinite(s) == IF s.fill = <<"0">> THEN [s EXCEPT !.fill = <<" ">>] ELSE s
WriteNonfinite(isinf, f) ==
  LET str == CASE isinf /\ f.upper -> <<"I", "N", "F">> [] isinf /\ ~f.upper -> <<"i", "n", "f">>
               [] ~isinf /\ f.upper -> <<"N", "A", "N">> [] ~isinf /\ ~f.upper -> <<"n", "a", "n">>
  IN Writer("left", 3 + Len(f.sign), f.sign \o str)

WriteExponent(exp) ==
  LET abs == IF exp < 0 THEN -exp ELSE exp
      hundreds == IF abs < 100 THEN <<>> ELSE IF abs >= 1000 THEN Digits2(abs \div 100) ELSE <<Digit[abs \div 100]>>
  IN <<IF exp < 0 THEN "-" ELSE "+">> \o hundreds \o Digits2(abs % 100)

(* Digits with a point after the first few, or zeros after all.            *)
WithPoint(digits, integral, point) ==
  IF point = "" THEN SubSeq(digits, 1, integral)
  ELSE SubSeq(digits, 1, integral) \o <<point>> \o SubSeq(digits, integral + 1, Len(digits))
PointGrouped(digits, integral, point, loc) ==
  IF Separator(loc) = "" THEN WithPoint(digits, integral, point)
  ELSE Apply(loc, SubSeq(digits, 1, integral)) \o <<point>> \o SubSeq(digits, integral + 1, Len(digits))
ZerosGrouped(digits, exponent, loc) ==
  IF Separator(loc) = "" THEN digits \o Repeat("0", exponent) ELSE Apply(loc, digits \o Repeat("0", exponent))

UseExpFormat(f, output_exp) ==
  \/ f.format = "exp"
  \/ f.format = "general" /\ (output_exp < ExpLower \/ output_exp >= IF f.precision > 0 THEN f.precision ELSE ExpUpper)

ExpDigits(e) == IF e >= 1000 THEN 4 ELSE IF e >= 100 THEN 3 ELSE 2
AtLeast0(n) == IF n < 0 THEN 0 ELSE n

(* 1.234e+05                                                               *)
WriteExp(digits, output_exp, f, point) ==
  LET num_zeros == IF f.showpoint THEN AtLeast0(f.precision - Len(digits)) ELSE 0
      decimal_point == IF ~f.showpoint /\ Len(digits) = 1 THEN "" ELSE point
  IN Writer("right",
       Len(digits) + Len(f.sign) + num_zeros + (IF decimal_point = "" THEN 0 ELSE 1) + 2
         + ExpDigits(IF output_exp < 0 THEN -output_exp ELSE output_exp),
       f.sign \o WithPoint(digits, 1, decimal_point) \o Repeat("0", num_zeros) \o <<IF f.upper THEN "E" ELSE "e">>
         \o WriteExponent(output_exp))

(* 1234e5 -> 123400000[.0+]                                                *)
WriteWhole(digits, exponent, f, point, loc) ==
  LET missing == f.precision - exponent - Len(digits)
      num_zeros == IF f.showpoint /\ missing <= 0 /\ f.format # "fixed" THEN 1 ELSE missing
  IN Writer("right",
       Len(digits) + Len(f.sign) + exponent + (IF f.showpoint /\ num_zeros > 0 THEN num_zeros + 1 ELSE 0)
         + CountSeparators(loc, Len(digits)),
       f.sign \o ZerosGrouped(digits, exponent, loc)
         \o (IF f.showpoint THEN <<point>> \o Repeat("0", AtLeast0(num_zeros)) ELSE <<>>))

(* 1234e-2 -> 12.34[0+]                                                    *)
WriteMixed(digits, exp, f, point, loc) ==
  LET num_zeros == IF f.showpoint THEN AtLeast0(f.precision - Len(digits)) ELSE 0
  IN Writer("right",
       Len(digits) + Len(f.sign) + 1 + num_zeros + CountSeparators(loc, Len(digits)),
       f.sign \o PointGrouped(digits, exp, point, loc) \o Repeat("0", num_zeros))

(* 1234e-6 -> 0.001234                                                     *)
WriteFraction(digits, exp, f, point) ==
  LET num_zeros == IF digits = <<>> /\ f.precision >= 0 /\ f.precision < -exp THEN f.precision ELSE -exp
      pointy == num_zeros # 0 \/ digits # <<>> \/ f.showpoint
  IN Writer("right",
       Len(digits) + Len(f.sign) + 1 + (IF pointy THEN 1 ELSE 0) + num_zeros,
       f.sign \o <<"0">> \o (IF pointy THEN <<point>> \o Repeat("0", num_zeros) \o digits ELSE <<>>))

DoWriteFloat(digits, exponent, f, loc) ==
  LET point == IF f.locale THEN loc.point ELSE "."
      grouping == IF f.locale THEN loc ELSE NotLocal
      exp == exponent + Len(digits)
  IN IF UseExpFormat(f, exp - 1) THEN WriteExp(digits, exp - 1, f, point)
     ELSE IF exponent >= 0 THEN WriteWhole(digits, exponent, f, point, grouping)
     ELSE IF exp > 0 THEN WriteMixed(digits, exp, f, point, grouping)
     ELSE WriteFraction(digits, exp, f, point)

(* The number of digits that is asked of format_float.                     *)
FloatPrecision(s, f) ==
  LET precision == IF s.precision >= 0 \/ s.type = "none" THEN s.precision ELSE 6
  IN IF f.format = "exp" THEN precision + 1 ELSE precision

WriteDigits(r, f, precision, loc) == DoWriteFloat(Chars(r.buf), r.exp, [f EXCEPT !.precision = precision], loc)
WriteFinite(float, f, precision, loc) ==
  WriteDigits(FormatFloat(float, precision, f.format, f.showpoint), f, precision, loc)

(* A sign goes before the zeros of a numeric alignment.                    *)
SignFirst(s, f) == s.align = "numeric" /\ f.sign # <<>>
WriteFloat(x, s, f, loc) ==
  IF x.special # "" THEN WriteNonfinite(x.special = "inf", f)
  ELSE [WriteFinite(x.float, IF SignFirst(s, f) THEN [f EXCEPT !.sign = <<>>] ELSE f, FloatPrecision(s, f), loc)
          EXCEPT !.before = IF SignFirst(s, f) THEN f.sign ELSE <<>>]

(* What is left of the specifications when the padding is written.         *)
FloatPadding(x, s, f) ==
  CASE x.special # "" -> Nonfinite(s)
    [] x.special = "" /\ SignFirst(s, f) /\ s.width # 0 -> [s EXCEPT !.width = @ - 1]
    [] OTHER -> s

(* Without specifications, by the shortest digits.                         *)
PlainSpecs(negative) == [format |-> "general", upper |-> FALSE, locale |-> FALSE, showpoint |-> FALSE,
                         sign |-> IF negative THEN <<"-">> ELSE <<>>, precision |-> 0]
PlainDigits(decimal, f) == DoWriteFloat(FormatDecimal(decimal.significand), decimal.exp, f, NotLocal)
PlainFloat(x, f) ==
  IF x.special # "" THEN WriteNonfinite(x.special = "inf", f) ELSE PlainDigits(ToDecimal(x.float), f)

-----------------------------------------------------------------------------
(* The writers by the kinds of arguments, with and without specifications. *)

IntOf(x) == IF x.kind = "char" THEN Byte[x.bytes[1]] ELSE x.n
TheWriter(x, s, loc) ==
  CASE x.kind = "bool" /\ s.type \in {"none", "s"} -> WriteBytes(BoolText(x.n))
    [] x.kind = "char" /\ s.type \in {"none", "c"} -> WriteChar(x.bytes[1])
    [] \/ x.kind = "int"
       \/ x.kind = "bool" /\ s.type \notin {"none", "s"}
       \/ x.kind = "char" /\ s.type \notin {"none", "c"} -> WriteInt(MakeWriteIntArg(IntOf(x), s.sign), s, loc)
    [] x.kind = "pointer" -> WritePtr(x.n)
    [] x.kind = "string" -> WriteString(x.bytes, s)
    [] x.kind = "float" -> WriteFloat(x, s, FloatSpecs(s, x.negative), loc)

PaddingOf(x, s) == IF x.kind = "float" THEN FloatPadding(x, s, FloatSpecs(s, x.negative)) ELSE s
Write(x, s, loc) == WritePadded(TheWriter(x, s, loc), PaddingOf(x, s))

PlainWrite(x) ==
  CASE x.kind = "int" -> PlainInt(x.n).text
    [] x.kind = "bool" -> BoolText(x.n)
    [] x.kind = "pointer" -> WritePtr(x.n).text
    [] x.kind \in {"char", "string"} -> x.bytes
    [] x.kind = "float" -> PlainFloat(x, PlainSpecs(x.negative)).text

-----------------------------------------------------------------------------
Init ==
  /\ item \in Items
  /\ specs \in SpecsOf(item) /\ specs.width = 0
  /\ locale \in IF specs.localized THEN Locales ELSE {NotLocal}

Widen ==
  /\ specs.width < MaxWidth
  /\ specs' = [specs EXCEPT !.width = @ + WidthStep]
  /\ UNCHANGED <<item, locale>>

Next == Widen

Spec == Init /\ [][Next]_vars

-----------------------------------------------------------------------------
IsFloat == item.kind = "float"
IsInt ==
  \/ item.kind \in {"int", "bool", "char"} /\ specs.type \in {"d", "o", "x", "X", "b", "B"}
  \/ item.kind = "int" /\ specs.type = "none"
Finite == IsFloat /\ item.special = ""

Unpadded == Write(item, [specs EXCEPT !.width = 0], locale)

(* Where the announced size is not that of the text: the separators of a   *)
(* localized number are counted for its significand, and the point of a    *)
(* whole number without decimals is not.                                   *)
SizeIsOff ==
  Finite /\ (specs.localized \/ (specs.alt /\ specs.type \in {"f", "F"} /\ specs.precision = 0))

(* The columns of a string are known for each character; a cut may leave   *)
(* the first bytes of one.                                                 *)
KnownColumns(n) == FoldLeft(LAMBDA c, i : c + item.columns[i], 0, [i \in 1 .. n |-> i])
CutInside(text) == item.kind = "string" /\ Len(text) < Len(item.bytes) /\ item.columns[Len(text) + 1] = 0
ColumnsOfText(text) == IF item.kind = "string" THEN KnownColumns(Len(text)) ELSE Len(text)

(* The size of a text is announced as it is written, the padding makes the *)
(* field as wide as asked and lies where the alignment says, and the zeros *)
(* of a number come after its sign and its base.                           *)
BaseLength(text) ==
  (IF text[1] \in {"-", "+", " "} THEN 1 ELSE 0) + (IF specs.alt /\ specs.type \in {"x", "X", "b", "B"} THEN 2 ELSE 0)
ToTheLeft == item.kind \in {"string", "char", "bool"} \/ (IsFloat /\ ~Finite)
PaddedAs(written, text, padding) ==
  CASE specs.align = "left" \/ (specs.align = "none" /\ ToTheLeft) -> written = text \o Fill(padding, specs.fill)
    [] \/ specs.align = "right" \/ (specs.align = "none" /\ ~ToTheLeft)
       \/ specs.align = "numeric" /\ IsInt /\ specs.localized -> written = Fill(padding, specs.fill) \o text
    [] specs.align = "center" ->
         written = Fill(padding \div 2, specs.fill) \o text \o Fill(padding - padding \div 2, specs.fill)
    [] specs.align = "numeric" /\ ((IsInt /\ ~specs.localized) \/ Finite) ->
         \A n \in {BaseLength(text)} :
            written = SubSeq(text, 1, n) \o Repeat("0", padding) \o SubSeq(text, n + 1, Len(text))
    [] specs.align = "numeric" /\ IsFloat /\ ~Finite -> written = Repeat(" ", padding) \o text
SizeAnnounced(w) == w.size = Len(w.text)
FieldFilled(text) ==
  ~SizeIsOff /\ ~CutInside(text) =>
    \A w \in {TheWriter(item, specs, locale)} :
      /\ SizeAnnounced(w)
      /\ PaddedAs(WritePadded(w, PaddingOf(item, specs)), text, AtLeast0(specs.width - ColumnsOfText(text)))

(* A string is cut where asked, and taken apart into its characters, the   *)
(* wide ones of two columns; what is no UTF-8 is still gone through.       *)
CharactersFound(text) ==
  item.kind = "string" =>
    /\ text = SubSeq(item.bytes, 1, Len(text))
    /\ Len(text) = IF specs.precision \in 0 .. Len(item.bytes) THEN specs.precision ELSE Len(item.bytes)
    /\ \A points \in {CodePoints(item.bytes, 1)} :
         /\ FoldLeft(LAMBDA n, p : n + p.len, 0, points) \in Len(item.bytes) .. Len(item.bytes) + 3
         /\ item.valid => /\ \A i \in DOMAIN points : ~points[i].error
                          /\ Len(points) = Cardinality({i \in DOMAIN item.bytes : item.columns[i] # 0})
    /\ ~CutInside(text) => ComputeWidth(text) = KnownColumns(Len(text))

(* An integer is read back from what is written of it; its separators are  *)
(* where the locale says.                                                  *)
BaseOf(type) == CASE type \in {"x", "X"} -> 16 [] type \in {"b", "B"} -> 2 [] type = "o" -> 8 [] OTHER -> 10
ValueOf(c) == CHOOSE d \in 0 .. 15 : Digit[d] = c \/ UpperDigit[d] = c
ReadIn(base, text) ==
  FoldLeft(LAMBDA n, c : base * n + ValueOf(c), 0, SelectSeq(text, LAMBDA c : c \notin {",", "-", "+", " "}))
Unsigned(text) == IF text[1] \in {"-", "+", " "} THEN Tail(text) ELSE text
WithoutBase(text) == IF specs.alt /\ specs.type \in {"x", "X", "b", "B"} THEN SubSeq(text, 3, Len(text)) ELSE text
GroupsRight(text) ==
  LET separators == {i \in DOMAIN text : text[i] = ","}
      Group(k) == locale.grouping[IF k > Len(locale.grouping) THEN Len(locale.grouping) ELSE k]
      After(i) == Cardinality({j \in separators : j > i})  \* separators to the right of a place
      RightOf(i) == Len(text) - i - After(i)               \* and digits
  IN /\ \A i \in separators :
          RightOf(i) = FoldLeft(LAMBDA n, k : n + Group(k), 0, [k \in 1 .. After(i) + 1 |-> k])
     /\ Separator(locale) # "" /\ Group(Cardinality(separators) + 1) < CharMax =>
          Len(text) - Cardinality(separators)
            <= FoldLeft(LAMBDA n, k : n + Group(k), 0, [k \in 1 .. Cardinality(separators) + 1 |-> k])
IntegerRead(text) ==
  IsInt /\ specs.width = 0 =>
    /\ IF IntOf(item) < 0 THEN text[1] = "-" ELSE text[1] # "-"
    /\ ReadIn(BaseOf(specs.type), WithoutBase(Unsigned(text))) = IF IntOf(item) < 0 THEN -IntOf(item) ELSE IntOf(item)
    /\ specs.precision >= 0 /\ ~specs.localized => Len(WithoutBase(Unsigned(text))) >= specs.precision
    /\ specs.alt /\ specs.type = "o" =>
         /\ Unsigned(text)[1] = "0"
         /\ Len(Unsigned(text)) > 1 /\ Len(Unsigned(text)) > specs.precision => Unsigned(text)[2] # "0"
    /\ GroupsRight(Unsigned(text))

(* The shortest digits: of the decimals that read as a number, with the    *)
(* ends of its interval if it is even, those of the largest unit, and of   *)
(* these the closest.                                                      *)
Fraction(v, exp) ==  \* v in units of 10 ^ exp
  [num |-> v.f * Pow2[AtLeast0(v.e)] * Pow10[AtLeast0(-exp)], den |-> Pow2[AtLeast0(-v.e)] * Pow10[AtLeast0(exp)]]
FirstExponent(v) ==  \* of ten, in v
  CHOOSE k \in (IF v.e < 0 THEN -5 ELSE 0) .. 4 : LET q == Fraction(v, k) IN q.num >= q.den /\ q.num < 10 * q.den

Scaled(v, k) ==  \* v and the step of its significand, times four, and one, in units of 10 ^ k / some integer
  LET two == IF v.e < 0 THEN Pow2[-v.e] ELSE 1
      ten == IF k < 0 THEN Pow10[-k] ELSE 1
      step == (IF v.e > 0 THEN Pow2[v.e] ELSE 1) * ten
  IN [value |-> 4 * v.f * step, step |-> step, one |-> 4 * two * (IF k > 0 THEN Pow10[k] ELSE 1)]

Within(v, closer, k) ==
  LET s == Scaled(v, k)
      low == s.value - (IF closer THEN 1 ELSE 2) * s.step
      high == s.value + 2 * s.step
      open == IF IsOdd(v.f) THEN 1 ELSE 0
  IN CeilDiv(low + open, s.one) .. (high - open) \div s.one

Distance(v, k, d) == LET s == Scaled(v, k) IN IF d * s.one > s.value THEN d * s.one - s.value ELSE s.value - d * s.one

Closest(v, k, near) ==
  CHOOSE d \in near : \A c \in near : Distance(v, k, d) < Distance(v, k, c) \/
                         (Distance(v, k, d) = Distance(v, k, c) /\ (d = c \/ ~IsOdd(d)))
NearestAt(v, closer, k) == [buf |-> DecimalDigits(Closest(v, k, Within(v, closer, k))), exp |-> k]
ShortestFrom(v, closer, first) ==
  NearestAt(v, closer, CHOOSE k \in first - 3 .. first + 1 :
                         Within(v, closer, k) # {} /\ \A m \in k + 1 .. first + 1 : Within(v, closer, m) = {})
ShortestOf(v, closer) == ShortestFrom(v, closer, FirstExponent(v))

LeastNormal == item.float = [biased |-> 1, frac |-> 0]

(* A floating-point number is written with as many digits as asked, and    *)
(* rounded right, ties to even; and with the fewest that read back as the  *)
(* number when none are asked for.  The general format loses the number    *)
(* when asked for none.                                                    *)
Mantissa(text) == SelectSeq(text, LAMBDA c : c \notin {",", "."})
PlaceOf(c, text) == CHOOSE i \in 1 .. Len(text) + 1 : (i <= Len(text) => text[i] = c) /\ \A j \in 1 .. i - 1 : text[j] # c
HasExponent(text) == \E i \in DOMAIN text : text[i] \in {"e", "E"}
Decimal(text) ==
  LET end == PlaceOf(IF specs.type \in {"E", "F", "G"} THEN "E" ELSE "e", text)
      digits == SubSeq(text, 1, end - 1)
      decimals == AtLeast0(Len(digits) - PlaceOf(".", digits))
      exp == IF end > Len(text) THEN 0
             ELSE ReadIn(10, SubSeq(text, end + 2, Len(text))) * (IF text[end + 1] = "-" THEN -1 ELSE 1)
  IN [digits |-> ReadIn(10, Mantissa(digits)), count |-> Len(Mantissa(digits)), decimals |-> decimals, exp |-> exp - decimals,
      zeros |-> Cardinality({i \in DOMAIN Mantissa(digits) : \A j \in 1 .. i : Mantissa(digits)[j] = "0"})]
HalfToEven(num, den) ==
  IF 2 * (num % den) > den \/ (2 * (num % den) = den /\ IsOdd(num \div den)) THEN num \div den + 1 ELSE num \div den
RoundedTo(v, exp) == LET q == Fraction(v, exp) IN HalfToEven(q.num, q.den)
AskedDigits == IF specs.precision >= 0 THEN specs.precision ELSE 6
DigitsRight(d, v) ==
  CASE specs.type \in {"f", "F"} ->
         d.decimals = AskedDigits /\ d.exp = -AskedDigits /\ d.digits = RoundedTo(v, -AskedDigits)
    [] specs.type \in {"e", "E"} ->
         /\ d.decimals = AskedDigits /\ d.count = AskedDigits + 1
         /\ v.f # 0 => d.zeros = 0
         /\ d.digits = RoundedTo(v, d.exp) \/ d.digits * 10 = RoundedTo(v, d.exp - 1)  \* a carry
    [] specs.type = "none" /\ specs.precision < 0 ->
         /\ v.f # 0 => d.digits \in Within(v, PredecessorIsCloser(item.float), d.exp)
         /\ v.f # 0 /\ ~LeastNormal => \A shortest \in {ShortestOf(v, PredecessorIsCloser(item.float))} :
              d.digits * Pow10[AtLeast0(d.exp - shortest.exp)]
                = ReadIn(10, Chars(shortest.buf)) * Pow10[AtLeast0(shortest.exp - d.exp)]
         /\ v.f = 0 => d.digits = 0
    [] OTHER ->
         /\ d.count - d.zeros <= AskedDigits + (IF specs.alt THEN 1 ELSE 0)  \* the zero of "1.0"
         /\ v.f = 0 => d.digits = 0
         /\ v.f # 0 => /\ specs.alt => d.count - d.zeros >= AskedDigits
                       /\ \A exp \in {FirstExponent(v) - AskedDigits + 1} :
                            d.digits * Pow10[AtLeast0(d.exp - exp)] = RoundedTo(v, exp) * Pow10[AtLeast0(exp - d.exp)]
FloatRounded(text) ==
  Finite /\ specs.width = 0 /\ ~(specs.type \in {"none", "g", "G"} /\ specs.precision = 0) =>
    /\ (text[1] = "-") = item.negative
    /\ DigitsRight(Decimal(Unsigned(text)), Assign(item.float))
    /\ specs.type \in {"e", "E", "f", "F"} => HasExponent(text) = (specs.type \in {"e", "E"})

(* What an argument is written as without specifications is what it is     *)
(* written as with none of them said; format_int writes the same.          *)
Unspecified == specs.type = "none" /\ specs.precision = -1 /\ specs.sign = "none" /\ ~specs.alt /\ ~specs.localized
PlainAgrees(text) ==
  Unspecified =>
    /\ text = PlainWrite(item)
    /\ item.kind = "int" => FormatInt(item.n) = PlainWrite(item) /\ SizeAnnounced(PlainInt(item.n))

(* The two ways to multiply agree, and so do the two algorithms for the    *)
(* shortest digits with their definition; only the smallest number that is *)
(* normal has an interval that Dragonbox takes for shorter than it is.     *)
DigitsAgree ==
  Finite /\ Unspecified /\ specs.width = 0 /\ item.float # [biased |-> 0, frac |-> 0] =>
    \A v \in {Assign(item.float)} :
      /\ \A shortest \in {ShortestOf(v, PredecessorIsCloser(item.float))} :
           /\ WithoutZeros(Dragon(v, PredecessorIsCloser(item.float), -1, FirstExponent(v))) = shortest
           /\ ~LeastNormal => AsDigits(ToDecimal(item.float)) = shortest
      /\ \A k \in -2 .. 2 : Multiply(Normalize(v).f, CachedPower(2 * k).f) = MultiplyHalves(Normalize(v).f, CachedPower(2 * k).f)

(* All of it, for the argument and the width at hand.                      *)
WrittenRight ==
  /\ \A text \in {Unpadded} : /\ FieldFilled(text) /\ CharactersFound(text) /\ IntegerRead(text)
                              /\ FloatRounded(text) /\ PlainAgrees(text)
  /\ DigitsAgree
=============================================================================

------------------------------ MODULE LogTexts ------------------------------
(***************************************************************************)
(* What a log line is made of: the pattern, its fields, the times they     *)
(* show, the format strings of the calls, what is written of arguments and *)
(* the buffers it is written to.  None of these knows of the others, so a  *)
(* behaviour works on one of them, "part".                                 *)
(***************************************************************************)
EXTENDS Integers, Sequences

CONSTANT None

VARIABLES
  part,
  (* PatternCompile *)
  pattern_, formatters_,
  (* PatternFields *)
  msg, dest, color_range, thrown, last, fields,
  (* FormatString *)
  str, args, pieces,
  (* FormatChrono *)
  what, tm, kind, count, format,
  (* FormatFields *)
  item, specs, locale,
  (* FormatBuffers *)
  subject, output, written, surplus, ended, messages

patternVars == <<pattern_, formatters_>>
fieldVars == <<msg, dest, color_range, thrown, last, fields>>
stringVars == <<str, args, pieces>>
chronoVars == <<what, tm, kind, count, format>>
writerVars == <<item, specs, locale>>
bufferVars == <<subject, output, written, surplus, ended, messages>>
vars == <<part, patternVars, fieldVars, stringVars, chronoVars, writerVars, bufferVars>>

-----------------------------------------------------------------------------
Compiling == INSTANCE PatternCompile WITH
  Alphabet <- {"%", "-", "=", "7", "!", "v", "T", "q"}, Digits <- [d \in {"7"} |-> 7],
  KnownFlags <- {"v", "!", "+", "T"}, MaxLength <- 5

(* Messages with every part long, with every part empty, and with short    *)
(* ones, at times of one and two digits, before and after noon.            *)
Tm(h, mi, s, d, mo, y, w) == [hour |-> h, min |-> mi, sec |-> s, mday |-> d, mon |-> mo, year |-> y, wday |-> w]
Many(c, n) == [i \in 1 .. n |-> c]
Messages == {
  [tm |-> Tm(13, 5, 59, 23, 7, 114, 4), name |-> Many("n", 4), level |-> <<"i", "n", "f", "o">>, payload |-> Many("p", 5),
   nanos |-> 7000089, seconds |-> 1408793746, offset |-> -210, thread_id |-> 4711, pid |-> 9,
   source |-> <<"a", "/", "b", "c">>, line |-> 136, funcname |-> Many("f", 7)],
  [tm |-> Tm(0, 0, 0, 1, 8, 124, 0), name |-> <<>>, level |-> <<"o", "f", "f">>, payload |-> <<>>,
   nanos |-> 999999999, seconds |-> 1725148800, offset |-> 60, thread_id |-> 1, pid |-> 123456,
   source |-> <<>>, line |-> 0, funcname |-> <<>>],
  [tm |-> Tm(12, 30, 7, 10, 11, 99, 6), name |-> <<"n">>, level |-> Many("c", 8), payload |-> Many("p", 2),
   nanos |-> 0, seconds |-> 1000000000, offset |-> 0, thread_id |-> 99, pid |-> 10,
   source |-> <<"b">>, line |-> 1, funcname |-> <<"f">>]}
Pad(w, s, t) == [enabled |-> TRUE, width |-> w, side |-> s, truncate |-> t]
Paddings == {[enabled |-> FALSE, width |-> 0, side |-> "left", truncate |-> FALSE],
  Pad(9, "left", FALSE), Pad(8, "right", TRUE), Pad(7, "center", TRUE), Pad(1, "left", TRUE), Pad(0, "center", FALSE)}
Showing == INSTANCE PatternFields WITH
  MaxFields <- 2,
  Flags <- {"n", "l", "L", "a", "A", "b", "B", "C", "Y", "m", "d", "H", "I", "M", "S", "e", "f", "F", "E", "p", "T", "R",
            "r", "t", "P", "v", "z", "@", "g", "s", "#", "!"}

Arg(t, v, n) == [type |-> t, value |-> v, name |-> n]
ArgLists == {<<Arg("int", 3, <<"n">>), Arg("double", 1, <<>>)>>, <<Arg("string", 0, <<>>), Arg("int", -1, <<"n">>)>>}
Widths == [char |-> 3, short |-> 4, int |-> 6, llong |-> 8]
Strings == INSTANCE FormatString WITH
  Pieces <- {<<"{">>, <<"}">>, <<"{", ":">>, <<"{", "0", ":">>, <<"{", "n", "}">>, <<"0">>, <<"1">>, <<"4">>, <<"<">>, <<"+">>,
             <<".">>, <<"d">>, <<"e">>, <<"w">>, <<"L">>},
  MaxPieces <- 4,
  Digits <- [c \in {"0", "1", "4"} |-> IF c = "0" THEN 0 ELSE IF c = "1" THEN 1 ELSE 4],
  Letters <- {"n", "d", "e", "L"}, NameStart <- {"n", "d", "e", "L"}, Lead <- {"w"},
  Types <- {"d", "o", "x", "X", "b", "B", "a", "A", "e", "E", "f", "F", "g", "G", "c", "s", "p"},
  MaxInt <- 31, Digits10 <- 1, Bits <- Widths

(* The directives of vprintf, for each type of argument, at the limits.    *)
Printing == INSTANCE FormatString WITH
  ArgLists <- {<<Arg("int", -3, <<>>), Arg("double", 1, <<>>)>>, <<Arg("uint", 63, <<>>), Arg("int", 0, <<>>)>>,
               <<Arg("llong", -77, <<>>), Arg("cstring", 0, <<>>)>>, <<Arg("char", -3, <<>>), Arg("int", -32, <<>>)>>,
               <<Arg("bool", 1, <<>>), Arg("ullong", 255, <<>>)>>},
  Pieces <- {<<"%">>, <<"0">>, <<"4">>, <<"-">>, <<"+">>, <<" ">>, <<"*">>, <<"2", "$">>, <<".">>, <<"d">>, <<"x">>, <<"f">>,
             <<"h">>, <<"l", "u">>},
  MaxPieces <- 4,
  Digits <- [c \in {"0", "2", "4"} |-> CASE c = "0" -> 0 [] c = "2" -> 2 [] c = "4" -> 4],
  Letters <- {}, NameStart <- {}, Lead <- {},
  Types <- {"d", "o", "x", "X", "b", "B", "a", "A", "e", "E", "f", "F", "g", "G", "c", "s", "p"},
  MaxInt <- 31, Digits10 <- 1, Bits <- Widths

(* Years around each kind of turn of the century, and counts of durations  *)
(* at the limits of their types.                                           *)
Of(n, d, s, digits, from, to) == [num |-> n, den |-> d, signed |-> s, digits |-> digits, from |-> from, to |-> to]
Times == INSTANCE FormatChrono WITH
  FirstYear <- {0, 1895, 1996, 2019}, LastYear <- {5, 1906, 2003, 2026},
  Kinds <- {Of(1, 10, TRUE, 12, -4096, 4095), Of(60, 1, TRUE, 17, -2300, 2300), Of(3600, 1, FALSE, 17, 0, 60),
            Of(1, 8, TRUE, 8, -256, 255), Of(7, 1, TRUE, 12, -1500, -1000), Of(60, 1, TRUE, 20, 34900, 35000),
            Of(3, 8, TRUE, 4, -16, 15)},
  IntDigits <- 12, MaxDigits <- 20,
  Alphabet <- {"%", "E", "O", "y", "H", "r", "Q", "h", "n", "}", "x"}, MaxFormat <- 4

(* Arguments at the limits of their types and of the buffers of digits, a  *)
(* string of characters of one, two and three bytes and one that is cut,   *)
(* floating-point numbers of four bits in every range of exponents.  The   *)
(* bytes of the strings have their codes as names.                         *)
Codes == [c \in {"a", "b", "c3", "a9", "ea", "b0", "80", "f0"} |->
  CASE c = "a" -> 97 [] c = "b" -> 98 [] c = "c3" -> 195 [] c = "a9" -> 169 [] c = "ea" -> 234 [] c = "b0" -> 176
    [] c = "80" -> 128 [] c = "f0" -> 240]
Float(e, f, n) == [kind |-> "float", special |-> "", float |-> [biased |-> e, frac |-> f], negative |-> n]
Special(s, n) == [kind |-> "float", special |-> s, float |-> [biased |-> 15, frac |-> 0], negative |-> n]
String(b, c, v) == [kind |-> "string", bytes |-> b, columns |-> c, valid |-> v]
Arguments ==
  {[kind |-> "int", n |-> n] : n \in {-32768, -100, -7, 0, 8, 99, 12345}}
    \cup {[kind |-> "bool", n |-> 1], [kind |-> "bool", n |-> 0], [kind |-> "char", bytes |-> <<"a">>],
          [kind |-> "pointer", n |-> 43981]}
    \cup {String(<<"a", "c3", "a9", "ea", "b0", "80", "b">>, <<1, 1, 0, 2, 0, 0, 1>>, TRUE), String(<<>>, <<>>, TRUE),
          String(<<"a", "f0">>, <<1, 1>>, FALSE), String(<<"a9", "ea", "b0">>, <<1, 1, 0>>, FALSE)}
    \cup {Float(e, f, FALSE) : e \in {0, 1, 2, 6, 8, 11}, f \in 0 .. 7} \cup {Float(8, 3, TRUE)} \cup {Float(17, f, FALSE) : f \in 0 .. 7}
    \cup {Special(s, n) : s \in {"inf", "nan"}, n \in BOOLEAN}

Specs(T) == {[Strings!NoSpecs EXCEPT !.type = t] : t \in T}
Aligned(S, F) == {[s EXCEPT !.align = a, !.fill = f] : s \in S, a \in {"none", "left", "center", "right"}, f \in F}
ZeroPadded(S) == {[s EXCEPT !.align = "numeric", !.fill = <<"0">>] : s \in S}
Signed(S) == S \cup {[s EXCEPT !.sign = g] : s \in S, g \in {"plus", "space"}}
Alternate(S) == S \cup {[s EXCEPT !.alt = TRUE] : s \in S}
Localized(S) == S \cup {[s EXCEPT !.localized = TRUE] : s \in {t \in S : t.type \in {"none", "d", "f", "g"}}}
Precise(S, P) == {[s EXCEPT !.precision = p] : s \in S, p \in P}
NoneSaid == Specs({"none"})
Fills == {<<" ">>, <<"c3", "a9">>}
ForInts ==
  LET S == Localized(Alternate(Signed(Specs({"none", "d", "o", "x", "X", "b"}))))
  IN Aligned(NoneSaid, Fills) \cup Aligned(S, {<<"*">>}) \cup ZeroPadded(S) \cup Precise(S, {0, 3, 5})
ForFloats ==
  Alternate(Precise(Specs({"f", "e", "g"}), {-1, 0, 1, 3}) \cup Precise(NoneSaid, {-1, 3}))
    \cup Localized(Precise(Specs({"f", "g"}), {2})) \cup ZeroPadded(Signed(Precise(Specs({"f"}), {2})))
    \cup Aligned(NoneSaid, Fills)
ArgumentSpecs(x) ==
  CASE x.kind = "int" -> ForInts
    [] x.kind = "bool" -> Aligned(NoneSaid, Fills) \cup ZeroPadded(Specs({"d"}))
    [] x.kind = "char" -> Aligned(NoneSaid, Fills) \cup ZeroPadded(Specs({"d", "x"}))
    [] x.kind = "pointer" -> Aligned(NoneSaid, Fills)
    [] x.kind = "string" -> Precise(Aligned(NoneSaid, Fills), {-1, 0, 1, 2, 3, 5})
    [] x.kind = "float" -> IF x.special = "" /\ x.float.biased > 11 THEN NoneSaid ELSE ForFloats
Locale(g) == [grouping |-> g, sep |-> ",", point |-> "."]
Values == INSTANCE FormatFields WITH
  FpBits <- 14, SigBits <- 3, Bias <- 6, BigitBits <- 4, FirstDec <- -6, DecStep <- 2, CacheBits <- 18,
  Info <- [kappa |-> 1, big_divisor |-> 100, small_divisor |-> 10, fc_pm_half_lower |-> -1, fc_pm_half_upper |-> 6,
           fc_lower |-> -2, fc_upper |-> 6, divisibility_by_5 |-> 13, left_endpoint_upper |-> 3, tie_lower |-> -7,
           tie_upper |-> -7, max_trailing_zeros |-> 4],
  Items <- Arguments, SpecsOf <- ArgumentSpecs, Locales <- {Locale(<<3>>), Locale(<<1, 2>>), Locale(<<2, 127>>), Locale(<<>>)},
  IntBits <- 16, CharMax <- 127, ExpLower <- -2, ExpUpper <- 2, Byte <- Codes, WidthStep <- 9, MaxWidth <- 9

(* Texts that fit into the object, and that grow its buffer once or twice. *)
Buffers == INSTANCE FormatBuffers WITH
  BufferSize <- 2, InlineSize <- 4, MaxAlloc <- 5, Limits <- {0, 1, 2, 3, 5}, Before <- {0, 1},
  Sep <- 1, ErrorStr <- 1, MaxWritten <- 9, MaxPiece <- 3, Holders <- {1, 2},
  Texts <- {[name |-> <<>>, payload |-> <<"p">>], [name |-> <<"n">>, payload |-> <<"p", "q", "r">>],
            [name |-> <<"n", "m", "o", "k", "l">>, payload |-> <<"p", "q", "r">>]}

-----------------------------------------------------------------------------
Init ==
  /\ part \in {"compile", "fields", "string", "printf", "chrono", "value", "buffer"}
  /\ Compiling!Init
  /\ Showing!Init /\ (part # "fields" => msg.pid = 9)
  /\ IF part = "printf" THEN Printing!Init ELSE Strings!Init /\ (part # "string" => args[1].type = "int")
  /\ Times!Init /\ (part # "chrono" => what = "format")
  /\ IF part = "value" THEN Values!Init
     ELSE item = [kind |-> "bool", n |-> 1] /\ specs = Strings!NoSpecs /\ locale = Values!NotLocal
  /\ Buffers!Init /\ (part # "buffer" => subject = "messages")

Step(p, A) ==
  /\ part = p /\ UNCHANGED part
  /\ A
  /\ p # "compile" => UNCHANGED patternVars
  /\ p # "fields" => UNCHANGED fieldVars
  /\ p \notin {"string", "printf"} => UNCHANGED stringVars
  /\ p # "chrono" => UNCHANGED chronoVars
  /\ p # "value" => UNCHANGED writerVars
  /\ p # "buffer" => UNCHANGED bufferVars

Next ==
  \/ Step("compile", Compiling!Next)
  \/ Step("fields", Showing!Next)
  \/ Step("string", Strings!Next)
  \/ Step("printf", Printing!Next)
  \/ Step("chrono", Times!Next)
  \/ Step("value", Values!Next)
  \/ Step("buffer", Buffers!Next)

Spec == Init /\ [][Next]_vars

-----------------------------------------------------------------------------
(* Every character of a pattern is shown, in its place, or belongs to a    *)
(* directive that is; a field fits its padding, which no later field       *)
(* disturbs, and the colours stay inside the line.                         *)
PatternsShown == [](Compiling!InOrder /\ Compiling!PaddingFits) /\ Showing!FieldsFit /\ []Showing!ColourInside

(* The ways in which a format string is read, at once, checked first and   *)
(* compiled, short and long, agree, and its numbers are exact or refused;  *)
(* printf's directives mean what they do in C; what is written of an       *)
(* argument fills its field and is read back as it was, and buffers hand   *)
(* on all that is written, messages keep their texts.                      *)
FormatsAgree ==
  /\ part = "string" =>
       Strings!LoopsAgree /\ Strings!CheckedIsFormatted /\ Strings!CompiledIsFormatted /\ Strings!NumbersExact
  /\ part = "printf" => Printing!PrintfAsC
  /\ part = "value" => Values!WrittenRight
  /\ part = "buffer" => Buffers!BuffersRight

(* A date is shown by its calendar, and a duration whole or not at all.    *)
TimesShown == Times!WeeksFollow /\ [](part = "chrono" => Times!PartsAgree /\ Times!DurationWhole /\ Times!FormatWhole)
=============================================================================

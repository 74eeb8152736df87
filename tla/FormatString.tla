---------------------------- MODULE FormatString ----------------------------
(***************************************************************************)
(* The format strings of the bundled fmt: parse_format_string in its two   *)
(* forms, the parse context that numbers the arguments, the specifications *)
(* of a replacement field, and the two handlers they are parsed for.  The  *)
(* "format" handler of vformat_to writes as it goes and reads the          *)
(* arguments; the "check" handler of format_string_checker only knows      *)
(* their types and leaves a width or a precision that is an argument for   *)
(* formatting time.  Then its two other readers: FMT_COMPILE, which makes  *)
(* code of a string, and vprintf.  A behaviour writes a string, piece by   *)
(* piece.                                                                  *)
(***************************************************************************)
EXTENDS Integers, Sequences, FiniteSets, SequencesExt

CONSTANTS
  Pieces,     \* the strings format strings are put together from
  MaxPieces,  \* bound
  ArgLists,   \* sequences of records with type, value and name
  Digits,     \* the digits among the characters, a function to their values
  NameStart, Types, Letters,  \* characters; each of Types is one of Letters
  Lead,       \* the bytes that begin a code point of two
  MaxInt, Digits10, \* numeric_limits<int>, scaled down
  Bits              \* of "char", "short", "int" and "llong", scaled down

VARIABLES str, args, pieces

vars == <<str, args, pieces>>

Integral == {"int", "uint", "llong", "ullong", "bool", "char"}
Arithmetic == Integral \cup {"double"}
IntTypes == {"none", "d", "o", "x", "X", "b", "B"}
FloatTypes == {"none", "a", "A", "e", "E", "f", "F", "g", "G"}
NoRef == <<"none", 0>>

NoSpecs == [width |-> 0, precision |-> -1, type |-> "none", align |-> "none", sign |-> "none", alt |-> FALSE,
            localized |-> FALSE, fill |-> <<" ">>, width_ref |-> NoRef, precision_ref |-> NoRef]

(* What the handlers have after a part of the string: the position, what   *)
(* was written, next_arg_id_, the error thrown if any; then the number of  *)
(* the argument and the specifications of the field in hand.               *)
Start == [at |-> 1, out |-> <<>>, next |-> 0, error |-> "", id |-> 0, specs |-> NoSpecs]

Fail(p, e) == IF p.error = "" THEN [p EXCEPT !.error = e] ELSE p
Skip(p, n) == [p EXCEPT !.at = @ + n]
Ended(s, p) == p.at > Len(s)
Stuck(s, p) == p.error # "" \/ Ended(s, p)
Here(s, p) == IF Ended(s, p) THEN "" ELSE s[p.at]
OnText(s, p, from, to) == [p EXCEPT !.out = @ \o [i \in 1 .. to - from |-> <<"text", s[from + i - 1]>>]]

-----------------------------------------------------------------------------
(* Numbers.                                                                *)

RunOf(C, s, i) ==
  SubSeq(s, i, CHOOSE j \in i - 1 .. Len(s) :
                 (\A k \in i .. j : s[k] \in C) /\ (j < Len(s) => s[j + 1] \notin C))

RunOfDigits(s, i) == RunOf(DOMAIN Digits, s, i)

Unsigned(ds) == FoldLeft(LAMBDA v, d : (10 * v + Digits[d]) % (2 * (MaxInt + 1)), 0, ds)

(* Slips a change of the code could make.                                  *)
TooBig_ByDigits(ds) == Len(ds) > Digits10 + 1

(* The overflow check of parse_nonnegative_int.                            *)
TooBig(ds) ==
  /\ Len(ds) > Digits10
  /\ ~(Len(ds) = Digits10 + 1 /\ 10 * Unsigned(Front(ds)) + Digits[Last(ds)] <= MaxInt)

ParseInt(ds, error_value) == IF TooBig(ds) THEN error_value ELSE Unsigned(ds)

-----------------------------------------------------------------------------
(* The parse context, and the checks of an argument's number: the checker  *)
(* makes them here, vformat_to when it fetches the argument.               *)

AutoId(p) ==
  IF p.next >= 0 THEN [p EXCEPT !.id = p.next, !.next = @ + 1] ELSE Fail(p, "manual to automatic")

ManualId(p, id) ==
  IF p.next > 0 THEN Fail(p, "automatic to manual") ELSE [p EXCEPT !.id = id, !.next = -1]

Present(p) == IF p.error = "" /\ p.id \notin 0 .. Len(args) - 1 THEN Fail(p, "argument") ELSE p

Named(name) == {i \in DOMAIN args : args[i].name = name}

(* on_arg_id, by the kind of the reference.                                *)
OnArgId(p, handler, ref) ==
  CASE ref[1] = "auto"  -> IF handler = "check" THEN Present(AutoId(p)) ELSE AutoId(p)
    [] ref[1] = "index" -> IF handler = "check" THEN Present(ManualId(p, ref[2])) ELSE ManualId(p, ref[2])
    [] ref[1] = "name"  ->
         IF handler = "check" THEN Fail(p, "named")
         ELSE IF Named(ref[2]) = {} THEN Fail(p, "argument")
         ELSE [p EXCEPT !.id = (CHOOSE i \in Named(ref[2]) : TRUE) - 1]

(* parse_arg_id: what the reference is, and where it ends.                 *)
ArgId(s, p) ==
  LET c == Here(s, p)
      ds == RunOfDigits(s, p.at)
      end == CHOOSE j \in p.at .. Len(s) :
               /\ \A k \in p.at + 1 .. j : s[k] \in NameStart \cup DOMAIN Digits
               /\ j < Len(s) => s[j + 1] \notin NameStart \cup DOMAIN Digits
      number == IF Digits[c] = 0 THEN [p |-> Skip(p, 1), ref |-> <<"index", 0>>]
                ELSE [p |-> Skip(p, Len(ds)), ref |-> <<"index", ParseInt(ds, MaxInt)>>]
  IN IF c \in {"}", ":"} THEN [p |-> p, ref |-> <<"auto">>]
     ELSE IF c \in DOMAIN Digits
     THEN IF Here(s, number.p) \in {"}", ":"} THEN number ELSE [p |-> Fail(p, "syntax"), ref |-> NoRef]
     ELSE IF c \notin NameStart THEN [p |-> Fail(p, "syntax"), ref |-> NoRef]
     ELSE [p |-> [p EXCEPT !.at = end + 1], ref |-> <<"name", SubSeq(s, p.at, end)>>]

-----------------------------------------------------------------------------
(* A width or precision that is an argument.                               *)

IsInteger(a) == a.type \in Integral \ {"bool", "char"}

(* width_checker, precision_checker and get_dynamic_spec.                  *)
BadValue(a) == ~IsInteger(a) \/ a.value < 0 \/ a.value > MaxInt

(* on_dynamic_width and on_dynamic_precision: "format" reads the argument, *)
(* "check" keeps a reference to it, unchecked if it is a name: a name that *)
(* is not there is an error of the value.                                  *)
Fetched(p, handler, ref) ==
  CASE handler = "format" -> Present(OnArgId(p, handler, ref))
    [] handler = "check" /\ ref[1] = "name" -> p
    [] OTHER -> OnArgId(p, handler, ref)

Taken(p, handler, field, ref, found) ==
  LET back == [found EXCEPT !.id = p.id]
      kept == IF ref[1] = "name" THEN ref ELSE <<"index", found.id>>
  IN IF found.error # "" THEN IF ref[1] = "name" THEN [back EXCEPT !.error = "value"] ELSE back
     ELSE IF handler = "check"
     THEN IF field = "width" THEN [back EXCEPT !.specs.width_ref = kept] ELSE [back EXCEPT !.specs.precision_ref = kept]
     ELSE IF BadValue(args[found.id + 1]) THEN Fail(back, "value")
     ELSE [back EXCEPT !.specs[field] = args[found.id + 1].value]

OnDynamic(a, handler, field) ==
  IF a.p.error # "" THEN a.p ELSE Taken(a.p, handler, field, a.ref, Fetched(a.p, handler, a.ref))

Closed(s, p) == IF p.error # "" THEN p ELSE IF Here(s, p) = "}" THEN Skip(p, 1) ELSE Fail(p, "syntax")

Dynamic(s, p, handler, field) ==
  IF Ended(s, Skip(p, 1)) THEN Fail(p, "syntax") ELSE Closed(s, OnDynamic(ArgId(s, Skip(p, 1)), handler, field))

Number(s, p, field) ==
  LET ds == RunOfDigits(s, p.at)
  IN IF TooBig(ds) THEN Fail(p, "too big") ELSE Skip([p EXCEPT !.specs[field] = ParseInt(ds, -1)], Len(ds))

-----------------------------------------------------------------------------
(* parse_format_specs for a specs_checker over an argument of type t: each *)
(* part takes what is its own and returns at the end of the string.        *)

Numeric(p, t) == IF t \in Arithmetic THEN p ELSE Fail(p, "type")

Aligns == {"<", ">", "^"}

(* parse_align: the fill is what comes before the alignment, one code      *)
(* point, unless the string ends within it.                                *)
Align(s, p) ==
  LET next == p.at + (IF s[p.at] \in Lead THEN 2 ELSE 1)
  IN IF next <= Len(s) /\ s[next] \in Aligns
     THEN IF s[p.at] = "{" THEN Fail(p, "syntax")
          ELSE [p EXCEPT !.specs.fill = SubSeq(s, p.at, next - 1), !.specs.align = s[next], !.at = next + 1]
     ELSE IF s[p.at] \in Aligns THEN [p EXCEPT !.specs.align = s[p.at], !.at = @ + 1]
     ELSE p

Sign(s, p, t) ==
  IF Here(s, p) \notin {"+", "-", " "} THEN p
  ELSE IF t \in {"uint", "ullong", "bool"} THEN Fail(p, "type")
  ELSE Skip(Numeric([p EXCEPT !.specs.sign = s[p.at]], t), 1)

Hash(s, p, t) == IF Here(s, p) = "#" THEN Skip(Numeric([p EXCEPT !.specs.alt = TRUE], t), 1) ELSE p

Zero(s, p, t) ==
  IF Here(s, p) # "0" THEN p
  ELSE Skip(Numeric([p EXCEPT !.specs.align = IF @ = "none" THEN "numeric" ELSE @, !.specs.fill[1] = "0"], t), 1)

Width(s, p, handler) ==
  CASE Here(s, p) \in DOMAIN Digits -> Number(s, p, "width")
    [] Here(s, p) = "{" -> Dynamic(s, p, handler, "width")
    [] OTHER -> p

EndPrecision(p, t) == IF p.error = "" /\ t \in Integral \cup {"pointer"} THEN Fail(p, "type") ELSE p

Precision(s, p, handler, t) ==
  LET q == Skip(p, 1)
  IN IF Here(s, p) # "." THEN p
     ELSE CASE Here(s, q) \in DOMAIN Digits -> EndPrecision(Number(s, q, "precision"), t)
            [] Here(s, q) = "{" -> EndPrecision(Dynamic(s, q, handler, "precision"), t)
            [] OTHER -> Fail(q, "syntax")

Localized(s, p, t) == IF Here(s, p) = "L" THEN Skip(Numeric([p EXCEPT !.specs.localized = TRUE], t), 1) ELSE p

PresentationType(s, p) ==
  IF Here(s, p) \in {"", "}"} THEN p
  ELSE IF s[p.at] \in Types THEN Skip([p EXCEPT !.specs.type = s[p.at]], 1)
  ELSE Fail(p, "type")

Part(s, p, handler, t, part) ==
  CASE part = "align"     -> Align(s, p)
    [] part = "sign"      -> Sign(s, p, t)
    [] part = "hash"      -> Hash(s, p, t)
    [] part = "zero"      -> Zero(s, p, t)
    [] part = "width"     -> Width(s, p, handler)
    [] part = "precision" -> Precision(s, p, handler, t)
    [] part = "localized" -> Localized(s, p, t)
    [] part = "type"      -> PresentationType(s, p)

(* The fast path for a single letter, and the parts in their order.        *)
Specs(s, p, handler, t) ==
  IF p.at < Len(s) /\ s[p.at + 1] = "}" /\ s[p.at] \in Letters /\ s[p.at] # "L" THEN PresentationType(s, p)
  ELSE FoldLeft(LAMBDA q, part : IF Stuck(s, q) THEN q ELSE Part(s, q, handler, t, part), p,
                <<"align", "sign", "hash", "zero", "width", "precision", "localized", "type">>)

(* What formatter::parse makes of the specifications once they are parsed, *)
(* and vformat_to when it writes.                                          *)
CharSpecs(t, specs) == t = "char" /\ specs.type \in {"none", "c"}

TypeFits(t, specs) ==
  CASE t = "bool" /\ specs.type \in {"none", "s"} -> TRUE
    [] CharSpecs(t, specs) -> ~(specs.align = "numeric" \/ specs.sign # "none" \/ specs.alt)
    [] t \in Integral /\ ~CharSpecs(t, specs) /\ ~(t = "bool" /\ specs.type = "s") -> specs.type \in IntTypes \cup {"c"}
    [] t = "double" -> specs.type \in FloatTypes
    [] t = "cstring" -> specs.type \in {"none", "s", "p"}
    [] t = "string" -> specs.type \in {"none", "s"}
    [] t = "pointer" -> specs.type \in {"none", "p"}

(* The exponent format adds the digit before the point to the precision.   *)
PrecisionFits(t, specs) == ~(t = "double" /\ specs.type \in {"e", "E"} /\ specs.precision = MaxInt)

-----------------------------------------------------------------------------
Show(p) == [p EXCEPT !.out = Append(@, <<"field", p.id, p.specs>>), !.specs = NoSpecs]

OnReplacementField(p, handler) ==
  LET q == IF handler = "check" THEN p ELSE Present(p) IN IF q.error # "" THEN q ELSE Show(q)

Parsed(s, q, handler, t) ==
  IF q.error # "" THEN q
  ELSE IF handler = "format" /\ Here(s, q) # "}" THEN Fail(q, "syntax")
  ELSE IF ~TypeFits(t, q.specs) THEN Fail(q, "type")
  ELSE IF handler = "format" /\ ~PrecisionFits(t, q.specs) THEN Fail(q, "value")
  ELSE Show(q)

OnFormatSpecs(s, p, handler) ==
  LET t == args[p.id + 1].type
  IN IF Present(p).error # "" THEN Present(p) ELSE Parsed(s, Specs(s, p, handler, t), handler, t)

Field(s, p, handler) ==
  IF p.error # "" THEN p
  ELSE CASE Here(s, p) = "}" -> Closed(s, OnReplacementField(p, handler))
         [] Here(s, p) = ":" -> Closed(s, OnFormatSpecs(s, Skip(p, 1), handler))
         [] OTHER            -> Fail(p, "syntax")

FieldOf(s, a, handler) == IF a.p.error # "" THEN a.p ELSE Field(s, OnArgId(a.p, handler, a.ref), handler)

ReplacementField(s, p, handler) ==
  LET inside == Skip(p, 1)
  IN IF Ended(s, inside) THEN Fail(p, "syntax")
     ELSE IF Here(s, inside) = "{" THEN Skip(OnText(s, inside, inside.at, inside.at + 1), 1)
     ELSE FieldOf(s, ArgId(s, inside), handler)

(* parse_format_string for less than 32 characters: one loop; the text     *)
(* since "from", or since here if it is 0, is not written yet.             *)
RECURSIVE Short(_, _, _, _)
Short(s, p, from, handler) ==
  LET c == Here(s, p)
      begin == IF from = 0 THEN p.at ELSE from
  IN IF p.error # "" THEN p
     ELSE IF Ended(s, p) THEN OnText(s, p, begin, p.at)
     ELSE IF c = "{" THEN Short(s, ReplacementField(s, OnText(s, p, begin, p.at), handler), 0, handler)
     ELSE IF c # "}" THEN Short(s, Skip(p, 1), begin, handler)
     ELSE IF Here(s, Skip(p, 1)) # "}" THEN Fail(p, "syntax")
     ELSE Short(s, Skip(OnText(s, p, begin, p.at + 1), 2), 0, handler)

(* The search for a character; 0 if it is not there.                       *)
Find(s, from, to, c) ==
  LET found == {i \in from .. to - 1 : s[i] = c}
  IN IF found = {} THEN 0 ELSE CHOOSE i \in found : \A j \in found : i <= j

(* The longer ones: a pass for "{" and in the text between, "writer", one  *)
(* for "}".                                                                *)
RECURSIVE WriteText(_, _, _, _)
WriteText(s, p, from, to) ==
  LET i == Find(s, from, to, "}")
  IN IF from = to THEN p
     ELSE IF i = 0 THEN OnText(s, p, from, to)
     ELSE IF i + 1 = to \/ s[i + 1] # "}" THEN Fail(p, "syntax")
     ELSE WriteText(s, OnText(s, p, from, i + 1), i + 2, to)

RECURSIVE Long(_, _, _)
Long(s, p, handler) ==
  LET i == IF Here(s, p) = "{" THEN p.at ELSE Find(s, p.at + 1, Len(s) + 1, "{")
      FieldAt(q) == IF q.error # "" THEN q ELSE ReplacementField(s, [q EXCEPT !.at = i], handler)
  IN IF Stuck(s, p) THEN p
     ELSE IF i = 0 THEN WriteText(s, p, p.at, Len(s) + 1)
     ELSE Long(s, FieldAt(WriteText(s, p, p.at, i)), handler)

Formatted == Short(str, Start, 0, "format")
Checked == Short(str, Start, 0, "check")

-----------------------------------------------------------------------------
(* formatter::format: the references of the checked specifications are     *)
(* resolved when the arguments are there.                                  *)
Referenced(ref) ==
  IF ref[1] = "index" THEN {args[ref[2] + 1]} ELSE {args[i] : i \in Named(ref[2])}

Unresolved(ref) == ref # NoRef /\ \A a \in Referenced(ref) : BadValue(a)

Resolved(ref, value) == IF ref = NoRef THEN value ELSE (CHOOSE a \in Referenced(ref) : TRUE).value

Resolve(specs) ==
  [specs EXCEPT !.width = Resolved(specs.width_ref, @), !.precision = Resolved(specs.precision_ref, @),
                !.width_ref = NoRef, !.precision_ref = NoRef]

Format(item) == IF item[1] = "field" THEN <<"field", item[2], Resolve(item[3])>> ELSE item

Fails(item) ==
  item[1] = "field" /\
    ((Unresolved(item[3].width_ref) \/ Unresolved(item[3].precision_ref))
     \/ ~PrecisionFits(args[item[2] + 1].type, Resolve(item[3])))

-----------------------------------------------------------------------------
(* FMT_COMPILE.  compile_format_string takes a text, a brace or a field    *)
(* and goes on with the tail; next is -1 once the numbers are manual.  A   *)
(* string it has no code for, error "unknown", is left to vformat_to.      *)
Brace(s, p) == Skip(OnText(s, p, p.at, p.at + 1), 2)

TextEnd(s, from) == CHOOSE i \in from .. Len(s) + 1 :
  /\ \A j \in from .. i - 1 : s[j] \notin {"{", "}"}
  /\ i <= Len(s) => s[i] \in {"{", "}"}

(* parse_specs gives the parser a context of its own, whose numbers start  *)
(* anew after a manual one, and takes what it stops at for the brace.      *)
CompiledSpecs(s, p) ==
  LET given == IF p.next = -1 THEN 0 ELSE p.next
      q == Parsed(s, Specs(s, [Skip(p, 1) EXCEPT !.next = given], "check", args[p.id + 1].type), "check", args[p.id + 1].type)
  IN IF q.error # "" THEN q
     ELSE IF Ended(s, q) THEN Fail(q, "syntax")
     ELSE Skip([q EXCEPT !.next = IF given = 0 THEN -1 ELSE @], 1)

(* parse_replacement_field_then_tail, up to the tail.                      *)
CompiledField(s, p) ==
  CASE Present(p).error # ""                        -> Present(p)
    [] Present(p).error = "" /\ Here(s, p) = "}"    -> Skip(Show(p), 1)
    [] Present(p).error = "" /\ Here(s, p) = ":"    -> CompiledSpecs(s, p)

CompiledName(s, p, name) ==
  IF Here(s, p) = ":" THEN Fail(p, "unknown")
  ELSE IF Named(name) = {} THEN Fail(p, "argument")
  ELSE Skip(Show([p EXCEPT !.id = (CHOOSE i \in Named(name) : TRUE) - 1]), 1)

CompiledReference(s, a) ==
  IF a.p.error # "" THEN a.p
  ELSE IF Here(s, a.p) \notin {"}", ":"} THEN Fail(a.p, "syntax")
  ELSE CASE a.ref[1] = "auto"  -> CompiledField(s, AutoId(a.p))
         [] a.ref[1] = "index" -> CompiledField(s, ManualId(a.p, a.ref[2]))
         [] a.ref[1] = "name"  -> CompiledName(s, a.p, a.ref[2])

CompiledPart(s, p) ==
  LET c == Here(s, p)
      inside == Skip(p, 1)
      end == TextEnd(s, p.at)
  IN IF c \notin {"{", "}"} THEN [OnText(s, p, p.at, end) EXCEPT !.at = end]
     ELSE IF Ended(s, inside) THEN Fail(p, "syntax")
     ELSE IF c = "}" \/ Here(s, inside) = "{" THEN Brace(s, p)
     ELSE CompiledReference(s, ArgId(s, inside))

RECURSIVE CompiledFrom(_, _)
CompiledFrom(s, p) == IF Stuck(s, p) THEN p ELSE CompiledFrom(s, CompiledPart(s, p))

Compiled == CompiledFrom(str, Start)

-----------------------------------------------------------------------------
(* vprintf.  The id is the arg_index of a directive: -1 for the next       *)
(* argument.  A string ends with NUL, which parse_header may read.         *)

Flags == {"-", "+", "0", " ", "#"}

WithFlag(specs, c) ==
  CASE c = "-" -> [specs EXCEPT !.align = "<"]
    [] c = "+" -> [specs EXCEPT !.sign = "+"]
    [] c = "0" -> [specs EXCEPT !.fill = <<"0">>]
    [] c = " " -> [specs EXCEPT !.sign = IF @ = "+" THEN "+" ELSE " "]
    [] c = "#" -> [specs EXCEPT !.alt = TRUE]

ParseFlags(s, p) ==
  LET run == RunOf(Flags, s, p.at) IN Skip([p EXCEPT !.specs = FoldLeft(WithFlag, @, run)], Len(run))

(* get_arg(-1) and the visitor of a width or a precision.                  *)
WidthOf(p, value) ==
  LET width == IF value < 0 THEN -value ELSE value
  IN IF width > MaxInt THEN Fail(p, "value")
     ELSE [p EXCEPT !.specs.width = width, !.specs.align = IF value < 0 THEN "<" ELSE @]

PrecisionOf(p, value) ==
  IF value \notin -MaxInt - 1 .. MaxInt THEN Fail(p, "value")
  ELSE [p EXCEPT !.specs.precision = IF value < 0 THEN 0 ELSE value]

Star(p, visited) ==
  LET q == Present(AutoId(p))
      a == args[q.id + 1]
  IN IF q.error # "" THEN q
     ELSE IF a.type \notin Integral THEN Fail(p, "value")
     ELSE IF visited = "width" THEN WidthOf([q EXCEPT !.id = p.id], a.value)
     ELSE PrecisionOf([q EXCEPT !.id = p.id], a.value)

FlagsAndWidth(s, p) ==
  LET q == ParseFlags(s, p)
  IN CASE Here(s, q) \in DOMAIN Digits -> Number(s, q, "width")
       [] Here(s, q) = "*"              -> Star(Skip(q, 1), "width")
       [] OTHER                         -> q

(* The digits that come first are the number of an argument, a width, or   *)
(* flags.                                                                  *)
ParseHeader(s, p) ==
  LET ds == RunOfDigits(s, p.at)
      value == ParseInt(ds, -1)
      after == Skip(p, Len(ds))
      numbered == Skip([after EXCEPT !.id = IF value = -1 THEN MaxInt ELSE value], 1)
      padded == IF Here(s, p) = "0" THEN [after EXCEPT !.specs.fill = <<"0">>] ELSE after
  IN IF ds = <<>> THEN FlagsAndWidth(s, p)
     ELSE IF Here(s, after) = "$" THEN FlagsAndWidth(s, numbered)
     ELSE CASE value = 0  -> FlagsAndWidth(s, padded)
            [] value = -1 -> Fail(p, "too big")
            [] value > 0  -> [padded EXCEPT !.specs.width = value]

PrintfPrecision(s, p) ==
  LET q == Skip(p, 1)
      ds == RunOfDigits(s, q.at)
  IN IF Here(s, p) # "." \/ p.error # "" THEN p
     ELSE IF Here(s, q) = "*" THEN Star(Skip(q, 1), "precision")
     ELSE Skip([q EXCEPT !.specs.precision = IF ds = <<>> THEN 0 ELSE ParseInt(ds, 0)], Len(ds))

Fetch(p) ==
  IF p.error # "" THEN p
  ELSE CASE p.id = 0 -> Fail(p, "argument")
         [] p.id < 0 -> Present(AutoId(p))
         [] p.id > 0 -> Present(ManualId(p, p.id - 1))

(* What the argument makes of the flags.                                   *)
ForArgument(specs, a) ==
  LET cut == specs.precision >= 0 /\ a.type \in Integral
      zero == specs.fill = <<"0">> /\ ~cut
      numeric == zero /\ a.type \in Arithmetic /\ specs.align # "<"
  IN [specs EXCEPT !.alt = @ /\ ~(a.type \in Integral /\ a.value = 0),
                   !.align = IF numeric THEN "numeric" ELSE @,
                   !.fill = IF numeric THEN <<"0">> ELSE <<" ">>]

(* Conversions between integers of two's complement.                       *)
Mod(n, bits) == n % 2 ^ bits
Wrap(n, bits) == IF Mod(n, bits) >= 2 ^ (bits - 1) THEN Mod(n, bits) - 2 ^ bits ELSE Mod(n, bits)
Own(type) == CASE type \in {"int", "uint"} -> "int" [] type \in {"llong", "ullong"} -> "llong" [] OTHER -> "char"

(* convert_arg<T>: T is the type a length stands for, or that of the       *)
(* argument for none; a long one does not widen what it makes unsigned.    *)
Target(len, type) ==
  CASE len = <<>> -> Own(type) [] len = <<"h", "h">> -> "char" [] len = <<"h">> -> "short" [] OTHER -> "llong"

ConvertArg(a, len, c) ==
  LET signed == c \in {"d", "i"}
      to == Bits[Target(len, a.type)]
      Made(type, value) == [a EXCEPT !.type = type, !.value = value]
      unsigned == CASE a.type = "bool" -> "bool" [] Own(a.type) = "llong" -> "ullong" [] OTHER -> "uint"
  IN IF a.type \notin Integral \/ len = <<"L">> \/ (a.type = "bool" /\ c = "s") THEN a
     ELSE IF to <= Bits["int"] THEN IF signed THEN Made("int", Wrap(a.value, to)) ELSE Made("uint", Mod(a.value, to))
     ELSE IF signed THEN Made("llong", Wrap(a.value, to)) ELSE Made(unsigned, Mod(a.value, Bits[Own(a.type)]))

Length(s, p) ==
  LET c == Here(s, p)
      twice == c \in {"h", "l"} /\ Here(s, Skip(p, 1)) = c
  IN IF c \notin {"h", "l", "j", "z", "t", "L"} THEN <<>> ELSE IF twice THEN <<c, c>> ELSE <<c>>

(* printf_arg_formatter: what only numbers have is dropped for characters. *)
ForCharacter(specs) ==
  [specs EXCEPT !.sign = "none", !.alt = FALSE, !.fill = <<" ">>,
                !.align = IF @ \in {"none", "numeric"} THEN ">" ELSE @]

ShowPrinted(p, a) ==
  LET specs == IF CharSpecs(a.type, p.specs) THEN ForCharacter(p.specs) ELSE p.specs
  IN IF ~TypeFits(a.type, specs) THEN Fail(p, "type")
     ELSE [p EXCEPT !.out = Append(@, <<"field", p.id, specs, a>>), !.specs = NoSpecs]

(* The length and the type; without them the last character is read again. *)
Conversion(s, p) ==
  LET given == args[p.id + 1]
      text == given.type = "cstring" /\ p.specs.precision >= 0
      typed == IF Ended(s, p) THEN Skip(p, -1) ELSE Skip(p, Len(Length(s, p)))
      c == Here(s, typed)
      a == ConvertArg(IF text THEN [given EXCEPT !.type = "string"] ELSE given, Length(s, p), c)
      type == IF a.type \in Integral /\ c \in {"i", "u"} THEN "d" ELSE c
      shown == IF a.type \in Integral /\ c = "c"
               THEN [a EXCEPT !.type = "char", !.value = Wrap(@, Bits["char"])] ELSE a
      done == Skip([typed EXCEPT !.specs = [ForArgument(@, given) EXCEPT !.type = type]], 1)
  IN IF p.error # "" THEN p
     ELSE IF Ended(s, typed) THEN Fail(p, "syntax")
     ELSE IF type \notin Types THEN Fail(p, "type")
     ELSE ShowPrinted(done, shown)

Directive(s, p) ==
  Conversion(s, Fetch(PrintfPrecision(s, ParseHeader(s, [p EXCEPT !.id = -1, !.specs = [NoSpecs EXCEPT !.align = ">"]]))))

RECURSIVE PrintfFrom(_, _)
PrintfFrom(s, p) ==
  LET i == Find(s, p.at, Len(s) + 1, "%")
  IN IF p.error # "" THEN p
     ELSE IF i = 0 THEN OnText(s, p, p.at, Len(s) + 1)
     ELSE IF Here(s, [p EXCEPT !.at = i + 1]) = "%" THEN PrintfFrom(s, [OnText(s, p, p.at, i + 1) EXCEPT !.at = i + 2])
     ELSE PrintfFrom(s, Directive(s, [OnText(s, p, p.at, i) EXCEPT !.at = i + 1]))

Printed == PrintfFrom(str, Start)

-----------------------------------------------------------------------------
Init == str = <<>> /\ args \in ArgLists /\ pieces = 0

Next ==
  /\ pieces < MaxPieces /\ pieces' = pieces + 1
  /\ \E piece \in Pieces : str' = str \o piece
  /\ UNCHANGED args

Spec == Init /\ [][Next]_vars

-----------------------------------------------------------------------------
(* Whether a string is short or long makes no difference.                  *)
SameResult(p, q) == p.error = q.error /\ (p.error = "" => p.out = q.out)

LoopsAgree == SameResult(Long(str, Start, "format"), Formatted)

(* What the check at compile time lets through throws at run time only for *)
(* the value of a width or precision; it lets through everything that can  *)
(* be formatted, but for named arguments; and specifications parsed once   *)
(* and formatted later give what formatting at once does.                  *)
FormatsAs(checked, formatted) ==
  LET fails == \E i \in DOMAIN checked.out : Fails(checked.out[i])
  IN /\ checked.error = "" => formatted.error = IF fails THEN "value" ELSE ""
     /\ checked.error = "" /\ ~fails => [i \in DOMAIN checked.out |-> Format(checked.out[i])] = formatted.out
     /\ formatted.error = "" => checked.error \in {"", "named"}

CheckedIsFormatted == FormatsAs(Checked, Formatted)

(* A string that can be formatted gives the same when it is compiled.      *)
CompiledIsFormatted ==
  Formatted.error = "" /\ Compiled.error # "unknown" =>
    /\ Compiled.error = "" /\ \A i \in DOMAIN Compiled.out : ~Fails(Compiled.out[i])
    /\ [i \in DOMAIN Compiled.out |-> Format(Compiled.out[i])] = Formatted.out

(* A width, precision or number of an argument that is not refused is the  *)
(* number written, however long it is.                                     *)
NumbersExact ==
  \A i \in DOMAIN str : str[i] \in DOMAIN Digits =>
    LET ds == RunOfDigits(str, i)
        value == FoldLeft(LAMBDA v, d : 10 * v + Digits[d], 0, ds)
    IN IF value > MaxInt THEN TooBig(ds) ELSE Len(ds) <= Digits10 + 1 => ParseInt(ds, -1) = value

-----------------------------------------------------------------------------
(* A string that is one directive, taken apart as C has it: the positions  *)
(* at which the number, the flags, the width and the precision end.        *)
Readings == {r \in [number : 0 .. Len(str), flags : 0 .. Len(str), width : 0 .. Len(str), precision : 0 .. Len(str)] :
  LET All(C, from, to) == \A i \in from + 1 .. to : str[i] \in C
      D == DOMAIN Digits
  IN /\ str # <<>> /\ str[1] = "%" /\ str[Len(str)] \in Types \cup {"i", "u"}
     /\ 1 <= r.number /\ r.number <= r.flags /\ r.flags <= r.width /\ r.width <= r.precision /\ r.precision < Len(str)
     /\ r.number > 1 => All(D, 1, r.number - 1) /\ r.number > 2 /\ str[r.number] = "$"
     /\ All(Flags, r.number, r.flags)
     /\ r.width > r.flags =>
          \/ All(D, r.flags, r.width) /\ Digits[str[r.flags + 1]] # 0
          \/ r.width = r.flags + 1 /\ str[r.width] = "*"
     /\ r.precision > r.width =>
          /\ str[r.width + 1] = "."
          /\ All(D, r.width + 1, r.precision) \/ (r.precision = r.width + 2 /\ str[r.precision] = "*")
     /\ SubSeq(str, r.precision + 1, Len(str) - 1) \in
          {<<>>, <<"h">>, <<"h", "h">>, <<"l">>, <<"l", "l">>, <<"j">>, <<"z">>, <<"t">>, <<"L">>}}

(* What is printed for a reading: the flags have their meaning whatever    *)
(* their order, "-" is stronger than "0" and "+" than " ", a number is     *)
(* that of the string or of the arguments in their order, and an integer   *)
(* fits the type said and is congruent to the argument as far as both      *)
(* types reach.  A precision that is negative or too big counts as zero.   *)
PrintedAs(r, item) ==
  LET value(from, to) == FoldLeft(LAMBDA v, d : 10 * v + Digits[d], 0, SubSeq(str, from, to))
      star(at) == at > 0 /\ str[at] = "*"
      starred == star(r.width) /\ r.width > r.flags
      width == IF starred THEN args[1].value ELSE value(r.flags + 1, r.width)
      exact == IF star(r.precision) /\ r.precision > r.width THEN args[IF starred THEN 2 ELSE 1].value
               ELSE value(r.width + 2, r.precision)
      precision == IF r.precision = r.width THEN -1 ELSE IF exact \in 0 .. MaxInt THEN exact ELSE 0
      given == args[item[2] + 1]
      integral == given.type \in Integral
      flag(c) == \E i \in r.number + 1 .. r.flags : str[i] = c
      c == str[Len(str)]
      character == integral /\ c = "c"
      left == flag("-") \/ width < 0
      zero == flag("0") /\ ~left /\ ~character /\ given.type \in Arithmetic /\ ~(integral /\ precision >= 0)
      length == SubSeq(str, r.precision + 1, Len(str) - 1)
      own == Bits[Own(given.type)]
      said == Bits[Target(length, given.type)]
      shown == item[4].value
  IN /\ item[3] = [NoSpecs EXCEPT
           !.type = IF integral /\ c \in {"i", "u"} THEN "d" ELSE c,
           !.width = IF width < 0 THEN -width ELSE width, !.precision = precision,
           !.align = IF left THEN "<" ELSE IF zero THEN "numeric" ELSE ">",
           !.fill = IF zero THEN <<"0">> ELSE <<" ">>,
           !.sign = IF character THEN "none" ELSE IF flag("+") THEN "+" ELSE IF flag(" ") THEN " " ELSE "none",
           !.alt = flag("#") /\ ~character /\ ~(integral /\ given.value = 0)]
     /\ r.number > 1 => item[2] + 1 = value(2, r.number - 1)
     /\ r.number = 1 => item[2] = Cardinality({i \in DOMAIN str : str[i] = "*"})
     /\ integral /\ given.type # "bool" /\ length # <<"L">> /\ c # "c" =>
          /\ Mod(shown - given.value, IF said < own THEN said ELSE own) = 0
          /\ shown = IF c \in {"d", "i"} THEN Wrap(shown, said) ELSE Mod(shown, said)
     /\ given.type = "bool" \/ ~integral => shown = given.value

(* vprintf prints a directive just if it is one, and as C has it.          *)
PrintfAsC ==
  LET field == Len(Printed.out) = 1 /\ Printed.out[1][1] = "field"
  IN /\ Printed.error = "" /\ field => \E r \in Readings : PrintedAs(r, Printed.out[1])
     /\ \A r, t \in Readings : r = t
     /\ Readings # {} /\ Printed.error \in {"syntax", "too big"} =>
          \E i \in DOMAIN str : str[i] \in DOMAIN Digits /\ TooBig(RunOfDigits(str, i))
=============================================================================

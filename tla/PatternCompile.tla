--------------------------- MODULE PatternCompile ---------------------------
(***************************************************************************)
(* How pattern_formatter turns a pattern into its list of formatters:      *)
(* compile_pattern_ with handle_padspec_ and handle_flag_.  A pattern is a *)
(* sequence of one-character strings.  A formatter is a record of what it  *)
(* shows and its padding; "at" is history, the first and the last          *)
(* character of the pattern that it comes from.                            *)
(***************************************************************************)
EXTENDS Naturals, Sequences, SequencesExt

CONSTANTS
  Alphabet,              \* the characters that patterns are made of
  Digits,                \* the digits among them, a function to their values
  KnownFlags,            \* the flags handle_flag_ has a case for, but "%"
  MaxLength              \* bound

VARIABLES
  pattern_,
  formatters_

vars == <<pattern_, formatters_>>

max_width == 64
Spaces == 64             \* the length of scoped_padder's spaces_

Unpadded == [enabled |-> FALSE, width |-> 0, side |-> "left", truncate |-> FALSE]

Show(flag, padding, i, j) == [flag |-> flag, padding |-> padding, text |-> <<>>, at |-> <<i, j>>]
Literal(text, i, j) == [flag |-> "", padding |-> Unpadded, text |-> text, at |-> <<i, j>>]

(* user_chars, appended to the list when there are any.                    *)
Flush(list, user) == IF user = <<>> THEN list ELSE Append(list, user[1])

-----------------------------------------------------------------------------
Width(ds) == LET w == FoldLeft(LAMBDA n, d : 10 * n + Digits[d], 0, ds) IN IF w > max_width THEN max_width ELSE w

(* handle_padspec_ from position i on: the padding and the position after  *)
(* the specification.  A side is consumed even if no width follows.        *)
Padspec(p, i) ==
  LET side == IF i > Len(p) THEN "left" ELSE IF p[i] = "-" THEN "right" ELSE IF p[i] = "=" THEN "center" ELSE "left"
      first == IF side = "left" THEN i ELSE i + 1
      next == CHOOSE j \in first .. Len(p) + 1 :
                /\ \A k \in first .. j - 1 : p[k] \in DOMAIN Digits
                /\ j <= Len(p) => p[j] \notin DOMAIN Digits
      truncate == next <= Len(p) /\ p[next] = "!"
  IN IF next = first THEN [padding |-> Unpadded, next |-> first]
     ELSE [padding |-> [enabled |-> TRUE, width |-> Width(SubSeq(p, first, next - 1)), side |-> side, truncate |-> truncate],
           next |-> IF truncate THEN next + 1 ELSE next]

(* handle_flag_: an unknown flag is shown as it is, except that with a     *)
(* truncating padding the "!" was meant as the function name.              *)
HandleFlag(flag, padding, i, j) ==
  IF flag \in KnownFlags THEN <<Show(flag, padding, i, j)>>
  ELSE IF flag = "%" THEN <<Literal(<<"%">>, i, j)>>
  ELSE IF ~padding.truncate THEN <<Literal(<<"%", flag>>, i, j)>>
  ELSE <<Show("!", [padding EXCEPT !.truncate = FALSE], i, j - 1), Literal(<<flag>>, j, j)>>

(* What compile_pattern_ does with user characters when a directive comes. *)
Flushed(list, user) == Flush(list, user)

(* compile_pattern_ from position i on; user is empty or holds the text of *)
(* the user characters before i.                                           *)
RECURSIVE CompileFrom(_, _, _, _)
CompileFrom(p, i, list, user) ==
  IF i > Len(p) THEN Flush(list, user)
  ELSE IF p[i] # "%"
  THEN CompileFrom(p, i + 1, list,
         IF user = <<>> THEN <<Literal(<<p[i]>>, i, i)>>
         ELSE <<Literal(Append(user[1].text, p[i]), user[1].at[1], i)>>)
  ELSE LET spec == Padspec(p, i + 1)
           j == spec.next
           before == Flushed(list, user)
           rest == IF before = list THEN user ELSE <<>>
       IN IF j > Len(p) THEN Flush(before, rest)
          ELSE CompileFrom(p, j + 1, before \o HandleFlag(p[j], spec.padding, i, j), rest)

Compile(p) == CompileFrom(p, 1, <<>>, <<>>)

(* The constructor without a pattern.                                      *)
Init ==
  /\ pattern_ = <<"%", "+">>
  /\ formatters_ = <<Show("+", Unpadded, 1, 2)>>

SetPattern(p) ==
  /\ pattern_' = p
  /\ formatters_' = Compile(p)

(* Patterns are tried in every order of growth.                            *)
Next ==
  \/ Len(pattern_) < MaxLength /\ pattern_ # <<"%", "+">> /\ \E c \in Alphabet : SetPattern(Append(pattern_, c))
  \/ pattern_ = <<"%", "+">> /\ SetPattern(<<>>)

Spec == Init /\ [][Next]_vars

-----------------------------------------------------------------------------
(* Every character of the pattern goes into one formatter, in the order of *)
(* the pattern; only a directive cut off by the end of the pattern shows   *)
(* nothing.                                                                *)
InOrder ==
  LET shown == IF formatters_ = <<>> THEN 0 ELSE Last(formatters_).at[2]
  IN /\ \A i \in DOMAIN formatters_ :
          formatters_[i].at[1] = (IF i = 1 THEN 0 ELSE formatters_[i - 1].at[2]) + 1
     /\ shown < Len(pattern_) =>
          /\ pattern_[shown + 1] = "%"
          /\ \A k \in shown + 2 .. Len(pattern_) : pattern_[k] \in {"-", "=", "!"} \cup DOMAIN Digits

(* scoped_padder copies from a string of 64 spaces: no padding is wider.   *)
PaddingFits == \A i \in DOMAIN formatters_ : formatters_[i].padding.width <= Spaces
=============================================================================

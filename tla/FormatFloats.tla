---------------------------- MODULE FormatFloats ----------------------------
(***************************************************************************)
(* The decimal digits of numbers in the bundled fmt: how many an integer   *)
(* has, and those of a floating-point number: Grisu, in one word, which    *)
(* gives up where its error matters, and Dragon4 in bigints, which then    *)
(* starts from the exponent that Grisu found; Dragonbox for the shortest   *)
(* digits.  The widths of words, significands and bigits are parameters.   *)
(***************************************************************************)
EXTENDS Integers, Sequences, FiniteSets, SequencesExt

CONSTANTS
  FpBits,        \* of fp::f
  SigBits, Bias, \* of a float: its significand without the implicit bit, exponent_bias
  BigitBits,     \* of a bigit
  FirstDec, DecStep, \* the cached powers of ten: the first, and from one to the next
  CacheBits, Info    \* of Dragonbox: of its cached powers, and float_info

Pow2 == [n \in 0 .. 30 |-> 2 ^ n]
Pow10 == [n \in 0 .. 9 |-> 10 ^ n]
CeilDiv(a, b) == -((-a) \div b)

-----------------------------------------------------------------------------
(* Numbers of digits.                                                      *)

RECURSIVE CountDigitsFallback(_)
CountDigitsFallback(n) ==
  CASE n < 10 -> 1 [] n \in 10 .. 99 -> 2 [] n \in 100 .. 999 -> 3 [] n \in 1000 .. 9999 -> 4
    [] OTHER -> 4 + CountDigitsFallback(n \div 10000)

Bsr(n) == CHOOSE k \in 0 .. 30 : Pow2[k] <= n /\ (k < 30 => n < Pow2[k + 1])

Bsr2Log10 ==
  <<1, 1, 1, 2, 2, 2, 3, 3, 3, 4, 4, 4, 4, 5, 5, 5, 6, 6, 6, 7, 7, 7, 7, 8, 8, 8, 9, 9, 9, 10, 10>>
CountDigits64(n) ==
  LET t == Bsr2Log10[Bsr(IF n % 2 = 0 THEN n + 1 ELSE n) + 1]
  IN t - (IF t > 1 /\ n < Pow10[t - 1] THEN 1 ELSE 0)

(* FMT_INC: the high word is the number of digits of T, less one, and      *)
(* becomes that number when n >= T.                                        *)
IncDigits == <<1, 1, 1, 2, 2, 2, 3, 3, 3, 4, 4, 4, 5, 5, 5, 6, 6, 6, 7, 7, 7, 8, 8, 8, 9, 9, 9, 10, 10, 10, 10>>
CountDigits32(n) ==
  LET digits == IncDigits[Bsr(IF n % 2 = 0 THEN n + 1 ELSE n) + 1]
  IN IF digits = 1 \/ n >= Pow10[digits - 1] THEN digits ELSE digits - 1

CountDigitsOf(n, bits) == Bsr(IF n % 2 = 0 THEN n + 1 ELSE n) \div bits + 1

-----------------------------------------------------------------------------
(* fp.                                                                     *)

Assign(x) ==
  [f |-> x.frac + (IF x.biased # 0 THEN Pow2[SigBits] ELSE 0),
   e |-> (IF x.biased # 0 THEN x.biased ELSE 1) - Bias - SigBits]
PredecessorIsCloser(x) == x.frac = 0 /\ x.biased > 1

(* A significand that is subnormal is shifted until it is not, then all    *)
(* are to the top of the word.                                             *)
Normalize(v) ==
  LET k == CHOOSE k \in 0 .. SigBits : v.f * Pow2[k] \in Pow2[SigBits] .. Pow2[SigBits + 1] - 1
      offset == FpBits - SigBits - 1
  IN [f |-> v.f * Pow2[k + offset], e |-> v.e - k - offset]

(* With a word of twice the width, and by halves.                          *)
Multiply(lhs, rhs) == (lhs * rhs + Pow2[FpBits - 1]) \div Pow2[FpBits]
MultiplyHalves(lhs, rhs) ==
  LET half == Pow2[FpBits \div 2]
      a == lhs \div half
      b == lhs % half
      c == rhs \div half
      d == rhs % half
      mid == ((b * d) \div half) + ((a * d) % half) + ((b * c) % half) + (half \div 2)
  IN (a * c) + ((a * d) \div half) + ((b * c) \div half) + (mid \div half)

(* A power of ten, rounded to a word.                                      *)
CachedPower(k) ==
  IF k >= 0
  THEN LET top == Bsr(Pow10[k])
       IN IF top < FpBits THEN [f |-> Pow10[k] * Pow2[FpBits - 1 - top], e |-> top - FpBits + 1]
          ELSE [f |-> (Pow10[k] + Pow2[top - FpBits]) \div Pow2[top - FpBits + 1], e |-> top - FpBits + 1]
  ELSE LET shift == Bsr(Pow10[-k]) + FpBits
       IN [f |-> (Pow2[shift] + Pow10[-k] \div 2) \div Pow10[-k], e |-> -shift]

(* get_cached_power; log10(2) is 1233 / 4096.                              *)
CachedExponent(min_exponent) ==
  LET dec == CeilDiv((min_exponent + FpBits - 1) * 1233, 4096)
  IN FirstDec + ((dec - FirstDec - 1) \div DecStep + 1) * DecStep

-----------------------------------------------------------------------------
(* Grisu: the digits of a number that is known up to an error.             *)

RoundDirection(divisor, remainder, error) ==
  CASE remainder <= divisor - remainder /\ error * 2 <= divisor - remainder * 2 -> "down"
    [] ~(remainder <= divisor - remainder /\ error * 2 <= divisor - remainder * 2)
       /\ remainder >= error /\ remainder - error >= divisor - (remainder - error) -> "up"
    [] OTHER -> "unknown"

(* One is added to the last digit; a carry out of the first leaves a one   *)
(* and zeros, as many digits as there were.                                *)
CarriesOut(buf) == \A i \in DOMAIN buf : buf[i] = 9
RoundUp(buf) ==
  LET nine == {i \in DOMAIN buf : \A j \in i .. Len(buf) : buf[j] = 9}
  IN [i \in DOMAIN buf |-> CASE i \in nine -> IF i = 1 THEN 1 ELSE 0
                             [] i \notin nine /\ (i = Len(buf) \/ i + 1 \in nine) -> buf[i] + 1
                             [] OTHER -> buf[i]]

Rounded(h, dir) ==
  CASE dir = "unknown" -> [h EXCEPT !.result = "error"]
    [] dir = "down"    -> [h EXCEPT !.result = "done"]
    [] dir = "up"      ->
         [h EXCEPT !.result = "done",
                   !.buf = IF CarriesOut(@) /\ h.fixed THEN Append(RoundUp(@), 0) ELSE RoundUp(@),
                   !.exp10 = IF CarriesOut(h.buf) /\ ~h.fixed THEN @ + 1 ELSE @]

(* gen_digits_handler::on_digit, once the digit is there.                  *)
AfterDigit(h, divisor, remainder, error, integral) ==
  CASE ~integral /\ error >= remainder -> [h EXCEPT !.result = "error"]
    [] ~(~integral /\ error >= remainder) /\ Len(h.buf) < h.precision -> h
    [] ~(~integral /\ error >= remainder) /\ Len(h.buf) >= h.precision ->
         IF ~integral /\ (error >= divisor \/ error >= divisor - error) THEN [h EXCEPT !.result = "error"]
         ELSE Rounded(h, RoundDirection(divisor, remainder, error))

OnDigit(h, digit, divisor, remainder, error, integral) ==
  AfterDigit([h EXCEPT !.buf = Append(@, digit)], divisor, remainder, error, integral)

RECURSIVE FractionalDigits(_, _, _, _)
FractionalDigits(h, one, fractional, error) ==
  IF h.result # "more" THEN h
  ELSE FractionalDigits(
         OnDigit([h EXCEPT !.exp = @ - 1], (fractional * 10) \div one, one, (fractional * 10) % one, error * 10, FALSE),
         one, (fractional * 10) % one, error * 10)

RECURSIVE IntegralDigits(_, _, _, _)
IntegralDigits(h, one, rest, error) ==
  LET divisor == Pow10[h.exp - 1] * one
  IN IF h.result # "more" THEN h
     ELSE IF h.exp = 0 THEN FractionalDigits(h, one, rest, error)
     ELSE IntegralDigits(OnDigit([h EXCEPT !.exp = @ - 1], rest \div divisor, divisor, rest % divisor, error, TRUE),
                         one, rest % divisor, error)

(* grisu_gen_digits: the precision of the fixed format counts from the     *)
(* decimal point, and may leave no digit to generate.                      *)
LeadingZeros(h, one, value, error) ==
  LET dir == RoundDirection(Pow10[h.exp - 1] * one, value.f \div 10, error * 10)
  IN CASE h.precision < 0 -> [h EXCEPT !.result = "done"]
       [] h.precision = 0 /\ dir = "unknown" -> [h EXCEPT !.result = "error"]
       [] h.precision = 0 /\ dir # "unknown" ->
            [h EXCEPT !.result = "done", !.buf = <<IF dir = "up" THEN 1 ELSE 0>>]

GenDigits(value, error, handler) ==
  LET one == Pow2[-value.e]
      kappa == CountDigits32(value.f \div one)
      h == [handler EXCEPT !.exp = kappa, !.precision = IF handler.fixed THEN @ + kappa + handler.exp10 ELSE @]
  IN IF h.fixed /\ h.precision <= 0 THEN LeadingZeros(h, one, value, error)
     ELSE IntegralDigits(h, one, value.f, error)

Grisu(v, precision, fixed) ==
  LET n == Normalize(v)
      k == CachedExponent(4 - FpBits - (n.e + FpBits))
      c == CachedPower(k)
  IN GenDigits([f |-> Multiply(n.f, c.f), e |-> n.e + c.e + FpBits], 1,
               [buf |-> <<>>, precision |-> precision, exp10 |-> -k, fixed |-> fixed, exp |-> 0, result |-> "more"])

-----------------------------------------------------------------------------
(* bigint: bigits from the least significant on, and an exponent, which    *)
(* counts bigits too.                                                      *)

Base == Pow2[BigitBits]

RECURSIVE Bigits(_)
Bigits(n) == IF n < Base THEN <<n>> ELSE <<n % Base>> \o Bigits(n \div Base)
ToBig(n) == [bigits |-> Bigits(n), exp |-> 0]

WithCarry(r) == IF r.carry # 0 THEN r.bigits \o Bigits(r.carry) ELSE r.bigits

(* multiply by a bigit, and by two.                                        *)
MultiplyBigit(b, value) ==
  [b EXCEPT !.bigits = WithCarry(FoldLeft(
     LAMBDA r, d : LET result == d * value + r.carry
                   IN [bigits |-> Append(r.bigits, result % Base), carry |-> result \div Base],
     [bigits |-> <<>>, carry |-> 0], @))]
MultiplyDouble(b, value) ==
  [b EXCEPT !.bigits = WithCarry(FoldLeft(
     LAMBDA r, d : LET result == d * (value % Base) + (r.carry % Base)
                   IN [bigits |-> Append(r.bigits, result % Base),
                       carry |-> d * (value \div Base) + (result \div Base) + (r.carry \div Base)],
     [bigits |-> <<>>, carry |-> 0], @))]

ShiftLeft(b, shift) ==
  LET whole == [b EXCEPT !.exp = @ + shift \div BigitBits]
  IN IF shift % BigitBits = 0 THEN whole ELSE MultiplyBigit(whole, Pow2[shift % BigitBits])

RemoveLeadingZeros(s) ==
  SubSeq(s, 1, CHOOSE n \in 1 .. Len(s) : (n > 1 => s[n] # 0) /\ \A i \in n + 1 .. Len(s) : s[i] = 0)

(* Each bigit of the result is the sum of the products that fall on it and *)
(* of what is left of the sum before.                                      *)
Square(b) ==
  LET n == b.bigits
      size == Len(n)
      Sum(k, carry) ==
        FoldLeft(LAMBDA s, i : IF k - i \in 0 .. size - 1 THEN s + n[i + 1] * n[k - i + 1] ELSE s,
                 carry, [i \in 1 .. size |-> i - 1])
      Step(r, k) == LET sum == Sum(k, r.carry) IN [bigits |-> Append(r.bigits, sum % Base), carry |-> sum \div Base]
  IN [bigits |-> RemoveLeadingZeros(FoldLeft(Step, [bigits |-> <<>>, carry |-> 0], [k \in 1 .. 2 * size |-> k - 1]).bigits),
      exp |-> 2 * b.exp]

(* assign_pow10: 5 ^ exp by the bits of exp below the first, then shifted. *)
BigPow10(exp) ==
  LET Next5(b, bit) == IF (exp \div Pow2[bit]) % 2 = 1 THEN MultiplyBigit(Square(b), 5) ELSE Square(b)
      top == Bsr(exp)
  IN IF exp = 0 THEN ToBig(1) ELSE ShiftLeft(FoldLeft(Next5, ToBig(5), [i \in 1 .. top |-> top - i]), exp)

NumBigits(b) == Len(b.bigits) + b.exp
BigitAt(b, i) == IF i \in b.exp .. NumBigits(b) - 1 THEN b.bigits[i - b.exp + 1] ELSE 0

CompareBig(lhs, rhs) ==
  LET i == Len(lhs.bigits)
      j == Len(rhs.bigits)
      common == IF i < j THEN i ELSE j
      differ == {k \in 0 .. common - 1 : lhs.bigits[i - k] # rhs.bigits[j - k]}
      first == CHOOSE k \in differ : \A m \in differ : k <= m
  IN IF NumBigits(lhs) # NumBigits(rhs) THEN IF NumBigits(lhs) > NumBigits(rhs) THEN 1 ELSE -1
     ELSE IF differ # {} THEN IF lhs.bigits[i - first] > rhs.bigits[j - first] THEN 1 ELSE -1
     ELSE IF i > j THEN 1 ELSE IF i < j THEN -1 ELSE 0

MaxInt2(a, b) == IF a > b THEN a ELSE b
MinInt2(a, b) == IF a < b THEN a ELSE b

(* From the top, what rhs is more by, until it is clear.                   *)
RECURSIVE AddCompareFrom(_, _, _, _, _)
AddCompareFrom(lhs1, lhs2, rhs, i, borrow) ==
  LET more == BigitAt(rhs, i) + borrow - BigitAt(lhs1, i) - BigitAt(lhs2, i)
  IN IF i < MinInt2(MinInt2(lhs1.exp, lhs2.exp), rhs.exp) THEN IF borrow # 0 THEN -1 ELSE 0
     ELSE IF more < 0 THEN 1
     ELSE IF more > 1 THEN -1
     ELSE AddCompareFrom(lhs1, lhs2, rhs, i - 1, more * Base)

AddCompare(lhs1, lhs2, rhs) ==
  LET most == MaxInt2(NumBigits(lhs1), NumBigits(lhs2))
  IN IF most + 1 < NumBigits(rhs) THEN -1
     ELSE IF most > NumBigits(rhs) THEN 1
     ELSE AddCompareFrom(lhs1, lhs2, rhs, NumBigits(rhs) - 1, 0)

AlignTo(b, other) ==
  IF b.exp <= other.exp THEN b
  ELSE [bigits |-> [i \in 1 .. b.exp - other.exp |-> 0] \o b.bigits, exp |-> other.exp]

(* Subtracts other from a bigint that is not less, nor coarser.            *)
SubtractAligned(b, other) ==
  LET Step(r, i) ==
        LET result == b.bigits[i] - BigitAt(other, b.exp + i - 1) - r.borrow
        IN [bigits |-> Append(r.bigits, result % Base), borrow |-> IF result < 0 THEN 1 ELSE 0]
  IN [b EXCEPT !.bigits = RemoveLeadingZeros(
        FoldLeft(Step, [bigits |-> <<>>, borrow |-> 0], [i \in 1 .. Len(b.bigits) |-> i]).bigits)]

RECURSIVE SubtractAll(_, _, _)
SubtractAll(b, divisor, quotient) ==
  IF CompareBig(b, divisor) < 0 THEN [quotient |-> quotient, rest |-> b]
  ELSE SubtractAll(SubtractAligned(b, divisor), divisor, quotient + 1)

DivMod(b, divisor) ==
  IF CompareBig(b, divisor) < 0 THEN [quotient |-> 0, rest |-> b] ELSE SubtractAll(AlignTo(b, divisor), divisor, 0)

-----------------------------------------------------------------------------
(* format_dragon: value is numerator / denominator * 10 ^ exp10, and lower *)
(* and upper are half the distances to its neighbours, in the same terms.  *)
DragonStart(v, closer, exp10) ==
  LET shift == IF closer THEN 2 ELSE 1
      significand == v.f * Pow2[shift]
      unit == IF v.e >= 0 THEN ShiftLeft(ToBig(1), v.e) ELSE IF exp10 < 0 THEN BigPow10(-exp10) ELSE ToBig(1)
  IN [numerator |-> CASE v.e >= 0 -> ShiftLeft(ToBig(significand), v.e)
                      [] v.e < 0 /\ exp10 < 0 -> MultiplyDouble(BigPow10(-exp10), significand)
                      [] v.e < 0 /\ exp10 >= 0 -> ToBig(significand),
      denominator |-> CASE v.e >= 0 -> ShiftLeft(BigPow10(exp10), shift)
                        [] v.e < 0 /\ exp10 < 0 -> ShiftLeft(ToBig(1), shift - v.e)
                        [] v.e < 0 /\ exp10 >= 0 -> ShiftLeft(BigPow10(exp10), shift - v.e),
      lower |-> unit, upper |-> IF closer THEN ShiftLeft(unit, 1) ELSE unit]

IsOdd(n) == n % 2 = 1

(* The shortest digits between the boundaries: the next, and whether a     *)
(* boundary is reached and the digit, or the one above, is the last.       *)
NextDigit(s, d, even) ==
  [digit |-> d.quotient, rest |-> d.rest,
   low |-> CompareBig(d.rest, s.lower) - (IF even THEN 1 ELSE 0) < 0,
   high |-> AddCompare(d.rest, s.upper, s.denominator) + (IF even THEN 1 ELSE 0) > 0,
   half |-> AddCompare(d.rest, d.rest, s.denominator)]
RoundsUp(n) == n.high /\ (~n.low \/ n.half > 0 \/ (n.half = 0 /\ IsOdd(n.digit)))

RECURSIVE Shortest(_, _, _, _)
ShortestAfter(s, n, even, buf, exp10) ==
  IF n.low \/ n.high THEN [buf |-> Append(buf, IF RoundsUp(n) THEN n.digit + 1 ELSE n.digit), exp |-> exp10 - Len(buf)]
  ELSE Shortest([s EXCEPT !.numerator = MultiplyBigit(n.rest, 10), !.lower = MultiplyBigit(@, 10),
                          !.upper = MultiplyBigit(@, 10)], even, Append(buf, n.digit), exp10)
Shortest(s, even, buf, exp10) ==
  ShortestAfter(s, NextDigit(s, DivMod(s.numerator, s.denominator), even), even, buf, exp10)

(* The last of so many digits: half to even.                               *)
LastDigit(buf, half, exp) ==
  IF ~(half > 0 \/ (half = 0 /\ IsOdd(Last(buf)))) THEN [buf |-> buf, exp |-> exp]
  ELSE [buf |-> RoundUp(buf), exp |-> IF CarriesOut(buf) THEN exp + 1 ELSE exp]

RECURSIVE SoManyDigits(_, _, _, _)
SoManyAfter(s, d, num_digits, buf, exp) ==
  IF Len(buf) + 1 < num_digits
  THEN SoManyDigits([s EXCEPT !.numerator = MultiplyBigit(d.rest, 10)], num_digits, Append(buf, d.quotient), exp)
  ELSE LastDigit(Append(buf, d.quotient), AddCompare(d.rest, d.rest, s.denominator), exp)
SoManyDigits(s, num_digits, buf, exp) == SoManyAfter(s, DivMod(s.numerator, s.denominator), num_digits, buf, exp)

DragonFrom(s, even, num_digits, exp10) ==
  CASE num_digits < 0 -> Shortest(s, even, <<>>, exp10)
    [] num_digits = 0 ->
         [buf |-> <<IF AddCompare(s.numerator, s.numerator, MultiplyBigit(s.denominator, 10)) > 0 THEN 1 ELSE 0>>,
          exp |-> exp10 + 1]
    [] num_digits > 0 -> SoManyDigits(s, num_digits, <<>>, exp10 - (num_digits - 1))
Dragon(v, closer, num_digits, exp10) == DragonFrom(DragonStart(v, closer, exp10), ~IsOdd(v.f), num_digits, exp10)

-----------------------------------------------------------------------------
(* Dragonbox: products with a cached power of ten, rounded down, of which  *)
(* the bits below the point tell what the rounding hides.                  *)

FloorLog10Pow2(e) == (e * 1262611) \div 4194304
FloorLog2Pow10(e) == (e * 1741647) \div 524288
FloorLog10Pow2Minus(e) == (e * 1262611 - 524031) \div 4194304  \* of 4 / 3

DivisibleByPow2(x, exp) == x % Pow2[exp] = 0
DivisibleByPow5(x, exp) == x % (5 ^ exp) = 0

(* By the multiplications and shifts that stand for divisions.             *)
CheckAndDivideByPow5(n) ==
  LET info == <<[magic |-> 52429, bits |-> 16, threshold |-> 13107, shift |-> 18],
                [magic |-> 42025, bits |-> 8, threshold |-> 10, shift |-> 20]>>[Info.kappa]
  IN [divisible |-> (n * info.magic) % Pow2[info.bits] <= info.threshold, quotient |-> (n * info.magic) \div Pow2[info.shift]]
SmallDivision(n) ==
  LET info == <<[magic |-> 52429, shift |-> 19], [magic |-> 41944, shift |-> 22]>>[Info.kappa]
  IN (n * info.magic) \div Pow2[info.shift]

(* The table: rounded up for the negative powers, down for the others.     *)
DragonPower(k) ==
  LET shift == CacheBits - 1 - FloorLog2Pow10(k)
  IN IF k < 0 THEN CeilDiv(Pow2[shift], Pow10[-k])
     ELSE IF shift >= 0 THEN Pow10[k] * Pow2[shift] ELSE Pow10[k] \div Pow2[-shift]

ComputeMul(u, cache) == (u * cache) \div Pow2[CacheBits]
ComputeDelta(cache, beta) == cache \div Pow2[CacheBits - 1 - beta]
ComputeMulParity(two_f, cache, beta) == IsOdd(((two_f * cache) % Pow2[CacheBits]) \div Pow2[CacheBits - beta])
LeftEndpoint(cache, beta) == (cache - cache \div Pow2[SigBits + 2]) \div Pow2[CacheBits - SigBits - 1 - beta]
RightEndpoint(cache, beta) == (cache + cache \div Pow2[SigBits + 1]) \div Pow2[CacheBits - SigBits - 1 - beta]
RoundUpOf(cache, beta) == (cache \div Pow2[CacheBits - SigBits - 2 - beta] + 1) \div 2

IsEndpointInteger(two_f, exponent, minus_k) ==
  /\ exponent >= Info.fc_pm_half_lower
  /\ \/ exponent <= Info.fc_pm_half_upper
     \/ exponent <= Info.divisibility_by_5 /\ DivisibleByPow5(two_f, minus_k)
IsCenterInteger(two_f, exponent, minus_k) ==
  /\ exponent <= Info.divisibility_by_5
  /\ exponent > Info.fc_upper => DivisibleByPow5(two_f, minus_k)
  /\ exponent < Info.fc_lower => DivisibleByPow2(two_f, minus_k - exponent + 1)

(* As many as there are factors of two, at most.                           *)
RemoveTrailingZeros(n, exp) ==
  LET zeros == CHOOSE s \in 0 .. Info.max_trailing_zeros : 
        n % Pow10[s] = 0 /\ (s < Info.max_trailing_zeros => n % Pow10[s + 1] # 0)
  IN [significand |-> n \div Pow10[zeros], exp |-> exp + zeros]

(* The interval of a power of two: its lower half is shorter.              *)
ShorterRounded(n, xi, exponent) ==
  IF exponent \in Info.tie_lower .. Info.tie_upper THEN IF IsOdd(n) THEN n - 1 ELSE n
  ELSE IF n < xi THEN n + 1 ELSE n
ShorterFrom(xi, zi, round_up, exponent, minus_k) ==
  IF (zi \div 10) * 10 >= xi THEN RemoveTrailingZeros(zi \div 10, minus_k + 1)
  ELSE [significand |-> ShorterRounded(round_up, xi, exponent), exp |-> minus_k]
ShorterWith(cache, beta, exponent, minus_k) ==
  ShorterFrom(LeftEndpoint(cache, beta) + (IF exponent \in 2 .. Info.left_endpoint_upper THEN 0 ELSE 1),
              RightEndpoint(cache, beta), RoundUpOf(cache, beta), exponent, minus_k)
ShorterIntervalCase(exponent) ==
  LET minus_k == FloorLog10Pow2Minus(exponent)
  IN ShorterWith(DragonPower(-minus_k), exponent + FloorLog2Pow10(-minus_k), exponent, minus_k)

(* With the smaller divisor: the middle, by the distance to it.            *)
SmallDivisor(v, r, cache, beta, minus_k, base) ==
  LET dist == r - ComputeDelta(cache, beta) \div 2 + Info.small_divisor \div 2
      five == CheckAndDivideByPow5(dist \div Pow2[Info.kappa])
      approx_y_parity == dist % 2 # (Info.small_divisor \div 2) % 2
      n == base + five.quotient
  IN [exp |-> minus_k + Info.kappa,
      significand |->
        CASE dist % Pow2[Info.kappa] # 0 -> base + SmallDivision(dist)
          [] dist % Pow2[Info.kappa] = 0 /\ ~five.divisible -> n
          [] dist % Pow2[Info.kappa] = 0 /\ five.divisible ->
               IF ComputeMulParity(2 * v.f, cache, beta) # approx_y_parity THEN n - 1
               ELSE IF IsCenterInteger(2 * v.f, v.e, minus_k) /\ IsOdd(n) THEN n - 1 ELSE n]

(* With the larger one, if a multiple of it lies in the interval, whose    *)
(* ends belong to an even number.                                          *)
RightEndExcluded(v, r, minus_k) == r = 0 /\ IsOdd(v.f) /\ IsEndpointInteger(2 * v.f + 1, v.e, minus_k)
LeftEndReached(v, cache, beta, minus_k) ==
  \/ ~IsOdd(v.f) /\ IsEndpointInteger(2 * v.f - 1, v.e, minus_k)
  \/ ComputeMulParity(2 * v.f - 1, cache, beta)
Regular(v, cache, beta, minus_k, delta, zi) ==
  LET n == zi \div Info.big_divisor
      r == zi % Info.big_divisor
  IN CASE r < delta /\ RightEndExcluded(v, r, minus_k) ->
            SmallDivisor(v, Info.big_divisor, cache, beta, minus_k, 10 * (n - 1))
       [] r > delta \/ (r = delta /\ ~LeftEndReached(v, cache, beta, minus_k)) ->
            SmallDivisor(v, r, cache, beta, minus_k, 10 * n)
       [] OTHER -> RemoveTrailingZeros(n, minus_k + Info.kappa + 1)
RegularWith(v, cache, beta, minus_k) ==
  Regular(v, cache, beta, minus_k, ComputeDelta(cache, beta), ComputeMul((2 * v.f + 1) * Pow2[beta], cache))
RegularCase(v, minus_k) == RegularWith(v, DragonPower(-minus_k), v.e + FloorLog2Pow10(-minus_k), minus_k)

ToDecimal(x) ==
  CASE x.biased # 0 /\ x.frac = 0 -> ShorterIntervalCase(Assign(x).e)
    [] x.biased = 0 /\ x.frac = 0 -> [significand |-> 0, exp |-> 0]
    [] x.frac # 0 -> RegularCase(Assign(x), FloorLog10Pow2(Assign(x).e) - Info.kappa)

-----------------------------------------------------------------------------
(* format_float: digits and the exponent of the last.                      *)

RECURSIVE DecimalDigits(_)
DecimalDigits(n) == IF n < 10 THEN <<n>> ELSE Append(DecimalDigits(n \div 10), n % 10)
AsDigits(decimal) == [buf |-> DecimalDigits(decimal.significand), exp |-> decimal.exp]

RECURSIVE WithoutZeros(_)
WithoutZeros(r) ==
  IF r.buf # <<>> /\ Last(r.buf) = 0 THEN WithoutZeros([buf |-> Front(r.buf), exp |-> r.exp + 1]) ELSE r

AfterGrisu(h, v, closer) ==
  IF h.result = "done" THEN [buf |-> h.buf, exp |-> h.exp + h.exp10]
  ELSE Dragon(v, closer, h.precision, h.exp + Len(h.buf) + h.exp10 - 1)
Precise(x, precision, fixed) == AfterGrisu(Grisu(Assign(x), precision, fixed), Assign(x), PredecessorIsCloser(x))

Zeros(n) == [i \in 1 .. n |-> 0]

FormatFloat(x, precision, format, showpoint) ==
  LET zero == x.biased = 0 /\ x.frac = 0
      fixed == format = "fixed"
      Kept(r) == IF fixed \/ showpoint THEN r ELSE WithoutZeros(r)
  IN CASE zero /\ (precision <= 0 \/ ~fixed) -> [buf |-> <<0>>, exp |-> 0]
       [] zero /\ ~(precision <= 0 \/ ~fixed) -> [buf |-> Zeros(precision), exp |-> -precision]
       [] ~zero /\ precision < 0 -> AsDigits(ToDecimal(x))
       [] ~zero /\ precision >= 0 -> Kept(Precise(x, precision, fixed))
=============================================================================

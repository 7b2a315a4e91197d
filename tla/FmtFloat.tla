------------------------------ MODULE FmtFloat ------------------------------
(***************************************************************************)
(* The bundled fmt library writes a floating-point number: its shortest    *)
(* decimal digits by Dragonbox (to_decimal), a given number of digits from *)
(* one word of them or with bigints (format_float, format_dragon), and     *)
(* hexadecimal (format_hexfloat); then the layout, fixed or exponential.   *)
(* A number is [negative, biased_e, significand], the bits that are stored, *)
(* with the widths of small formats. Products that the code takes from its *)
(* table of powers of ten are exact here. double and float are fast, that  *)
(* is is_fast_float, and have an implicit bit; long double is neither, as  *)
(* the 80-bit format of x86-64, whose significand holds its leading bit.   *)
(***************************************************************************)
EXTENDS FmtWrite, FmtBigint

CONSTANTS
  SignificandBits,  \* num_significand_bits, without the implicit bit
  LongSignificandBits,  \* that of long double (64 in the code)
  ExponentBits,     \* float_info: exponent_bits and kappa
  Kappa,
  TieExponent,      \* and where the shorter interval may have a tie
  ExpUpper,         \* exp_upper(): from there on numbers have an exponent
  SegmentDigits,    \* digits of format_float's first segment (19 in the code)
  MaxDoubleDigits,  \* no double has more (767 in the code)
  DecimalPoint      \* of the locale

ASSUME FloatAssumption ==
  /\ {SignificandBits, ExponentBits, Kappa, ExpUpper, SegmentDigits, MaxDoubleDigits} \subseteq Nat
  /\ LongSignificandBits \in Nat \ {0} /\ LongSignificandBits % 4 = 0
  /\ TieExponent \in Int /\ DecimalPoint \in 1 .. 255

exponent_bias == 2^(ExponentBits - 1) - 1
max_biased == 2^ExponentBits - 1

has_implicit_bit(fast) == fast
num_significand_bits(fast) == IF fast THEN SignificandBits ELSE LongSignificandBits

isfinite(v) == v.biased_e # max_biased
isnan(v, fast) ==
  v.biased_e = max_biased /\ v.significand # (IF has_implicit_bit(fast) THEN 0 ELSE 2^(LongSignificandBits - 1))
is_zero(v) == v.biased_e = 0 /\ v.significand = 0

(* basic_fp::assign: v is f * 2^e, and its predecessor may be closer to it  *)
(* than its successor. A significand that holds its leading bit is not 0    *)
(* in any normal number, so no long double counts as such a power of two.   *)
basic_fp(v, fast) ==
  [f |-> v.significand + (IF v.biased_e # 0 /\ has_implicit_bit(fast) THEN 2^SignificandBits ELSE 0),
   e |-> (IF v.biased_e = 0 THEN 1 ELSE v.biased_e) - exponent_bias - num_significand_bits(fast)
           + (IF has_implicit_bit(fast) THEN 0 ELSE 1),
   predecessor_closer |-> v.significand = 0 /\ v.biased_e > 1]

(* n * 2^e * 10^k: its floor, and whether that is all.                      *)
Scaled(n, e, k) ==
  LET up == n * 5^max_of(k, 0) * 2^max_of(e + k, 0)
      down == 5^max_of(-k, 0) * 2^max_of(-(e + k), 0)
  IN  [floor |-> up \div down, is_integer |-> up % down = 0]

floor_log10_pow2(e) == (e * 315653) \div 2^20
floor_log10_pow2_minus_log10_4_over_3(e) == (e * 631305 - 261663) \div 2^21

remove_trailing_zeros(d) ==
  LET n == CHOOSE n \in 0 .. d.significand : /\ d.significand % 10^n = 0
                                             /\ d.significand % 10^(n + 1) # 0
  IN  [significand |-> d.significand \div 10^n, exponent |-> d.exponent + n]

-----------------------------------------------------------------------------
(* Dragonbox. A power of two has a shorter interval below.                  *)
is_left_endpoint_integer_shorter_interval(e) == e >= 2 /\ e <= 3

shorter_interval_case(e) ==
  LET minus_k == floor_log10_pow2_minus_log10_4_over_3(e)
      left == Scaled(2^(SignificandBits + 2) - 1, e - 2, -minus_k).floor
      zi == Scaled(2^(SignificandBits + 1) + 1, e - 1, -minus_k).floor
      xi == IF is_left_endpoint_integer_shorter_interval(e) THEN left ELSE left + 1
      round_up == (Scaled(2^SignificandBits, e + 1, -minus_k).floor + 1) \div 2
  IN  CASE (zi \div 10) * 10 >= xi ->
             remove_trailing_zeros([significand |-> zi \div 10, exponent |-> minus_k + 1])
        [] (zi \div 10) * 10 < xi /\ e = TieExponent ->
             [significand |-> round_up - (round_up % 2), exponent |-> minus_k]
        [] OTHER -> [significand |-> IF round_up < xi THEN round_up + 1 ELSE round_up,
                     exponent |-> minus_k]

(* The significand at 10^(kappa + 1) unless nothing there is in the         *)
(* interval; then at 10^kappa, the closest one.                             *)
(* Mutation: the right end is in the interval of an odd significand, too.   *)
include_endpoints_always(f) == TRUE
include_endpoints(f) == f % 2 = 0

(* z is what is above the number at 10^minus_k, r its part below the big    *)
(* divisor, deltai the length of the interval, x and y its two other ends.  *)
decimal_small(f, minus_k, significand, r, deltai, y) ==
  LET small_divisor == 10^Kappa
      dist == r - (deltai \div 2) + (small_divisor \div 2)
      near == significand * 10 + (dist \div small_divisor)
      down == /\ dist % small_divisor = 0
              /\ \/ y.floor % 2 # (dist + (small_divisor \div 2)) % 2
                 \/ y.is_integer /\ near % 2 = 1
  IN  [significand |-> IF down THEN near - 1 ELSE near, exponent |-> minus_k + Kappa]

decimal_in(f, minus_k, z, x, y, deltai) ==
  LET big_divisor == 10^(Kappa + 1)
      significand == z.floor \div big_divisor
      r == z.floor % big_divisor
      excluded == r = 0 /\ z.is_integer /\ ~include_endpoints(f)
  IN  CASE \/ r < deltai /\ ~excluded
           \/ r = deltai /\ (x.floor % 2 = 1 \/ (x.is_integer /\ include_endpoints(f))) ->
             remove_trailing_zeros([significand |-> significand, exponent |-> minus_k + Kappa + 1])
        [] r < deltai /\ excluded ->
             decimal_small(f, minus_k, significand - 1, big_divisor, deltai, y)
        [] OTHER -> decimal_small(f, minus_k, significand, r, deltai, y)

decimal_at(f, e, minus_k) ==
  decimal_in(f, minus_k, Scaled(2 * f + 1, e - 1, -minus_k), Scaled(2 * f - 1, e - 1, -minus_k),
             Scaled(2 * f, e - 1, -minus_k), Scaled(1, e, -minus_k).floor)

to_decimal(v) ==
  CASE is_zero(v) -> [significand |-> 0, exponent |-> 0]
    [] v.biased_e # 0 /\ v.significand = 0 -> shorter_interval_case(basic_fp(v, TRUE).e)
    [] v.significand # 0 ->
         decimal_at(basic_fp(v, TRUE).f, basic_fp(v, TRUE).e,
                    floor_log10_pow2(basic_fp(v, TRUE).e) - Kappa)

-----------------------------------------------------------------------------
(* Digits are a sequence of 0 .. 9; exp10 is the exponent of the last.      *)

(* One more in the last place. When there are only nines it is a one with   *)
(* zeroes, a place longer in fixed notation.                                *)
Incremented(d, fixed) ==
  LET nines == {i \in DOMAIN d : \A j \in i .. Len(d) : d[j] = 9}
      n == Cardinality(nines)
  IN  IF n < Len(d)
      THEN [digits |-> [i \in DOMAIN d |-> IF i \in nines THEN 0
                                           ELSE IF i = Len(d) - n THEN d[i] + 1 ELSE d[i]],
            more |-> 0]
      ELSE [digits |-> <<1>> \o [i \in 1 .. n - (IF fixed THEN 0 ELSE 1) |-> 0],
            more |-> IF fixed THEN 0 ELSE 1]

(* adjust_precision: digits behind the point become digits in all.          *)
TooBig(precision, exp10) == exp10 > 0 /\ precision > IntMax - exp10

CompareTwice(b, denominator) == add_compare(b, b, denominator)

(* The next digit and what is left of its place. *)
next_digit(q, denominator) == divmod_assign(multiply(q.remainder, 10), denominator)

(* Digits until the number is told from its neighbours.                     *)
shortest(first, denominator, lower, upper, even) ==
  LET digits[r \in [q : Quotients, lower : Bigint, upper : Bigint]] ==
        LET low == compare(r.q.remainder, r.lower) - even < 0
            high == add_compare(r.q.remainder, r.upper, denominator) + even > 0
            up == high /\ (low => CompareTwice(r.q.remainder, denominator) + (r.q.quotient % 2) > 0)
        IN  IF low \/ high THEN <<r.q.quotient + (IF up THEN 1 ELSE 0)>>
            ELSE <<r.q.quotient>>
                   \o digits[[q |-> next_digit(r.q, denominator), lower |-> multiply(r.lower, 10),
                               upper |-> multiply(r.upper, 10)]]
  IN  digits[[q |-> first, lower |-> lower, upper |-> upper]]

(* n digits, and what is left of the last place. *)
generate(first, denominator, n) ==
  FoldLeft(LAMBDA g, i : LET q == next_digit(g, denominator)
                         IN  [digits |-> Append(g.digits, q.quotient), remainder |-> q.remainder],
           [digits |-> <<first.quotient>>, remainder |-> first.remainder], [i \in 1 .. n - 1 |-> i])

(* The fractions of the algorithm by the signs of the two exponents: value  *)
(* = numerator / denominator * 10^exp10, and half the distances to the      *)
(* neighbours over the same denominator.                                    *)
dragon_fractions(value, closer, exp10) ==
  LET shift == IF closer THEN 2 ELSE 1
      one == IF value.e < 0 /\ exp10 < 0 THEN assign_pow10(-exp10)
             ELSE shift_left(assign(1), max_of(value.e, 0))
  IN  [lower |-> one,
       upper |-> IF closer THEN shift_left(one, 1) ELSE one,
       numerator |->
         IF value.e < 0 /\ exp10 < 0
         THEN shift_left(multiply_wide(one, value.f, 2 * BigitBits), shift)
         ELSE shift_left(assign(value.f), max_of(value.e, 0) + shift),
       denominator |->
         shift_left(assign_pow10(max_of(exp10, 0)), shift + max_of(-value.e, 0))]

(* The exponent that the estimate should have been; the sum is compared, so *)
(* a number whose upper boundary reaches the power of ten counts as above.  *)
needs_fixup(fr, even) == add_compare(fr.numerator, fr.upper, fr.denominator) + even <= 0

(* [fraction, exp], exp being the exponent of the first digit.              *)
fixed_up(fr, exp10, down, num_digits) ==
  [fraction |-> IF ~down THEN fr
                ELSE [fr EXCEPT !.numerator = multiply(@, 10),
                                !.lower = IF num_digits < 0 THEN multiply(@, 10) ELSE @,
                                !.upper = IF num_digits < 0 THEN multiply(@, 10) ELSE @],
   exp |-> IF down THEN exp10 - 1 ELSE exp10]

(* Digits that end at 10^e, rounded to even by what is left: one more, or   *)
(* the same.                                                                *)
Carrying(up, e) == [digits |-> up.digits, exp |-> e + up.more]
rounded(g, denominator, fixed, e) ==
  IF CompareTwice(g.remainder, denominator) + (Last(g.digits) % 2) > 0
  THEN Carrying(Incremented(g.digits, fixed), e)
  ELSE [digits |-> g.digits, exp |-> e]

short_digits(d, exp) == [digits |-> d, exp |-> exp - (Len(d) - 1)]

dragon_digits(fr, exp, even, fixed, shortest_, n) ==
  CASE shortest_ -> short_digits(shortest(divmod_assign(fr.numerator, fr.denominator), fr.denominator,
                                          fr.lower, fr.upper, even), exp)
    [] ~shortest_ /\ n < 0 -> [digits |-> <<0>>, exp |-> exp - (n - 1)]
    [] ~shortest_ /\ n = 0 ->
         [digits |-> IF CompareTwice(fr.numerator, multiply(fr.denominator, 10)) > 0 THEN <<1>> ELSE <<0>>,
          exp |-> exp + 1]
    [] ~shortest_ /\ n > 0 ->
         rounded(generate(divmod_assign(fr.numerator, fr.denominator), fr.denominator, n),
                 fr.denominator, fixed, exp - (n - 1))

Dragon(r, even, fixup, fixed, num_digits) ==
  dragon_digits(r.fraction, r.exp, even, fixed, num_digits < 0,
                IF fixup /\ fixed THEN num_digits + r.exp + 1 ELSE num_digits)

format_dragon(value, fixup, fixed, num_digits, exp10) ==
  LET first == dragon_fractions(value, value.predecessor_closer, exp10)
      even == IF value.f % 2 = 0 THEN 1 ELSE 0
  IN  Dragon(fixed_up(first, exp10, fixup /\ needs_fixup(first, even), num_digits),
             even, fixup, fixed, num_digits)

-----------------------------------------------------------------------------
(* The first segment: as many digits as one word holds, the last of them a  *)
(* bogus zero when there is one less.                                       *)
first_segment(v) ==
  LET fp == basic_fp(v, TRUE)
      shift == CHOOSE s \in 0 .. SignificandBits : fp.f * 2^s \in 2^SignificandBits .. 2^(SignificandBits + 1) - 1
      k == Kappa - floor_log10_pow2(fp.e - shift)
      r == Scaled(fp.f, fp.e, k)
      full == r.floor >= 10^(SegmentDigits - 1)
  IN  [value |-> IF full THEN r.floor ELSE r.floor * 10, has_more |-> ~r.is_integer,
       digits |-> IF full THEN SegmentDigits ELSE SegmentDigits - 1, exp |-> -k]

(* The digits of a segment that are printed, rounded to even by the rest of *)
(* it and by whether there is more. Mutation: what is not in the segment is *)
(* forgotten.                                                               *)
segment_rounds_up_alone(kept, rest, unit_, has_more) ==
  2 * rest > unit_ \/ (2 * rest = unit_ /\ kept % 2 = 1)
segment_rounds_up(kept, rest, unit_, has_more) ==
  2 * rest > unit_ \/ (2 * rest = unit_ /\ (kept % 2 = 1 \/ has_more))

segment_digits(seg, precision, fixed) ==
  LET unit_ == 10^(SegmentDigits - precision)
      kept == seg.value \div unit_
      digits == [i \in 1 .. precision |-> (kept \div 10^(precision - i)) % 10]
      exp == seg.exp + seg.digits - precision
  IN  CASE precision < 0 -> [digits |-> <<>>, exp |-> seg.exp + seg.digits]
        [] precision = 0 ->
             [digits |-> <<IF 2 * seg.value > 10^SegmentDigits
                              \/ (2 * seg.value = 10^SegmentDigits /\ seg.has_more) THEN 1 ELSE 0>>,
              exp |-> seg.exp + seg.digits]
        [] precision > 0 ->
             IF segment_rounds_up(kept, seg.value % unit_, unit_, seg.has_more)
             THEN Carrying(Incremented(digits, fixed), exp)
             ELSE [digits |-> digits, exp |-> exp]

(* An estimate of the exponent from the bits, at most one too large.        *)
estimated_exp(fp) ==
  LET j == fp.e + bsr(fp.f)
  IN  IF j = 0 THEN 0 ELSE floor_log10_pow2(j) + 1

Without_trailing_zeros(d) ==
  LET n == CHOOSE n \in 0 .. Len(d.digits) : /\ n = 0 \/ d.digits[n] # 0
                                             /\ \A i \in n + 1 .. Len(d.digits) : d.digits[i] = 0
  IN  [digits |-> SubSeq(d.digits, 1, n), exp |-> d.exp + (Len(d.digits) - n)]

(* format_float gives the digits and the exponent of the last one.          *)
digits_wanted(fp, seg, fast, wanted, fixed) ==
  IF fast /\ seg.digits > wanted THEN segment_digits(seg, wanted, fixed)
  ELSE format_dragon(fp, ~fast, fixed, min_of(wanted, MaxDoubleDigits),
                     IF fast THEN seg.exp + seg.digits - 1 ELSE estimated_exp(fp))

significant_digits(v, seg, fast, precision, fixed) ==
  digits_wanted(basic_fp(v, fast), seg, fast,
                IF fast /\ fixed THEN precision + seg.exp + seg.digits ELSE precision, fixed)

format_float(v, fast, precision, specs) ==
  LET fixed == presented(specs) = presentation_type.fixed
      Trimmed(d) == IF ~fixed /\ get(specs, alternate_field) = 0 THEN Without_trailing_zeros(d) ELSE d
  IN  CASE is_zero(v) /\ (precision <= 0 \/ ~fixed) -> [digits |-> <<0>>, exp |-> 0]
        [] is_zero(v) /\ precision > 0 /\ fixed ->
             [digits |-> [i \in 1 .. precision |-> 0], exp |-> -precision]
        [] OTHER -> Trimmed(significant_digits(v, first_segment(v), fast, precision, fixed))

(* The exponent that adjust_precision is called with. *)
adjusted_by(v, fast) ==
  LET seg == first_segment(v)
      fp == basic_fp(v, fast)
      fr == dragon_fractions(fp, fp.predecessor_closer, estimated_exp(fp))
  IN  IF fast THEN seg.exp + seg.digits
      ELSE estimated_exp(fp) + (IF needs_fixup(fr, IF fp.f % 2 = 0 THEN 1 ELSE 0) THEN 0 ELSE 1)

-----------------------------------------------------------------------------
(* Layouts. size is computed before anything is written, apart from it.     *)
nan_text == << <<110, 97, 110>>, <<78, 65, 78>> >>
inf_text == << <<105, 110, 102>>, <<73, 78, 70>> >>

(* Infinities and NaN are not filled with zeroes. *)
write_nonfinite(v, fast, specs, s) ==
  LET text == (IF isnan(v, fast) THEN nan_text ELSE inf_text)[get(specs, uppercase_field) + 1]
      filled == IF fill(specs) = <<"0">> THEN set_fill(specs, <<" ">>) ELSE specs
  IN  write_padded("left", filled, Len(getsign(s) \o text), getsign(s) \o text)

zeros(n) == Copies(n, <<ch.zero>>)

compute_exp_size(exp) ==
  LET abs_exp == IF exp >= 0 THEN exp ELSE -exp
  IN  IF abs_exp < 100 THEN 4 ELSE IF abs_exp >= 1000 THEN 6 ELSE 5

write_exponent(exp) ==
  LET uexp == IF exp < 0 THEN -exp ELSE exp
  IN  <<IF exp < 0 THEN ch.minus ELSE ch.plus>>
        \o (IF uexp >= 1000 THEN <<ch.zero + (uexp \div 1000)>> ELSE <<>>)
        \o (IF uexp >= 100 THEN <<ch.zero + ((uexp \div 100) % 10)>> ELSE <<>>)
        \o digits2(uexp % 100)

(* digit_grouping(loc, localized). *)
grouped(digits, specs) == IF get(specs, localized_field) = 1 THEN apply(digits) ELSE digits
separators_in(n, specs) == IF get(specs, localized_field) = 1 THEN count_separators(n) ELSE 0

use_fixed(exp, exp_upper) == exp >= -4 /\ exp < exp_upper

(* A decimal f is [digits, exponent]: bytes, and the exponent of the last.  *)
write_fixed(f, point, specs, s) ==
  LET size == Len(f.digits)
      exp == f.exponent + size
      alt == get(specs, alternate_field) = 1
      behind == IF presented(specs) = presentation_type.fixed THEN specs.precision - exp
                ELSE max_of(specs.precision - exp, 0)
      padded == IF alt THEN max_of(specs.precision - size, 0) ELSE 0
      before == IF size = 0 /\ specs.precision >= 0 /\ specs.precision < -exp
                THEN specs.precision ELSE -exp
      pointy == before # 0 \/ size # 0 \/ alt
  IN  CASE f.exponent >= 0 ->   \* 1234e5 -> 123400000[.0+]
             write_padded("right", specs,
               size + Len(getsign(s)) + f.exponent + (IF alt THEN 1 + max_of(behind, 0) ELSE 0)
                 + separators_in(exp, specs),
               getsign(s) \o grouped(f.digits \o zeros(f.exponent), specs)
                 \o (IF alt THEN <<point>> \o zeros(max_of(behind, 0)) ELSE <<>>))
        [] f.exponent < 0 /\ exp > 0 ->   \* 1234e-2 -> 12.34[0+]
             write_padded("right", specs,
               size + Len(getsign(s)) + 1 + padded + separators_in(exp, specs),
               getsign(s) \o grouped(SubSeq(f.digits, 1, exp), specs) \o <<point>>
                 \o SubSeq(f.digits, exp + 1, size) \o zeros(padded))
        [] OTHER ->   \* 1234e-6 -> 0.001234
             write_padded("right", specs,
               size + Len(getsign(s)) + 1 + (IF pointy THEN 1 ELSE 0) + before,
               getsign(s) \o <<ch.zero>>
                 \o (IF pointy THEN <<point>> \o zeros(before) \o f.digits ELSE <<>>))

(* One digit, the point unless nothing follows, the others, the exponent.   *)
write_scientific(f, point, num_zeros, specs, s) ==
  LET exp == f.exponent + Len(f.digits) - 1
      pointed == Len(f.digits) # 1 \/ get(specs, alternate_field) = 1
  IN  write_padded("right", specs,
        Len(f.digits) + Len(getsign(s)) + num_zeros + (IF pointed THEN 1 ELSE 0)
          + compute_exp_size(exp),
        getsign(s) \o SubSeq(f.digits, 1, 1) \o (IF pointed THEN <<point>> ELSE <<>>)
          \o Tail(f.digits) \o zeros(num_zeros)
          \o <<IF upper_case(specs) THEN ch.E ELSE ch.e>> \o write_exponent(exp))

(* Mutation: without a precision every number is written in full.           *)
do_write_float_full(f, specs, s) ==
  write_fixed(f, ch.dot, specs, s)
do_write_float(f, specs, s) ==
  LET point == IF get(specs, localized_field) = 1 THEN DecimalPoint ELSE ch.dot
      exp == f.exponent + Len(f.digits) - 1
      num_zeros == IF get(specs, alternate_field) = 1
                   THEN max_of(specs.precision - Len(f.digits), 0) ELSE 0
  IN  IF \/ presented(specs) = presentation_type.fixed
         \/ /\ presented(specs) # presentation_type.exp
            /\ use_fixed(exp, IF specs.precision > 0 THEN specs.precision ELSE ExpUpper)
      THEN write_fixed(f, point, specs, s)
      ELSE write_scientific(f, point, num_zeros, specs, s)

(* Hexadecimal: one digit before the point, rounded half up at a precision. *)
(* The exponent is corrected by the leading digit: 1 or 0 of a format with  *)
(* an implicit bit, 8 .. 15 of a normal long double, which may overflow     *)
(* into another digit when it is rounded.                                   *)
num_xdigits(fast) == (num_significand_bits(fast) + (IF has_implicit_bit(fast) THEN 1 ELSE 0) + 3) \div 4

(* [f, e] for so many digits behind the point, or all of them.              *)
hexfloat_unchecked(f, e, n, precision, fast) ==
  LET shift == n - 1 - precision - 1
      inc_ == 16^(shift + 1)
  IN  [f |-> IF (f \div 16^shift) % 16 >= 8 THEN ((f + inc_) \div inc_) * inc_ ELSE f, e |-> e]
hexfloat_rounded(f, e, n, precision, fast) ==
  LET up == hexfloat_unchecked(f, e, n, precision, fast)
  IN  IF ~has_implicit_bit(fast) /\ (up.f \div 2^num_significand_bits(fast)) % 2 = 1
      THEN [f |-> up.f \div 16, e |-> e + 4] ELSE up

format_hexfloat(v, fast, specs) ==
  LET fp == basic_fp(v, fast)
      n == num_xdigits(fast)
      leading_xdigit == (fp.f \div 16^(n - 1)) % 16
      value_e == fp.e + num_significand_bits(fast) - (IF has_implicit_bit(fast) THEN 0 ELSE 1)
                   - (IF leading_xdigit > 1 THEN bsr(leading_xdigit) ELSE 0)
      cut == specs.precision >= 0 /\ n - 1 > specs.precision
      r == IF cut THEN hexfloat_rounded(fp.f, value_e, n, specs.precision, fast)
           ELSE [f |-> fp.f, e |-> value_e]
      xdigits == [i \in 1 .. n |-> digit_char((r.f \div 16^(n - i)) % 16, upper_case(specs))]
      printed == IF cut THEN specs.precision ELSE n - 1
      kept == CHOOSE k \in 0 .. printed : /\ k = 0 \/ xdigits[k + 1] # ch.zero
                                          /\ \A i \in k + 1 .. printed : xdigits[i + 1] = ch.zero
      X == IF upper_case(specs) THEN ch.X ELSE ch.x
  IN  <<ch.zero, X, xdigits[1]>>
        \o (IF get(specs, alternate_field) = 1 \/ kept > 0 \/ kept < specs.precision
            THEN <<ch.dot>> ELSE <<>>)
        \o SubSeq(xdigits, 2, kept + 1) \o zeros(max_of(specs.precision - kept, 0))
        \o <<X - 8, IF r.e < 0 THEN ch.minus ELSE ch.plus>>
        \o decimal_digits[IF r.e < 0 THEN -r.e ELSE r.e]

-----------------------------------------------------------------------------
(* write of a floating-point number with specifiers. *)
default_precision == 6

float_sign(v, specs) == IF v.negative THEN sign.minus ELSE get(specs, sign_field)

float_precision(specs) ==
  CASE specs.precision < 0 ->
         IF presented(specs) # presentation_type.none THEN default_precision ELSE specs.precision
    [] specs.precision >= 0 -> specs.precision

(* When the exception "number is too big" is thrown.                        *)
float_error(v, fast, specs) ==
  LET precision == float_precision(specs)
  IN  IF /\ isfinite(v)
         /\ \/ presented(specs) = presentation_type.exp /\ precision = IntMax
            \/ /\ presented(specs) = presentation_type.fixed /\ ~is_zero(v)
               /\ TooBig(precision, adjusted_by(v, fast))
      THEN "number_is_too_big" ELSE "none"

decimal_text(d) == [digits |-> decimal_digits[d.significand], exponent |-> d.exponent]
digits_text(d) == [digits |-> [i \in DOMAIN d.digits |-> ch.zero + d.digits[i]], exponent |-> d.exp]

(* Behind the sign s: shortest, or with a precision, which is 1 more for an *)
(* exponent and at least 1. Unless it was given as 0, `#` is implied for    *)
(* `e` and `f`. *)
write_precise(v, fast, specs, precision, s) ==
  do_write_float(digits_text(format_float(v, fast, precision, specs)),
                 [specs EXCEPT !.precision = precision], s)
write_finite(v, fast, specs, s) ==
  CASE presented(specs) = presentation_type.hexfloat ->
         write_bytes("right", getsign(s) \o format_hexfloat(v, fast, specs), specs)
    [] presented(specs) = presentation_type.none /\ specs.precision < 0 /\ fast ->
         do_write_float(decimal_text(to_decimal(v)), specs, s)
    [] OTHER ->
         write_precise(v, fast,
           IF presented(specs) \in {presentation_type.exp, presentation_type.fixed}
              /\ specs.precision # 0 THEN set(specs, alternate_field, 1) ELSE specs,
           CASE presented(specs) = presentation_type.exp -> float_precision(specs) + 1
             [] presented(specs) = presentation_type.fixed -> float_precision(specs)
             [] OTHER -> IF float_precision(specs) = 0 THEN 1 ELSE float_precision(specs),
           s)

(* A zero pads behind the sign. *)
write_signed(v, fast, specs, s, split_) ==
  (IF split_ THEN getsign(s) ELSE <<>>)
    \o write_finite(v, fast, IF split_ THEN [specs EXCEPT !.width = max_of(@ - 1, 0)] ELSE specs,
                    IF split_ THEN sign.none ELSE s)
write_float(v, fast, specs) ==
  IF ~isfinite(v) THEN write_nonfinite(v, fast, specs, float_sign(v, specs))
  ELSE write_signed(v, fast, specs, float_sign(v, specs),
                    get(specs, align_field) = align.numeric /\ float_sign(v, specs) # sign.none)

(* And without: what is not fixed is written by hand.                       *)
write_shortest(f, s) ==
  IF use_fixed(f.exponent + Len(f.digits) - 1, ExpUpper)
  THEN write_fixed(f, ch.dot, format_specs, s)
  ELSE write_scientific(f, ch.dot, 0, format_specs, s)
write_float_default(v, fast) ==
  CASE ~fast -> write_float(v, fast, format_specs)
    [] fast /\ ~isfinite(v) -> write_nonfinite(v, fast, format_specs, float_sign(v, format_specs))
    [] OTHER -> write_shortest(decimal_text(to_decimal(v)), float_sign(v, format_specs))

=============================================================================

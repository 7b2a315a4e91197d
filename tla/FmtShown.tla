------------------------------ MODULE FmtShown ------------------------------
(***************************************************************************)
(* What an argument looks like when it is written, said of the bytes in    *)
(* the buffer: which number its digits denote, whether the digits are the  *)
(* nearest ones, what was cut from a string, how the padding lies. Each    *)
(* definition reads the bytes; none of them writes.                        *)
(***************************************************************************)
EXTENDS FmtParse

Only == out[1].arg
Specs_ == IF "specs" \in DOMAIN out[1] THEN out[1].specs ELSE format_specs
presentation_is(names) == presented(Specs_) \in {presentation_type[n] : n \in names}
flag(f) == get(Specs_, f) = 1

(* The buffer is content between l and r fills, content being c columns     *)
(* wide: no padding beyond the width, and on the side of the alignment.     *)
PaddedAs(b, content, c, default, l, r) ==
  LET a == IF get(Specs_, align_field) = align.none THEN default ELSE get(Specs_, align_field)
  IN  /\ b = Copies(l, units(fill(Specs_))) \o content \o Copies(r, units(fill(Specs_)))
      /\ l + r = max_of(Specs_.width - c, 0)
      /\ CASE a = align.left -> l = 0
           [] a = align.center -> l = (l + r) \div 2
           [] OTHER -> r = 0

Pads == {<<l, r>> \in (0 .. Specs_.width) \X (0 .. Specs_.width) : l + r <= Specs_.width}
(* Some content for which P holds is padded as the specifiers say.          *)
Shows(b, Content(_), Columns(_), default) ==
  \E lr \in Pads :
    LET n == lr[1] * Len(units(fill(Specs_)))
        m == Len(b) - lr[2] * Len(units(fill(Specs_)))
        content == SubSeq(b, n + 1, m)
    IN  n <= m /\ Content(content) /\ PaddedAs(b, content, Columns(content), default, lr[1], lr[2])

-----------------------------------------------------------------------------
(* Reading numbers. *)
DigitOf(byte_) == CASE byte_ \in 48 .. 57 -> byte_ - 48
                    [] byte_ \in 97 .. 102 -> byte_ - 87
                    [] byte_ \in 65 .. 70 -> byte_ - 55
                    [] OTHER -> 99
IsNumeral(s, b) == \A i \in DOMAIN s : DigitOf(s[i]) < b
NumberIn(s, b) == FoldLeft(LAMBDA n, c : n * b + DigitOf(c), 0, s)
IsText(s, lower, upper_) == s = (IF flag(uppercase_field) THEN upper_ ELSE lower)

SignOf(negative) == IF negative THEN <<45>>
                    ELSE IF get(Specs_, sign_field) = sign.plus THEN <<43>>
                    ELSE IF get(Specs_, sign_field) = sign.space THEN <<32>> ELSE <<>>

StartsWith(s, t) == Len(t) <= Len(s) /\ SubSeq(s, 1, Len(t)) = t
Without(s, t) == SubSeq(s, Len(t) + 1, Len(s))

RECURSIVE Regrouped(_, _)
(* Groups from the right: the k-th has as many digits as the locale says.   *)
Regrouped(digits, k) ==
  LET size == IF Grouping = <<>> THEN 0
              ELSE IF k <= Len(Grouping) THEN Grouping[k] ELSE Grouping[Len(Grouping)]
      n == Len(digits)
  IN  IF size \in {0, 127} \/ n <= size THEN digits
      ELSE Regrouped(SubSeq(digits, 1, n - size), k + 1) \o <<Separator>>
             \o SubSeq(digits, n - size + 1, n)
Ungrouped(s) == SelectSeq(s, LAMBDA c : c # Separator)
RightlyGrouped(s) == s = (IF flag(localized_field) THEN Regrouped(Ungrouped(s), 1) ELSE Ungrouped(s))

numeric == get(Specs_, align_field) = align.numeric

-----------------------------------------------------------------------------
(* Integers, and what is shown as one. *)
IntegerBase == IF presentation_is({"hex"}) THEN 16 ELSE IF presentation_is({"oct"}) THEN 8
               ELSE IF presentation_is({"bin"}) THEN 2 ELSE 10

IntegerPrefix(n) ==
  IF ~flag(alternate_field) THEN <<>>
  ELSE CASE IntegerBase = 16 -> IF flag(uppercase_field) THEN <<48, 88>> ELSE <<48, 120>>
         [] IntegerBase = 2 -> IF flag(uppercase_field) THEN <<48, 66>> ELSE <<48, 98>>
         [] IntegerBase = 8 -> IF n = 0 THEN <<>> ELSE <<48>>
         [] OTHER -> <<>>

(* Sign, prefix and digits; zeroes in front of these only to reach the      *)
(* width. *)
IntegerContent(v, c) ==
  LET n == IF v < 0 THEN -v ELSE v
      front == SignOf(v < 0) \o IntegerPrefix(n)
      digits == Ungrouped(Without(c, front))
      padded == numeric /\ ~flag(localized_field) /\ Len(c) = Specs_.width
  IN  /\ StartsWith(c, front)
      /\ digits # <<>> /\ IsNumeral(digits, IntegerBase) /\ NumberIn(digits, IntegerBase) = n
      /\ \A i \in DOMAIN digits : digits[i] > 57 => flag(uppercase_field) = (digits[i] < 97)
      /\ digits[1] = 48 => (Len(digits) = 1 \/ padded)
      /\ (numeric /\ ~flag(localized_field)) => Len(c) >= Specs_.width
      /\ RightlyGrouped(Without(c, front))

-----------------------------------------------------------------------------
(* UTF-8 by its definition: the bytes of each scalar value.                 *)
Encoding(cp) ==
  CASE cp < 128 -> <<cp>>
    [] cp \in 128 .. 2047 -> <<192 + (cp \div 64), 128 + (cp % 64)>>
    [] cp \in 2048 .. 65535 -> <<224 + (cp \div 4096), 128 + ((cp \div 64) % 64), 128 + (cp % 64)>>
    [] cp \in 65536 .. 1114111 ->
         <<240 + (cp \div 262144), 128 + ((cp \div 4096) % 64), 128 + ((cp \div 64) % 64),
           128 + (cp % 64)>>
IsScalar(cp) == cp \in 0 .. 55295 \/ cp \in 57344 .. 1114111

(* The scalar values whose bytes stand at p: at most one.                   *)
ScalarsAt(s, i) ==
  LET bits(k) == s[i + k] % 64
      cands == (IF s[i] < 128 THEN {s[i]} ELSE {})
        \union (IF i + 1 <= Len(s) THEN {(s[i] % 32) * 64 + bits(1)} ELSE {})
        \union (IF i + 2 <= Len(s) THEN {(s[i] % 16) * 4096 + bits(1) * 64 + bits(2)} ELSE {})
        \union (IF i + 3 <= Len(s)
                THEN {(s[i] % 8) * 262144 + bits(1) * 4096 + bits(2) * 64 + bits(3)} ELSE {})
  IN  {cp \in cands : IsScalar(cp) /\ StartsWith(SubSeq(s, i, Len(s)), Encoding(cp))}

RECURSIVE CharactersFrom(_, _)
(* The characters of s: scalar values, and single bytes that are none.      *)
CharactersFrom(s, i) ==
  IF i > Len(s) THEN <<>>
  ELSE IF ScalarsAt(s, i) = {}
  THEN <<[cp |-> invalid_code_point, sv |-> <<s[i]>>]>> \o CharactersFrom(s, i + 1)
  ELSE LET cp == CHOOSE c \in ScalarsAt(s, i) : TRUE
       IN  <<[cp |-> cp, sv |-> Encoding(cp)]>> \o CharactersFrom(s, i + Len(Encoding(cp)))
Characters(s) == CharactersFrom(s, 1)

ColumnsOf(s) == FoldLeft(LAMBDA n, c : n + display_width_of(c.cp), 0, Characters(s))
Bytes(cs) == FlattenSeq([i \in DOMAIN cs |-> cs[i].sv])
Limit == IF Specs_.precision < 0 THEN 1000 ELSE Specs_.precision

(* As many whole characters of s as the precision has columns for.          *)
StringContent(s, c) ==
  LET cs == Characters(s)
  IN  \E n \in 0 .. Len(cs) :
        /\ c = Bytes(SubSeq(cs, 1, n)) /\ ColumnsOf(c) <= Limit
        /\ n < Len(cs) => ColumnsOf(Bytes(SubSeq(cs, 1, n + 1))) > Limit

(* Escapes, read back: \xHH is a byte or the character of that number.      *)
HexIn(e, letter, n) == Len(e) = n + 2 /\ e[2] = letter /\ IsNumeral(SubSeq(e, 3, Len(e)), 16)
ReadsEscape(e, c) ==
  LET number == NumberIn(SubSeq(e, 3, Len(e)), 16)
  IN  \/ e = <<92, 110>> /\ c.cp = 10
      \/ e = <<92, 114>> /\ c.cp = 13
      \/ e = <<92, 116>> /\ c.cp = 9
      \/ e \in {<<92, 34>>, <<92, 39>>, <<92, 92>>} /\ c.cp = e[2]
      \/ HexIn(e, 120, 2) /\ (number = c.cp \/ (c.cp = invalid_code_point /\ <<number>> = c.sv))
      \/ HexIn(e, 117, 4) /\ number = c.cp
      \/ HexIn(e, 85, 8) /\ number = c.cp

RECURSIVE ReadsQuoted(_, _)
(* t is the characters cs, each itself or an escape that means it.          *)
ReadsQuoted(t, cs) ==
  IF cs = <<>> THEN t = <<>>
  ELSE \/ /\ StartsWith(t, Head(cs).sv) /\ Head(cs).cp \notin {34, 92, 127} \union 0 .. 31
          /\ Head(cs).cp # invalid_code_point
          /\ ReadsQuoted(Without(t, Head(cs).sv), Tail(cs))
       \/ \E n \in {2, 4, 6, 10} : /\ n <= Len(t) /\ t[1] = 92
                                   /\ ReadsEscape(SubSeq(t, 1, n), Head(cs))
                                   /\ ReadsQuoted(SubSeq(t, n + 1, Len(t)), Tail(cs))

Between(t, q) == Len(t) >= 2 /\ t[1] = q /\ t[Len(t)] = q
DebugString(s, t) == Between(t, 34) /\ ReadsQuoted(SubSeq(t, 2, Len(t) - 1), Characters(s))

-----------------------------------------------------------------------------
(* Decimals: n * 10^e compared with m * 2^b, as -1, 0, 1.                    *)
Compare(n, e, m, b) ==
  LET left == n * 5^max_of(e, 0) * 2^max_of(e - b, 0)
      right == m * 5^max_of(-e, 0) * 2^max_of(b - e, 0)
  IN  IF left < right THEN -1 ELSE IF left > right THEN 1 ELSE 0

(* v is m * 2^b; a long double has its leading bit in the significand.      *)
Value(v) ==
  IF Only.type = "long_double_type"
  THEN [m |-> v.significand, b |-> max_of(v.biased_e, 1) - exponent_bias - LongSignificandBits + 1]
  ELSE [m |-> v.significand + (IF v.biased_e = 0 THEN 0 ELSE 2^SignificandBits),
        b |-> max_of(v.biased_e, 1) - exponent_bias - SignificandBits]

(* n * 10^e is v rounded to a multiple of 10^e, to even when it is between. *)
Rounded(n, e, v) ==
  LET up == Compare(2 * n + 1, e, Value(v).m, Value(v).b + 1)
      down == IF n = 0 THEN -1 ELSE Compare(2 * n - 1, e, Value(v).m, Value(v).b + 1)
  IN  /\ up >= 0 /\ down <= 0
      /\ (up = 0 \/ down = 0) => n % 2 = 0

(* Above v and not beyond half way to its successor is a power of ten.      *)
BelowPower(v) ==
  LET m == Value(v).m
      b == Value(v).b
      \* In units of half the distance.
      AtPower(n, d) == n > 2 * m * d /\ (n < (2 * m + 1) * d \/ (n = (2 * m + 1) * d /\ m % 2 = 0))
  IN  \/ b >= 1 /\ \E k \in 1 .. 5 : AtPower(10^k, 2^(b - 1))
      \/ b < 1 /\ \E k \in 1 .. 6 : AtPower(2^(1 - b), 10^k)

(* n * 10^e lies where everything is read back as v: half way to its        *)
(* neighbours, ends included for an even significand. A power of two as a   *)
(* long double is taken to be as far from its predecessor as from its       *)
(* successor, which is twice too far: not all of this is read back.         *)
ReadsBack(n, e, v) ==
  LET x == Value(v)
      closer == v.significand = 0 /\ v.biased_e > 1
      low == Compare(n, e, IF closer THEN 4 * x.m - 1 ELSE 2 * x.m - 1, IF closer THEN x.b - 2 ELSE x.b - 1)
      high == Compare(n, e, 2 * x.m + 1, x.b - 1)
  IN  IF x.m % 2 = 0 THEN low >= 0 /\ high <= 0 ELSE low > 0 /\ high < 0

(* No decimal with fewer digits is read back, and none with as many is      *)
(* closer.                                                                  *)
Shortest(n, e, v) ==
  /\ ReadsBack(n, e, v) /\ n % 10 # 0
  /\ ~ReadsBack(n \div 10, e + 1, v) /\ ~ReadsBack(n \div 10 + 1, e + 1, v)
  /\ \A m \in {n - 1, n + 1} :
       ReadsBack(m, e, v) =>
         LET mid == Compare(n + m, e, Value(v).m, Value(v).b + 1)
         IN  (m < n => mid <= 0) /\ (m > n => mid >= 0) /\ (mid = 0 => n % 2 = 0)

(* A written number taken apart: digits before and behind the point, and    *)
(* the exponent. *)
Point == IF flag(localized_field) THEN DecimalPoint ELSE 46
Exponents(t) == {i \in DOMAIN t : t[i] \in {101, 69}}
Taken(t) ==
  LET epos == IF Exponents(t) = {} THEN Len(t) + 1 ELSE CHOOSE i \in Exponents(t) : TRUE
      points == {i \in 1 .. epos - 1 : t[i] = Point}
      ppos == IF points = {} THEN epos ELSE CHOOSE i \in points : TRUE
  IN  [before |-> SubSeq(t, 1, ppos - 1), point |-> points # {},
       behind |-> SubSeq(t, ppos + 1, epos - 1),
       exp |-> SubSeq(t, epos + 1, Len(t))]
IsExponent(t) == /\ Len(t) >= 3 /\ t[1] \in {43, 45} /\ IsNumeral(Tail(t), 10)
                 /\ t[2] = 48 => Len(t) = 3
ExponentIn(t) == IF t = <<>> THEN 0
                 ELSE IF t[1] = 45 THEN -NumberIn(Tail(t), 10) ELSE NumberIn(Tail(t), 10)

(* The number that digits denote, the last one for 10^e, without the zeroes *)
(* at its end.                                                              *)
Significant(digits, e) ==
  LET n == CHOOSE n \in 0 .. Len(digits) : /\ n = 0 \/ digits[n] # 48
                                           /\ \A i \in n + 1 .. Len(digits) : digits[i] = 48
  IN  [n |-> NumberIn(SubSeq(digits, 1, n), 10), e |-> e + Len(digits) - n]
(* Such a number is the nearest multiple of 10^e to v.                      *)
Nearest(s, e, v) == \/ s.n = 0 /\ is_zero(v)
                    \/ s.e >= e /\ Compare(s.n, s.e, Value(v).m, Value(v).b) = 0
                    \/ s.e >= e /\ Rounded(IF s.n = 0 THEN 0 ELSE s.n * 10^(s.e - e), e, v)
RECURSIVE Length10(_)
Length10(n) == IF n < 10 THEN 1 ELSE 1 + Length10(n \div 10)

(* The digits and layout of a finite number, t without its sign.            *)
FloatText(v, t) ==
  LET k == Taken(t)
      digits == Ungrouped(k.before) \o k.behind
      last == ExponentIn(k.exp) - Len(k.behind)
      s == Significant(digits, last)
      scientific == k.exp # <<>>
      first == s.e + Length10(s.n) - 1
      given == IF Specs_.precision >= 0 THEN Specs_.precision
           ELSE IF presentation_is({"none"}) THEN -1 ELSE 6
      P == IF given = 0 THEN 1 ELSE given
      zero == is_zero(v)
  IN  /\ IsNumeral(digits, 10) /\ k.before # <<>> /\ RightlyGrouped(k.before)
      /\ scientific => IsExponent(k.exp) /\ Len(k.before) = 1
      /\ k.before[1] = 48 => (Len(k.before) = 1 /\ (scientific => zero))
      /\ scientific => flag(uppercase_field) = (69 \in {t[i] : i \in DOMAIN t})
      /\ k.point <=> (k.behind # <<>> \/ flag(alternate_field))
      /\ CASE presentation_is({"fixed"}) -> ~scientific /\ Len(k.behind) = given /\ Nearest(s, last, v)
           [] presentation_is({"exp"}) -> scientific /\ Len(k.behind) = given /\ Nearest(s, last, v)
           [] ~presentation_is({"fixed", "exp"}) ->
                /\ scientific = (~zero /\ (first < -4 \/ first >= (IF given < 0 THEN ExpUpper ELSE P)))
                /\ (k.behind # <<>> /\ (~flag(alternate_field) \/ given < 0)) => Last(k.behind) # 48
                /\ zero => s.n = 0
                /\ (given < 0 /\ ~zero) => Shortest(s.n, s.e, v)
                /\ (given >= 0 /\ ~zero) => Nearest(s, first - P + 1, v)
                /\ (given >= 0 /\ flag(alternate_field)) => last = (IF zero THEN 0 ELSE first) - P + 1

(* Hexadecimal: h * 2^x, cut to the precision. *)
HexText(v, t) ==
  LET ppos == CHOOSE i \in DOMAIN t : t[i] \in {112, 80}
      points == {i \in DOMAIN t : t[i] = 46}
      mantissa == SelectSeq(SubSeq(t, 3, ppos - 1), LAMBDA c : c # 46)
      behind == IF points = {} THEN 0 ELSE ppos - 1 - (CHOOSE i \in points : TRUE)
      h == NumberIn(mantissa, 16)
      x == ExponentIn(SubSeq(t, ppos + 1, Len(t))) - 4 * behind
      m == Value(v).m
      b == Value(v).b
      \* 2 * h +- 1 units of 2^x against 2 * m of 2^b.
      left(n) == n * 2^max_of(x - b, 0)
      right == 2 * m * 2^max_of(b - x, 0)
  IN  /\ Len(t) >= 6 /\ \E i \in 4 .. Len(t) - 2 : t[i] \in {112, 80}
      /\ IsText(SubSeq(t, 1, 2), <<48, 120>>, <<48, 88>>) /\ IsNumeral(mantissa, 16)
      /\ Len(mantissa) - behind = 1
      /\ t[ppos + 1] \in {43, 45} /\ IsNumeral(SubSeq(t, ppos + 2, Len(t)), 10)
      /\ IF Specs_.precision < 0
         THEN left(2 * h) = right /\ (behind > 0 => mantissa[Len(mantissa)] # 48)
         ELSE behind = Specs_.precision /\ left(2 * h + 1) >= right /\ left(2 * h - 1) <= right

(* A zero pads between the sign and the digits.                             *)
FloatShown(b, v, Body(_, _)) ==
  LET s == SignOf(v.negative)
      Content(c) == StartsWith(c, s) /\ Body(v, Without(c, s))
  IN  IF numeric
      THEN \E n \in 0 .. Specs_.width :
             LET t == SubSeq(b, Len(s) + n + 1, Len(b))
             IN  /\ b = s \o Copies(n, <<48>>) \o t /\ Body(v, t)
                 /\ n = max_of(Specs_.width - Len(s) - Len(t), 0)
      ELSE Shows(b, Content, Len, align.right)

=============================================================================

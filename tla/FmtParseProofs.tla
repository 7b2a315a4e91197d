--------------------------- MODULE FmtParseProofs ---------------------------
(***************************************************************************)
(* What is proved of the parser of module FmtParse, for every format       *)
(* string and every list of arguments: its words stay in range, and the    *)
(* checker and vformat_to agree. The second is a statement about two       *)
(* passes over a string. They meet in a function, StepOf, that says how    *)
(* the parser reads on from a configuration and whether the checker        *)
(* objects; the invariant keeps the set of configurations that the checker *)
(* went through, and the run moves within it. Where the checker refuses a  *)
(* width or precision for its type and the run reads on, the run is doomed *)
(* to fail when the field is written.                                      *)
(***************************************************************************)
EXTENDS FmtParse, FmtSpecsProofs

(* Where the parser is, apart from what it writes.                          *)
Config == [pc |-> pc, p |-> p, n |-> next_arg_id, id |-> arg_id, specs |-> specs,
           cs |-> current_state]

First_config == [pc |-> "text", p |-> 1, n |-> 0, id |-> 0, specs |-> format_specs, cs |-> 0]

Reads(ok, c) == [ok |-> ok, next |-> c]

(* A replacement field: r is what the context said of its id, q the         *)
(* position behind it.                                                      *)
FieldStep(c, r, q) ==
  Reads(r.err = "none" /\ at(q) \in {close, ":"},
        IF at(q) = close THEN [c EXCEPT !.p = q + 1, !.n = r.n, !.id = r.id]
        ELSE [c EXCEPT !.pc = "specs", !.p = q + 1, !.n = r.n, !.id = r.id,
                       !.specs = format_specs, !.cs = 0])

TextStep(c) ==
  LET id == parse_arg_id(c.p + 1)
  IN  CASE at(c.p) \notin {open, close, "END"} -> Reads(TRUE, [c EXCEPT !.p = c.p + 1])
        [] at(c.p) = close -> Reads(at(c.p + 1) = close, [c EXCEPT !.p = c.p + 2])
        [] at(c.p) = "END" -> Reads(TRUE, [c EXCEPT !.pc = "done"])
        [] at(c.p) = open /\ at(c.p + 1) = open -> Reads(TRUE, [c EXCEPT !.p = c.p + 2])
        [] at(c.p) = open /\ at(c.p + 1) \in {close, ":"} ->
             FieldStep(c, automatic("check", c.n), c.p + 1)
        [] at(c.p) = open /\ at(c.p + 1) \notin {open, close, ":", "END"} /\ id.kind = "index" ->
             FieldStep(c, check_arg_id("check", c.n, id.id), id.p)
        [] OTHER -> Reads(FALSE, c)

Type_of(c) == args[c.id + 1].type

Char(c) == IF c.cs = 0 /\ parse_align(at(c.p + 1)) # align.none THEN "NUL" ELSE at(c.p)

GoStep(c, s, q, sp, n, valid) ==
  Reads(c.cs < s /\ valid, [c EXCEPT !.p = q, !.cs = s, !.specs = sp, !.n = n])

WidthStep(c) ==
  LET r == parse_dynamic_spec("check", c.p, c.n, c.specs.width)
  IN  GoStep(c, order.width, r.p,
             [set(c.specs, width_field, r.kind) EXCEPT !.width = r.value, !.width_ref = r.ref],
             r.n, r.err = "none")

PrecisionStep(c) ==
  LET r == parse_dynamic_spec("check", c.p + 1, c.n, c.specs.precision)
  IN  GoStep(c, order.precision, r.p,
             [set(c.specs, precision_field, r.kind) EXCEPT !.precision = r.value,
                                                           !.precision_ref = r.ref],
             r.n, /\ Type_of(c) \in float_set \union string_set \union cstring_set
                  /\ at(c.p + 1) # "END" /\ r.err = "none")

LetterStep(c) ==
  LET cased == Char(c) \in DOMAIN upper
      t == IF Char(c) = "?" THEN [as |-> "debug", for |-> debug_set]
           ELSE presentation[IF cased THEN upper[Char(c)] ELSE Char(c)]
  IN  Reads(Type_of(c) \in t.for,
            [c EXCEPT !.pc = "write", !.p = c.p + 1,
                      !.specs = set(IF cased THEN set(c.specs, uppercase_field, 1) ELSE c.specs,
                                    type_field, presentation_type[t.as])])

FillStep(c) ==
  LET fill_end == c.p + code_point_length(at(c.p))
      alignment == parse_align(at(fill_end))
  IN  GoStep(c, order.align, fill_end + 1,
             set(set_fill(c.specs, SubSeq(fmt, c.p, fill_end - 1)), align_field, alignment), c.n,
             fill_end <= Len(fmt) /\ at(c.p) # open /\ alignment # align.none)

letters == DOMAIN presentation \union DOMAIN upper \union {"?"}

SpecStep(c) ==
  CASE Type_of(c) = "custom_type" -> Reads(TRUE, [c EXCEPT !.pc = "write", !.p = skipped(c.p, c.id)])
    [] Type_of(c) # "custom_type" /\ Char(c) \in {"<", ">", "^"} ->
         GoStep(c, order.align, c.p + 1, set(c.specs, align_field, parse_align(Char(c))), c.n, TRUE)
    [] Type_of(c) # "custom_type" /\ Char(c) \in {"+", blank, "-"} ->
         GoStep(c, order.sign, c.p + 1,
                CASE Char(c) = blank -> set(c.specs, sign_field, sign.space)
                  [] Char(c) = "+" -> set(c.specs, sign_field, sign.plus)
                  [] OTHER -> c.specs,
                c.n, Type_of(c) \in sint_set \union float_set)
    [] Type_of(c) # "custom_type" /\ Char(c) = "#" ->
         GoStep(c, order.hash, c.p + 1, set(c.specs, alternate_field, 1), c.n,
                is_arithmetic_type(Type_of(c)))
    [] Type_of(c) # "custom_type" /\ Char(c) = "0" ->
         GoStep(c, order.zero, c.p + 1,
                IF get(c.specs, align_field) = align.none
                THEN set_fill(set(c.specs, align_field, align.numeric), <<"0">>) ELSE c.specs,
                c.n, is_arithmetic_type(Type_of(c)))
    [] Type_of(c) # "custom_type" /\ Char(c) \in (digit \ {"0"}) \union {open} ->
         WidthStep(c)
    [] Type_of(c) # "custom_type" /\ Char(c) = "." -> PrecisionStep(c)
    [] Type_of(c) # "custom_type" /\ Char(c) = "L" ->
         GoStep(c, order.locale, c.p + 1, set(c.specs, localized_field, 1), c.n,
                is_arithmetic_type(Type_of(c)))
    [] Type_of(c) # "custom_type" /\ Char(c) \in letters -> LetterStep(c)
    [] Type_of(c) # "custom_type" /\ at(c.p) \in {close, "END"} /\ Char(c) \in {close, "END", "NUL"} ->
         Reads(TRUE, [c EXCEPT !.pc = "write"])
    [] OTHER -> FillStep(c)

(* No number formatting for a character.                                    *)
Char_specs_ok(c) ==
  ~(/\ Type_of(c) = "char_type"
    /\ get(c.specs, type_field) \in {presentation_type.none, presentation_type.chr,
                                     presentation_type.debug}
    /\ \/ get(c.specs, align_field) = align.numeric
       \/ get(c.specs, sign_field) # sign.none
       \/ get(c.specs, alternate_field) = 1)

WriteStep(c) == Reads(Char_specs_ok(c) /\ at(c.p) = close, [c EXCEPT !.pc = "text", !.p = c.p + 1])

(* How the parser reads on from c, and whether the checker lets it.         *)
StepOf(c) ==
  CASE c.pc = "text" -> TextStep(c)
    [] c.pc = "specs" -> SpecStep(c)
    [] c.pc = "write" -> WriteStep(c)

-----------------------------------------------------------------------------
(* A count that the checker found to be given by an integer.                *)
Count_ok(kind, ref) ==
  \/ kind = arg_id_kind.none
  \/ kind = arg_id_kind.index /\ ref \in 0 .. Len(args) - 1 /\ is_integral_type(args[ref + 1].type)

Good_counts(s) == /\ Count_ok(get(s, width_field), s.width_ref)
                  /\ Count_ok(get(s, precision_field), s.precision_ref)

Counts_ok(c) == Good_counts(c.specs)

(* The configurations V of the checker, from the first on.                  *)
Passed(V) == First_config \in V /\ \A c \in V : Counts_ok(c)

Checking(V) == /\ Config \in V
               /\ \A c \in V : \/ c = Config
                               \/ c.pc # "done" /\ StepOf(c).ok /\ StepOf(c).next \in V

Accepted(V) == \A c \in V : c.pc = "done" \/ (StepOf(c).ok /\ StepOf(c).next \in V)

Refused(V) == \A c \in V : c.pc # "done" /\ (StepOf(c).ok => StepOf(c).next \in V)

(* A count that cannot be used: the field fails when it is written.         *)
Bad_count(kind, ref) ==
  /\ kind = arg_id_kind.index /\ ref \in Nat
  /\ ref < Len(args) => args[ref + 1].type \notin sint_set \union uint_set

Bad_counts(s, state) ==
  \/ state >= order.width /\ Bad_count(get(s, width_field), s.width_ref)
  \/ state >= order.precision /\ Bad_count(get(s, precision_field), s.precision_ref)

Doomed == pc \in {"specs", "write"} /\ Bad_counts(specs, current_state)

Excused ==
  \/ err \in {"width/precision_is_out_of_range", "string_pointer_is_null", "number_is_too_big"}
  \/ /\ err = "width/precision_is_not_integer"
     /\ \E i \in DOMAIN args : args[i].type \in bool_set \union char_set

Reading == pc \in {"text", "specs", "write"}

(* The two passes.                                                          *)
PassesAgree ==
  ~Named =>
    /\ (mode = "check" /\ (Reading \/ pc = "done")) => \E V : Passed(V) /\ Checking(V)
    /\ (mode = "check" /\ pc = "error") => \E V : Passed(V) /\ Refused(V)
    /\ (mode = "run" /\ checked = "ok") =>
         /\ \E V : Passed(V) /\ Accepted(V) /\ (Reading => Config \in V)
         /\ pc = "error" => Excused
    /\ (mode = "run" /\ checked # "ok") =>
         /\ \E V : Passed(V) /\ Refused(V) /\ (Reading => Config \in V \/ Doomed)
         /\ pc \notin {"done", "returned"}

(* The format string of a call.                                             *)
Text_ok == fmt \in Seq(STRING)

(* A character before the end.                                              *)
LEMMA At ==
  ASSUME Text_ok, NEW q \in Int, q >= 1
  PROVE  /\ at(q) # "END" => q <= Len(fmt)
         /\ q > Len(fmt) => at(q) = "END"
<1>1. Len(fmt) \in Nat
  BY DEF Text_ok
<1> QED BY <1>1 DEF at

(* The digits, with their values.                                           *)
LEMMA DigitsAre ==
  /\ digit = {"0", "1", "2", "3", "4", "5", "6", "7", "8", "9"}
  /\ \A c \in digit : DigitValue[c] \in 0 .. 9
<1>1. Range(Digits) = {"0", "1", "2", "3", "4", "5", "6", "7", "8", "9"}
  BY DEF Range, Digits
<1>2. digit = Range(Digits)
  BY DEF digit, DigitValue
<1>3. \A c \in digit : DigitValue[c] \in 0 .. 9
  <2> TAKE c \in digit
  <2>1. DOMAIN Digits = 1 .. 10
    BY DEF Digits
  <2>2. \E i \in DOMAIN Digits : Digits[i] = c
    BY <1>2 DEF Range
  <2>3. (CHOOSE i \in DOMAIN Digits : Digits[i] = c) \in 1 .. 10
    BY <2>1, <2>2
  <2>4. DigitValue[c] = (CHOOSE i \in DOMAIN Digits : Digits[i] = c) - 1
    BY <1>2 DEF DigitValue
  <2> QED BY <2>3, <2>4
<1> QED BY <1>1, <1>2, <1>3

(* SkipWhile finds the first character that is not in the class.            *)
LEMMA Skips ==
  ASSUME Text_ok, NEW q \in Int, q >= 1, q <= Len(fmt) + 1, NEW class, "END" \notin class
  PROVE  LET e == SkipWhile(q, class)
         IN  /\ e \in Int /\ e >= q /\ e <= Len(fmt) + 1 /\ at(e) \notin class
             /\ \A i \in q .. e - 1 : at(i) \in class
<1>0. Len(fmt) \in Nat
  BY DEF Text_ok
<1> DEFINE S == {e \in q .. Len(fmt) + 1 : at(e) \notin class}
<1>1. Len(fmt) + 1 \in S
  BY <1>0, At
<1>2. S # {} /\ \A k \in S : k \in Int /\ k >= q
  BY <1>0, <1>1
<1>3. PICK m \in S : \A k \in S : m <= k
  <2> HIDE DEF S
  <2> QED BY <1>2, Least
<1>4. \A i \in q .. m - 1 : at(i) \in class
  <2> SUFFICES ASSUME NEW i \in q .. m - 1, at(i) \notin class PROVE FALSE
    OBVIOUS
  <2>1. m \in Int /\ m <= Len(fmt) + 1
    BY <1>0
  <2>2. i \in q .. Len(fmt) + 1
    BY <1>0, <2>1
  <2>3. m <= i
    BY <1>3, <2>2
  <2> QED BY <2>1, <2>3
<1>5. \E e \in q .. Len(fmt) + 1 : at(e) \notin class /\ \A i \in q .. e - 1 : at(i) \in class
  BY <1>4
<1> DEFINE e == SkipWhile(q, class)
<1>6. e \in q .. Len(fmt) + 1 /\ at(e) \notin class /\ \A i \in q .. e - 1 : at(i) \in class
  BY <1>5 DEF SkipWhile
<1> QED BY <1>0, <1>6

(* The sums of the digits satisfy their equation.                           *)
LEMMA Sums ==
  ASSUME Text_ok, NEW q \in Int, q >= 1, NEW n \in Nat,
         \A i \in q .. q + n - 1 : at(i) \in digit
  PROVE  LET value == sums(q, n)
         IN  /\ value[0] = 0
             /\ \A k \in 0 .. n - 1 :
                  value[k + 1] = (value[k] * 10 + DigitValue[at(q + k)]) % 2^IntBits
<1> DEFINE Sum(f, k) == IF k = 0 THEN 0 ELSE (f[k - 1] * 10 + DigitValue[at(q + k - 1)]) % 2^IntBits
           Defined(m) == \E f : f = [k \in 0 .. m |-> Sum(f, k)]
<1>1. Defined(0)
  <2> DEFINE f == [k \in 0 .. 0 |-> 0]
  <2>1. f = [k \in 0 .. 0 |-> Sum(f, k)]
    OBVIOUS
  <2> QED BY <2>1
<1>2. ASSUME NEW m \in Nat, Defined(m) PROVE Defined(m + 1)
  <2>1. PICK f : f = [k \in 0 .. m |-> Sum(f, k)]
    BY <1>2
  <2> DEFINE g == [k \in 0 .. m + 1 |-> IF k <= m THEN f[k] ELSE Sum(f, k)]
  <2>2. \A k \in 0 .. m : g[k] = f[k]
    OBVIOUS
  <2>3. ASSUME NEW k \in 0 .. m + 1 PROVE g[k] = Sum(g, k)
    <3>1. Sum(g, k) = Sum(f, k)
      <4>1. k = 0 \/ k - 1 \in 0 .. m
        OBVIOUS
      <4> HIDE DEF g
      <4> QED BY <4>1, <2>2
    <3>2. g[k] = Sum(f, k)
      <4>1. CASE k \in 0 .. m
        <5>1. f[k] = Sum(f, k)
          <6> HIDE DEF g, Sum
          <6> QED BY <2>1, <4>1
        <5> QED BY <5>1, <2>2, <4>1
      <4>2. CASE k = m + 1
        BY <4>2
      <4> QED BY <4>1, <4>2
    <3> QED BY <3>1, <3>2
  <2>4. g = [k \in 0 .. m + 1 |-> Sum(g, k)]
    <3> HIDE DEF Sum
    <3> QED BY <2>3
  <2> HIDE DEF g
  <2> QED BY <2>4
<1>3. Defined(n)
  <2> DEFINE S == {m \in Nat : Defined(m)}
  <2>1. 0 \in S /\ \A m \in Nat : m \in S => m + 1 \in S
    <3> HIDE DEF Defined
    <3> QED BY <1>1, <1>2
  <2>2. \A m \in Nat : m \in S
    <3> HIDE DEF S
    <3> QED BY <2>1, Induction
  <2> HIDE DEF Defined
  <2> QED BY <2>2
<1> DEFINE value == sums(q, n)
<1>4. value = [k \in 0 .. n |-> Sum(value, k)]
  <2>1. value = CHOOSE f : f = [k \in 0 .. n |-> Sum(f, k)]
    BY DEF sums
  <2> HIDE DEF value
  <2> QED BY <2>1, <1>3
<1> HIDE DEF value
<1>5. value[0] = 0
  BY <1>4
<1>6. \A k \in 0 .. n - 1 : value[k + 1] = (value[k] * 10 + DigitValue[at(q + k)]) % 2^IntBits
  <2> TAKE k \in 0 .. n - 1
  <2>1. k + 1 \in 0 .. n /\ k + 1 - 1 = k /\ q + (k + 1) - 1 = q + k /\ k + 1 # 0
    OBVIOUS
  <2>2. value[k + 1] = Sum(value, k + 1)
    <3> HIDE DEF Sum
    <3> QED BY <1>4, <2>1
  <2> QED BY <2>1, <2>2
<1> QED BY <1>5, <1>6 DEF value

(* The powers of ten.                                                       *)
LEMMA Powers ==
  /\ digits10 \in Nat /\ power10[0] = 1
  /\ \A k \in 0 .. digits10 - 1 : power10[k + 1] = 10 * power10[k]
  /\ \A k \in 0 .. digits10 : power10[k] \in Nat /\ power10[k] >= 1
<1>1. digits10 \in Nat
  BY SpecsAssumption DEF digits10
<1> DEFINE Power(f, k) == IF k = 0 THEN 1 ELSE 10 * f[k - 1]
           Defined(m) == \E f : f = [k \in 0 .. m |-> Power(f, k)]
<1>2. Defined(0)
  <2> DEFINE f == [k \in 0 .. 0 |-> 1]
  <2>1. f = [k \in 0 .. 0 |-> Power(f, k)]
    OBVIOUS
  <2> QED BY <2>1
<1>3. ASSUME NEW m \in Nat, Defined(m) PROVE Defined(m + 1)
  <2>1. PICK f : f = [k \in 0 .. m |-> Power(f, k)]
    BY <1>3
  <2> DEFINE g == [k \in 0 .. m + 1 |-> IF k <= m THEN f[k] ELSE Power(f, k)]
  <2>2. \A k \in 0 .. m : g[k] = f[k]
    OBVIOUS
  <2>3. ASSUME NEW k \in 0 .. m + 1 PROVE g[k] = Power(g, k)
    <3>1. Power(g, k) = Power(f, k)
      <4>1. k = 0 \/ k - 1 \in 0 .. m
        OBVIOUS
      <4> HIDE DEF g
      <4> QED BY <4>1, <2>2
    <3>2. g[k] = Power(f, k)
      <4>1. CASE k \in 0 .. m
        <5>1. f[k] = Power(f, k)
          <6> HIDE DEF g, Power
          <6> QED BY <2>1, <4>1
        <5> QED BY <5>1, <2>2, <4>1
      <4>2. CASE k = m + 1
        BY <4>2
      <4> QED BY <4>1, <4>2
    <3> QED BY <3>1, <3>2
  <2>4. g = [k \in 0 .. m + 1 |-> Power(g, k)]
    <3> HIDE DEF Power
    <3> QED BY <2>3
  <2> HIDE DEF g
  <2> QED BY <2>4
<1>4. Defined(digits10)
  <2> DEFINE S == {m \in Nat : Defined(m)}
  <2>1. 0 \in S /\ \A m \in Nat : m \in S => m + 1 \in S
    <3> HIDE DEF Defined
    <3> QED BY <1>2, <1>3
  <2>2. \A m \in Nat : m \in S
    <3> HIDE DEF S
    <3> QED BY <2>1, Induction
  <2> HIDE DEF Defined
  <2> QED BY <1>1, <2>2
<1>5. power10 = [k \in 0 .. digits10 |-> Power(power10, k)]
  <2>1. power10 = CHOOSE f : f = [k \in 0 .. digits10 |-> Power(f, k)]
    BY DEF power10
  <2> HIDE DEF Power
  <2> QED BY <2>1, <1>4
<1>6. power10[0] = 1
  BY <1>1, <1>5
<1>7. ASSUME NEW k \in 0 .. digits10 - 1 PROVE power10[k + 1] = 10 * power10[k]
  <2>1. k + 1 \in 0 .. digits10 /\ k + 1 - 1 = k /\ k + 1 # 0
    BY <1>1
  <2>2. power10[k + 1] = Power(power10, k + 1)
    <3> HIDE DEF Power
    <3> QED BY <1>5, <2>1
  <2> QED BY <2>1, <2>2
<1>8. ASSUME NEW k \in 0 .. digits10 PROVE power10[k] \in Nat /\ power10[k] >= 1
  <2> DEFINE S == {m \in Nat : m <= digits10 => power10[m] \in Nat /\ power10[m] >= 1}
  <2>1. 0 \in S
    BY <1>6
  <2>2. \A m \in Nat : m \in S => m + 1 \in S
    <3> SUFFICES ASSUME NEW m \in Nat, m \in S, m + 1 <= digits10
                 PROVE  power10[m + 1] \in Nat /\ power10[m + 1] >= 1
      OBVIOUS
    <3>1. m \in 0 .. digits10 - 1 /\ m <= digits10
      BY <1>1
    <3>2. power10[m] \in Nat /\ power10[m] >= 1
      BY <3>1
    <3>3. power10[m + 1] = 10 * power10[m]
      BY <3>1, <1>7
    <3> QED BY <3>2, <3>3
  <2>3. \A m \in Nat : m \in S
    <3> HIDE DEF S
    <3> QED BY <2>1, <2>2, Induction
  <2>4. k \in Nat /\ k <= digits10
    BY <1>1
  <2> QED BY <2>3, <2>4
<1> QED BY <1>1, <1>6, <1>7, <1>8

(* A number that is read.                                                   *)
LEMMA Numbers ==
  ASSUME Text_ok, NEW q \in Int, q >= 1, q <= Len(fmt) + 1, NEW error_value
  PROVE  LET r == parse_nonnegative_int(q, error_value)
         IN  /\ r.p \in Int /\ r.p >= q /\ r.p <= Len(fmt) + 1
             /\ at(q) \in digit => r.p > q
             /\ r.value \in 0 .. IntMax \/ r.value = error_value
<1>0. Len(fmt) \in Nat
  BY DEF Text_ok
<1> DEFINE e == SkipWhile(q, digit)
           n == e - q
           value == sums(q, n)
           r == parse_nonnegative_int(q, error_value)
<1>1. "END" \notin digit
  BY DigitsAre
<1>2. e \in Int /\ e >= q /\ e <= Len(fmt) + 1 /\ at(e) \notin digit /\ \A i \in q .. e - 1 : at(i) \in digit
  BY <1>1, Skips
<1>3. at(q) \in digit => e > q
  BY <1>2
<1> HIDE DEF e
<1>4. n \in Nat /\ q + n - 1 = e - 1
  BY <1>2
<1>5. \A i \in q .. q + n - 1 : at(i) \in digit
  BY <1>2, <1>4
<1>6. /\ value[0] = 0
      /\ \A k \in 0 .. n - 1 : value[k + 1] = (value[k] * 10 + DigitValue[at(q + k)]) % 2^IntBits
  <2> HIDE DEF n
  <2> QED BY <1>4, <1>5, Sums
<1>7. r.p = e /\ r.value = IF n <= digits10 \/ (n = digits10 + 1 /\ value[n - 1] * 10 + DigitValue[at(e - 1)] <= IntMax)
                           THEN value[n] ELSE error_value
  BY DEF parse_nonnegative_int, e
<1> HIDE DEF value, r
<1> DEFINE Digit(k) == DigitValue[at(q + k)]
<1>8. \A k \in 0 .. n - 1 : Digit(k) \in 0 .. 9
  BY <1>2, <1>4, DigitsAre, SMTT(30)
<1> HIDE DEF n
<1>9. digits10 \in Nat
  BY Powers
<1>10. ASSUME NEW k \in Nat, k <= n, k <= digits10
       PROVE  value[k] \in Nat /\ value[k] < power10[k]
  <2> DEFINE S == {m \in Nat : m <= n /\ m <= digits10 => value[m] \in Nat /\ value[m] < power10[m]}
  <2>1. 0 \in S
    BY <1>6, Powers
  <2>2. \A m \in Nat : m \in S => m + 1 \in S
    <3> SUFFICES ASSUME NEW m \in Nat, m \in S, m + 1 <= n, m + 1 <= digits10
                 PROVE  value[m + 1] \in Nat /\ value[m + 1] < power10[m + 1]
      OBVIOUS
    <3>1. m \in 0 .. n - 1 /\ m \in 0 .. digits10 - 1 /\ m <= n /\ m <= digits10 /\ m \in 0 .. digits10
      BY <1>4, <1>9
    <3>2. value[m] \in Nat /\ value[m] < power10[m]
      BY <3>1
    <3>3. power10[m + 1] = 10 * power10[m] /\ power10[m] \in Nat
      BY <3>1, Powers
    <3>4. value[m + 1] = (value[m] * 10 + Digit(m)) % 2^IntBits
      BY <3>1, <1>6
    <3>5. Digit(m) \in 0 .. 9
      BY <3>1, <1>8
    <3> DEFINE x == value[m] * 10 + Digit(m)
    <3>6. x \in Nat /\ x < power10[m + 1]
      <4>1. \A v, w \in Nat, d \in 0 .. 9 : v < w => v * 10 + d \in Nat /\ v * 10 + d < 10 * w
        OBVIOUS
      <4> HIDE DEF Digit
      <4> QED BY <3>2, <3>3, <3>5, <4>1
    <3>7. x % 2^IntBits \in Nat /\ x % 2^IntBits <= x
      <4>1. 2^IntBits \in Nat /\ 2^IntBits >= 1
        BY IntMaxFacts
      <4>2. PICK w : w = 2^IntBits
        OBVIOUS
      <4> HIDE DEF x
      <4>3. x % w \in Nat /\ x % w <= x
        BY <3>6, <4>1, <4>2
      <4> QED BY <4>2, <4>3
    <3> HIDE DEF Digit
    <3>8. value[m + 1] = x % 2^IntBits
      BY <3>4
    <3> HIDE DEF x
    <3> QED BY <3>6, <3>7, <3>8, <3>3
  <2>3. \A m \in Nat : m \in S
    <3> HIDE DEF S
    <3> QED BY <2>1, <2>2, Induction
  <2> QED BY <2>3, <1>10
<1>11. ASSUME NEW k \in Nat, k <= digits10 PROVE power10[k] <= power10[digits10]
  <2> DEFINE S == {d \in Nat : k + d <= digits10 => power10[k] <= power10[k + d]}
  <2>1. 0 \in S
    <3>1. power10[k] \in Nat
      BY <1>9, <1>11, Powers
    <3>2. k + 0 = k
      OBVIOUS
    <3> QED BY <3>1, <3>2
  <2>2. \A d \in Nat : d \in S => d + 1 \in S
    <3> SUFFICES ASSUME NEW d \in Nat, d \in S, k + (d + 1) <= digits10
                 PROVE  power10[k] <= power10[k + (d + 1)]
      OBVIOUS
    <3>1. k + d \in 0 .. digits10 - 1 /\ k + d \in 0 .. digits10 /\ k \in 0 .. digits10 /\ k + (d + 1) = (k + d) + 1 /\ k + d <= digits10
      BY <1>9
    <3>2. power10[k + d] \in Nat /\ power10[k] \in Nat /\ power10[(k + d) + 1] = 10 * power10[k + d]
      BY <3>1, Powers
    <3>3. power10[k] <= power10[k + d]
      BY <3>1
    <3> QED BY <3>1, <3>2, <3>3
  <2>3. \A d \in Nat : d \in S
    <3> HIDE DEF S
    <3> QED BY <2>1, <2>2, Induction
  <2>4. digits10 - k \in Nat /\ k + (digits10 - k) = digits10
    BY <1>9, <1>11
  <2>5. digits10 - k \in S
    <3> HIDE DEF S
    <3> QED BY <2>3, <2>4
  <2> QED BY <2>4, <2>5, <1>9
<1>12. (value[n] \in Nat /\ value[n] <= IntMax) \/ r.value = error_value
  <2>1. CASE n <= digits10
    <3>1. value[n] \in Nat /\ value[n] < power10[n] /\ power10[n] <= power10[digits10]
      BY <1>4, <1>10, <1>11, <2>1
    <3>2. power10[n] \in Nat /\ power10[digits10] \in Nat
      BY <1>4, <1>9, <2>1, Powers
    <3>3. power10[digits10] <= IntMax + 1
      BY DigitsAssumption
    <3> QED BY <3>1, <3>2, <3>3, IntMaxFacts
  <2>2. CASE n = digits10 + 1 /\ value[n - 1] * 10 + DigitValue[at(e - 1)] <= IntMax
    <3>1. n - 1 \in Nat /\ n - 1 <= n /\ n - 1 <= digits10 /\ n - 1 \in 0 .. n - 1 /\ (n - 1) + 1 = n /\ q + (n - 1) = e - 1
      BY <1>9, <2>2, <1>4, <1>2
    <3>2. value[n - 1] \in Nat /\ Digit(n - 1) \in 0 .. 9
      <4>1. value[n - 1] \in Nat
        BY <1>10, <3>1
      <4>2. Digit(n - 1) \in 0 .. 9
        <5> HIDE DEF Digit
        <5> QED BY <1>8, <3>1
      <4> QED BY <4>1, <4>2
    <3>3. value[n] = (value[n - 1] * 10 + Digit(n - 1)) % 2^IntBits
      BY <1>6, <3>1
    <3>4. Digit(n - 1) = DigitValue[at(e - 1)]
      BY <3>1
    <3> DEFINE x == value[n - 1] * 10 + Digit(n - 1)
    <3>5. x \in Nat /\ x <= IntMax
      <4>1. value[n - 1] * 10 + Digit(n - 1) <= IntMax
        BY <2>2, <3>4
      <4> HIDE DEF Digit
      <4> QED BY <3>2, <4>1
    <3>6. x % 2^IntBits = x
      <4>1. PICK w : w = 2^IntBits
        OBVIOUS
      <4>2. w \in Nat /\ IntMax < w /\ IntMax \in Nat
        BY <4>1, IntMaxFacts
      <4> HIDE DEF x
      <4>3. x % w = x
        BY <4>2, <3>5
      <4> QED BY <4>1, <4>3
    <3>7. value[n] = x
      BY <3>3, <3>6
    <3> HIDE DEF x
    <3> QED BY <3>5, <3>7
  <2>3. CASE ~(n <= digits10 \/ (n = digits10 + 1 /\ value[n - 1] * 10 + DigitValue[at(e - 1)] <= IntMax))
    BY <1>7, <2>3
  <2> QED BY <2>1, <2>2, <2>3
<1>13. r.value = value[n] \/ r.value = error_value
  BY <1>7
<1>14. r.value \in 0 .. IntMax \/ r.value = error_value
  BY <1>12, <1>13, IntMaxFacts
<1> QED BY <1>2, <1>3, <1>7, <1>14 DEF r

(* What the library takes for an argument.                                  *)
Args_ok ==
  /\ args \in Seq(Range(args))
  /\ \A k \in DOMAIN args :
       /\ {"type", "name", "value"} \subseteq DOMAIN args[k] /\ args[k].type \in Range(type)
       /\ args[k].type \in sint_set \union uint_set => args[k].value \in Int

(* The braces are no other character.                                       *)
LEMMA Braces ==
  /\ open # close
  /\ \A b \in {open, close} :
       /\ b \notin {":", "END", "NUL", "<", ">", "^", "+", "-", "#", ".", "L", "?"} /\ b # blank
       /\ b \notin digit /\ b \notin name_start
<1>1. \A b \in {open, close} : b \notin {"0", "1", "2", "3", "4", "5", "6", "7", "8", "9"}
  BY Zenon DEF open, close
<1>2. \A b \in {open, close} : b \notin digit
  BY <1>1, DigitsAre, Zenon
<1>3. open # close /\ \A b \in {open, close} :
        /\ b \notin {":", "END", "NUL", "<", ">", "^", "+", "-", "#", ".", "L", "?"} /\ b # blank
        /\ b \notin name_start
  BY Zenon DEF open, close, blank, name_start
<1> QED BY <1>2, <1>3

(* The id of a field.                                                       *)
LEMMA ArgIds ==
  ASSUME Text_ok, NEW q \in Int, q >= 1, q <= Len(fmt) + 1
  PROVE  LET id == parse_arg_id(q)
         IN  /\ id.kind \in {"index", "name", "error"}
             /\ id.kind = "index" =>
                  /\ at(q) \in digit /\ id.id \in 0 .. IntMax
                  /\ id.p \in Int /\ id.p > q /\ id.p <= Len(fmt) /\ at(id.p) \in {close, ":"}
             /\ id.kind = "name" =>
                  /\ at(q) \in name_start
                  /\ id.p \in Int /\ id.p > q /\ id.p <= Len(fmt) + 1
<1>0. Len(fmt) \in Nat
  BY DEF Text_ok
<1> DEFINE id == parse_arg_id(q)
           index == IF at(q) = "0" THEN [p |-> q + 1, value |-> 0]
                    ELSE parse_nonnegative_int(q, IntMax)
           name_end == SkipWhile(q, name_start \union digit)
<1>1. CASE at(q) \in digit
  <2>1. id = [kind |-> IF at(index.p) \in {close, ":"} THEN "index" ELSE "error",
              id |-> index.value, p |-> index.p]
    BY <1>1 DEF parse_arg_id
  <2>2. q <= Len(fmt)
    BY <1>1, <1>0, At, DigitsAre
  <2>3. index.p \in Int /\ index.p > q /\ index.p <= Len(fmt) + 1 /\ index.value \in 0 .. IntMax
    <3>1. CASE at(q) = "0"
      BY <3>1, <2>2, <1>0, IntMaxFacts
    <3>2. CASE at(q) # "0"
      <4>1. /\ index.p \in Int /\ index.p > q /\ index.p <= Len(fmt) + 1
            /\ index.value \in 0 .. IntMax \/ index.value = IntMax
        BY <3>2, <1>1, Numbers
      <4> QED BY <4>1, IntMaxFacts
    <3> QED BY <3>1, <3>2
  <2> HIDE DEF index, id
  <2>4. id.kind = "index" => at(index.p) \in {close, ":"}
    BY <2>1
  <2>5. id.kind = "index" => index.p <= Len(fmt)
    <3>1. index.p \in Int /\ index.p >= 1
      BY <2>3
    <3>2. at(index.p) # "END" => index.p <= Len(fmt)
      BY <3>1, At
    <3> QED BY <3>2, <2>4, Braces
  <2>6. id.kind \in {"index", "error"} /\ id.id = index.value /\ id.p = index.p
    BY <2>1
  <2> QED BY <2>3, <2>4, <2>5, <2>6, <1>1 DEF id
<1>2. CASE at(q) \notin digit /\ at(q) \notin name_start
  <2>1. id = [kind |-> "error", id |-> 0, p |-> q]
    BY <1>2 DEF parse_arg_id
  <2> QED BY <2>1
<1>3. CASE at(q) \notin digit /\ at(q) \in name_start
  <2>1. id = [kind |-> "name", id |-> SubSeq(fmt, q, name_end - 1), p |-> name_end]
    BY <1>3 DEF parse_arg_id
  <2>2. "END" \notin name_start \union digit
    BY DigitsAre DEF name_start
  <2>3. name_end \in Int /\ name_end >= q /\ name_end <= Len(fmt) + 1 /\ at(name_end) \notin name_start \union digit
    BY <2>2, Skips
  <2>4. name_end # q
    BY <2>3, <1>3
  <2> HIDE DEF name_end, id
  <2>5. id.kind = "name" /\ id.p = name_end
    BY <2>1
  <2> QED BY <2>3, <2>4, <2>5, <1>3 DEF id
<1> QED BY <1>1, <1>2, <1>3

(* An error of two.                                                         *)
LEMMA Firsts == \A e1, e2 : (First(e1, e2) = "none") <=> (e1 = "none" /\ e2 = "none")
BY DEF First

(* The types of arguments, their numbers, and the integral ones among them. *)
LEMMA TypesAre ==
  /\ "none_type" \notin Range(type)
  /\ \A t \in Range(type) : /\ type_number(t) \in 1 .. 15 /\ type_of_number(type_number(t)) = t
                            /\ is_integral_type(t) => t \in integral_set
<1>1. DOMAIN type = 1 .. 15
  BY DEF type
<1>2. Range(type) = {type[i] : i \in 1 .. 15}
  BY <1>1 DEF Range
<1>3. type[8] = "char_type"
  BY DEF type
<1>4. type_number("char_type") = 8
  BY <1>3, TypeNumbers
<1>5. \A i \in 1 .. 8 : type[i] \in integral_set
  BY DEF type, integral_set, sint_set, uint_set, bool_set, char_set
<1>6. "none_type" \notin Range(type)
  BY <1>2, TypeNumbers
<1>7. ASSUME NEW t \in Range(type)
      PROVE  /\ type_number(t) \in 1 .. 15 /\ type_of_number(type_number(t)) = t
             /\ is_integral_type(t) => t \in integral_set
  <2>1. PICK i \in 1 .. 15 : t = type[i]
    BY <1>2
  <2>2. type_number(t) = i
    BY <2>1, TypeNumbers
  <2>3. type_of_number(i) = t
    BY <2>1 DEF type_of_number
  <2>4. is_integral_type(t) => i \in 1 .. 8
    BY <2>2, <1>4 DEF is_integral_type
  <2> QED BY <2>1, <2>2, <2>3, <2>4, <1>5
<1> QED BY <1>6, <1>7

(* basic_format_args::get gives the argument of the index, or none.         *)
LEMMA GetArg ==
  ASSUME Args_ok, NEW id \in Int, id >= 0
  PROVE  /\ id < Len(args) => /\ get_arg(args, id).type = args[id + 1].type
                              /\ get_arg(args, id).value = args[id + 1].value
                              /\ get_arg(args, id).type # "none_type"
         /\ id >= Len(args) => get_arg(args, id) = no_arg
<1>0. Len(args) \in Nat /\ MaxPacked \in Nat /\ DOMAIN args = 1 .. Len(args)
  BY SpecsAssumption DEF Args_ok
<1> DEFINE a == args[id + 1]
           low == make_descriptor(args).low
<1>1. id < Len(args) => /\ a.type \in Range(type) /\ {"type", "name", "value"} \subseteq DOMAIN a
  <2>1. id < Len(args) => id + 1 \in DOMAIN args
    BY <1>0
  <2> QED BY <2>1 DEF Args_ok
<1>2. CASE Len(args) > MaxPacked
  <2>1. make_descriptor(args).unpacked /\ low = Len(args)
    BY <1>2 DEF make_descriptor
  <2>2. get_arg(args, id) = IF id < Len(args) THEN a ELSE no_arg
    BY <2>1 DEF get_arg
  <2> QED BY <2>2, <1>1, <1>0, TypesAre
<1>3. CASE ~(Len(args) > MaxPacked)
  <2>1. ~make_descriptor(args).unpacked
    BY <1>3 DEF make_descriptor
  <2>2. low = [k \in 0 .. MaxPacked - 1 |->
                        IF k < Len(args) THEN type_number(args[k + 1].type)
                        ELSE type_number("none_type")]
    BY <1>3 DEF make_descriptor
  <2>3. get_arg(args, id) = IF id >= MaxPacked \/ type_of_number(low[id]) = "none_type" THEN no_arg
                            ELSE [a EXCEPT !.type = type_of_number(low[id])]
    BY <2>1 DEF get_arg
  <2> HIDE DEF low
  <2>4. CASE id < Len(args)
    <3>1. id \in 0 .. MaxPacked - 1 /\ ~(id >= MaxPacked)
      BY <1>0, <1>3, <2>4
    <3>2. low[id] = type_number(a.type)
      BY <2>2, <3>1, <2>4
    <3>3. type_of_number(low[id]) = a.type /\ a.type # "none_type"
      BY <3>2, <1>1, <2>4, TypesAre
    <3>4. get_arg(args, id) = [a EXCEPT !.type = a.type]
      BY <2>3, <3>1, <3>3
    <3>5. [a EXCEPT !.type = a.type].type = a.type /\ [a EXCEPT !.type = a.type].value = a.value
      BY <1>1, <2>4
    <3> QED BY <3>3, <3>4, <3>5, <2>4, <1>0
  <2>5. CASE id >= Len(args)
    <3>1. id < MaxPacked => type_of_number(low[id]) = "none_type"
      <4>1. type_number("none_type") = 0 /\ type_of_number(0) = "none_type"
        BY DEF type_number, type_of_number
      <4>2. id < MaxPacked => id \in 0 .. MaxPacked - 1 /\ ~(id < Len(args))
        BY <1>0, <2>5
      <4>3. id < MaxPacked => low[id] = type_number("none_type")
        BY <4>2, <2>2
      <4> QED BY <4>1, <4>3
    <3> QED BY <2>3, <3>1, <2>5, <1>0
  <2> QED BY <2>4, <2>5, <1>0
<1> QED BY <1>2, <1>3, <1>0

(* The id of a name.                                                        *)
LEMMA GetId ==
  ASSUME Args_ok, NEW name
  PROVE  get_id(args, name) \in Int /\ get_id(args, name) >= -1 /\ get_id(args, name) < Len(args)
<1>0. Len(args) \in Nat /\ DOMAIN args = 1 .. Len(args)
  BY DEF Args_ok
<1> DEFINE S == {i \in DOMAIN args : args[i].name = name}
           F(i) == /\ args[i].name = name
                   /\ \A j \in 1 .. i - 1 : args[j].name # name
<1>1. CASE make_descriptor(args).named /\ \E i \in DOMAIN args : args[i].name = name
  <2>1. S # {} /\ \A k \in S : k \in Int /\ k >= 1
    BY <1>0, <1>1
  <2>2. PICK i \in S : \A k \in S : i <= k
    <3> HIDE DEF S
    <3> QED BY <2>1, Least
  <2>3. i \in DOMAIN args /\ F(i)
    <3>1. i \in 1 .. Len(args)
      BY <1>0
    <3>2. \A j \in 1 .. i - 1 : j \in DOMAIN args /\ ~(i <= j)
      BY <3>1, <1>0
    <3> QED BY <2>2, <3>2
  <2>4. (CHOOSE j \in DOMAIN args : F(j)) \in DOMAIN args
    <3> HIDE DEF F
    <3> QED BY <2>3
  <2>5. get_id(args, name) = (CHOOSE j \in DOMAIN args : F(j)) - 1
    BY <1>1 DEF get_id
  <2> HIDE DEF F
  <2> QED BY <2>4, <2>5, <1>0
<1>2. CASE ~(make_descriptor(args).named /\ \E i \in DOMAIN args : args[i].name = name)
  <2>1. get_id(args, name) = -1
    BY <1>2 DEF get_id
  <2> QED BY <2>1, <1>0
<1> QED BY <1>1, <1>2

(* The ids that the contexts give: what the checker's refuses, and what the *)
(* run's allows.                                                            *)
LEMMA Contexts ==
  ASSUME Args_ok, NEW n \in Int, n >= -1
  PROVE  /\ \A m : LET r == automatic(m, n)
                  IN  r.err = "none" => r.n = n + 1 /\ r.id = n /\ n >= 0
         /\ \A m, id : LET r == check_arg_id(m, n, id)
                      IN  r.id = id /\ (r.err = "none" => r.n = -1)
         /\ LET r == automatic("check", n)  x == automatic("run", n)
            IN  /\ r.n = x.n /\ r.id = x.id
                /\ r.err = "none" => x.err = "none" /\ r.id < Len(args)
                /\ x.err = "none" /\ r.err # "none" => x.id >= Len(args)
         /\ \A id \in Int : LET r == check_arg_id("check", n, id)  x == check_arg_id("run", n, id)
            IN  /\ r.n = x.n /\ r.id = x.id
                /\ r.err = "none" => x.err = "none" /\ r.id < Len(args)
                /\ x.err = "none" /\ r.err # "none" => x.id >= Len(args)
<1>1. Len(args) \in Nat
  BY DEF Args_ok
<1>2. \A m : LET r == automatic(m, n)
            IN  r.err = "none" => r.n = n + 1 /\ r.id = n /\ n >= 0
  BY DEF automatic
<1>3. \A m, id : LET r == check_arg_id(m, n, id)
                IN  r.id = id /\ (r.err = "none" => r.n = -1)
  BY DEF check_arg_id
<1>4. LET r == automatic("check", n)  x == automatic("run", n)
      IN  /\ r.n = x.n /\ r.id = x.id
          /\ r.err = "none" => x.err = "none" /\ r.id < Len(args)
          /\ x.err = "none" /\ r.err # "none" => x.id >= Len(args)
  BY <1>1 DEF automatic, not_found
<1>5. \A id \in Int : LET r == check_arg_id("check", n, id)  x == check_arg_id("run", n, id)
            IN  /\ r.n = x.n /\ r.id = x.id
                /\ r.err = "none" => x.err = "none" /\ r.id < Len(args)
                /\ x.err = "none" /\ r.err # "none" => x.id >= Len(args)
  BY <1>1 DEF check_arg_id, not_found
<1> QED BY <1>2, <1>3, <1>4, <1>5

(* A number that is read, or an id: the next position, the counter, the     *)
(* kind, and what the two contexts say of it.                               *)
Spec_ok(r, q, dflt) ==
  /\ r.p \in Int /\ r.p > q /\ r.p <= Len(fmt) + 1 /\ r.n \in Int /\ r.n >= -1 /\ r.n < r.p
  /\ r.kind \in 0 .. 2 /\ (r.value \in 0 .. IntMax \/ r.value = dflt)
  /\ r.kind = arg_id_kind.index => r.ref \in 0 .. IntMax + Len(fmt)
  /\ r.kind = arg_id_kind.name => at(q + 1) \in name_start /\ at(q) = open

Integral(ref) == ref < Len(args) /\ is_integral_type(args[ref + 1].type)

(* What is read of a width or precision is the same in both passes but for  *)
(* the error: the run does not look at the type of the argument that gives  *)
(* it.                                                                      *)
LEMMA DynamicSpecs ==
  ASSUME Text_ok, Args_ok, NEW q \in Int, q >= 1, q <= Len(fmt) + 1, NEW n \in Int, n >= -1, n < q,
         NEW dflt
  PROVE  LET r == parse_dynamic_spec("check", q, n, dflt)
             x == parse_dynamic_spec("run", q, n, dflt)
         IN  /\ x.err = "none" => Spec_ok(x, q, dflt)
             /\ x.p = r.p /\ x.n = r.n /\ x.kind = r.kind /\ x.ref = r.ref /\ x.value = r.value
             /\ r.err = "none" => x.err = "none" /\ (r.kind = arg_id_kind.index => Integral(r.ref))
             /\ x.err = "none" /\ r.err # "none" => x.kind = arg_id_kind.index /\ ~Integral(x.ref)
<1>0. Len(fmt) \in Nat /\ Len(args) \in Nat
  BY DEF Text_ok, Args_ok
<1> DEFINE r == parse_dynamic_spec("check", q, n, dflt)
           x == parse_dynamic_spec("run", q, n, dflt)
           int == parse_nonnegative_int(q, -1)
           id == parse_arg_id(q + 1)
           Given(m, kind, ref, e, q2) ==
             [p |-> q2 + 1, n |-> m, kind |-> kind, ref |-> ref, value |-> dflt,
              err |-> First(e, IF at(q2) = close THEN "none" ELSE "invalid_format_string")]
           Goal == /\ x.err = "none" => Spec_ok(x, q, dflt)
                   /\ x.p = r.p /\ x.n = r.n /\ x.kind = r.kind /\ x.ref = r.ref /\ x.value = r.value
                   /\ r.err = "none" => x.err = "none" /\ (r.kind = arg_id_kind.index => Integral(r.ref))
                   /\ x.err = "none" /\ r.err # "none" => x.kind = arg_id_kind.index /\ ~Integral(x.ref)
<1>a. SUFFICES Goal
  OBVIOUS
<1>k. arg_id_kind.none = 0 /\ arg_id_kind.index = 1 /\ arg_id_kind.name = 2
  BY DEF arg_id_kind
<1>b. at(q) = open => q + 1 <= Len(fmt) + 1 /\ at(q) \notin digit
  BY <1>0, At, Braces
<1>c. \A ref \in Int : ref >= 0 =>
        /\ check_dynamic_spec("run", ref) = "none"
        /\ ref < Len(args) => (check_dynamic_spec("check", ref) = "none" <=> Integral(ref))
  BY DEF check_dynamic_spec, Integral
<1>1. CASE at(q) \in digit
  <2>1. /\ int.p \in Int /\ int.p > q /\ int.p <= Len(fmt) + 1
        /\ int.value \in 0 .. IntMax \/ int.value = -1
    BY <1>1, Numbers
  <2> DEFINE y == [p |-> int.p, n |-> n, kind |-> arg_id_kind.none, ref |-> 0, value |-> int.value,
             err |-> IF int.value = -1 THEN "number_is_too_big" ELSE "none"]
  <2>2. r = y /\ x = y
    BY <1>1, <1>b DEF parse_dynamic_spec
  <2>3. y.err = "none" => Spec_ok(y, q, dflt)
    <3> HIDE DEF int
    <3> QED BY <2>1, <1>0, <1>k DEF Spec_ok
  <2>4. y.kind # arg_id_kind.index
    BY <1>k
  <2> HIDE DEF y, r, x, int
  <2> QED BY <2>2, <2>3, <2>4
<1>2. CASE at(q) = open /\ at(q + 1) \in {close, ":"}
  <2> DEFINE a == automatic("run", n)
             b == automatic("check", n)
  <2>1. /\ x = Given(a.n, arg_id_kind.index, a.id, First(a.err, check_dynamic_spec("run", a.id)), q + 1)
        /\ r = Given(b.n, arg_id_kind.index, b.id, First(b.err, check_dynamic_spec("check", b.id)), q + 1)
    BY <1>2, <1>b DEF parse_dynamic_spec
  <2>2. /\ a.err = "none" => a.n = n + 1 /\ a.id = n /\ n >= 0
        /\ b.err = "none" => b.n = n + 1 /\ b.id = n /\ n >= 0
        /\ a.n = b.n /\ a.id = b.id
        /\ b.err = "none" => a.err = "none" /\ b.id < Len(args)
        /\ a.err = "none" /\ b.err # "none" => a.id >= Len(args)
    BY Contexts
  <2> HIDE DEF a, b, x, r
  <2>3. q + 1 <= Len(fmt)
    BY <1>2, <1>0, At, Braces
  <2>4. /\ x.p = q + 2 /\ x.n = a.n /\ x.kind = arg_id_kind.index /\ x.ref = a.id /\ x.value = dflt
        /\ r.p = q + 2 /\ r.n = b.n /\ r.kind = arg_id_kind.index /\ r.ref = b.id /\ r.value = dflt
        /\ x.err = "none" <=> a.err = "none" /\ check_dynamic_spec("run", a.id) = "none" /\ at(q + 1) = close
        /\ r.err = "none" <=> b.err = "none" /\ check_dynamic_spec("check", b.id) = "none" /\ at(q + 1) = close
    <3>1. q + 1 + 1 = q + 2
      OBVIOUS
    <3> QED BY <2>1, <3>1, Firsts
  <2>5. x.err = "none" => Spec_ok(x, q, dflt)
    <3> SUFFICES ASSUME x.err = "none" PROVE Spec_ok(x, q, dflt)
      OBVIOUS
    <3>1. x.n = n + 1 /\ x.ref = n /\ n >= 0
      BY <2>2, <2>4
    <3> QED BY <3>1, <2>3, <2>4, <1>0, <1>k, IntMaxFacts DEF Spec_ok
  <2>6. r.err = "none" => x.err = "none" /\ Integral(r.ref)
    BY <2>2, <2>4, <1>c
  <2>7. x.err = "none" /\ r.err # "none" => ~Integral(x.ref)
    <3> SUFFICES ASSUME x.err = "none", r.err # "none" PROVE ~Integral(x.ref)
      OBVIOUS
    <3>1. a.id = n /\ n >= 0 /\ a.err = "none" /\ at(q + 1) = close
      BY <2>2, <2>4
    <3>2. CASE b.err # "none"
      BY <3>1, <3>2, <2>2, <2>4, <1>0 DEF Integral
    <3>3. CASE b.err = "none"
      BY <3>1, <3>3, <2>2, <2>4, <1>c
    <3> QED BY <3>2, <3>3
  <2> QED BY <2>2, <2>4, <2>5, <2>6, <2>7
<1>3. CASE at(q) = open /\ at(q + 1) \notin {close, ":", "END"} /\ id.kind = "index"
  <2> DEFINE a == check_arg_id("run", n, id.id)
             b == check_arg_id("check", n, id.id)
  <2>1. /\ x = Given(a.n, arg_id_kind.index, id.id, First(a.err, check_dynamic_spec("run", id.id)), id.p)
        /\ r = Given(b.n, arg_id_kind.index, id.id, First(b.err, check_dynamic_spec("check", id.id)), id.p)
    BY <1>3, <1>b DEF parse_dynamic_spec
  <2>2. /\ id.id \in 0 .. IntMax
        /\ id.p \in Int /\ id.p > q + 1 /\ id.p <= Len(fmt) /\ at(id.p) \in {close, ":"}
    <3>1. q + 1 \in Int /\ q + 1 >= 1 /\ q + 1 <= Len(fmt) + 1
      BY <1>3, <1>b
    <3> QED BY <3>1, <1>3, ArgIds
  <2>3. id.id \in Int /\ id.id >= 0
    BY <2>2, IntMaxFacts
  <2> HIDE DEF id
  <2>4. /\ a.err = "none" => a.n = -1
        /\ b.err = "none" => b.n = -1
        /\ a.n = b.n /\ a.id = id.id /\ b.id = id.id
        /\ b.err = "none" => a.err = "none" /\ id.id < Len(args)
        /\ a.err = "none" /\ b.err # "none" => id.id >= Len(args)
    BY <2>3, Contexts, SMTT(30)
  <2> HIDE DEF a, b, x, r
  <2>5. /\ x.p = id.p + 1 /\ x.n = a.n /\ x.kind = arg_id_kind.index /\ x.ref = id.id /\ x.value = dflt
        /\ r.p = id.p + 1 /\ r.n = b.n /\ r.kind = arg_id_kind.index /\ r.ref = id.id /\ r.value = dflt
        /\ x.err = "none" <=> a.err = "none" /\ check_dynamic_spec("run", id.id) = "none" /\ at(id.p) = close
        /\ r.err = "none" <=> b.err = "none" /\ check_dynamic_spec("check", id.id) = "none" /\ at(id.p) = close
    BY <2>1, Firsts
  <2>6. x.err = "none" => Spec_ok(x, q, dflt)
    <3> SUFFICES ASSUME x.err = "none" PROVE Spec_ok(x, q, dflt)
      OBVIOUS
    <3>1. x.n = -1
      BY <2>4, <2>5
    <3> QED BY <3>1, <2>2, <2>5, <1>0, <1>k, IntMaxFacts, SMTT(30) DEF Spec_ok
  <2>7. r.err = "none" => x.err = "none" /\ Integral(r.ref)
    BY <2>3, <2>4, <2>5, <1>c
  <2>8. x.err = "none" /\ r.err # "none" => ~Integral(x.ref)
    <3> SUFFICES ASSUME x.err = "none", r.err # "none" PROVE ~Integral(x.ref)
      OBVIOUS
    <3>2. CASE b.err # "none"
      BY <3>2, <2>3, <2>4, <2>5, <1>0 DEF Integral
    <3>3. CASE b.err = "none"
      BY <3>3, <2>3, <2>4, <2>5, <1>c
    <3> QED BY <3>2, <3>3
  <2> QED BY <2>4, <2>5, <2>6, <2>7, <2>8
<1>4. CASE at(q) = open /\ at(q + 1) \notin {close, ":", "END"} /\ id.kind = "name"
  <2> DEFINE y == Given(-1, arg_id_kind.name, id.id, "none", id.p)
  <2>1. x = y /\ r = y
    BY <1>4, <1>b DEF parse_dynamic_spec
  <2>2. at(q + 1) \in name_start /\ id.p \in Int /\ id.p > q + 1 /\ id.p <= Len(fmt) + 1
    <3>1. q + 1 \in Int /\ q + 1 >= 1 /\ q + 1 <= Len(fmt) + 1
      BY <1>4, <1>b
    <3> QED BY <3>1, <1>4, ArgIds
  <2> HIDE DEF id
  <2>3. /\ y.p = id.p + 1 /\ y.n = -1 /\ y.kind = 2 /\ y.value = dflt
        /\ y.err = "none" <=> at(id.p) = close
    BY <1>k, Firsts
  <2>4. at(id.p) = close => id.p <= Len(fmt)
    BY <2>2, <1>0, At, Braces
  <2> HIDE DEF y, r, x
  <2>5. y.err = "none" => Spec_ok(y, q, dflt)
    BY <2>2, <2>3, <2>4, <1>0, <1>4, <1>k DEF Spec_ok
  <2> QED BY <2>1, <2>3, <2>5, <1>k
<1>5. CASE /\ at(q) \notin digit /\ ~(at(q) = open /\ at(q + 1) \in {close, ":"})
           /\ ~(at(q) = open /\ at(q + 1) \notin {close, ":", "END"} /\ id.kind = "index")
           /\ ~(at(q) = open /\ at(q + 1) \notin {close, ":", "END"} /\ id.kind = "name")
  <2> DEFINE y == [p |-> q, n |-> n, kind |-> arg_id_kind.none, ref |-> 0, value |-> dflt, err |-> "invalid_format_string"]
  <2>1. x = y /\ r = y
    BY <1>5 DEF parse_dynamic_spec
  <2>2. y.err # "none"
    OBVIOUS
  <2> HIDE DEF y, r, x
  <2> QED BY <2>1, <2>2
<1> QED BY <1>1, <1>2, <1>3, <1>4, <1>5

-----------------------------------------------------------------------------
(* What was written has no width or precision out of range.                 *)
Piece_ok(x) == "specs" \in DOMAIN x => x.specs.width \in 0 .. IntMax /\ x.specs.precision \in -1 .. IntMax

Out_ok(o) == o \in Seq(Range(o)) /\ \A i \in DOMAIN o : Piece_ok(o[i])

(* A count is a number, the index of an argument or the name of one.        *)
Ref_ok(kind, ref) == \/ kind = arg_id_kind.none
                     \/ kind = arg_id_kind.index /\ ref \in Nat
                     \/ kind = arg_id_kind.name /\ Named

Refs_ok(s) == /\ Ref_ok(get(s, width_field), s.width_ref)
              /\ Ref_ok(get(s, precision_field), s.precision_ref)

(* Where the parser can be.                                                 *)
Place_ok ==
  /\ mode \in {"check", "run"} /\ pc \in {"text", "specs", "write", "fast", "done", "error", "returned"}
  /\ p \in Int /\ p >= 1 /\ p <= Len(fmt) + 1 /\ begin \in Int /\ begin >= 1 /\ begin <= p
  /\ next_arg_id \in Int /\ next_arg_id >= -1 /\ next_arg_id < p
  /\ arg_id \in Int /\ arg_id >= -1 /\ (arg_id >= 0 \/ Named)
  /\ pc \in {"specs", "write"} => arg_id < Len(args)
  /\ current_state \in 0 .. 7
  /\ (err # "none") <=> (pc = "error")
  /\ mode = "check" => pc \notin {"fast", "returned"}
  /\ pc = "fast" => fmt = <<open, close>>

IInv == Text_ok /\ Args_ok /\ Place_ok /\ Specs_ok(specs) /\ Refs_ok(specs) /\ Out_ok(out)

-----------------------------------------------------------------------------
(* The type invariant follows.                                              *)
LEMMA InvType == IInv => TypeOK
<1> SUFFICES ASSUME IInv PROVE TypeOK
  OBVIOUS
<1>0. Len(fmt) \in Nat
  BY DEF IInv, Text_ok
<1>1. /\ mode \in {"check", "run"} /\ pc \in {"text", "specs", "write", "fast", "done", "error", "returned"}
      /\ p \in 1 .. Len(fmt) + 1 /\ begin \in 1 .. p
      /\ next_arg_id \in -1 .. Len(fmt) /\ arg_id \in Int /\ arg_id >= -1
      /\ (err # "none") <=> (pc = "error")
  BY <1>0 DEF IInv, Place_ok
<1>2. /\ get(specs, align_field) \in 0 .. 4 /\ get(specs, width_field) \in 0 .. 2
      /\ get(specs, precision_field) \in 0 .. 2 /\ get(specs, fill_size_field) \in 1 .. max_fill_size
      /\ specs.data \in Nat
  BY DEF IInv, Specs_ok, max_fill_size
<1>3. specs.data < 2^18
  <2>1. 2^18 = 262144
    BY SMT
  <2> QED BY <2>1, SMT DEF IInv, Specs_ok
<1>4. \A i \in DOMAIN out : "specs" \in DOMAIN out[i] =>
       out[i].specs.width \in 0 .. IntMax /\ out[i].specs.precision \in -1 .. IntMax
  BY DEF IInv, Out_ok, Piece_ok
<1> QED BY <1>1, <1>2, <1>3, <1>4 DEF TypeOK

(* One more piece.                                                          *)
LEMMA Pieces ==
  ASSUME NEW o, Out_ok(o), NEW x, Piece_ok(x)
  PROVE  Out_ok(Append(o, x))
<1> DEFINE T == Range(o) \union {x}
           q == Append(o, x)
<1>1. o \in Seq(T)
  <2>1. o \in Seq(Range(o))
    BY DEF Out_ok
  <2>2. PICK S : S = Range(o)
    OBVIOUS
  <2>3. o \in Seq(S) /\ T = S \union {x}
    BY <2>1, <2>2
  <2> HIDE DEF T
  <2> QED BY <2>3
<1>2. /\ q \in Seq(T) /\ Len(q) = Len(o) + 1 /\ DOMAIN q = 1 .. Len(o) + 1 /\ Len(o) \in Nat
      /\ \A i \in 1 .. Len(o) : q[i] = o[i]
      /\ q[Len(o) + 1] = x /\ DOMAIN o = 1 .. Len(o)
  <2>1. x \in T
    OBVIOUS
  <2> HIDE DEF T
  <2>2. q \in Seq(T) /\ Len(q) = Len(o) + 1 /\ Len(o) \in Nat /\ DOMAIN o = 1 .. Len(o)
    BY <1>1, <2>1
  <2>3. DOMAIN q = 1 .. Len(o) + 1
    BY <1>1, <2>1
  <2>4. \A i \in 1 .. Len(o) : q[i] = o[i]
    BY <1>1, <2>1
  <2>5. q[Len(o) + 1] = x
    BY <1>1, <2>1
  <2> QED BY <2>2, <2>3, <2>4, <2>5
<1> HIDE DEF q
<1>3. q \in Seq(Range(q))
  <2>1. \A i \in DOMAIN q : q[i] \in Range(q)
    BY DEF Range
  <2>2. PICK S : S = Range(q)
    OBVIOUS
  <2>3. \A i \in 1 .. Len(q) : q[i] \in S
    BY <2>1, <2>2, <1>2
  <2>4. q \in Seq(S)
    <3> HIDE DEF T
    <3>1. q \in [1 .. Len(q) -> S]
      BY <1>2, <2>3
    <3> QED BY <3>1, <1>2
  <2> QED BY <2>2, <2>4
<1>4. \A i \in DOMAIN q : Piece_ok(q[i])
  <2> TAKE i \in DOMAIN q
  <2>1. i \in 1 .. Len(o) \/ i = Len(o) + 1
    BY <1>2
  <2>2. CASE i \in 1 .. Len(o)
    <3>1. Piece_ok(o[i])
      BY <2>2, <1>2 DEF Out_ok
    <3> QED BY <3>1, <2>2, <1>2
  <2>3. CASE i = Len(o) + 1
    BY <2>3, <1>2
  <2> QED BY <2>1, <2>2, <2>3
<1>5. Out_ok(q)
  BY <1>3, <1>4 DEF Out_ok
<1> QED BY <1>5 DEF q

(* on_text writes a piece or nothing.                                       *)
LEMMA Texts ==
  ASSUME Out_ok(out), NEW from, NEW to
  PROVE  Out_ok(Written(from, to))
<1>1. Piece_ok([text |-> SubSeq(fmt, from, to)])
  BY DEF Piece_ok
<1>2. Out_ok(Append(out, [text |-> SubSeq(fmt, from, to)]))
  BY <1>1, Pieces
<1> QED BY <1>2 DEF Written

(* A step that stays in the call.                                           *)
LEMMA Stays ==
  ASSUME IInv, UNCHANGED <<fmt, args>>, Place_ok', Specs_ok(specs'), Refs_ok(specs)', Out_ok(out')
  PROVE  IInv'
<1>1. Text_ok'
  BY DEF IInv, Text_ok
<1>2. Args_ok'
  BY DEF IInv, Args_ok
<1> QED BY <1>1, <1>2 DEF IInv

(* Names and ids of the string do not change.                               *)
LEMMA SameText ==
  ASSUME fmt' = fmt
  PROVE  /\ Named' <=> Named
         /\ \A s : Refs_ok(s) => Refs_ok(s)'
         /\ \A q : at(q)' = at(q)
<1>1. \A q : at(q)' = at(q)
  BY DEF at
<1>2. Named' <=> Named
  BY DEF Named, at
<1> QED BY <1>1, <1>2 DEF Refs_ok, Ref_ok

(* An exception.                                                            *)
LEMMA FailType ==
  ASSUME IInv, NEW message, message # "none", NEW written, Out_ok(written), Fail(message, written)
  PROVE  IInv'
<1>1. /\ pc' = "error" /\ err' = message /\ out' = written
      /\ fmt' = fmt /\ args' = args /\ mode' = mode /\ p' = p /\ begin' = begin /\ next_arg_id' = next_arg_id
      /\ arg_id' = arg_id /\ specs' = specs /\ current_state' = current_state
  BY DEF Fail, call_vars
<1>2. Place_ok'
  BY <1>1, SameText DEF IInv, Place_ok
<1>3. Refs_ok(specs)'
  <2>1. Refs_ok(specs) /\ \A s : Refs_ok(s) => Refs_ok(s)'
    BY <1>1, SameText DEF IInv
  <2> QED BY <1>1, <2>1 DEF Refs_ok, Ref_ok
<1> QED BY <1>1, <1>2, <1>3, Stays DEF IInv

(* A step that keeps the specifiers.                                        *)
LEMMA KeepsSpecs ==
  ASSUME IInv, UNCHANGED <<fmt, args, specs>>, Place_ok', Out_ok(out')
  PROVE  IInv'
<1>1. Refs_ok(specs)'
  <2>1. Refs_ok(specs) /\ \A s : Refs_ok(s) => Refs_ok(s)'
    BY SameText DEF IInv
  <2> QED BY <2>1 DEF Refs_ok, Ref_ok
<1>2. Specs_ok(specs')
  BY DEF IInv
<1> QED BY <1>1, <1>2, Stays

(* A character of the text, or the end of the string.                       *)
LEMMA TextType == ASSUME IInv, Text PROVE IInv'
<1>1. /\ pc = "text" /\ at(p) # "END" /\ p' = p + 1
      /\ fmt' = fmt /\ args' = args /\ mode' = mode /\ pc' = pc /\ begin' = begin
      /\ next_arg_id' = next_arg_id /\ arg_id' = arg_id /\ specs' = specs
      /\ current_state' = current_state /\ out' = out /\ err' = err
  BY DEF Text, call_vars
<1>2. p \in Int /\ p >= 1 /\ Len(fmt) \in Nat /\ Text_ok
  BY DEF IInv, Place_ok, Text_ok
<1>3. p <= Len(fmt)
  BY <1>1, <1>2, At
<1>4. Place_ok'
  BY <1>1, <1>2, <1>3, SameText DEF IInv, Place_ok
<1> QED BY <1>1, <1>4, KeepsSpecs DEF IInv

(* A closing brace outside of a field: doubled, or an error.                *)
LEMMA CloseBraceType == ASSUME IInv, CloseBrace PROVE IInv'
<1>2. p \in Int /\ p >= 1 /\ Len(fmt) \in Nat /\ Text_ok /\ Out_ok(out)
  BY DEF IInv, Place_ok, Text_ok
<1>3. CASE at(p + 1) # close
  <2>1. Fail("unmatched_brace", out)
    BY <1>3 DEF CloseBrace
  <2> QED BY <2>1, <1>2, FailType
<1>4. CASE at(p + 1) = close
  <2>1. /\ pc = "text" /\ out' = Written(begin, p) /\ p' = p + 2 /\ begin' = p + 2
        /\ fmt' = fmt /\ args' = args /\ mode' = mode /\ pc' = pc
        /\ next_arg_id' = next_arg_id /\ arg_id' = arg_id /\ specs' = specs
        /\ current_state' = current_state /\ err' = err
    BY <1>4 DEF CloseBrace, call_vars
  <2>2. p + 1 <= Len(fmt)
    BY <1>4, <1>2, At, Braces
  <2>3. Place_ok'
    BY <2>1, <2>2, <1>2, SameText DEF IInv, Place_ok
  <2>4. Out_ok(out')
    BY <2>1, <1>2, Texts
  <2> QED BY <2>1, <2>3, <2>4, KeepsSpecs
<1> QED BY <1>3, <1>4

(* An opening brace that is doubled, or that ends the string.               *)
LEMMA OpenBraceType == ASSUME IInv, OpenBrace PROVE IInv'
<1>1. /\ pc = "text" /\ at(p + 1) = open /\ p' = p + 2 /\ begin' = p + 2
      /\ out' = (IF mode = "run" THEN Append(Written(begin, p - 1), [text |-> <<open>>]) ELSE out)
      /\ fmt' = fmt /\ args' = args /\ mode' = mode /\ pc' = pc
      /\ next_arg_id' = next_arg_id /\ arg_id' = arg_id /\ specs' = specs
      /\ current_state' = current_state /\ err' = err
  BY DEF OpenBrace, call_vars
<1>2. p \in Int /\ p >= 1 /\ Len(fmt) \in Nat /\ Text_ok /\ Out_ok(out)
  BY DEF IInv, Place_ok, Text_ok
<1>3. p + 1 <= Len(fmt)
  BY <1>1, <1>2, At, Braces
<1>4. Place_ok'
  BY <1>1, <1>2, <1>3, SameText DEF IInv, Place_ok
<1>5. Out_ok(out')
  <2>1. Out_ok(Written(begin, p - 1))
    BY <1>2, Texts
  <2>2. Piece_ok([text |-> <<open>>])
    BY DEF Piece_ok
  <2>3. Out_ok(Append(Written(begin, p - 1), [text |-> <<open>>]))
    BY <2>1, <2>2, Pieces
  <2> QED BY <1>1, <1>2, <2>3
<1> QED BY <1>1, <1>4, <1>5, KeepsSpecs

(* A replacement field whose context is well-formed.                        *)
LEMMA FieldType ==
  ASSUME IInv, pc = "text", NEW r, NEW q \in Int, q > p, q <= Len(fmt) + 1, Field(r, q),
         r.err = "none" =>
           /\ r.n \in Int /\ r.n >= -1 /\ r.n < q + 1
           /\ r.id \in Int /\ r.id >= -1
           /\ r.id >= 0 => (mode = "check" => r.id < Len(args))
           /\ r.id < 0 => mode = "check" /\ Named
  PROVE  IInv'
<1> DEFINE e == First(r.err, IF mode = "run" /\ at(q) \in {close, ":"}
                             THEN IF get_arg(args, r.id).type = "none_type" THEN "argument_not_found"
                                  ELSE IF at(q) = close THEN write_error(get_arg(args, r.id), format_specs)
                                  ELSE "none"
                             ELSE "none")
<1>0. /\ p \in Int /\ p >= 1 /\ Len(fmt) \in Nat /\ Text_ok /\ Out_ok(out) /\ Args_ok
      /\ Out_ok(Written(begin, p - 1)) /\ mode \in {"check", "run"} /\ Len(args) \in Nat
  BY Texts DEF IInv, Place_ok, Text_ok, Args_ok
<1>a. close # ":"
  BY Braces
<1>b. e = "none" /\ at(q) = close => on_replacement_field(r.id, q, r.n)
  BY <1>a DEF Field
<1>c. e = "none" /\ at(q) = ":" => on_format_specs(r.id, q + 1, r.n)
  BY <1>a DEF Field
<1>1. CASE e # "none"
  <2>1. Fail(e, Written(begin, p - 1))
    BY <1>1 DEF Field
  <2> HIDE DEF e
  <2> QED BY <2>1, <1>0, <1>1, FailType
<1>2. CASE e = "none" /\ at(q) \notin {close, ":"}
  <2>1. Fail("missing_brace", Written(begin, p - 1))
    BY <1>2 DEF Field
  <2> QED BY <2>1, <1>0, FailType
<1>3. CASE e = "none" /\ at(q) \in {close, ":"}
  <2>1. r.err = "none" /\ (mode = "run" => get_arg(args, r.id).type # "none_type")
    BY <1>3, Firsts
  <2> HIDE DEF e
  <2>2. /\ r.n \in Int /\ r.n >= -1 /\ r.n < q + 1
        /\ r.id \in Int /\ r.id >= -1 /\ r.id < Len(args) /\ (r.id >= 0 \/ Named)
    <3>1. /\ r.n \in Int /\ r.n >= -1 /\ r.n < q + 1 /\ r.id \in Int /\ r.id >= -1
          /\ r.id >= 0 => (mode = "check" => r.id < Len(args))
          /\ r.id < 0 => mode = "check" /\ Named
      BY <2>1
    <3>2. r.id >= 0 => r.id < Len(args)
      <4>1. CASE mode = "check"
        BY <4>1, <3>1
      <4>2. CASE mode = "run" /\ r.id >= 0
        <5>1. r.id >= Len(args) => get_arg(args, r.id) = no_arg
          BY <1>0, <3>1, <4>2, GetArg
        <5>2. no_arg.type = "none_type"
          BY DEF no_arg
        <5> QED BY <5>1, <5>2, <2>1, <4>2, <3>1, <1>0
      <4> QED BY <4>1, <4>2, <1>0
    <3> QED BY <3>1, <3>2, <1>0
  <2>3. q <= Len(fmt)
    BY <1>3, <1>0, At, Braces
  <2>4. CASE at(q) = close
    <3>1. on_replacement_field(r.id, q, r.n)
      BY <1>3, <2>4, <1>b
    <3>2. /\ pc' = "text" /\ p' = q + 1 /\ begin' = q + 1 /\ next_arg_id' = r.n /\ arg_id' = r.id
          /\ out' = (IF mode = "run"
                     THEN Append(Written(begin, p - 1), [arg |-> get_arg(args, r.id)])
                     ELSE out)
          /\ fmt' = fmt /\ args' = args /\ mode' = mode /\ specs' = specs
          /\ current_state' = current_state /\ err' = err
      BY <3>1 DEF on_replacement_field, call_vars
    <3>3. Place_ok'
      BY <3>2, <2>2, <2>3, <1>0, SameText DEF IInv, Place_ok
    <3>4. Out_ok(out')
      <4>1. Piece_ok([arg |-> get_arg(args, r.id)])
        BY DEF Piece_ok
      <4>2. Out_ok(Append(Written(begin, p - 1), [arg |-> get_arg(args, r.id)]))
        BY <4>1, <1>0, Pieces
      <4> QED BY <3>2, <4>2, <1>0
    <3> QED BY <3>2, <3>3, <3>4, KeepsSpecs
  <2>5. CASE at(q) = ":"
    <3>1. on_format_specs(r.id, q + 1, r.n)
      BY <1>3, <2>5, <1>c
    <3>2. /\ pc' = "specs" /\ p' = q + 1 /\ begin' = begin /\ next_arg_id' = r.n /\ arg_id' = r.id
          /\ out' = Written(begin, p - 1) /\ specs' = format_specs /\ current_state' = 0
          /\ fmt' = fmt /\ args' = args /\ mode' = mode /\ err' = err
      BY <3>1 DEF on_format_specs, call_vars
    <3>3. Place_ok'
      BY <3>2, <2>2, <2>3, <1>0, SameText DEF IInv, Place_ok
    <3>4. Specs_ok(specs') /\ Refs_ok(specs)'
      BY <3>2, FirstSpecs DEF Refs_ok, Ref_ok, arg_id_kind
    <3> QED BY <3>2, <3>3, <3>4, <1>0, Stays
  <2> QED BY <2>4, <2>5, <1>3
<1> QED BY <1>1, <1>2, <1>3

(* A field without an id: next_arg_id counts on.                            *)
LEMMA FieldAutomaticType == ASSUME IInv, FieldAutomatic PROVE IInv'
<1> DEFINE r == automatic(mode, next_arg_id)
<1>1. pc = "text" /\ at(p + 1) \in {close, ":"} /\ Field(r, p + 1)
  BY DEF FieldAutomatic
<1>2. /\ p \in Int /\ p >= 1 /\ Len(fmt) \in Nat /\ Text_ok /\ Args_ok /\ Len(args) \in Nat
      /\ next_arg_id \in Int /\ next_arg_id >= -1 /\ next_arg_id < p /\ mode \in {"check", "run"}
  BY DEF IInv, Place_ok, Text_ok, Args_ok
<1>3. p + 1 <= Len(fmt)
  BY <1>1, <1>2, At, Braces
<1>4. r.err = "none" => r.n = next_arg_id + 1 /\ r.id = next_arg_id /\ next_arg_id >= 0
  BY <1>2, Contexts
<1>5. r.err = "none" /\ mode = "check" => r.id < Len(args)
  BY <1>2, Contexts
<1> HIDE DEF r
<1>6. p + 1 \in Int /\ p + 1 > p /\ p + 1 <= Len(fmt) + 1
  BY <1>2, <1>3
<1>7. r.err = "none" =>
           /\ r.n \in Int /\ r.n >= -1 /\ r.n < (p + 1) + 1
           /\ r.id \in Int /\ r.id >= -1
           /\ r.id >= 0 => (mode = "check" => r.id < Len(args))
           /\ r.id < 0 => mode = "check" /\ Named
  BY <1>2, <1>4, <1>5
<1> QED BY <1>1, <1>6, <1>7, FieldType

(* A field with an index: the counter is switched off.                      *)
LEMMA FieldIndexedType == ASSUME IInv, FieldIndexed PROVE IInv'
<1> DEFINE id == parse_arg_id(p + 1)
           r == check_arg_id(mode, next_arg_id, id.id)
<1>1. /\ pc = "text" /\ at(p) = open /\ id.kind = "index" /\ Field(r, id.p)
  BY DEF FieldIndexed
<1>2. /\ p \in Int /\ p >= 1 /\ Len(fmt) \in Nat /\ Text_ok /\ Args_ok /\ Len(args) \in Nat
      /\ next_arg_id \in Int /\ next_arg_id >= -1 /\ next_arg_id < p /\ mode \in {"check", "run"}
  BY DEF IInv, Place_ok, Text_ok, Args_ok
<1>3. p <= Len(fmt)
  BY <1>1, <1>2, At, Braces
<1>4. /\ id.id \in 0 .. IntMax /\ id.p \in Int /\ id.p > p + 1 /\ id.p <= Len(fmt)
  <2>1. p + 1 \in Int /\ p + 1 >= 1 /\ p + 1 <= Len(fmt) + 1
    BY <1>2, <1>3
  <2> QED BY <2>1, <1>1, <1>2, ArgIds
<1> HIDE DEF id
<1>5. id.id \in Int /\ id.id >= 0
  BY <1>4, IntMaxFacts
<1>6. r.id = id.id /\ (r.err = "none" => r.n = -1)
  BY <1>2, Contexts
<1>7. r.err = "none" /\ mode = "check" => id.id < Len(args)
  BY <1>2, <1>5, Contexts
<1> HIDE DEF r
<1>8. id.p \in Int /\ id.p > p /\ id.p <= Len(fmt) + 1
  BY <1>2, <1>4
<1>9. r.err = "none" =>
           /\ r.n \in Int /\ r.n >= -1 /\ r.n < id.p + 1
           /\ r.id \in Int /\ r.id >= -1
           /\ r.id >= 0 => (mode = "check" => r.id < Len(args))
           /\ r.id < 0 => mode = "check" /\ Named
  BY <1>2, <1>4, <1>5, <1>6, <1>7
<1> QED BY <1>1, <1>8, <1>9, FieldType

(* A field with a name: get_id gives an index, or -1.                       *)
LEMMA FieldNamedType == ASSUME IInv, FieldNamed PROVE IInv'
<1> DEFINE id == parse_arg_id(p + 1)
           found == get_id(args, id.id)
           r == IF mode = "run"
                THEN [n |-> -1, id |-> found,
                      err |-> IF found < 0 THEN "argument_not_found" ELSE "none"]
                ELSE [n |-> next_arg_id, id |-> -1,
                      err |-> IF make_descriptor(args).named THEN "none" ELSE "argument_not_found"]
<1>1. /\ pc = "text" /\ at(p) = open /\ id.kind = "name" /\ Field(r, id.p)
  BY DEF FieldNamed
<1>2. /\ p \in Int /\ p >= 1 /\ Len(fmt) \in Nat /\ Text_ok /\ Args_ok /\ Len(args) \in Nat
      /\ next_arg_id \in Int /\ next_arg_id >= -1 /\ next_arg_id < p /\ mode \in {"check", "run"}
  BY DEF IInv, Place_ok, Text_ok, Args_ok
<1>3. p <= Len(fmt)
  BY <1>1, <1>2, At, Braces
<1>4. /\ at(p + 1) \in name_start /\ id.p \in Int /\ id.p > p + 1 /\ id.p <= Len(fmt) + 1
  <2>1. p + 1 \in Int /\ p + 1 >= 1 /\ p + 1 <= Len(fmt) + 1
    BY <1>2, <1>3
  <2> QED BY <2>1, <1>1, <1>2, ArgIds
<1>5. Named
  <2>1. p \in 1 .. Len(fmt)
    BY <1>2, <1>3
  <2> QED BY <2>1, <1>1, <1>4 DEF Named
<1>6. found \in Int /\ found >= -1
  BY <1>2, GetId
<1> HIDE DEF id, found
<1>7. r.err = "none" =>
           /\ r.n \in Int /\ r.n >= -1 /\ r.n < id.p + 1
           /\ r.id \in Int /\ r.id >= -1
           /\ r.id >= 0 => (mode = "check" => r.id < Len(args))
           /\ r.id < 0 => mode = "check" /\ Named
  <2>1. CASE mode = "run"
    <3>1. r.n = -1 /\ r.id = found /\ (r.err = "none" => ~(found < 0))
      BY <2>1
    <3> HIDE DEF r
    <3> QED BY <3>1, <2>1, <1>2, <1>4, <1>6
  <2>2. CASE mode # "run"
    <3>1. r.n = next_arg_id /\ r.id = -1
      BY <2>2
    <3> HIDE DEF r
    <3> QED BY <3>1, <2>2, <1>2, <1>4, <1>5
  <2> QED BY <2>1, <2>2
<1> HIDE DEF r
<1>8. id.p \in Int /\ id.p > p
  BY <1>2, <1>4
<1> QED BY <1>1, <1>4, <1>7, <1>8, FieldType

(* A field whose id is none.                                                *)
LEMMA FieldBrokenType == ASSUME IInv, FieldBroken PROVE IInv'
<1>1. Fail("invalid_format_string", Written(begin, p - 1))
  BY DEF FieldBroken
<1>2. Out_ok(Written(begin, p - 1))
  BY Texts DEF IInv
<1> QED BY <1>1, <1>2, FailType

(* The end of the string.                                                   *)
LEMMA FinishType == ASSUME IInv, Finish PROVE IInv'
<1>1. /\ pc = "text" /\ pc' = "done" /\ out' = Written(begin, p - 1)
      /\ fmt' = fmt /\ args' = args /\ mode' = mode /\ p' = p /\ begin' = begin
      /\ next_arg_id' = next_arg_id /\ arg_id' = arg_id /\ specs' = specs
      /\ current_state' = current_state /\ err' = err
  BY DEF Finish, call_vars
<1>2. Out_ok(out')
  BY <1>1, Texts DEF IInv
<1>3. Place_ok'
  BY <1>1, SameText DEF IInv, Place_ok
<1> QED BY <1>1, <1>2, <1>3, KeepsSpecs

-----------------------------------------------------------------------------
(* One specifier.                                                           *)
LEMMA GoType ==
  ASSUME IInv, pc = "specs", NEW s \in 1 .. 7, NEW q, NEW sp, NEW n, NEW e, Go(s, q, sp, n, e),
         e = "none" => /\ q \in Int /\ q > p /\ q <= Len(fmt) + 1
                       /\ Specs_ok(sp) /\ Refs_ok(sp)
                       /\ n \in Int /\ n >= -1 /\ n < q
  PROVE  IInv'
<1>0. Out_ok(out)
  BY DEF IInv
<1>1. CASE e # "none"
  <2>1. Fail(e, out)
    BY <1>1 DEF Go
  <2> QED BY <2>1, <1>0, <1>1, FailType
<1>2. CASE e = "none"
  <2>1. /\ p' = q /\ current_state' = s /\ specs' = sp /\ next_arg_id' = n
        /\ fmt' = fmt /\ args' = args /\ mode' = mode /\ pc' = pc /\ begin' = begin
        /\ arg_id' = arg_id /\ out' = out /\ err' = err
    BY <1>2 DEF Go, call_vars
  <2>2. Place_ok'
    BY <2>1, <1>2, SameText DEF IInv, Place_ok
  <2>3. Specs_ok(specs') /\ Refs_ok(specs)'
    <3>1. Refs_ok(sp)'
      BY <2>1, <1>2, SameText
    <3> QED BY <3>1, <2>1, <1>2 DEF Refs_ok, Ref_ok
  <2> QED BY <2>1, <2>2, <2>3, <1>0, Stays
<1> QED BY <1>1, <1>2

(* What a specifier step knows.                                             *)
LEMMA SpecFacts ==
  ASSUME IInv, Parsed
  PROVE  /\ pc = "specs" /\ p \in Int /\ p >= 1 /\ p <= Len(fmt) + 1 /\ Len(fmt) \in Nat
         /\ Text_ok /\ Args_ok /\ Specs_ok(specs) /\ Refs_ok(specs) /\ Out_ok(out)
         /\ next_arg_id \in Int /\ next_arg_id >= -1 /\ next_arg_id < p
         /\ mode \in {"check", "run"} /\ arg_id \in Int /\ arg_id >= 0 /\ arg_id < Len(args)
         /\ c_ \notin {"NUL", "END"} => c_ = at(p) /\ p <= Len(fmt)
<1>1. /\ pc = "specs" /\ p \in Int /\ p >= 1 /\ p <= Len(fmt) + 1 /\ Len(fmt) \in Nat
      /\ Text_ok /\ Args_ok /\ Specs_ok(specs) /\ Refs_ok(specs) /\ Out_ok(out)
      /\ next_arg_id \in Int /\ next_arg_id >= -1 /\ next_arg_id < p
      /\ mode \in {"check", "run"} /\ arg_id \in Int /\ arg_id >= 0 /\ arg_id < Len(args)
  BY DEF Parsed, IInv, Place_ok, Text_ok
<1>2. c_ \notin {"NUL", "END"} => c_ = at(p)
  BY DEF c_
<1>3. at(p) # "END" => p <= Len(fmt)
  BY <1>1, At
<1> QED BY <1>1, <1>2, <1>3

(* The counts that specifiers refer to depend on those fields alone.        *)
LEMMA SameRefs ==
  ASSUME NEW s, NEW t, Refs_ok(s), Same_counts(s, t)
  PROVE  Refs_ok(t)
BY DEF Refs_ok, Same_counts

(* The order of the specifiers.                                             *)
LEMMA Orders == /\ order.align = 1 /\ order.sign = 2 /\ order.hash = 3 /\ order.zero = 4
                /\ order.width = 5 /\ order.precision = 6 /\ order.locale = 7
BY DEF order

(* parse_align gives a value of the field.                                  *)
LEMMA Alignments ==
  /\ \A c : parse_align(c) \in Nat /\ parse_align(c) < 5
  /\ align.none = 0 /\ align.numeric = 4
BY DEF parse_align, align

(* An alignment.                                                            *)
LEMMA SpecAlignType == ASSUME IInv, SpecAlign PROVE IInv'
<1> DEFINE t == set(specs, align_field, parse_align(c_))
           e == enter_state(order.align, TRUE)
<1>1. Parsed /\ c_ \in {"<", ">", "^"} /\ Go(order.align, p + 1, t, next_arg_id, e)
  BY DEF SpecAlign
<1>2. Specs_ok(t) /\ Refs_ok(t)
  BY <1>1, SpecFacts, Alignments, SpecsAlign, SameRefs
<1>3. p + 1 \in Int /\ p + 1 > p /\ p + 1 <= Len(fmt) + 1 /\ next_arg_id < p + 1
  BY <1>1, SpecFacts
<1> HIDE DEF t, e
<1> QED BY <1>1, <1>2, <1>3, SpecFacts, Orders, GoType

(* A sign.                                                                  *)
LEMMA SpecSignType == ASSUME IInv, SpecSign PROVE IInv'
<1> DEFINE t == CASE c_ = blank -> set(specs, sign_field, sign.space)
                  [] c_ = "+" -> set(specs, sign_field, sign.plus)
                  [] OTHER -> specs
           e == enter_state(order.sign, arg_type \in sint_set \union float_set)
<1>1. Parsed /\ c_ \in {"+", blank, "-"} /\ Go(order.sign, p + 1, t, next_arg_id, e)
  BY DEF SpecSign
<1>2. sign.space = 3 /\ sign.plus = 2
  BY DEF sign
<1>3. Specs_ok(specs) /\ Refs_ok(specs)
  BY <1>1, SpecFacts
<1>4. \A v \in 0 .. 3 : Specs_ok(set(specs, sign_field, v)) /\ Refs_ok(set(specs, sign_field, v))
  BY <1>3, SpecsSign, SameRefs
<1>5. Specs_ok(t) /\ Refs_ok(t)
  BY <1>2, <1>3, <1>4
<1>6. blank \notin {"NUL", "END"}
  BY Zenon DEF blank
<1>7. p + 1 \in Int /\ p + 1 > p /\ p + 1 <= Len(fmt) + 1 /\ next_arg_id < p + 1
  BY <1>1, <1>6, SpecFacts
<1> HIDE DEF t, e
<1> QED BY <1>1, <1>5, <1>7, SpecFacts, Orders, GoType

(* The specifier #.                                                         *)
LEMMA SpecHashType == ASSUME IInv, SpecHash PROVE IInv'
<1> DEFINE t == set(specs, alternate_field, 1)
           e == enter_state(order.hash, is_arithmetic_type(arg_type))
<1>1. Parsed /\ c_ = "#" /\ Go(order.hash, p + 1, t, next_arg_id, e)
  BY DEF SpecHash
<1>2. Specs_ok(t) /\ Refs_ok(t)
  BY <1>1, SpecFacts, SpecsAlternate, SameRefs
<1>3. p + 1 \in Int /\ p + 1 > p /\ p + 1 <= Len(fmt) + 1 /\ next_arg_id < p + 1
  BY <1>1, SpecFacts
<1> HIDE DEF t, e
<1> QED BY <1>1, <1>2, <1>3, SpecFacts, Orders, GoType

(* The specifier 0 aligns as numeric unless there is an alignment.          *)
LEMMA SpecZeroType == ASSUME IInv, SpecZero PROVE IInv'
<1> DEFINE u == set(specs, align_field, align.numeric)
           t == IF get(specs, align_field) = align.none THEN set_fill(u, <<"0">>) ELSE specs
           e == First(enter_state(order.zero, TRUE),
                      IF is_arithmetic_type(arg_type) THEN "none"
                      ELSE "format_specifier_requires_numeric_argument")
<1>1. Parsed /\ c_ = "0" /\ Go(order.zero, p + 1, t, next_arg_id, e)
  BY DEF SpecZero
<1>2. Specs_ok(specs) /\ Refs_ok(specs)
  BY <1>1, SpecFacts
<1>3. Specs_ok(u) /\ Refs_ok(u)
  BY <1>2, Alignments, SpecsAlign, SameRefs
<1> HIDE DEF u
<1>4. Specs_ok(set_fill(u, <<"0">>)) /\ Refs_ok(set_fill(u, <<"0">>))
  <2>1. Len(<<"0">>) = 1 /\ 1 \in 1 .. 4
    OBVIOUS
  <2> QED BY <2>1, <1>3, SpecsFill, SameRefs
<1>5. Specs_ok(t) /\ Refs_ok(t)
  BY <1>2, <1>4
<1>6. p + 1 \in Int /\ p + 1 > p /\ p + 1 <= Len(fmt) + 1 /\ next_arg_id < p + 1
  BY <1>1, SpecFacts
<1> HIDE DEF t, e
<1> QED BY <1>1, <1>5, <1>6, SpecFacts, Orders, GoType

(* The specifier L.                                                         *)
LEMMA SpecLocaleType == ASSUME IInv, SpecLocale PROVE IInv'
<1> DEFINE t == set(specs, localized_field, 1)
           e == enter_state(order.locale, is_arithmetic_type(arg_type))
<1>1. Parsed /\ c_ = "L" /\ Go(order.locale, p + 1, t, next_arg_id, e)
  BY DEF SpecLocale
<1>2. Specs_ok(t) /\ Refs_ok(t)
  BY <1>1, SpecFacts, SpecsLocalized, SameRefs
<1>3. p + 1 \in Int /\ p + 1 > p /\ p + 1 <= Len(fmt) + 1 /\ next_arg_id < p + 1
  BY <1>1, SpecFacts
<1> HIDE DEF t, e
<1> QED BY <1>1, <1>2, <1>3, SpecFacts, Orders, GoType

(* What is read of a width or precision at q.                               *)
LEMMA Read_ok ==
  ASSUME Text_ok, Args_ok, mode \in {"check", "run"}, NEW q \in Int, q >= 1, q <= Len(fmt) + 1,
         NEW n \in Int, n >= -1, n < q, NEW dflt,
         NEW r, r = parse_dynamic_spec(mode, q, n, dflt), r.err = "none"
  PROVE  Spec_ok(r, q, dflt) /\ Ref_ok(r.kind, r.ref)
<1> DEFINE x == parse_dynamic_spec("run", q, n, dflt)
           y == parse_dynamic_spec("check", q, n, dflt)
<1>1. /\ x.err = "none" => Spec_ok(x, q, dflt)
      /\ x.p = y.p /\ x.n = y.n /\ x.kind = y.kind /\ x.ref = y.ref /\ x.value = y.value
      /\ y.err = "none" => x.err = "none"
  BY DynamicSpecs
<1>2. (r = x \/ r = y)
  OBVIOUS
<1> HIDE DEF x, y
<1>3. Spec_ok(r, q, dflt)
  BY <1>1, <1>2 DEF Spec_ok
<1>4. Len(fmt) \in Nat
  BY DEF Text_ok
<1>5. r.kind = arg_id_kind.name => Named
  <2> SUFFICES ASSUME r.kind = arg_id_kind.name PROVE Named
    OBVIOUS
  <2>1. at(q + 1) \in name_start /\ at(q) = open
    BY <1>3 DEF Spec_ok
  <2>2. q \in 1 .. Len(fmt)
    BY <2>1, <1>4, At, Braces
  <2> QED BY <2>1, <2>2 DEF Named
<1>6. r.kind = arg_id_kind.index => r.ref \in Nat
  BY <1>3, <1>4, IntMaxFacts DEF Spec_ok
<1>7. r.kind \in {arg_id_kind.none, arg_id_kind.index, arg_id_kind.name}
  BY <1>3 DEF Spec_ok, arg_id_kind
<1> QED BY <1>3, <1>5, <1>6, <1>7 DEF Ref_ok

(* A width: a number that fits int, or an id.                               *)
LEMMA SpecWidthType == ASSUME IInv, SpecWidth PROVE IInv'
<1> DEFINE r == parse_dynamic_spec(mode, p, next_arg_id, specs.width)
           t == Width_set(specs, r.kind, r.value, r.ref)
           e == First(enter_state(order.width, TRUE), r.err)
<1>1. Parsed /\ Go(order.width, r.p, t, r.n, e)
  BY DEF SpecWidth, GoWidth, Width_set
<1>2. ASSUME e = "none"
      PROVE  /\ r.p \in Int /\ r.p > p /\ r.p <= Len(fmt) + 1
             /\ Specs_ok(t) /\ Refs_ok(t) /\ r.n \in Int /\ r.n >= -1 /\ r.n < r.p
  <2>1. r.err = "none"
    <3> HIDE DEF r
    <3> QED BY <1>2, Firsts
  <2> HIDE DEF e
  <2>2. Spec_ok(r, p, specs.width) /\ Ref_ok(r.kind, r.ref)
    BY <1>1, <2>1, SpecFacts, Read_ok
  <2>3. r.kind \in 0 .. 2 /\ r.value \in 0 .. IntMax
    BY <1>1, <2>2, SpecFacts DEF Spec_ok, Specs_ok
  <2> DEFINE k == r.kind  v == r.value  ref == r.ref
  <2> HIDE DEF r
  <2>4. Specs_ok(specs) /\ Refs_ok(specs)
    BY <1>1, SpecFacts
  <2>5. /\ Specs_ok(t) /\ get(t, width_field) = r.kind /\ t.width_ref = r.ref
        /\ get(t, precision_field) = get(specs, precision_field) /\ t.precision_ref = specs.precision_ref
    BY <2>3, <2>4, SpecsWidth
  <2> HIDE DEF t
  <2>6. Refs_ok(t)
    BY <2>2, <2>4, <2>5 DEF Refs_ok
  <2> QED BY <2>2, <2>5, <2>6 DEF Spec_ok
<1> HIDE DEF r, t, e
<1> QED BY <1>1, <1>2, SpecFacts, Orders, GoType

(* A precision: a number that fits int, or an id.                           *)
LEMMA SpecPrecisionType == ASSUME IInv, SpecPrecision PROVE IInv'
<1> DEFINE r == parse_dynamic_spec(mode, p + 1, next_arg_id, specs.precision)
           t == Precision_set(specs, r.kind, r.value, r.ref)
           e == First(enter_state(order.precision, arg_type \in float_set \union string_set \union cstring_set),
                      IF at(p + 1) = "END" THEN "invalid_precision" ELSE r.err)
<1>1. Parsed /\ c_ = "." /\ Go(order.precision, r.p, t, r.n, e)
  <2>1. SpecPrecision => Parsed /\ c_ = "." /\ GoPrecision(parse_dynamic_spec(mode, p + 1, next_arg_id, specs.precision))
    BY DEF SpecPrecision
  <2> QED BY <2>1 DEF GoPrecision, Precision_set
<1>2. ASSUME e = "none"
      PROVE  /\ r.p \in Int /\ r.p > p /\ r.p <= Len(fmt) + 1
             /\ Specs_ok(t) /\ Refs_ok(t) /\ r.n \in Int /\ r.n >= -1 /\ r.n < r.p
  <2>1. r.err = "none"
    BY <1>2, Firsts
  <2> HIDE DEF e
  <2>2. p + 1 \in Int /\ p + 1 >= 1 /\ p + 1 <= Len(fmt) + 1 /\ next_arg_id < p + 1
    BY <1>1, SpecFacts
  <2>3. Spec_ok(r, p + 1, specs.precision) /\ Ref_ok(r.kind, r.ref)
    BY <1>1, <2>1, <2>2, SpecFacts, Read_ok
  <2>4. r.kind \in 0 .. 2 /\ r.value \in -1 .. IntMax
    BY <1>1, <2>3, SpecFacts, IntMaxFacts DEF Spec_ok, Specs_ok
  <2> HIDE DEF r
  <2>5. Specs_ok(specs) /\ Refs_ok(specs)
    BY <1>1, SpecFacts
  <2>6. /\ Specs_ok(t) /\ get(t, precision_field) = r.kind /\ t.precision_ref = r.ref
        /\ get(t, width_field) = get(specs, width_field) /\ t.width_ref = specs.width_ref
    BY <2>4, <2>5, SpecsPrecision
  <2> HIDE DEF t
  <2>7. Refs_ok(t)
    BY <2>3, <2>5, <2>6 DEF Refs_ok
  <2> QED BY <1>1, <2>2, <2>3, <2>6, <2>7, SpecFacts DEF Spec_ok
<1> HIDE DEF r, t, e
<1> QED BY <1>1, <1>2, SpecFacts, Orders, GoType

(* The letters of the presentation types.                                   *)
LEMMA Letters ==
  /\ DOMAIN presentation = {"d", "x", "o", "b", "c", "e", "f", "g", "a", "s", "p"}
  /\ DOMAIN upper = {"X", "B", "E", "F", "G", "A"}
  /\ \A c \in DOMAIN upper : upper[c] \in DOMAIN presentation
  /\ \A c \in DOMAIN presentation : presentation[c].as \in DOMAIN presentation_type
  /\ \A k \in DOMAIN presentation_type : presentation_type[k] \in Nat /\ presentation_type[k] < 8
  /\ "debug" \in DOMAIN presentation_type
<1>1. DOMAIN presentation = {"d", "x", "o", "b", "c", "e", "f", "g", "a", "s", "p"}
  BY DEF presentation
<1>2. DOMAIN upper = {"X", "B", "E", "F", "G", "A"}
  BY DEF upper
<1>3. \A c \in DOMAIN upper : upper[c] \in DOMAIN presentation
  BY <1>1, <1>2 DEF upper
<1>4. DOMAIN presentation_type = {"none", "debug", "string", "dec", "hex", "oct", "bin", "chr",
                                  "pointer", "exp", "fixed", "general", "hexfloat"}
  BY DEF presentation_type
<1>5. \A c \in DOMAIN presentation :
        presentation[c].as \in {"dec", "hex", "oct", "bin", "chr", "exp", "fixed", "general",
                                "hexfloat", "string", "pointer"}
  <2>1. /\ presentation["d"].as = "dec" /\ presentation["x"].as = "hex" /\ presentation["o"].as = "oct"
        /\ presentation["b"].as = "bin" /\ presentation["c"].as = "chr" /\ presentation["e"].as = "exp"
        /\ presentation["f"].as = "fixed" /\ presentation["g"].as = "general"
        /\ presentation["a"].as = "hexfloat" /\ presentation["s"].as = "string"
        /\ presentation["p"].as = "pointer"
    BY DEF presentation
  <2> QED BY <2>1, <1>1
<1>6. \A k \in DOMAIN presentation_type : presentation_type[k] \in Nat /\ presentation_type[k] < 8
  BY <1>4 DEF presentation_type
<1> QED BY <1>1, <1>2, <1>3, <1>4, <1>5, <1>6

(* The counts of the next specifiers are what the step gives them.          *)
LEMMA KeepsRefs ==
  ASSUME NEW CONSTANT w, Refs_ok(w), specs' = w, fmt' = fmt
  PROVE  Refs_ok(specs)'
<1>1. Refs_ok(w)'
  BY SameText
<1> QED BY <1>1 DEF Refs_ok, Ref_ok

(* A presentation type.                                                     *)
LEMMA SpecTypeType == ASSUME IInv, SpecType PROVE IInv'
<1> DEFINE letter == IF c_ \in DOMAIN upper THEN upper[c_] ELSE c_
           t == IF c_ = "?" THEN [as |-> "debug", for |-> debug_set] ELSE presentation[letter]
           cased == IF c_ \in DOMAIN upper THEN set(specs, uppercase_field, 1) ELSE specs
           u == set(cased, type_field, presentation_type[t.as])
<1>1. Parsed /\ c_ \in letters
  BY DEF SpecType, letters
<1>2. c_ \notin {"NUL", "END"}
  BY <1>1, Letters DEF letters
<1>3. /\ p + 1 \in Int /\ p + 1 > p /\ p + 1 <= Len(fmt) + 1 /\ next_arg_id < p + 1
      /\ Specs_ok(specs) /\ Refs_ok(specs) /\ Out_ok(out) /\ pc = "specs"
  BY <1>1, <1>2, SpecFacts
<1>4. CASE arg_type \notin t.for
  <2>1. Fail("invalid_format_specifier", out)
    BY <1>4 DEF SpecType
  <2> QED BY <2>1, <1>3, FailType
<1>5. CASE arg_type \in t.for
  <2>1. /\ specs' = u /\ p' = p + 1 /\ pc' = "write"
        /\ fmt' = fmt /\ args' = args /\ mode' = mode /\ begin' = begin /\ next_arg_id' = next_arg_id
        /\ arg_id' = arg_id /\ current_state' = current_state /\ out' = out /\ err' = err
    BY <1>5 DEF SpecType, call_vars
  <2>2. Specs_ok(cased) /\ Refs_ok(cased)
    <3>1. Specs_ok(set(specs, uppercase_field, 1)) /\ Refs_ok(set(specs, uppercase_field, 1))
      BY <1>3, SpecsUppercase, SameRefs
    <3> QED BY <3>1, <1>3
  <2>3. t.as \in DOMAIN presentation_type
    <3>1. c_ # "?" => letter \in DOMAIN presentation
      BY <1>1, Letters DEF letters
    <3> HIDE DEF letter
    <3> QED BY <3>1, Letters
  <2>4. presentation_type[t.as] \in Nat /\ presentation_type[t.as] < 8
    BY <2>3, Letters
  <2> HIDE DEF cased, t
  <2>5. Specs_ok(u) /\ Refs_ok(u)
    BY <2>2, <2>4, SpecsType, SameRefs
  <2> HIDE DEF u
  <2>6. Place_ok'
    BY <2>1, <1>3, SameText DEF IInv, Place_ok
  <2>7. Refs_ok(specs)'
    <3>1. PICK w : w = u
      OBVIOUS
    <3>2. Refs_ok(w) /\ specs' = w
      BY <3>1, <2>1, <2>5
    <3> QED BY <3>2, <2>1, KeepsRefs
  <2> QED BY <2>1, <2>5, <2>6, <2>7, <1>3, Stays
<1> QED BY <1>4, <1>5

(* A fill character of one code point, with an alignment behind it.         *)
LEMMA SpecFillType == ASSUME IInv, SpecFill PROVE IInv'
<1> DEFINE fill_end == p + code_point_length(at(p))
           alignment == parse_align(at(fill_end))
           s == SubSeq(fmt, p, fill_end - 1)
           filled == set_fill(specs, s)
           t == set(filled, align_field, alignment)
           e == CASE fill_end > Len(fmt) -> "invalid_format_specifier"
                  [] fill_end <= Len(fmt) /\ at(p) = open -> "invalid_fill_character"
                  [] OTHER -> enter_state(order.align, alignment # align.none)
<1>1. Parsed /\ Go(order.align, fill_end + 1, t, next_arg_id, e)
  BY DEF SpecFill
<1>2. code_point_length(at(p)) \in 1 .. 3
  BY DEF code_point_length
<1>3. /\ p \in Int /\ p >= 1 /\ Len(fmt) \in Nat /\ next_arg_id < p /\ Specs_ok(specs) /\ Refs_ok(specs)
      /\ fmt \in Seq(STRING)
  BY <1>1, SpecFacts DEF Text_ok
<1>4. e = "none" => ~(fill_end > Len(fmt))
  OBVIOUS
<1> HIDE DEF e
<1> DEFINE m == code_point_length(at(p))
<1>5. fill_end = p + m /\ m \in 1 .. 3
  BY <1>2
<1> HIDE DEF fill_end, m, alignment
<1>6. ASSUME e = "none"
      PROVE  /\ fill_end + 1 \in Int /\ fill_end + 1 > p /\ fill_end + 1 <= Len(fmt) + 1
             /\ Specs_ok(t) /\ Refs_ok(t) /\ next_arg_id < fill_end + 1
  <2>1. fill_end <= Len(fmt) /\ fill_end \in Int /\ fill_end > p
    BY <1>3, <1>4, <1>5, <1>6
  <2>2. Len(s) = m
    <3>1. fill_end - 1 \in Int /\ fill_end - 1 <= Len(fmt) /\ p <= fill_end - 1 /\ (fill_end - 1) - p + 1 = m
      BY <2>1, <1>3, <1>5
    <3> QED BY <3>1, <1>3
  <2> HIDE DEF s
  <2>3. Specs_ok(filled) /\ Refs_ok(filled)
    <3>1. m \in 1 .. 4
      BY <1>5
    <3> QED BY <3>1, <2>2, <1>3, SpecsFill, SameRefs
  <2> HIDE DEF filled
  <2>4. alignment \in Nat /\ alignment < 5
    BY Alignments DEF alignment
  <2>5. Specs_ok(t) /\ Refs_ok(t)
    BY <2>3, <2>4, SpecsAlign, SameRefs
  <2> HIDE DEF t
  <2>6. p \in Int /\ next_arg_id \in Int /\ next_arg_id < p /\ Len(fmt) \in Nat
    BY <1>1, SpecFacts
  <2>7. /\ fill_end + 1 \in Int /\ fill_end + 1 > p /\ fill_end + 1 <= Len(fmt) + 1
        /\ next_arg_id < fill_end + 1
    BY ONLY <2>1, <2>6, SMT
  <2> QED BY <2>5, <2>7
<1> HIDE DEF t
<1> QED BY <1>1, <1>6, SpecFacts, Orders, GoType

(* The end of the specifiers.                                               *)
LEMMA SpecEndType == ASSUME IInv, SpecEnd PROVE IInv'
<1>1. /\ pc = "specs" /\ pc' = "write"
      /\ fmt' = fmt /\ args' = args /\ mode' = mode /\ p' = p /\ begin' = begin
      /\ next_arg_id' = next_arg_id /\ arg_id' = arg_id /\ specs' = specs
      /\ current_state' = current_state /\ out' = out /\ err' = err
  BY DEF SpecEnd, Parsed, call_vars
<1>2. Place_ok'
  BY <1>1, SameText DEF IInv, Place_ok
<1> QED BY <1>1, <1>2, KeepsSpecs DEF IInv

(* What is skipped ends in the string.                                      *)
LEMMA Skipped ==
  ASSUME Text_ok, NEW q \in Int, q >= 1, q <= Len(fmt) + 1, NEW id
  PROVE  skipped(q, id) \in Int /\ skipped(q, id) >= q /\ skipped(q, id) <= Len(fmt) + 1
<1>0. Len(fmt) \in Nat
  BY DEF Text_ok
<1> DEFINE depth == CHOOSE f : f = [i \in q .. Len(fmt) + 1 |->
                      IF i = q THEN 0
                      ELSE f[i - 1] + (IF at(i - 1) = open THEN 1 ELSE IF at(i - 1) = close THEN -1 ELSE 0)]
           Ends(i) == at(i) = "END" \/ (at(i) = close /\ (id >= 0 \/ depth[i] <= 0))
           S == {e \in q .. Len(fmt) + 1 : Ends(e)}
<1>1. skipped(q, id) = CHOOSE e \in q .. Len(fmt) + 1 : Ends(e) /\ \A i \in q .. e - 1 : ~Ends(i)
  BY DEF skipped
<1> HIDE DEF depth
<1>2. Len(fmt) + 1 \in S
  BY <1>0, At
<1>3. S # {} /\ \A k \in S : k \in Int /\ k >= q
  BY <1>0, <1>2
<1>4. PICK m \in S : \A k \in S : m <= k
  <2> HIDE DEF S
  <2> QED BY <1>3, Least
<1>5. m \in q .. Len(fmt) + 1 /\ Ends(m) /\ \A i \in q .. m - 1 : ~Ends(i)
  <2>1. m \in q .. Len(fmt) + 1 /\ Ends(m)
    OBVIOUS
  <2>2. ASSUME NEW i \in q .. m - 1 PROVE ~Ends(i)
    <3>1. i \in q .. Len(fmt) + 1 /\ ~(m <= i)
      BY <2>1, <1>0
    <3> HIDE DEF Ends
    <3> QED BY <1>4, <3>1
  <2> QED BY <2>1, <2>2
<1> HIDE DEF Ends
<1>6. skipped(q, id) \in q .. Len(fmt) + 1
  BY <1>1, <1>5
<1> QED BY <1>0, <1>6

(* The specifiers of a custom type are skipped.                             *)
LEMMA SpecSkipType == ASSUME IInv, SpecSkip PROVE IInv'
<1>1. /\ pc = "specs" /\ p' = skipped(p, arg_id) /\ pc' = "write"
      /\ fmt' = fmt /\ args' = args /\ mode' = mode /\ begin' = begin
      /\ next_arg_id' = next_arg_id /\ arg_id' = arg_id /\ specs' = specs
      /\ current_state' = current_state /\ out' = out /\ err' = err
  BY DEF SpecSkip, call_vars
<1>2. p \in Int /\ p >= 1 /\ p <= Len(fmt) + 1 /\ Len(fmt) \in Nat /\ Text_ok
  BY DEF IInv, Place_ok, Text_ok
<1>3. p' \in Int /\ p' >= p /\ p' <= Len(fmt) + 1
  BY <1>1, <1>2, Skipped
<1>4. Place_ok'
  BY <1>1, <1>2, <1>3, SameText DEF IInv, Place_ok
<1> QED BY <1>1, <1>4, KeepsSpecs DEF IInv

-----------------------------------------------------------------------------
(* The count that an argument gives.                                        *)
LEMMA Counts ==
  /\ \A a : get_dynamic_spec(a).err = "none" => get_dynamic_spec(a).value \in 0 .. IntMax
  /\ \A kind, ref, value : handle_dynamic_spec(kind, ref, value).err = "none" =>
       \/ handle_dynamic_spec(kind, ref, value).value = value
       \/ handle_dynamic_spec(kind, ref, value).value \in 0 .. IntMax
<1>1. \A a : get_dynamic_spec(a).err = "none" => get_dynamic_spec(a).value \in 0 .. IntMax
  BY DEF get_dynamic_spec
<1>2. ASSUME NEW kind, NEW ref, NEW value
      PROVE  handle_dynamic_spec(kind, ref, value).err = "none" =>
               \/ handle_dynamic_spec(kind, ref, value).value = value
               \/ handle_dynamic_spec(kind, ref, value).value \in 0 .. IntMax
  BY <1>1 DEF handle_dynamic_spec
<1> QED BY <1>1, <1>2

(* A field is finished.                                                     *)
LEMMA FinishedType ==
  ASSUME IInv, pc = "write", NEW e, NEW written, e = "none" => Out_ok(written), Finished(e, written)
  PROVE  IInv'
<1>1. Out_ok(out) /\ p \in Int /\ p >= 1 /\ Len(fmt) \in Nat /\ Text_ok
  BY DEF IInv, Place_ok, Text_ok
<1>2. CASE e # "none"
  <2>1. Fail(e, out)
    BY <1>2 DEF Finished
  <2> QED BY <2>1, <1>1, <1>2, FailType
<1>3. CASE e = "none" /\ at(p) # close
  <2>1. Fail("unknown_format_specifier", written)
    BY <1>3 DEF Finished
  <2> QED BY <2>1, <1>3, FailType
<1>4. CASE e = "none" /\ at(p) = close
  <2>1. /\ out' = written /\ pc' = "text" /\ p' = p + 1 /\ begin' = p + 1
        /\ fmt' = fmt /\ args' = args /\ mode' = mode /\ next_arg_id' = next_arg_id
        /\ arg_id' = arg_id /\ specs' = specs /\ current_state' = current_state /\ err' = err
    BY <1>4 DEF Finished, call_vars
  <2>2. p <= Len(fmt)
    BY <1>1, <1>4, At, Braces
  <2>3. Place_ok'
    BY <2>1, <2>2, <1>1, SameText DEF IInv, Place_ok
  <2> QED BY <2>1, <2>3, <1>4, KeepsSpecs
<1> QED BY <1>2, <1>3, <1>4

(* The field is written, with the width and precision that the arguments    *)
(* give.                                                                    *)
LEMMA WriteType == ASSUME IInv, Write PROVE IInv'
<1>0. pc = "write" /\ Out_ok(out) /\ Specs_ok(specs) /\ mode \in {"check", "run"}
  BY DEF Write, IInv, Place_ok
<1>1. CASE mode = "check"
  <2>1. Finished(check_char_specs, out)
    BY <1>1 DEF Write
  <2> QED BY <2>1, <1>0, FinishedType
<1>2. CASE mode # "check"
  <2> DEFINE width == handle_dynamic_spec(get(specs, width_field), specs.width_ref, specs.width)
             precision == handle_dynamic_spec(get(specs, precision_field), specs.precision_ref, specs.precision)
             ready == [specs EXCEPT !.width = width.value, !.precision = precision.value]
             a == get_arg(args, arg_id)
             e == First(First(width.err, precision.err), First(check_char_specs, write_error(a, ready)))
             x == [arg |-> a, specs |-> ready]
  <2>1. Finished(e, Append(out, x))
    BY <1>2 DEF Write, WriteReady, WriteArg
  <2>2. ASSUME e = "none" PROVE Out_ok(Append(out, x))
    <3>1. width.err = "none" /\ precision.err = "none"
      <4> HIDE DEF width, precision
      <4> QED BY <2>2, Firsts
    <3>2. width.value \in 0 .. IntMax /\ precision.value \in -1 .. IntMax
      <4>1. width.value \in 0 .. IntMax \/ width.value = specs.width
        BY <3>1, Counts
      <4>2. precision.value \in 0 .. IntMax \/ precision.value = specs.precision
        BY <3>1, Counts
      <4> HIDE DEF width, precision
      <4> QED BY <4>1, <4>2, <1>0, IntMaxFacts DEF Specs_ok
    <3> HIDE DEF width, precision
    <3>3. ready.width = width.value /\ ready.precision = precision.value
      <4>1. {"width", "precision"} \subseteq DOMAIN specs
        BY <1>0 DEF Specs_ok
      <4> QED BY <4>1
    <3> HIDE DEF ready
    <3>4. Piece_ok(x)
      BY <3>2, <3>3 DEF Piece_ok
    <3> QED BY <3>4, <1>0, Pieces
  <2> HIDE DEF e, x
  <2> QED BY <2>1, <2>2, <1>0, FinishedType
<1> QED BY <1>1, <1>2

(* The string "{}" is written without being parsed.                         *)
LEMMA FastPathType == ASSUME IInv, FastPath PROVE IInv'
<1> DEFINE a == get_arg(args, 0)
           e == IF a.type = "none_type" THEN "argument_not_found" ELSE write_error(a, format_specs)
<1>0. pc = "fast" /\ Out_ok(out)
  BY DEF FastPath, IInv
<1>1. CASE e # "none"
  <2>1. Fail(e, out)
    BY <1>1 DEF FastPath
  <2> HIDE DEF e
  <2> QED BY <2>1, <1>0, <1>1, FailType
<1>2. CASE e = "none"
  <2>1. /\ out' = <<[arg |-> a]>> /\ pc' = "done"
        /\ fmt' = fmt /\ args' = args /\ mode' = mode /\ p' = p /\ begin' = begin
        /\ next_arg_id' = next_arg_id /\ arg_id' = arg_id /\ specs' = specs
        /\ current_state' = current_state /\ err' = err
    BY <1>2 DEF FastPath, call_vars
  <2>2. Out_ok(out')
    <3>1. Piece_ok([arg |-> a])
      BY DEF Piece_ok
    <3> HIDE DEF a
    <3>2. Out_ok(<<[arg |-> a]>>)
      BY <3>1 DEF Out_ok, Range
    <3> QED BY <3>2, <2>1 DEF a
  <2>3. Place_ok'
    BY <2>1, <1>0, SameText DEF IInv, Place_ok
  <2> QED BY <2>1, <2>2, <2>3, KeepsSpecs
<1> QED BY <1>1, <1>2

(* Either pass starts before the string, with no specifier.                 *)
LEMMA StartType ==
  ASSUME IInv, Start, fmt' = fmt, args' = args
  PROVE  IInv'
<1>1. /\ mode' = "run" /\ pc' = (IF fmt = <<open, close>> THEN "fast" ELSE "text") /\ p' = 1 /\ begin' = 1
      /\ next_arg_id' = 0 /\ arg_id' = 0 /\ specs' = format_specs /\ current_state' = 0
      /\ out' = <<>> /\ err' = "none"
  BY DEF Start
<1>2. Len(fmt) \in Nat
  BY DEF IInv, Text_ok
<1>3. Place_ok'
  BY <1>1, <1>2, SameText DEF IInv, Place_ok
<1>4. Specs_ok(specs') /\ Refs_ok(specs)'
  BY <1>1, FirstSpecs DEF Refs_ok, Ref_ok, arg_id_kind
<1>5. Out_ok(out')
  BY <1>1 DEF Out_ok, Range
<1> QED BY <1>3, <1>4, <1>5, Stays

(* The call returns.                                                        *)
LEMMA ReturnType == ASSUME IInv, Return PROVE IInv'
<1>1. /\ mode = "run" /\ pc = "done" /\ pc' = "returned"
      /\ fmt' = fmt /\ args' = args /\ mode' = mode /\ p' = p /\ begin' = begin
      /\ next_arg_id' = next_arg_id /\ arg_id' = arg_id /\ specs' = specs
      /\ current_state' = current_state /\ out' = out /\ err' = err
  BY DEF Return
<1>2. Place_ok'
  BY <1>1, SameText DEF IInv, Place_ok
<1> QED BY <1>1, <1>2, KeepsSpecs DEF IInv

(* The inputs are calls, and the parser has read nothing.                   *)
LEMMA InitType == Init => IInv
<1> SUFFICES ASSUME Init PROVE IInv
  OBVIOUS
<1>1. /\ mode = "check" /\ pc = "text" /\ p = 1 /\ begin = 1
      /\ next_arg_id = 0 /\ arg_id = 0 /\ specs = format_specs /\ current_state = 0
      /\ out = <<>> /\ err = "none"
  BY DEF Init
<1>2. Text_ok /\ Args_ok
  <2>1. PICK i \in DOMAIN Inputs : fmt \in Inputs[i].fmts /\ args \in Inputs[i].args
    BY DEF Init
  <2>2. Text_ok
    BY <2>1, InputsAssumption DEF Text_ok
  <2>3. Args_ok
    BY <2>1, InputsAssumption DEF Args_ok
  <2> QED BY <2>2, <2>3
<1>3. Len(fmt) \in Nat
  BY <1>2 DEF Text_ok
<1>4. Place_ok
  BY <1>1, <1>3 DEF Place_ok
<1>5. Specs_ok(specs) /\ Refs_ok(specs)
  BY <1>1, FirstSpecs DEF Refs_ok, Ref_ok, arg_id_kind
<1>6. Out_ok(out)
  BY <1>1 DEF Out_ok, Range
<1> QED BY <1>2, <1>4, <1>5, <1>6 DEF IInv

(* Every step of the parser.                                                *)
LEMMA StepType == ASSUME IInv, [Next]_vars PROVE IInv'
<1>1. CASE Text BY <1>1, TextType
<1>2. CASE CloseBrace BY <1>2, CloseBraceType
<1>3. CASE OpenBrace BY <1>3, OpenBraceType
<1>4. CASE FieldAutomatic BY <1>4, FieldAutomaticType
<1>5. CASE FieldIndexed BY <1>5, FieldIndexedType
<1>6. CASE FieldNamed BY <1>6, FieldNamedType
<1>7. CASE FieldBroken BY <1>7, FieldBrokenType
<1>8. CASE Finish BY <1>8, FinishType
<1>9. CASE SpecAlign BY <1>9, SpecAlignType
<1>10. CASE SpecSign BY <1>10, SpecSignType
<1>11. CASE SpecHash BY <1>11, SpecHashType
<1>12. CASE SpecZero BY <1>12, SpecZeroType
<1>13. CASE SpecWidth BY <1>13, SpecWidthType
<1>14. CASE SpecPrecision BY <1>14, SpecPrecisionType
<1>15. CASE SpecLocale BY <1>15, SpecLocaleType
<1>16. CASE SpecType BY <1>16, SpecTypeType
<1>17. CASE SpecFill BY <1>17, SpecFillType
<1>18. CASE SpecEnd BY <1>18, SpecEndType
<1>19. CASE SpecSkip BY <1>19, SpecSkipType
<1>20. CASE Write BY <1>20, WriteType
<1>21. CASE FastPath BY <1>21, FastPathType
<1>22. CASE Call BY <1>22, StartType DEF Call
<1>23. CASE Return BY <1>23, ReturnType
<1>24. CASE UNCHANGED vars
  <2>1. /\ fmt' = fmt /\ args' = args /\ mode' = mode /\ pc' = pc /\ p' = p /\ begin' = begin
        /\ next_arg_id' = next_arg_id /\ arg_id' = arg_id /\ specs' = specs
        /\ current_state' = current_state /\ out' = out /\ err' = err
    BY <1>24 DEF vars
  <2>2. Place_ok'
    BY <2>1, SameText DEF IInv, Place_ok
  <2> QED BY <2>1, <2>2, KeepsSpecs DEF IInv
<1> QED BY <1>1, <1>2, <1>3, <1>4, <1>5, <1>6, <1>7, <1>8, <1>9, <1>10, <1>11, <1>12, <1>13, <1>14,
           <1>15, <1>16, <1>17, <1>18, <1>19, <1>20, <1>21, <1>22, <1>23, <1>24 DEF Next, Ended

(* The parser stays in its string and its words stay in their ranges: the   *)
(* position, the counter and the id, every field of the specifiers, and the *)
(* width and precision of all that is written, for each format string, list *)
(* of arguments and width of int.                                           *)
THEOREM ParserTypeCorrect == Spec => []TypeOK
<1>1. Init => IInv
  BY InitType
<1>2. IInv /\ [Next]_vars => IInv'
  BY StepType
<1>3. IInv => TypeOK
  BY InvType
<1> QED BY <1>1, <1>2, <1>3, PTL DEF Spec

(* The parser reads on in the same way while the call lasts.                *)
LEMMA SameIds ==
  ASSUME fmt' = fmt
  PROVE  /\ \A q : at(q)' = at(q)
         /\ \A q : parse_arg_id(q)' = parse_arg_id(q)
         /\ \A q, n : parse_nonnegative_int(q, n)' = parse_nonnegative_int(q, n)
         /\ \A q, id : skipped(q, id)' = skipped(q, id)
<1>1. \A q : at(q)' = at(q)
  BY DEF at
<1>2. \A q : parse_arg_id(q)' = parse_arg_id(q)
  BY DEF parse_arg_id, parse_nonnegative_int, SkipWhile, sums, at
<1>3. \A q, n : parse_nonnegative_int(q, n)' = parse_nonnegative_int(q, n)
  BY DEF parse_nonnegative_int, SkipWhile, sums, at
<1>4. \A q, id : skipped(q, id)' = skipped(q, id)
  BY DEF skipped, at
<1> QED BY <1>1, <1>2, <1>3, <1>4

(* StepOf depends on the string and the arguments.                          *)
LEMMA SameSteps ==
  ASSUME fmt' = fmt, args' = args, NEW c
  PROVE  StepOf(c)' = StepOf(c)
<1>1. \A m, n : automatic(m, n)' = automatic(m, n)
  BY DEF automatic, not_found
<1>2. \A m, n, id : check_arg_id(m, n, id)' = check_arg_id(m, n, id)
  BY DEF check_arg_id, not_found
<1>3. \A q : at(q)' = at(q)
  BY SameIds
<1>4. \A m, q, n, d : parse_dynamic_spec(m, q, n, d)' = parse_dynamic_spec(m, q, n, d)
  <2> TAKE m, q, n, d
  <2>1. \A id : check_dynamic_spec(m, id)' = check_dynamic_spec(m, id)
    BY DEF check_dynamic_spec
  <2>2. parse_nonnegative_int(q, -1)' = parse_nonnegative_int(q, -1)
    BY SameIds
  <2>3. parse_arg_id(q + 1)' = parse_arg_id(q + 1)
    BY SameIds
  <2> QED BY <1>1, <1>2, <1>3, <2>1, <2>2, <2>3, SMT DEF parse_dynamic_spec
<1>5. TextStep(c)' = TextStep(c)
  <2>1. parse_arg_id(c.p + 1)' = parse_arg_id(c.p + 1)
    BY SameIds
  <2>2. \A r, q : FieldStep(c, r, q)' = FieldStep(c, r, q)
    BY DEF FieldStep, at
  <2> QED BY <1>1, <1>2, <1>3, <2>1, <2>2 DEF TextStep
<1>6. WidthStep(c)' = WidthStep(c)
  BY <1>4 DEF WidthStep
<1>7. PrecisionStep(c)' = PrecisionStep(c)
  BY <1>4 DEF PrecisionStep, Type_of, at
<1>8. LetterStep(c)' = LetterStep(c) /\ FillStep(c)' = FillStep(c) /\ WriteStep(c)' = WriteStep(c)
  BY DEF LetterStep, FillStep, WriteStep, Char_specs_ok, Type_of, Char, at
<1>9. SpecStep(c)' = SpecStep(c)
  <2>1. Char(c)' = Char(c) /\ Type_of(c)' = Type_of(c)
    BY DEF Char, Type_of, at
  <2>2. \A i, j : skipped(i, j)' = skipped(i, j)
    BY SameIds
  <2> QED BY <1>3, <1>6, <1>7, <1>8, <2>1, <2>2 DEF SpecStep
<1> QED BY <1>5, <1>8, <1>9 DEF StepOf

-----------------------------------------------------------------------------
(* What a step of either pass says about StepOf.                            *)
Agrees ==
  LET s == StepOf(Config)
  IN  /\ mode = "check" =>
           IF pc' = "error" THEN ~s.ok ELSE s.ok /\ Config' = s.next /\ Counts_ok(Config')
      /\ mode = "run" =>
           IF pc' = "error" THEN s.ok => Excused'
           ELSE /\ pc' # "returned"
                /\ (s.ok /\ Config' = s.next) \/ (~s.ok /\ Doomed')

(* A step that reads on, and one that gives up.                             *)
LEMMA Moves ==
  ASSUME StepOf(Config).ok, Config' = StepOf(Config).next, pc' \notin {"error", "returned"},
         mode = "check" => Counts_ok(Config')
  PROVE  Agrees
BY DEF Agrees

(* A step that gives up agrees where the checker objects, or where the run  *)
(* has an excuse.                                                           *)
LEMMA Rejects ==
  ASSUME pc' = "error", StepOf(Config).ok => mode = "run" /\ Excused'
  PROVE  Agrees
BY DEF Agrees

(* The counts of the specifiers, in the configuration after a step.         *)
LEMMA SameCounts ==
  ASSUME Counts_ok(Config), Same_counts(specs, specs')
  PROVE  Counts_ok(Config')
<1>1. Config.specs = specs /\ Config'.specs = specs'
  BY DEF Config
<1> QED BY <1>1 DEF Counts_ok, Good_counts, Same_counts

(* Specifiers that are reset give no count.                                 *)
LEMMA NoCounts ==
  ASSUME specs' = format_specs
  PROVE  Counts_ok(Config')
<1>1. Config'.specs = specs'
  BY DEF Config
<1> QED BY <1>1, FirstSpecs DEF Counts_ok, Good_counts, Count_ok, arg_id_kind

(* The fields of an answer.                                                 *)
LEMMA ReadsIs ==
  ASSUME NEW b \in BOOLEAN, NEW c, NEW s, s = Reads(b, c)
  PROVE  (s.ok <=> b) /\ s.next = c
BY DEF Reads

(* The fields of the configuration.                                         *)
LEMMA ConfigIs ==
  /\ Config.pc = pc /\ Config.p = p /\ Config.n = next_arg_id /\ Config.id = arg_id
  /\ Config.specs = specs /\ Config.cs = current_state
BY DEF Config

(* A character of the text.                                                 *)
LEMMA TextAgrees == ASSUME Counts_ok(Config), Text PROVE Agrees
<1>1. /\ pc = "text" /\ at(p) \notin {open, close, "END"} /\ p' = p + 1
      /\ pc' = pc /\ next_arg_id' = next_arg_id /\ arg_id' = arg_id /\ specs' = specs
      /\ current_state' = current_state
  BY DEF Text, call_vars
<1>2. StepOf(Config) = Reads(TRUE, [Config EXCEPT !.p = p + 1])
  BY <1>1, ConfigIs DEF StepOf, TextStep
<1>3. Config' = [Config EXCEPT !.p = p + 1]
  BY <1>1 DEF Config
<1>4. Counts_ok(Config')
  BY <1>1, SameCounts DEF Same_counts
<1> QED BY <1>1, <1>2, <1>3, <1>4, Moves DEF Reads

(* A closing brace.                                                         *)
LEMMA CloseBraceAgrees == ASSUME Counts_ok(Config), CloseBrace PROVE Agrees
<1>1. /\ pc = "text" /\ at(p) = close
  BY DEF CloseBrace
<1> DEFINE b == at(p + 1) = close
           c == [Config EXCEPT !.p = p + 2]
<1>2. (StepOf(Config).ok <=> b) /\ StepOf(Config).next = c
  <2>1. StepOf(Config) = Reads(b, c)
    BY <1>1, ConfigIs, Braces DEF StepOf, TextStep
  <2>2. b \in BOOLEAN
    OBVIOUS
  <2> HIDE DEF b, c
  <2> QED BY <2>1, <2>2, ReadsIs
<1>3. CASE at(p + 1) # close
  <2>1. pc' = "error"
    BY <1>3 DEF CloseBrace, Fail
  <2> QED BY <1>2, <1>3, <2>1, Rejects DEF Reads
<1>4. CASE at(p + 1) = close
  <2>1. /\ p' = p + 2 /\ pc' = pc /\ next_arg_id' = next_arg_id /\ arg_id' = arg_id
        /\ specs' = specs /\ current_state' = current_state
    BY <1>4 DEF CloseBrace, call_vars
  <2>2. Config' = [Config EXCEPT !.p = p + 2]
    BY <2>1 DEF Config
  <2>3. Counts_ok(Config')
    BY <2>1, SameCounts DEF Same_counts
  <2> QED BY <1>1, <1>2, <1>4, <2>1, <2>2, <2>3, Moves DEF Reads
<1> QED BY <1>3, <1>4

(* An opening brace without a field.                                        *)
LEMMA OpenBraceAgrees == ASSUME Counts_ok(Config), OpenBrace PROVE Agrees
<1>1. /\ pc = "text" /\ at(p) = open /\ at(p + 1) = open /\ p' = p + 2
      /\ pc' = pc /\ next_arg_id' = next_arg_id /\ arg_id' = arg_id /\ specs' = specs
      /\ current_state' = current_state
  BY DEF OpenBrace, call_vars
<1>2. StepOf(Config) = Reads(TRUE, [Config EXCEPT !.p = p + 2])
  BY <1>1, ConfigIs, Braces DEF StepOf, TextStep
<1>3. Config' = [Config EXCEPT !.p = p + 2]
  BY <1>1 DEF Config
<1>4. Counts_ok(Config')
  BY <1>1, SameCounts DEF Same_counts
<1> QED BY <1>1, <1>2, <1>3, <1>4, Moves DEF Reads

(* The end of the string.                                                   *)
LEMMA FinishAgrees == ASSUME Counts_ok(Config), Finish PROVE Agrees
<1>1. /\ pc = "text" /\ at(p) = "END" /\ pc' = "done" /\ p' = p
      /\ next_arg_id' = next_arg_id /\ arg_id' = arg_id /\ specs' = specs
      /\ current_state' = current_state
  BY DEF Finish, call_vars
<1>2. StepOf(Config) = Reads(TRUE, [Config EXCEPT !.pc = "done"])
  BY <1>1, ConfigIs, Braces DEF StepOf, TextStep
<1>3. Config' = [Config EXCEPT !.pc = "done"]
  BY <1>1 DEF Config
<1>4. Counts_ok(Config')
  BY <1>1, SameCounts DEF Same_counts
<1> QED BY <1>1, <1>2, <1>3, <1>4, Moves DEF Reads

(* A field with a broken id.                                                *)
LEMMA FieldBrokenAgrees == ASSUME FieldBroken PROVE Agrees
<1>1. /\ pc = "text" /\ at(p) = open /\ pc' = "error"
      /\ \/ at(p + 1) = "END"
         \/ at(p + 1) \notin {open, close, ":", "END"} /\ parse_arg_id(p + 1).kind = "error"
  BY DEF FieldBroken, Fail
<1>2. StepOf(Config) = Reads(FALSE, Config)
  BY <1>1, ConfigIs, Braces DEF StepOf, TextStep
<1> QED BY <1>1, <1>2, Rejects DEF Reads

(* The exceptions of the writers.                                           *)
LEMMA WriteErrors ==
  \A a, s : write_error(a, s) \in {"none", "string_pointer_is_null", "number_is_too_big"}
BY DEF write_error, float_error

(* A field: r is what the checker's context says of its id, x what the      *)
(* context of the pass says.                                                *)
LEMMA FieldAgrees ==
  ASSUME Args_ok, mode \in {"check", "run"}, Counts_ok(Config), pc = "text",
         NEW q, NEW r, NEW x, StepOf(Config) = FieldStep(Config, r, q), Field(x, q),
         mode = "check" => x = r,
         mode = "run" => /\ x.n = r.n /\ x.id = r.id
                         /\ r.err = "none" => x.err = "none" /\ x.id < Len(args)
                         /\ x.err = "none" /\ r.err # "none" => x.id >= Len(args),
         x.err = "none" => x.id \in Int /\ x.id >= 0
  PROVE  Agrees
<1> DEFINE b == r.err = "none" /\ at(q) \in {close, ":"}
           c == IF at(q) = close THEN [Config EXCEPT !.p = q + 1, !.n = r.n, !.id = r.id]
                ELSE [Config EXCEPT !.pc = "specs", !.p = q + 1, !.n = r.n, !.id = r.id,
                                    !.specs = format_specs, !.cs = 0]
           t == get_arg(args, x.id).type
           w == write_error(get_arg(args, x.id), format_specs)
           e == First(x.err, IF mode = "run" /\ at(q) \in {close, ":"}
                             THEN IF t = "none_type" THEN "argument_not_found"
                                  ELSE IF at(q) = close THEN w ELSE "none"
                             ELSE "none")
<1>1. (StepOf(Config).ok <=> b) /\ StepOf(Config).next = c
  <2>1. StepOf(Config) = Reads(b, c)
    BY DEF FieldStep
  <2>2. b \in BOOLEAN
    OBVIOUS
  <2> HIDE DEF b, c
  <2> QED BY <2>1, <2>2, ReadsIs
<1>2. close # ":"
  BY Braces
<1>3. /\ e # "none" => Fail(e, Written(begin, p - 1))
      /\ e = "none" /\ at(q) \notin {close, ":"} => Fail("missing_brace", Written(begin, p - 1))
      /\ e = "none" /\ at(q) = close => on_replacement_field(x.id, q, x.n)
      /\ e = "none" /\ at(q) = ":" => on_format_specs(x.id, q + 1, x.n)
  BY <1>2 DEF Field
<1>4. e # "none" => pc' = "error" /\ err' = e
  <2> HIDE DEF e
  <2> QED BY <1>3 DEF Fail
<1>5. mode = "run" /\ x.err = "none" => ((t = "none_type") <=> (x.id >= Len(args)))
  <2>1. no_arg.type = "none_type"
    BY DEF no_arg
  <2>2. Len(args) \in Nat
    BY DEF Args_ok
  <2> QED BY <2>1, <2>2, GetArg
<1>6. (e = "none") <=> /\ x.err = "none"
                       /\ mode = "run" /\ at(q) \in {close, ":"} =>
                            t # "none_type" /\ (at(q) = close => w = "none")
  <2> HIDE DEF t, w
  <2> QED BY <1>2, Firsts
<1>7. x.err = "none" \/ e = x.err
  BY DEF First
<1>8. x.err = "none" /\ e # "none" => e \in {"argument_not_found", w} /\ (t # "none_type" => e = w)
  <2> HIDE DEF t, w
  <2> QED BY DEF First
<1> HIDE DEF e
<1>9. CASE ~b
  <2>1. pc' = "error"
    <3>1. CASE e = "none"
      <4>1. x.err = "none"
        BY <1>6, <3>1
      <4>2. at(q) \notin {close, ":"}
        <5>1. SUFFICES ASSUME at(q) \in {close, ":"} PROVE FALSE
          OBVIOUS
        <5>2. r.err # "none"
          BY <1>9, <5>1
        <5>3. mode = "run" /\ x.id >= Len(args)
          BY <4>1, <5>2
        <5> QED BY <1>5, <1>6, <3>1, <4>1, <5>1, <5>3
      <4> QED BY <1>3, <3>1, <4>2 DEF Fail
    <3> QED BY <1>4, <3>1
  <2> HIDE DEF b, c
  <2> QED BY <1>1, <1>9, <2>1, Rejects
<1>10. CASE b /\ e # "none"
  <2>1. mode = "run" /\ x.err = "none" /\ t # "none_type"
    <3>1. mode = "run"
      BY <1>6, <1>10
    <3>2. x.err = "none" /\ x.id < Len(args)
      BY <1>10, <3>1
    <3>3. Len(args) \in Nat /\ x.id \in Int
      BY <3>2 DEF Args_ok
    <3> QED BY <1>5, <3>1, <3>2, <3>3
  <2>2. e = w /\ w \in {"none", "string_pointer_is_null", "number_is_too_big"}
    BY <1>8, <1>10, <2>1, WriteErrors
  <2>3. Excused'
    BY <1>4, <1>10, <2>2 DEF Excused
  <2> HIDE DEF b, c, w, t
  <2> QED BY <1>4, <1>10, <2>1, <2>3, Rejects
<1>11. CASE b /\ e = "none"
  <2>1. x.n = r.n /\ x.id = r.id
    OBVIOUS
  <2>2. CASE at(q) = close
    <3>1. /\ pc' = "text" /\ p' = q + 1 /\ next_arg_id' = r.n /\ arg_id' = r.id
          /\ specs' = specs /\ current_state' = current_state
      BY <1>3, <1>11, <2>1, <2>2 DEF on_replacement_field
    <3>2. Config' = c
      BY <2>2, <3>1 DEF Config
    <3>3. Counts_ok(Config')
      BY <3>1, SameCounts DEF Same_counts
    <3> HIDE DEF b, c
    <3> QED BY <1>1, <1>11, <3>1, <3>2, <3>3, Moves
  <2>3. CASE at(q) = ":"
    <3>1. /\ pc' = "specs" /\ p' = q + 1 /\ next_arg_id' = r.n /\ arg_id' = r.id
          /\ specs' = format_specs /\ current_state' = 0
      BY <1>3, <1>11, <2>1, <2>3 DEF on_format_specs
    <3>2. Config' = c
      BY <1>2, <2>3, <3>1 DEF Config
    <3>3. Counts_ok(Config')
      BY <3>1, NoCounts
    <3> HIDE DEF b, c
    <3> QED BY <1>1, <1>11, <3>1, <3>2, <3>3, Moves
  <2> QED BY <1>11, <2>2, <2>3
<1> HIDE DEF b
<1> QED BY <1>9, <1>10, <1>11

(* A field without an id: where the checker counts an argument that is      *)
(* there, the run finds it.                                                 *)
LEMMA FieldAutomaticAgrees ==
  ASSUME IInv, Counts_ok(Config), FieldAutomatic
  PROVE  Agrees
<1> DEFINE r == automatic("check", next_arg_id)
           x == automatic(mode, next_arg_id)
<1>1. pc = "text" /\ at(p) = open /\ at(p + 1) \in {close, ":"} /\ Field(x, p + 1)
  BY DEF FieldAutomatic
<1>2. Args_ok /\ next_arg_id \in Int /\ next_arg_id >= -1 /\ mode \in {"check", "run"}
  BY DEF IInv, Place_ok
<1>3. at(p + 1) # open
  BY <1>1, Braces
<1>4. StepOf(Config) = FieldStep(Config, r, p + 1)
  BY <1>1, <1>3, ConfigIs, Braces DEF StepOf, TextStep
<1>5. mode = "check" => x = r
  OBVIOUS
<1>6. mode = "run" => /\ x.n = r.n /\ x.id = r.id
                      /\ r.err = "none" => x.err = "none" /\ x.id < Len(args)
                      /\ x.err = "none" /\ r.err # "none" => x.id >= Len(args)
  BY <1>2, Contexts
<1>7. x.err = "none" => x.id \in Int /\ x.id >= 0
  BY <1>2, Contexts
<1> HIDE DEF r, x
<1> QED BY <1>1, <1>2, <1>4, <1>5, <1>6, <1>7, FieldAgrees

(* A field with an index.                                                   *)
LEMMA FieldIndexedAgrees ==
  ASSUME IInv, Counts_ok(Config), FieldIndexed
  PROVE  Agrees
<1> DEFINE id == parse_arg_id(p + 1)
           r == check_arg_id("check", next_arg_id, id.id)
           x == check_arg_id(mode, next_arg_id, id.id)
<1>1. /\ pc = "text" /\ at(p) = open /\ at(p + 1) \notin {open, close, ":", "END"}
      /\ id.kind = "index" /\ Field(x, id.p)
  BY DEF FieldIndexed
<1>2. /\ p \in Int /\ p >= 1 /\ Len(fmt) \in Nat /\ Text_ok /\ Args_ok
      /\ next_arg_id \in Int /\ next_arg_id >= -1 /\ mode \in {"check", "run"}
  BY DEF IInv, Place_ok, Text_ok
<1>3. StepOf(Config) = FieldStep(Config, r, id.p)
  BY <1>1, ConfigIs, Braces DEF StepOf, TextStep
<1>4. id.id \in Int /\ id.id >= 0
  <2>1. p + 1 \in Int /\ p + 1 >= 1 /\ p + 1 <= Len(fmt) + 1
    BY <1>1, <1>2, At, Braces
  <2> QED BY <2>1, <1>1, <1>2, ArgIds, IntMaxFacts
<1> HIDE DEF id
<1>5. mode = "check" => x = r
  OBVIOUS
<1>6. mode = "run" => /\ x.n = r.n /\ x.id = r.id
                      /\ r.err = "none" => x.err = "none" /\ x.id < Len(args)
                      /\ x.err = "none" /\ r.err # "none" => x.id >= Len(args)
  BY <1>2, <1>4, Contexts
<1>7. x.err = "none" => x.id \in Int /\ x.id >= 0
  BY <1>2, <1>4, Contexts
<1> HIDE DEF r, x
<1> QED BY <1>1, <1>2, <1>3, <1>5, <1>6, <1>7, FieldAgrees

(* A name is excluded.                                                      *)
LEMMA FieldNamedNot == ASSUME IInv, FieldNamed PROVE Named
<1> DEFINE id == parse_arg_id(p + 1)
<1>1. pc = "text" /\ at(p) = open /\ id.kind = "name"
  BY DEF FieldNamed
<1>2. p \in Int /\ p >= 1 /\ Len(fmt) \in Nat /\ Text_ok
  BY DEF IInv, Place_ok, Text_ok
<1>3. p <= Len(fmt)
  BY <1>1, <1>2, At, Braces
<1>4. at(p + 1) \in name_start
  <2>1. p + 1 \in Int /\ p + 1 >= 1 /\ p + 1 <= Len(fmt) + 1
    BY <1>2, <1>3
  <2> QED BY <2>1, <1>1, <1>2, ArgIds
<1>5. p \in 1 .. Len(fmt)
  BY <1>2, <1>3
<1> QED BY <1>1, <1>4, <1>5 DEF Named

-----------------------------------------------------------------------------
(* No character is in two classes of the specifiers.                        *)
LEMMA Classes ==
  /\ \A c \in {"<", ">", "^"} : c \notin {"+", blank, "-", "#", "0", open, ".", "L", close, "END", "NUL"} \union digit \union letters
  /\ \A c \in {"+", blank, "-"} : c \notin {"#", "0", open, ".", "L", close, "END", "NUL"} \union digit \union letters
  /\ \A c \in {"#", ".", "L"} : c \notin {"0", open, close, "END", "NUL"} \union digit \union letters
  /\ \A c \in digit \union {open} : c \notin {close, "END", "NUL"} \union letters
  /\ \A c \in letters : c \notin {close, "END", "NUL"}
  /\ close \notin {"END", "NUL"} /\ "0" \in digit
<1>1. letters = {"d", "x", "o", "b", "c", "e", "f", "g", "a", "s", "p", "X", "B", "E", "F", "G", "A", "?"}
  <2>1. letters = {"d", "x", "o", "b", "c", "e", "f", "g", "a", "s", "p"}
                  \union {"X", "B", "E", "F", "G", "A"} \union {"?"}
    BY Letters, Zenon DEF letters
  <2> QED BY <2>1, Zenon
<1>2. digit = {"0", "1", "2", "3", "4", "5", "6", "7", "8", "9"}
  BY DigitsAre
<1>3. \A c \in {"<", ">", "^"} : c \notin {"+", blank, "-", "#", "0", open, ".", "L", close, "END", "NUL"} \union digit \union letters
  BY <1>1, <1>2, Zenon DEF blank, open, close
<1>4. \A c \in {"+", blank, "-"} : c \notin {"#", "0", open, ".", "L", close, "END", "NUL"} \union digit \union letters
  BY <1>1, <1>2, Zenon DEF blank, open, close
<1>5. \A c \in {"#", ".", "L"} : c \notin {"0", open, close, "END", "NUL"} \union digit \union letters
  BY <1>1, <1>2, Zenon DEF open, close
<1>6. \A c \in digit \union {open} : c \notin {close, "END", "NUL"} \union letters
  BY <1>1, <1>2, Zenon DEF open, close
<1>7. \A c \in letters : c \notin {close, "END", "NUL"}
  BY <1>1, Zenon DEF close
<1>8. close \notin {"END", "NUL"} /\ "0" \in digit
  BY <1>2, Zenon DEF close
<1> QED BY <1>3, <1>4, <1>5, <1>6, <1>7, <1>8

(* Of the characters that are specifiers by themselves, no two are the      *)
(* same.                                                                    *)
LEMMA Singles ==
  /\ "#" # "." /\ "#" # "L" /\ "." # "L" /\ "0" # open
  /\ \A c \in (digit \ {"0"}) \union {open} : c # "0"
BY Braces, Classes

(* The cases of the switch.                                                 *)
LEMMA SpecSteps ==
  ASSUME pc = "specs"
  PROVE  /\ arg_type = "custom_type" =>
              StepOf(Config) = Reads(TRUE, [Config EXCEPT !.pc = "write", !.p = skipped(p, arg_id)])
         /\ arg_type # "custom_type" =>
              /\ c_ \in {"<", ">", "^"} =>
                   StepOf(Config) = GoStep(Config, order.align, p + 1,
                                           set(specs, align_field, parse_align(c_)), next_arg_id, TRUE)
              /\ c_ \in {"+", blank, "-"} =>
                   StepOf(Config) = GoStep(Config, order.sign, p + 1,
                     CASE c_ = blank -> set(specs, sign_field, sign.space)
                       [] c_ = "+" -> set(specs, sign_field, sign.plus)
                       [] OTHER -> specs,
                     next_arg_id, arg_type \in sint_set \union float_set)
              /\ c_ = "#" =>
                   StepOf(Config) = GoStep(Config, order.hash, p + 1, set(specs, alternate_field, 1),
                                           next_arg_id, is_arithmetic_type(arg_type))
              /\ c_ = "0" =>
                   StepOf(Config) = GoStep(Config, order.zero, p + 1,
                     IF get(specs, align_field) = align.none
                     THEN set_fill(set(specs, align_field, align.numeric), <<"0">>) ELSE specs,
                     next_arg_id, is_arithmetic_type(arg_type))
              /\ c_ = "L" =>
                   StepOf(Config) = GoStep(Config, order.locale, p + 1, set(specs, localized_field, 1),
                                           next_arg_id, is_arithmetic_type(arg_type))
              /\ c_ \in (digit \ {"0"}) \union {open} => StepOf(Config) = WidthStep(Config)
              /\ c_ = "." => StepOf(Config) = PrecisionStep(Config)
              /\ c_ \in letters => StepOf(Config) = LetterStep(Config)
              /\ at(p) \in {close, "END"} /\ c_ \in {close, "END", "NUL"} =>
                   StepOf(Config) = Reads(TRUE, [Config EXCEPT !.pc = "write"])
              /\ /\ ~(at(p) \in {close, "END"} /\ c_ \in {close, "END", "NUL"})
                 /\ c_ \notin {"<", ">", "^", "+", blank, "-", "#", ".", "L", open} \union digit \union letters
                 => StepOf(Config) = FillStep(Config)
<1>1. StepOf(Config) = SpecStep(Config)
  BY ConfigIs DEF StepOf
<1>2. Type_of(Config) = arg_type /\ Char(Config) = c_
  BY ConfigIs DEF Type_of, arg_type, Char, c_
<1>3. arg_type = "custom_type" => StepOf(Config) = Reads(TRUE, [Config EXCEPT !.pc = "write", !.p = skipped(p, arg_id)])
  BY <1>1, <1>2, ConfigIs DEF SpecStep
<1>4. ASSUME arg_type # "custom_type", c_ \in {"<", ">", "^"}
      PROVE  StepOf(Config) = GoStep(Config, order.align, p + 1,
                                           set(specs, align_field, parse_align(c_)), next_arg_id, TRUE)
  BY <1>1, <1>2, <1>4, ConfigIs, Classes, Zenon DEF SpecStep
<1>5. ASSUME arg_type # "custom_type", c_ \in {"+", blank, "-"}
      PROVE  StepOf(Config) = GoStep(Config, order.sign, p + 1,
                     CASE c_ = blank -> set(specs, sign_field, sign.space)
                       [] c_ = "+" -> set(specs, sign_field, sign.plus)
                       [] OTHER -> specs,
                     next_arg_id, arg_type \in sint_set \union float_set)
  BY <1>1, <1>2, <1>5, ConfigIs, Classes DEF SpecStep
<1>6. ASSUME arg_type # "custom_type", c_ = "#"
      PROVE  StepOf(Config) = GoStep(Config, order.hash, p + 1, set(specs, alternate_field, 1),
                                           next_arg_id, is_arithmetic_type(arg_type))
  BY <1>1, <1>2, <1>6, ConfigIs, Classes, Singles DEF SpecStep
<1>7. ASSUME arg_type # "custom_type", c_ = "0"
      PROVE  StepOf(Config) = GoStep(Config, order.zero, p + 1,
                     IF get(specs, align_field) = align.none
                     THEN set_fill(set(specs, align_field, align.numeric), <<"0">>) ELSE specs,
                     next_arg_id, is_arithmetic_type(arg_type))
  BY <1>1, <1>2, <1>7, ConfigIs, Classes, Singles DEF SpecStep
<1>8. ASSUME arg_type # "custom_type", c_ = "L"
      PROVE  StepOf(Config) = GoStep(Config, order.locale, p + 1, set(specs, localized_field, 1),
                                           next_arg_id, is_arithmetic_type(arg_type))
  BY <1>1, <1>2, <1>8, ConfigIs, Classes, Singles DEF SpecStep
<1>9. ASSUME arg_type # "custom_type", c_ \in (digit \ {"0"}) \union {open}
      PROVE  StepOf(Config) = WidthStep(Config)
  BY <1>1, <1>2, <1>9, Classes, Singles DEF SpecStep
<1>10. ASSUME arg_type # "custom_type", c_ = "." PROVE StepOf(Config) = PrecisionStep(Config)
  BY <1>1, <1>2, <1>10, Classes, Singles DEF SpecStep
<1>11. ASSUME arg_type # "custom_type", c_ \in letters PROVE StepOf(Config) = LetterStep(Config)
  BY <1>1, <1>2, <1>11, Classes, Singles DEF SpecStep
<1>12. ASSUME arg_type # "custom_type", at(p) \in {close, "END"}, c_ \in {close, "END", "NUL"}
       PROVE StepOf(Config) = Reads(TRUE, [Config EXCEPT !.pc = "write"])
  BY <1>1, <1>2, <1>12, ConfigIs, Classes, Singles DEF SpecStep
<1>13. ASSUME arg_type # "custom_type",
              ~(at(p) \in {close, "END"} /\ c_ \in {close, "END", "NUL"}),
              c_ \notin {"<", ">", "^", "+", blank, "-", "#", ".", "L", open} \union digit \union letters
       PROVE  StepOf(Config) = FillStep(Config)
  BY <1>1, <1>2, <1>13, ConfigIs, Classes, Singles DEF SpecStep
<1> QED BY <1>2, <1>3, <1>4, <1>5, <1>6, <1>7, <1>8, <1>9, <1>10, <1>11, <1>12, <1>13, ZenonT(60)

(* One specifier, whatever the pass.                                        *)
LEMMA GoAgrees ==
  ASSUME Counts_ok(Config), pc = "specs", NEW s, NEW q, NEW sp, NEW n, NEW e, NEW valid \in BOOLEAN,
         StepOf(Config) = GoStep(Config, s, q, sp, n, valid), Go(s, q, sp, n, e),
         (e = "none") <=> (current_state < s /\ valid),
         e = "none" => Same_counts(specs, sp)
  PROVE  Agrees
<1> DEFINE b == current_state < s /\ valid
           c == [Config EXCEPT !.p = q, !.cs = s, !.specs = sp, !.n = n]
<1>1. (StepOf(Config).ok <=> b) /\ StepOf(Config).next = c
  <2>1. StepOf(Config) = Reads(b, c)
    BY ConfigIs DEF GoStep
  <2>2. b \in BOOLEAN
    OBVIOUS
  <2> HIDE DEF b, c
  <2> QED BY <2>1, <2>2, ReadsIs
<1>2. CASE e # "none"
  <2>1. pc' = "error"
    BY <1>2 DEF Go, Fail
  <2> HIDE DEF c
  <2> QED BY <1>1, <1>2, <2>1, Rejects
<1>3. CASE e = "none"
  <2>1. /\ p' = q /\ current_state' = s /\ specs' = sp /\ next_arg_id' = n
        /\ pc' = pc /\ arg_id' = arg_id
    BY <1>3 DEF Go
  <2>2. Config' = c
    <3>1. Config' = [pc |-> pc, p |-> q, n |-> n, id |-> arg_id, specs |-> sp, cs |-> s]
      BY <2>1 DEF Config
    <3>2. PICK v : v = c
      OBVIOUS
    <3>3. v = [pc |-> pc, p |-> q, n |-> n, id |-> arg_id, specs |-> sp, cs |-> s]
      BY <3>2 DEF Config
    <3> QED BY <3>1, <3>2, <3>3
  <2>3. Counts_ok(Config')
    BY <1>3, <2>1, SameCounts
  <2> HIDE DEF b, c
  <2> QED BY <1>1, <1>3, <2>1, <2>2, <2>3, Moves DEF b
<1> QED BY <1>2, <1>3

(* A specifier is accepted once, in its order, for the types that allow it. *)
LEMMA EnterState ==
  ASSUME NEW s \in Int, current_state \in Int, NEW valid
  PROVE  (enter_state(s, valid) = "none") <=> (current_state < s /\ valid)
BY DEF enter_state

(* An alignment.                                                            *)
LEMMA SpecAlignAgrees == ASSUME IInv, Counts_ok(Config), SpecAlign PROVE Agrees
<1> DEFINE t == set(specs, align_field, parse_align(c_))
           e == enter_state(order.align, TRUE)
<1>1. Parsed /\ c_ \in {"<", ">", "^"} /\ Go(order.align, p + 1, t, next_arg_id, e)
  BY DEF SpecAlign
<1>2. Same_counts(specs, t)
  BY <1>1, SpecFacts, Alignments, SpecsAlign
<1>3. pc = "specs" /\ StepOf(Config) = GoStep(Config, order.align, p + 1, t, next_arg_id, TRUE)
  BY <1>1, SpecSteps DEF Parsed
<1>4. (e = "none") <=> (current_state < order.align /\ TRUE)
  BY Orders DEF enter_state, IInv, Place_ok
<1> HIDE DEF t, e
<1> QED BY <1>1, <1>2, <1>3, <1>4, GoAgrees

(* A sign.                                                                  *)
LEMMA SpecSignAgrees == ASSUME IInv, Counts_ok(Config), SpecSign PROVE Agrees
<1> DEFINE t == CASE c_ = blank -> set(specs, sign_field, sign.space)
                  [] c_ = "+" -> set(specs, sign_field, sign.plus)
                  [] OTHER -> specs
           valid == arg_type \in sint_set \union float_set
           e == enter_state(order.sign, valid)
<1>1. Parsed /\ c_ \in {"+", blank, "-"} /\ Go(order.sign, p + 1, t, next_arg_id, e)
  BY DEF SpecSign
<1>2. sign.space = 3 /\ sign.plus = 2
  BY DEF sign
<1>3. \A v \in 0 .. 3 : Same_counts(specs, set(specs, sign_field, v))
  BY <1>1, SpecFacts, SpecsSign
<1>4. Same_counts(specs, t)
  BY <1>2, <1>3 DEF Same_counts
<1>5. pc = "specs" /\ StepOf(Config) = GoStep(Config, order.sign, p + 1, t, next_arg_id, valid)
  BY <1>1, SpecSteps DEF Parsed
<1>6. valid \in BOOLEAN
  OBVIOUS
<1> HIDE DEF t, valid
<1>7. (e = "none") <=> (current_state < order.sign /\ valid)
  BY Orders, EnterState DEF IInv, Place_ok
<1> HIDE DEF e
<1> QED BY <1>1, <1>4, <1>5, <1>6, <1>7, GoAgrees

(* The specifier #.                                                         *)
LEMMA SpecHashAgrees == ASSUME IInv, Counts_ok(Config), SpecHash PROVE Agrees
<1> DEFINE t == set(specs, alternate_field, 1)
           valid == is_arithmetic_type(arg_type)
           e == enter_state(order.hash, valid)
<1>1. Parsed /\ c_ = "#" /\ Go(order.hash, p + 1, t, next_arg_id, e)
  BY DEF SpecHash
<1>2. Same_counts(specs, t)
  BY <1>1, SpecFacts, SpecsAlternate
<1>3. pc = "specs" /\ StepOf(Config) = GoStep(Config, order.hash, p + 1, t, next_arg_id, valid)
  BY <1>1, SpecSteps DEF Parsed
<1>4. valid \in BOOLEAN
  BY DEF is_arithmetic_type
<1> HIDE DEF t, valid
<1>5. (e = "none") <=> (current_state < order.hash /\ valid)
  BY Orders, EnterState DEF IInv, Place_ok
<1> HIDE DEF e
<1> QED BY <1>1, <1>2, <1>3, <1>4, <1>5, GoAgrees

(* The specifier 0.                                                         *)
LEMMA SpecZeroAgrees == ASSUME IInv, Counts_ok(Config), SpecZero PROVE Agrees
<1> DEFINE u == set(specs, align_field, align.numeric)
           t == IF get(specs, align_field) = align.none THEN set_fill(u, <<"0">>) ELSE specs
           valid == is_arithmetic_type(arg_type)
           e == First(enter_state(order.zero, TRUE),
                      IF valid THEN "none" ELSE "format_specifier_requires_numeric_argument")
<1>1. Parsed /\ c_ = "0" /\ Go(order.zero, p + 1, t, next_arg_id, e)
  BY DEF SpecZero
<1>2. pc = "specs" /\ StepOf(Config) = GoStep(Config, order.zero, p + 1, t, next_arg_id, valid)
  BY <1>1, SpecSteps DEF Parsed
<1>3. valid \in BOOLEAN
  BY DEF is_arithmetic_type
<1>4. Same_counts(specs, u) /\ Specs_ok(u)
  BY <1>1, SpecFacts, Alignments, SpecsAlign
<1> HIDE DEF u
<1>5. Same_counts(u, set_fill(u, <<"0">>))
  <2>1. Len(<<"0">>) = 1 /\ 1 \in 1 .. 4
    OBVIOUS
  <2> QED BY <2>1, <1>4, SpecsFill
<1>6. Same_counts(specs, t)
  BY <1>4, <1>5 DEF Same_counts
<1> HIDE DEF t, valid
<1>7. (e = "none") <=> (current_state < order.zero /\ valid)
  BY Orders, Firsts DEF enter_state, IInv, Place_ok
<1> HIDE DEF e
<1> QED BY <1>1, <1>2, <1>3, <1>6, <1>7, GoAgrees

(* The specifier L.                                                         *)
LEMMA SpecLocaleAgrees == ASSUME IInv, Counts_ok(Config), SpecLocale PROVE Agrees
<1> DEFINE t == set(specs, localized_field, 1)
           valid == is_arithmetic_type(arg_type)
           e == enter_state(order.locale, valid)
<1>1. Parsed /\ c_ = "L" /\ Go(order.locale, p + 1, t, next_arg_id, e)
  BY DEF SpecLocale
<1>2. Same_counts(specs, t)
  BY <1>1, SpecFacts, SpecsLocalized
<1>3. pc = "specs" /\ StepOf(Config) = GoStep(Config, order.locale, p + 1, t, next_arg_id, valid)
  BY <1>1, SpecSteps DEF Parsed
<1>4. valid \in BOOLEAN
  BY DEF is_arithmetic_type
<1> HIDE DEF t, valid
<1>5. (e = "none") <=> (current_state < order.locale /\ valid)
  BY Orders, EnterState DEF IInv, Place_ok
<1> HIDE DEF e
<1> QED BY <1>1, <1>2, <1>3, <1>4, <1>5, GoAgrees

(* A fill character.                                                        *)
LEMMA SpecFillAgrees == ASSUME IInv, Counts_ok(Config), SpecFill PROVE Agrees
<1> DEFINE fill_end == p + code_point_length(at(p))
           alignment == parse_align(at(fill_end))
           s == SubSeq(fmt, p, fill_end - 1)
           filled == set_fill(specs, s)
           t == set(filled, align_field, alignment)
           e == CASE fill_end > Len(fmt) -> "invalid_format_specifier"
                  [] fill_end <= Len(fmt) /\ at(p) = open -> "invalid_fill_character"
                  [] OTHER -> enter_state(order.align, alignment # align.none)
           valid == fill_end <= Len(fmt) /\ at(p) # open /\ alignment # align.none
<1>1. /\ Parsed /\ Go(order.align, fill_end + 1, t, next_arg_id, e) /\ at(p) \notin {close, "END"}
      /\ c_ \notin {"<", ">", "^", "+", blank, "-", "#", ".", "L", open} \union digit \union letters
  BY DEF SpecFill, letters
<1>2. pc = "specs" /\ StepOf(Config) = GoStep(Config, order.align, fill_end + 1, t, next_arg_id, valid)
  <2>1. pc = "specs" /\ StepOf(Config) = FillStep(Config)
    BY <1>1, SpecSteps DEF Parsed
  <2> QED BY <2>1, ConfigIs DEF FillStep
<1>3. valid \in BOOLEAN
  OBVIOUS
<1>4. code_point_length(at(p)) \in 1 .. 3
  BY DEF code_point_length
<1>5. p \in Int /\ Len(fmt) \in Nat /\ Specs_ok(specs) /\ p >= 1 /\ fmt \in Seq(STRING)
  BY <1>1, SpecFacts DEF Text_ok
<1> DEFINE m == code_point_length(at(p))
<1>6. fill_end = p + m /\ m \in 1 .. 3
  BY <1>4
<1>7. (e = "none") <=> (current_state < order.align /\ valid)
  <2>1. (enter_state(order.align, alignment # align.none) = "none")
          <=> (current_state < order.align /\ alignment # align.none)
    BY Orders DEF enter_state, IInv, Place_ok
  <2>2. fill_end \in Int
    BY <1>5, <1>6
  <2> HIDE DEF fill_end, alignment, m
  <2>3. CASE fill_end > Len(fmt)
    BY <2>2, <2>3, <1>5
  <2>4. CASE ~(fill_end > Len(fmt)) /\ at(p) = open
    BY <2>2, <2>4, <1>5
  <2>5. CASE ~(fill_end > Len(fmt)) /\ at(p) # open
    <3>1. e = enter_state(order.align, alignment # align.none)
      BY <2>2, <2>5, <1>5
    <3>2. valid <=> alignment # align.none
      BY <2>2, <2>5, <1>5
    <3> QED BY <3>1, <3>2, <2>1
  <2> QED BY <2>3, <2>4, <2>5
<1> HIDE DEF e
<1>8. ASSUME e = "none" PROVE Same_counts(specs, t)
  <2>1. fill_end <= Len(fmt)
    BY <1>7, <1>8
  <2> HIDE DEF fill_end, m, alignment
  <2>2. Len(s) = m
    <3>1. fill_end - 1 \in Int /\ fill_end - 1 <= Len(fmt) /\ p <= fill_end - 1 /\ (fill_end - 1) - p + 1 = m
      BY <2>1, <1>5, <1>6
    <3> QED BY <3>1, <1>5
  <2> HIDE DEF s
  <2>3. Specs_ok(filled) /\ Same_counts(specs, filled)
    <3>1. m \in 1 .. 4
      BY <1>6
    <3> QED BY <3>1, <2>2, <1>5, SpecsFill
  <2> HIDE DEF filled
  <2>4. alignment \in Nat /\ alignment < 5
    BY Alignments DEF alignment
  <2>5. Same_counts(filled, t)
    BY <2>3, <2>4, SpecsAlign
  <2> HIDE DEF t
  <2> QED BY <2>3, <2>5 DEF Same_counts
<1> HIDE DEF valid, t, fill_end
<1> QED BY <1>1, <1>2, <1>3, <1>7, <1>8, GoAgrees

(* One specifier that gives a count, on which the passes can differ.        *)
LEMMA CountAgrees ==
  ASSUME pc = "specs", mode \in {"check", "run"},
         NEW s, NEW q, NEW sp, NEW n, NEW e, NEW valid \in BOOLEAN,
         StepOf(Config) = GoStep(Config, s, q, sp, n, valid), Go(s, q, sp, n, e),
         current_state < s /\ valid => e = "none",
         e = "none" => current_state < s /\ (mode = "check" => valid /\ Good_counts(sp)),
         e = "none" /\ ~valid => Bad_counts(sp, s)
  PROVE  Agrees
<1> DEFINE b == current_state < s /\ valid
           c == [Config EXCEPT !.p = q, !.cs = s, !.specs = sp, !.n = n]
<1>1. (StepOf(Config).ok <=> b) /\ StepOf(Config).next = c
  <2>1. StepOf(Config) = Reads(b, c)
    BY ConfigIs DEF GoStep
  <2>2. b \in BOOLEAN
    OBVIOUS
  <2> HIDE DEF b, c
  <2> QED BY <2>1, <2>2, ReadsIs
<1>2. CASE e # "none"
  <2>1. pc' = "error"
    BY <1>2 DEF Go, Fail
  <2> HIDE DEF c
  <2> QED BY <1>1, <1>2, <2>1, Rejects
<1>3. CASE e = "none"
  <2>1. /\ p' = q /\ current_state' = s /\ specs' = sp /\ next_arg_id' = n
        /\ pc' = pc /\ arg_id' = arg_id /\ args' = args
    BY <1>3 DEF Go, call_vars
  <2>2. Config' = c
    <3>1. Config' = [pc |-> pc, p |-> q, n |-> n, id |-> arg_id, specs |-> sp, cs |-> s]
      BY <2>1 DEF Config
    <3>2. PICK v : v = c
      OBVIOUS
    <3>3. v = [pc |-> pc, p |-> q, n |-> n, id |-> arg_id, specs |-> sp, cs |-> s]
      BY <3>2 DEF Config
    <3> QED BY <3>1, <3>2, <3>3
  <2> HIDE DEF c
  <2>3. CASE valid
    <3>1. mode = "check" => Counts_ok(Config')
      <4>1. Config'.specs = sp
        BY <2>1 DEF Config
      <4> QED BY <1>3, <4>1 DEF Counts_ok
    <3> QED BY <1>1, <1>3, <2>1, <2>2, <2>3, <3>1, Moves
  <2>4. CASE ~valid
    <3>1. mode = "run" /\ Bad_counts(sp, s)
      BY <1>3, <2>4
    <3>2. Doomed'
      BY <2>1, <3>1 DEF Doomed, Bad_counts, Bad_count
    <3> QED BY <1>1, <2>1, <2>4, <3>1, <3>2 DEF Agrees
  <2> QED BY <2>3, <2>4
<1> QED BY <1>2, <1>3

(* The types that give a count are integral.                                *)
LEMMA IntegerTypes == \A t \in sint_set \union uint_set : is_integral_type(t)
<1>1. type_number("char_type") = 8
  <2>1. type[8] = "char_type"
    BY DEF type
  <2> QED BY <2>1, TypeNumbers
<1>2. \A t \in sint_set \union uint_set : \E i \in 1 .. 6 : t = type[i]
  BY DEF sint_set, uint_set, type
<1>3. \A t \in sint_set \union uint_set : type_number(t) \in 1 .. 8
  BY <1>2, TypeNumbers
<1> QED BY <1>1, <1>3 DEF is_integral_type

(* What the passes read of a count at q.                                    *)
LEMMA CountsRead ==
  ASSUME Text_ok, Args_ok, ~Named, mode \in {"check", "run"}, NEW q \in Int, q >= 1, q <= Len(fmt) + 1,
         NEW n \in Int, n >= -1, n < q, NEW dflt,
         NEW r, r = parse_dynamic_spec("check", q, n, dflt),
         NEW x, x = parse_dynamic_spec(mode, q, n, dflt)
  PROVE  /\ x.p = r.p /\ x.n = r.n /\ x.kind = r.kind /\ x.ref = r.ref /\ x.value = r.value
         /\ mode = "check" => x.err = r.err
         /\ r.err = "none" => x.err = "none" /\ Count_ok(x.kind, x.ref)
         /\ x.err = "none" /\ r.err # "none" => Bad_count(x.kind, x.ref)
         /\ x.err = "none" => x.kind \in 0 .. 2 /\ (x.value \in 0 .. IntMax \/ x.value = dflt)
<1> DEFINE y == parse_dynamic_spec("run", q, n, dflt)
<1>1. /\ y.p = r.p /\ y.n = r.n /\ y.kind = r.kind /\ y.ref = r.ref /\ y.value = r.value
      /\ r.err = "none" => y.err = "none" /\ (r.kind = arg_id_kind.index => Integral(r.ref))
      /\ y.err = "none" /\ r.err # "none" => y.kind = arg_id_kind.index /\ ~Integral(y.ref)
  BY DynamicSpecs
<1>2. (mode = "check" => x = r) /\ (mode = "run" => x = y)
  OBVIOUS
<1>3. x.err = "none" => Spec_ok(x, q, dflt) /\ Ref_ok(x.kind, x.ref)
  BY Read_ok
<1> HIDE DEF y
<1>4. x.err = "none" =>
        /\ x.kind = arg_id_kind.none \/ (x.kind = arg_id_kind.index /\ x.ref \in Nat)
        /\ x.kind \in 0 .. 2 /\ (x.value \in 0 .. IntMax \/ x.value = dflt)
  BY <1>3 DEF Ref_ok, Spec_ok
<1>5. Len(args) \in Nat
  BY DEF Args_ok
<1>6. ASSUME r.err = "none" PROVE x.err = "none" /\ Count_ok(x.kind, x.ref)
  <2>1. x.err = "none" /\ (x.kind = arg_id_kind.index => Integral(x.ref))
    BY <1>1, <1>2, <1>6
  <2>2. x.kind = arg_id_kind.none \/ (x.kind = arg_id_kind.index /\ x.ref \in 0 .. Len(args) - 1)
    BY <1>4, <1>5, <2>1 DEF Integral
  <2> QED BY <2>1, <2>2 DEF Count_ok, Integral
<1>7. ASSUME x.err = "none", r.err # "none" PROVE Bad_count(x.kind, x.ref)
  <2>1. x.kind = arg_id_kind.index /\ ~Integral(x.ref)
    BY <1>1, <1>2, <1>7
  <2>2. x.ref \in Nat
    BY <1>4, <1>7, <2>1 DEF arg_id_kind
  <2> QED BY <2>1, <2>2, IntegerTypes DEF Bad_count, Integral
<1> QED BY <1>1, <1>2, <1>4, <1>6, <1>7

(* A width. The passes differ where its argument is no integer: the run     *)
(* goes on and is doomed.                                                   *)
LEMMA SpecWidthAgrees == ASSUME IInv, ~Named, Counts_ok(Config), SpecWidth PROVE Agrees
<1> DEFINE r == parse_dynamic_spec("check", p, next_arg_id, specs.width)
           x == parse_dynamic_spec(mode, p, next_arg_id, specs.width)
           t == Width_set(specs, x.kind, x.value, x.ref)
           e == First(enter_state(order.width, TRUE), x.err)
           valid == r.err = "none"
<1>1. Parsed /\ Go(order.width, x.p, t, x.n, e) /\ c_ \in (digit \ {"0"}) \union {open}
  BY DEF SpecWidth, GoWidth, Width_set
<1>2. /\ x.p = r.p /\ x.n = r.n /\ x.kind = r.kind /\ x.ref = r.ref /\ x.value = r.value
      /\ mode = "check" => x.err = r.err
      /\ r.err = "none" => x.err = "none" /\ Count_ok(x.kind, x.ref)
      /\ x.err = "none" /\ r.err # "none" => Bad_count(x.kind, x.ref)
      /\ x.err = "none" => x.kind \in 0 .. 2 /\ (x.value \in 0 .. IntMax \/ x.value = specs.width)
  BY <1>1, SpecFacts, CountsRead
<1>3. pc = "specs" /\ StepOf(Config) = GoStep(Config, order.width, x.p, t, x.n, valid)
  <2>1. pc = "specs" /\ StepOf(Config) = WidthStep(Config)
    BY <1>1, SpecSteps DEF Parsed
  <2>2. WidthStep(Config) = GoStep(Config, order.width, r.p, Width_set(specs, r.kind, r.value, r.ref),
                                   r.n, valid)
    BY ConfigIs DEF WidthStep, Width_set
  <2> HIDE DEF r, x, valid
  <2> QED BY <2>1, <2>2, <1>2
<1>4. valid \in BOOLEAN
  OBVIOUS
<1> HIDE DEF r, x
<1>5. (e = "none") <=> (current_state < order.width /\ x.err = "none")
  BY Orders, Firsts DEF enter_state, IInv, Place_ok
<1>6. Specs_ok(specs) /\ mode \in {"check", "run"} /\ Good_counts(specs)
  BY <1>1, SpecFacts, ConfigIs DEF Counts_ok
<1> HIDE DEF e
<1>7. x.err = "none" =>
        /\ get(t, width_field) = x.kind /\ t.width_ref = x.ref
        /\ get(t, precision_field) = get(specs, precision_field) /\ t.precision_ref = specs.precision_ref
  <2>1. x.err = "none" => x.kind \in 0 .. 2 /\ x.value \in 0 .. IntMax
    BY <1>2, <1>6 DEF Specs_ok
  <2> QED BY <2>1, <1>6, SpecsWidth
<1> HIDE DEF t
<1>8. e = "none" => current_state < order.width /\ (mode = "check" => valid /\ Good_counts(t))
  BY <1>2, <1>5, <1>6, <1>7 DEF Good_counts
<1>9. e = "none" /\ ~valid => Bad_counts(t, order.width)
  BY <1>2, <1>5, <1>7, Orders DEF Bad_counts
<1>10. current_state < order.width /\ valid => e = "none"
  BY <1>2, <1>5
<1> HIDE DEF valid
<1> QED BY <1>1, <1>3, <1>4, <1>6, <1>8, <1>9, <1>10, CountAgrees

(* A precision, in the same way.                                            *)
LEMMA SpecPrecisionAgrees == ASSUME IInv, ~Named, Counts_ok(Config), SpecPrecision PROVE Agrees
<1> DEFINE r == parse_dynamic_spec("check", p + 1, next_arg_id, specs.precision)
           x == parse_dynamic_spec(mode, p + 1, next_arg_id, specs.precision)
           t == Precision_set(specs, x.kind, x.value, x.ref)
           fits == arg_type \in float_set \union string_set \union cstring_set
           e == First(enter_state(order.precision, fits),
                      IF at(p + 1) = "END" THEN "invalid_precision" ELSE x.err)
           valid == fits /\ at(p + 1) # "END" /\ r.err = "none"
<1>1. Parsed /\ Go(order.precision, x.p, t, x.n, e) /\ c_ = "."
  <2>1. SpecPrecision => Parsed /\ c_ = "." /\ GoPrecision(parse_dynamic_spec(mode, p + 1, next_arg_id, specs.precision))
    BY DEF SpecPrecision
  <2> QED BY <2>1 DEF GoPrecision, Precision_set
<1>2. /\ x.p = r.p /\ x.n = r.n /\ x.kind = r.kind /\ x.ref = r.ref /\ x.value = r.value
      /\ mode = "check" => x.err = r.err
      /\ r.err = "none" => x.err = "none" /\ Count_ok(x.kind, x.ref)
      /\ x.err = "none" /\ r.err # "none" => Bad_count(x.kind, x.ref)
      /\ x.err = "none" => x.kind \in 0 .. 2 /\ (x.value \in 0 .. IntMax \/ x.value = specs.precision)
  <2>1. p + 1 \in Int /\ p + 1 >= 1 /\ p + 1 <= Len(fmt) + 1 /\ next_arg_id < p + 1
    BY <1>1, SpecFacts
  <2> QED BY <1>1, <2>1, SpecFacts, CountsRead
<1>3. pc = "specs" /\ StepOf(Config) = GoStep(Config, order.precision, x.p, t, x.n, valid)
  <2>1. pc = "specs" /\ StepOf(Config) = PrecisionStep(Config)
    BY <1>1, SpecSteps DEF Parsed
  <2>2. Type_of(Config) = arg_type
    BY ConfigIs DEF Type_of, arg_type
  <2>3. PrecisionStep(Config) = GoStep(Config, order.precision, r.p,
                                       Precision_set(specs, r.kind, r.value, r.ref), r.n, valid)
    BY <2>2, ConfigIs DEF PrecisionStep, Precision_set
  <2> HIDE DEF r, x, valid
  <2> QED BY <2>1, <2>3, <1>2
<1>4. valid \in BOOLEAN /\ fits \in BOOLEAN
  OBVIOUS
<1> HIDE DEF r, x, fits
<1>5. (e = "none") <=> (current_state < order.precision /\ fits /\ at(p + 1) # "END" /\ x.err = "none")
  BY <1>4, Orders, Firsts DEF enter_state, IInv, Place_ok
<1>6. Specs_ok(specs) /\ mode \in {"check", "run"} /\ Good_counts(specs)
  BY <1>1, SpecFacts, ConfigIs DEF Counts_ok
<1> HIDE DEF e
<1>7. x.err = "none" =>
        /\ get(t, precision_field) = x.kind /\ t.precision_ref = x.ref
        /\ get(t, width_field) = get(specs, width_field) /\ t.width_ref = specs.width_ref
  <2>1. x.err = "none" => x.kind \in 0 .. 2 /\ x.value \in -1 .. IntMax
    BY <1>2, <1>6, IntMaxFacts DEF Specs_ok
  <2> QED BY <2>1, <1>6, SpecsPrecision
<1> HIDE DEF t
<1>8. e = "none" => current_state < order.precision /\ (mode = "check" => valid /\ Good_counts(t))
  BY <1>2, <1>5, <1>6, <1>7 DEF Good_counts
<1>9. e = "none" /\ ~valid => Bad_counts(t, order.precision)
  BY <1>2, <1>5, <1>7, Orders DEF Bad_counts
<1>10. current_state < order.precision /\ valid => e = "none"
  BY <1>2, <1>5
<1> HIDE DEF valid
<1> QED BY <1>1, <1>3, <1>4, <1>6, <1>8, <1>9, <1>10, CountAgrees

(* A presentation type.                                                     *)
LEMMA SpecTypeAgrees == ASSUME IInv, Counts_ok(Config), SpecType PROVE Agrees
<1> DEFINE letter == IF c_ \in DOMAIN upper THEN upper[c_] ELSE c_
           t == IF c_ = "?" THEN [as |-> "debug", for |-> debug_set] ELSE presentation[letter]
           cased == IF c_ \in DOMAIN upper THEN set(specs, uppercase_field, 1) ELSE specs
           u == set(cased, type_field, presentation_type[t.as])
           b == arg_type \in t.for
           c == [Config EXCEPT !.pc = "write", !.p = p + 1, !.specs = u]
<1>1. Parsed /\ c_ \in letters
  BY DEF SpecType, letters
<1>2. pc = "specs" /\ arg_type # "custom_type" /\ Specs_ok(specs)
  BY <1>1, SpecFacts DEF Parsed
<1>3. (StepOf(Config).ok <=> b) /\ StepOf(Config).next = c
  <2>1. StepOf(Config) = LetterStep(Config)
    BY <1>1, <1>2, SpecSteps
  <2>2. Type_of(Config) = arg_type /\ Char(Config) = c_
    BY ConfigIs DEF Type_of, arg_type, Char, c_
  <2>3. LetterStep(Config) = Reads(b, c)
    BY <2>2, ConfigIs DEF LetterStep
  <2>4. b \in BOOLEAN
    OBVIOUS
  <2> HIDE DEF b, c
  <2> QED BY <2>1, <2>3, <2>4, ReadsIs
<1>4. CASE ~b
  <2>1. pc' = "error"
    BY <1>4 DEF SpecType, Fail
  <2> HIDE DEF b, c
  <2> QED BY <1>3, <1>4, <2>1, Rejects
<1>5. CASE b
  <2>1. /\ specs' = u /\ p' = p + 1 /\ pc' = "write" /\ next_arg_id' = next_arg_id
        /\ arg_id' = arg_id /\ current_state' = current_state
    BY <1>5 DEF SpecType
  <2>2. Specs_ok(cased) /\ Same_counts(specs, cased)
    <3>1. /\ Specs_ok(set(specs, uppercase_field, 1))
          /\ Same_counts(specs, set(specs, uppercase_field, 1))
      BY <1>2, SpecsUppercase
    <3> QED BY <3>1, <1>2 DEF Same_counts
  <2>3. t.as \in DOMAIN presentation_type
    <3>1. c_ # "?" => letter \in DOMAIN presentation
      BY <1>1, Letters DEF letters
    <3> HIDE DEF letter
    <3> QED BY <3>1, Letters
  <2>4. presentation_type[t.as] \in Nat /\ presentation_type[t.as] < 8
    BY <2>3, Letters
  <2> HIDE DEF cased, t
  <2>5. Same_counts(cased, u)
    BY <2>2, <2>4, SpecsType
  <2> HIDE DEF u
  <2>6. Counts_ok(Config')
    <3>1. Same_counts(specs, specs')
      BY <2>1, <2>2, <2>5 DEF Same_counts
    <3> QED BY <3>1, SameCounts
  <2>7. Config' = c
    <3>1. Config' = [pc |-> "write", p |-> p + 1, n |-> next_arg_id, id |-> arg_id, specs |-> u,
                     cs |-> current_state]
      BY <2>1 DEF Config
    <3>2. PICK v : v = c
      OBVIOUS
    <3>3. v = [pc |-> "write", p |-> p + 1, n |-> next_arg_id, id |-> arg_id, specs |-> u,
               cs |-> current_state]
      BY <3>2 DEF Config
    <3> QED BY <3>1, <3>2, <3>3
  <2> HIDE DEF b, c
  <2> QED BY <1>3, <1>5, <2>1, <2>6, <2>7, Moves
<1> HIDE DEF b
<1> QED BY <1>4, <1>5

(* The end of the specifiers.                                               *)
LEMMA SpecEndAgrees == ASSUME IInv, Counts_ok(Config), SpecEnd PROVE Agrees
<1>1. /\ pc = "specs" /\ arg_type # "custom_type" /\ at(p) \in {close, "END"} /\ c_ \in {close, "END", "NUL"}
      /\ pc' = "write" /\ p' = p /\ next_arg_id' = next_arg_id /\ arg_id' = arg_id /\ specs' = specs
      /\ current_state' = current_state
  BY DEF SpecEnd, Parsed
<1>2. StepOf(Config) = Reads(TRUE, [Config EXCEPT !.pc = "write"])
  BY <1>1, SpecSteps
<1>3. Config' = [Config EXCEPT !.pc = "write"]
  BY <1>1 DEF Config
<1>4. Counts_ok(Config')
  BY <1>1, SameCounts DEF Same_counts
<1> QED BY <1>1, <1>2, <1>3, <1>4, Moves DEF Reads

(* The specifiers of a custom type.                                         *)
LEMMA SpecSkipAgrees == ASSUME IInv, ~Named, Counts_ok(Config), SpecSkip PROVE Agrees
<1>1. /\ pc = "specs" /\ pc' = "write" /\ p' = skipped(p, arg_id) /\ next_arg_id' = next_arg_id
      /\ arg_id' = arg_id /\ specs' = specs /\ current_state' = current_state
  BY DEF SpecSkip
<1>2. arg_type = "custom_type"
  BY DEF SpecSkip, Parsed, IInv, Place_ok
<1>3. StepOf(Config) = Reads(TRUE, [Config EXCEPT !.pc = "write", !.p = skipped(p, arg_id)])
  BY <1>1, <1>2, SpecSteps
<1>4. Config' = [Config EXCEPT !.pc = "write", !.p = skipped(p, arg_id)]
  <2>1. Config' = [pc |-> "write", p |-> skipped(p, arg_id), n |-> next_arg_id, id |-> arg_id,
                   specs |-> specs, cs |-> current_state]
    BY <1>1 DEF Config
  <2>2. PICK v : v = [Config EXCEPT !.pc = "write", !.p = skipped(p, arg_id)]
    OBVIOUS
  <2>3. v = [pc |-> "write", p |-> skipped(p, arg_id), n |-> next_arg_id, id |-> arg_id,
             specs |-> specs, cs |-> current_state]
    BY <2>2 DEF Config
  <2> QED BY <2>1, <2>2, <2>3
<1>5. Counts_ok(Config')
  BY <1>1, SameCounts DEF Same_counts
<1> QED BY <1>1, <1>3, <1>4, <1>5, Moves DEF Reads

-----------------------------------------------------------------------------
(* The exceptions that a string without an error can raise.                 *)
Excusable(e) ==
  \/ e \in {"width/precision_is_out_of_range", "string_pointer_is_null", "number_is_too_big"}
  \/ /\ e = "width/precision_is_not_integer"
     /\ \E i \in DOMAIN args : args[i].type \in bool_set \union char_set

(* A count that the checker accepted fails only so.                         *)
LEMMA GoodCountErrors ==
  ASSUME Args_ok, NEW kind, NEW ref, NEW value, Count_ok(kind, ref)
  PROVE  LET e == handle_dynamic_spec(kind, ref, value).err
         IN  e = "none" \/ Excusable(e)
<1> DEFINE a == get_arg(args, ref)
           e == handle_dynamic_spec(kind, ref, value).err
<1>0. Len(args) \in Nat /\ DOMAIN args = 1 .. Len(args)
  BY DEF Args_ok
<1>1. CASE kind = arg_id_kind.none
  BY <1>1 DEF handle_dynamic_spec
<1>2. CASE kind = arg_id_kind.index /\ ref \in 0 .. Len(args) - 1 /\ is_integral_type(args[ref + 1].type)
  <2>1. e = get_dynamic_spec(a).err
    BY <1>2 DEF handle_dynamic_spec, dynamic_arg, arg_id_kind
  <2>2. a.type = args[ref + 1].type /\ a.type # "none_type" /\ ref + 1 \in DOMAIN args
    BY <1>0, <1>2, GetArg
  <2>3. a.type \in integral_set
    <3>1. args[ref + 1].type \in Range(type)
      BY <2>2 DEF Args_ok
    <3> QED BY <3>1, <1>2, <2>2, TypesAre
  <2> HIDE DEF a
  <2>4. CASE a.type \in sint_set \union uint_set
    <3>1. e \in {"none", "width/precision_is_out_of_range"}
      BY <2>1, <2>2, <2>4 DEF get_dynamic_spec
    <3> QED BY <3>1 DEF Excusable
  <2>5. CASE a.type \notin sint_set \union uint_set
    <3>1. e = "width/precision_is_not_integer"
      BY <2>1, <2>2, <2>5 DEF get_dynamic_spec
    <3>2. args[ref + 1].type \in bool_set \union char_set
      BY <2>2, <2>3, <2>5 DEF integral_set
    <3> QED BY <3>1, <3>2, <2>2 DEF Excusable
  <2> QED BY <2>4, <2>5
<1> HIDE DEF e
<1> QED BY <1>1, <1>2 DEF Count_ok, e

(* One that is no integer fails.                                            *)
LEMMA BadCountErrors ==
  ASSUME Args_ok, NEW kind, NEW ref, NEW value, Bad_count(kind, ref)
  PROVE  handle_dynamic_spec(kind, ref, value).err # "none"
<1> DEFINE a == get_arg(args, ref)
<1>0. Len(args) \in Nat
  BY DEF Args_ok
<1>1. handle_dynamic_spec(kind, ref, value) = get_dynamic_spec(a)
  BY DEF Bad_count, handle_dynamic_spec, dynamic_arg, arg_id_kind
<1>2. a.type \notin sint_set \union uint_set
  <2>1. CASE ref < Len(args)
    <3>1. a.type = args[ref + 1].type
      BY <2>1, GetArg DEF Bad_count
    <3> QED BY <3>1, <2>1 DEF Bad_count
  <2>2. CASE ~(ref < Len(args))
    <3>1. a = no_arg
      BY <1>0, <2>2, GetArg DEF Bad_count
    <3> QED BY <3>1 DEF no_arg, sint_set, uint_set
  <2> QED BY <2>1, <2>2
<1> HIDE DEF a
<1> QED BY <1>1, <1>2 DEF get_dynamic_spec

(* A field that is finished: w is what is written, e the exception.         *)
LEMMA FinishedAgrees ==
  ASSUME Counts_ok(Config), pc = "write", NEW e, NEW w, Finished(e, w),
         e = "none" => Char_specs_ok(Config),
         Char_specs_ok(Config) /\ e # "none" => mode = "run" /\ Excusable(e)
  PROVE  Agrees
<1> DEFINE b == Char_specs_ok(Config) /\ at(p) = close
           c == [Config EXCEPT !.pc = "text", !.p = p + 1]
<1>1. (StepOf(Config).ok <=> b) /\ StepOf(Config).next = c
  <2>1. StepOf(Config) = Reads(b, c)
    BY ConfigIs DEF StepOf, WriteStep
  <2>2. b \in BOOLEAN
    BY DEF Char_specs_ok
  <2> HIDE DEF b, c
  <2> QED BY <2>1, <2>2, ReadsIs
<1> HIDE DEF c
<1>2. CASE e # "none"
  <2>1. pc' = "error" /\ err' = e /\ args' = args
    BY <1>2 DEF Finished, Fail, call_vars
  <2>2. Excusable(e) => Excused'
    BY <2>1 DEF Excusable, Excused
  <2> QED BY <1>1, <1>2, <2>1, <2>2, Rejects
<1>3. CASE e = "none" /\ at(p) # close
  <2>1. pc' = "error"
    BY <1>3 DEF Finished, Fail
  <2> QED BY <1>1, <1>3, <2>1, Rejects
<1>4. CASE e = "none" /\ at(p) = close
  <2>1. /\ pc' = "text" /\ p' = p + 1 /\ next_arg_id' = next_arg_id
        /\ arg_id' = arg_id /\ specs' = specs /\ current_state' = current_state
    BY <1>4 DEF Finished
  <2>2. Config' = c
    <3>1. Config' = [pc |-> "text", p |-> p + 1, n |-> next_arg_id, id |-> arg_id,
                     specs |-> specs, cs |-> current_state]
      BY <2>1 DEF Config
    <3>2. PICK v : v = c
      OBVIOUS
    <3>3. v = [pc |-> "text", p |-> p + 1, n |-> next_arg_id, id |-> arg_id,
               specs |-> specs, cs |-> current_state]
      BY <3>2 DEF Config, c
    <3> QED BY <3>1, <3>2, <3>3
  <2>3. Counts_ok(Config')
    BY <2>1, SameCounts DEF Same_counts
  <2> QED BY <1>1, <1>4, <2>1, <2>2, <2>3, Moves
<1> QED BY <1>2, <1>3, <1>4

(* A field is written.                                                      *)
LEMMA WriteAgrees == ASSUME IInv, ~Named, Counts_ok(Config), Write PROVE Agrees
<1>0. pc = "write" /\ Args_ok /\ mode \in {"check", "run"} /\ arg_id \in Int /\ arg_id >= 0
  BY DEF Write, IInv, Place_ok
<1>1. Char_specs_ok(Config) <=> check_char_specs = "none"
  <2>1. Type_of(Config) = arg_type
    BY ConfigIs DEF Type_of, arg_type
  <2> QED BY <2>1, <1>0, ConfigIs DEF Char_specs_ok, check_char_specs
<1>2. CASE mode = "check"
  <2>1. Finished(check_char_specs, out)
    BY <1>2 DEF Write
  <2> QED BY <2>1, <1>0, <1>1, FinishedAgrees
<1>3. CASE mode = "run"
  <2> DEFINE width == handle_dynamic_spec(get(specs, width_field), specs.width_ref, specs.width)
             precision == handle_dynamic_spec(get(specs, precision_field), specs.precision_ref, specs.precision)
             ready == [specs EXCEPT !.width = width.value, !.precision = precision.value]
             a == get_arg(args, arg_id)
             w == write_error(a, ready)
             e == First(First(width.err, precision.err), First(check_char_specs, w))
             x == [arg |-> a, specs |-> ready]
  <2>1. Finished(e, Append(out, x))
    BY <1>3 DEF Write, WriteReady, WriteArg
  <2>2. Good_counts(specs)
    BY ConfigIs DEF Counts_ok
  <2>3. width.err = "none" \/ Excusable(width.err)
    BY <1>0, <2>2, GoodCountErrors DEF Good_counts
  <2>4. precision.err = "none" \/ Excusable(precision.err)
    BY <1>0, <2>2, GoodCountErrors DEF Good_counts
  <2>5. w = "none" \/ Excusable(w)
    BY WriteErrors DEF Excusable
  <2> HIDE DEF width, precision, w, x
  <2>6. e = "none" => Char_specs_ok(Config)
    BY <1>1, Firsts
  <2>7. Char_specs_ok(Config) /\ e # "none" => Excusable(e)
    BY <1>1, <2>3, <2>4, <2>5 DEF First
  <2> HIDE DEF e
  <2> QED BY <1>0, <1>3, <2>1, <2>6, <2>7, FinishedAgrees
<1> QED BY <1>0, <1>2, <1>3

-----------------------------------------------------------------------------
(* A field with a bad count stays bad until it fails.                       *)
LEMMA DoomedGo ==
  ASSUME pc = "specs", current_state \in Int, Bad_counts(specs, current_state),
         NEW s, NEW q, NEW sp, NEW n, NEW e, Go(s, q, sp, n, e),
         e = "none" => Bad_counts(sp, s)
  PROVE  pc' = "error" \/ Doomed'
<1>1. CASE e # "none"
  BY <1>1 DEF Go, Fail
<1>2. CASE e = "none"
  <2>1. pc' = pc /\ specs' = sp /\ current_state' = s /\ args' = args
    BY <1>2 DEF Go, call_vars
  <2> QED BY <1>2, <2>1 DEF Doomed, Bad_counts, Bad_count
<1> QED BY <1>1, <1>2

(* What comes before a count cannot follow it.                              *)
LEMMA DoomedLate ==
  ASSUME pc = "specs", current_state \in Int, Bad_counts(specs, current_state),
         NEW s \in 1 .. 5, NEW q, NEW sp, NEW n, NEW e, Go(s, q, sp, n, e),
         e = "none" => current_state < s
  PROVE  pc' = "error"
<1>1. current_state >= 5
  BY Orders DEF Bad_counts
<1>2. e # "none"
  BY <1>1
<1> QED BY <1>2 DEF Go, Fail

(* A later specifier leaves the counts alone.                               *)
LEMMA DoomedStays ==
  ASSUME current_state \in Int, Bad_counts(specs, current_state), Same_counts(specs, specs'),
         args' = args, current_state' \in Int, current_state' >= current_state,
         pc' \in {"specs", "write"}
  PROVE  Doomed'
<1>1. Bad_counts(specs', current_state')
  BY Orders DEF Bad_counts, Same_counts
<1> QED BY <1>1 DEF Doomed, Bad_counts, Bad_count

(* After a bad width nothing that should come before it is accepted.        *)
LEMMA DoomedEarly ==
  ASSUME IInv, Bad_counts(specs, current_state),
         SpecAlign \/ SpecSign \/ SpecHash \/ SpecZero \/ SpecWidth \/ SpecFill
  PROVE  pc' = "error"
<1>0. current_state \in Int
  BY DEF IInv, Place_ok
<1>1. CASE SpecAlign
  <2> DEFINE e == enter_state(order.align, TRUE)
  <2>1. pc = "specs" /\ \E q, sp, n : Go(order.align, q, sp, n, e)
    BY <1>1 DEF SpecAlign, Parsed
  <2>2. e = "none" => current_state < order.align
    BY <1>0, Orders DEF enter_state
  <2> HIDE DEF e
  <2> QED BY <1>0, <2>1, <2>2, Orders, DoomedLate
<1>2. CASE SpecSign
  <2> DEFINE e == enter_state(order.sign, arg_type \in sint_set \union float_set)
  <2>1. pc = "specs" /\ \E q, sp, n : Go(order.sign, q, sp, n, e)
    BY <1>2 DEF SpecSign, Parsed
  <2>2. e = "none" => current_state < order.sign
    BY <1>0, Orders DEF enter_state
  <2> HIDE DEF e
  <2> QED BY <1>0, <2>1, <2>2, Orders, DoomedLate
<1>3. CASE SpecHash
  <2> DEFINE e == enter_state(order.hash, is_arithmetic_type(arg_type))
  <2>1. pc = "specs" /\ \E q, sp, n : Go(order.hash, q, sp, n, e)
    BY <1>3 DEF SpecHash, Parsed
  <2>2. e = "none" => current_state < order.hash
    BY <1>0, Orders DEF enter_state
  <2> HIDE DEF e
  <2> QED BY <1>0, <2>1, <2>2, Orders, DoomedLate
<1>4. CASE SpecZero
  <2> DEFINE f == IF is_arithmetic_type(arg_type) THEN "none"
                  ELSE "format_specifier_requires_numeric_argument"
             e == First(enter_state(order.zero, TRUE), f)
  <2>1. pc = "specs" /\ \E q, sp, n : Go(order.zero, q, sp, n, e)
    BY <1>4 DEF SpecZero, Parsed
  <2> HIDE DEF f
  <2>2. e = "none" => current_state < order.zero
    BY <1>0, Orders, Firsts DEF enter_state
  <2> HIDE DEF e
  <2> QED BY <1>0, <2>1, <2>2, Orders, DoomedLate
<1>5. CASE SpecWidth
  <2> DEFINE r == parse_dynamic_spec(mode, p, next_arg_id, specs.width)
             e == First(enter_state(order.width, TRUE), r.err)
  <2>1. pc = "specs" /\ \E q, sp, n : Go(order.width, q, sp, n, e)
    BY <1>5 DEF SpecWidth, GoWidth, Parsed
  <2> HIDE DEF r
  <2>2. e = "none" => current_state < order.width
    BY <1>0, Orders, Firsts DEF enter_state
  <2> HIDE DEF e
  <2> QED BY <1>0, <2>1, <2>2, Orders, DoomedLate
<1>6. CASE SpecFill
  <2> DEFINE fill_end == p + code_point_length(at(p))
             alignment == parse_align(at(fill_end))
             e == CASE fill_end > Len(fmt) -> "invalid_format_specifier"
                    [] fill_end <= Len(fmt) /\ at(p) = open -> "invalid_fill_character"
                    [] OTHER -> enter_state(order.align, alignment # align.none)
  <2>1. pc = "specs" /\ \E q, sp, n : Go(order.align, q, sp, n, e)
    BY <1>6 DEF SpecFill, Parsed
  <2>2. enter_state(order.align, alignment # align.none) = "none" => current_state < order.align
    BY <1>0, Orders DEF enter_state
  <2> HIDE DEF fill_end, alignment
  <2>3. e = "none" => current_state < order.align
    BY <2>2
  <2> HIDE DEF e
  <2> QED BY <1>0, <2>1, <2>3, Orders, DoomedLate
<1> QED BY <1>1, <1>2, <1>3, <1>4, <1>5, <1>6

(* A precision can follow a bad width.                                      *)
LEMMA DoomedPrecision ==
  ASSUME IInv, Bad_counts(specs, current_state), SpecPrecision
  PROVE  pc' = "error" \/ Doomed'
<1> DEFINE r == parse_dynamic_spec(mode, p + 1, next_arg_id, specs.precision)
           t == Precision_set(specs, r.kind, r.value, r.ref)
           f == IF at(p + 1) = "END" THEN "invalid_precision" ELSE r.err
           e == First(enter_state(order.precision, arg_type \in float_set \union string_set \union cstring_set), f)
<1>1. Parsed /\ c_ = "." /\ Go(order.precision, r.p, t, r.n, e)
  <2>1. SpecPrecision => Parsed /\ c_ = "." /\ GoPrecision(parse_dynamic_spec(mode, p + 1, next_arg_id, specs.precision))
    BY DEF SpecPrecision
  <2> QED BY <2>1 DEF GoPrecision, Precision_set
<1>2. pc = "specs" /\ current_state \in Int /\ Specs_ok(specs)
  BY <1>1, SpecFacts DEF IInv, Place_ok
<1>3. ASSUME e = "none" PROVE Bad_counts(t, order.precision)
  <2>1. r.err = "none"
    <3>1. f = "none"
      <4> HIDE DEF f
      <4> QED BY <1>3, Firsts
    <3> QED BY <3>1
  <2>2. current_state < order.precision
    <3> HIDE DEF f
    <3> QED BY <1>2, <1>3, Orders, Firsts DEF enter_state
  <2>3. p + 1 \in Int /\ p + 1 >= 1 /\ p + 1 <= Len(fmt) + 1 /\ next_arg_id < p + 1
    BY <1>1, SpecFacts
  <2>4. Spec_ok(r, p + 1, specs.precision)
    BY <1>1, <2>1, <2>3, SpecFacts, Read_ok
  <2>5. r.kind \in 0 .. 2 /\ r.value \in -1 .. IntMax
    BY <1>2, <2>4, IntMaxFacts DEF Spec_ok, Specs_ok
  <2> HIDE DEF r
  <2>6. get(t, width_field) = get(specs, width_field) /\ t.width_ref = specs.width_ref
    BY <1>2, <2>5, SpecsPrecision
  <2> HIDE DEF t
  <2> QED BY <1>2, <2>2, <2>6, Orders DEF Bad_counts
<1> HIDE DEF r, t, e
<1> QED BY <1>1, <1>2, <1>3, DoomedGo

(* So can what follows a precision.                                         *)
LEMMA DoomedLast ==
  ASSUME IInv, Bad_counts(specs, current_state), SpecLocale \/ SpecType \/ SpecEnd \/ SpecSkip
  PROVE  pc' = "error" \/ Doomed'
<1>0. current_state \in Int
  BY DEF IInv, Place_ok
<1>1. CASE SpecLocale
  <2> DEFINE t == set(specs, localized_field, 1)
             e == enter_state(order.locale, is_arithmetic_type(arg_type))
  <2>1. Parsed /\ Go(order.locale, p + 1, t, next_arg_id, e)
    BY <1>1 DEF SpecLocale
  <2>2. pc = "specs" /\ Same_counts(specs, t)
    BY <2>1, SpecFacts, SpecsLocalized
  <2>3. e = "none" => current_state < order.locale
    BY <1>0, Orders DEF enter_state
  <2> HIDE DEF e, t
  <2>4. e = "none" => Bad_counts(t, order.locale)
    BY <1>0, <2>2, <2>3, Orders DEF Bad_counts, Same_counts
  <2> QED BY <1>0, <2>1, <2>2, <2>4, DoomedGo
<1>2. CASE SpecType
  <2> DEFINE letter == IF c_ \in DOMAIN upper THEN upper[c_] ELSE c_
             t == IF c_ = "?" THEN [as |-> "debug", for |-> debug_set] ELSE presentation[letter]
             cased == IF c_ \in DOMAIN upper THEN set(specs, uppercase_field, 1) ELSE specs
             u == set(cased, type_field, presentation_type[t.as])
  <2>1. Parsed /\ c_ \in letters
    BY <1>2 DEF SpecType, letters
  <2>2. Specs_ok(specs)
    BY <2>1, SpecFacts
  <2>3. CASE arg_type \notin t.for
    BY <1>2, <2>3 DEF SpecType, Fail
  <2>4. CASE arg_type \in t.for
    <3>1. /\ specs' = u /\ pc' = "write" /\ args' = args /\ current_state' = current_state
      BY <1>2, <2>4 DEF SpecType, call_vars
    <3>2. Specs_ok(cased) /\ Same_counts(specs, cased)
      <4>1. /\ Specs_ok(set(specs, uppercase_field, 1))
            /\ Same_counts(specs, set(specs, uppercase_field, 1))
        BY <2>2, SpecsUppercase
      <4> QED BY <4>1, <2>2 DEF Same_counts
    <3>3. t.as \in DOMAIN presentation_type
      <4>1. c_ # "?" => letter \in DOMAIN presentation
        BY <2>1, Letters DEF letters
      <4> HIDE DEF letter
      <4> QED BY <4>1, Letters
    <3>4. presentation_type[t.as] \in Nat /\ presentation_type[t.as] < 8
      BY <3>3, Letters
    <3> HIDE DEF cased, t
    <3>5. Same_counts(cased, u)
      BY <3>2, <3>4, SpecsType
    <3> HIDE DEF u
    <3>6. Same_counts(specs, specs')
      BY <3>1, <3>2, <3>5 DEF Same_counts
    <3> QED BY <1>0, <3>1, <3>6, DoomedStays
  <2> HIDE DEF t
  <2> QED BY <2>3, <2>4
<1>3. CASE SpecEnd \/ SpecSkip
  <2>1. pc' = "write" /\ args' = args /\ current_state' = current_state /\ specs' = specs
    BY <1>3 DEF SpecEnd, SpecSkip, call_vars
  <2>2. Same_counts(specs, specs')
    BY <2>1 DEF Same_counts
  <2> QED BY <1>0, <2>1, <2>2, DoomedStays
<1> QED BY <1>1, <1>2, <1>3

(* The field is not written.                                                *)
LEMMA DoomedWrite ==
  ASSUME IInv, mode = "run", Bad_counts(specs, current_state), Write
  PROVE  pc' = "error"
<1> DEFINE width == handle_dynamic_spec(get(specs, width_field), specs.width_ref, specs.width)
           precision == handle_dynamic_spec(get(specs, precision_field), specs.precision_ref, specs.precision)
           ready == [specs EXCEPT !.width = width.value, !.precision = precision.value]
           a == get_arg(args, arg_id)
           w == First(check_char_specs, write_error(a, ready))
           e == First(First(width.err, precision.err), w)
           x == Append(out, [arg |-> a, specs |-> ready])
<1>1. Finished(e, x)
  BY DEF Write, WriteReady, WriteArg
<1>2. width.err # "none" \/ precision.err # "none"
  BY BadCountErrors DEF Bad_counts, IInv
<1> HIDE DEF width, precision, w, x
<1>3. e # "none"
  BY <1>2, Firsts
<1> HIDE DEF e
<1> QED BY <1>1, <1>3 DEF Finished, Fail

-----------------------------------------------------------------------------
(* The steps that read the string.                                          *)
ReadNext ==
  \/ Text \/ CloseBrace \/ OpenBrace
  \/ FieldAutomatic \/ FieldIndexed \/ FieldNamed \/ FieldBroken \/ Finish
  \/ SpecAlign \/ SpecSign \/ SpecHash \/ SpecZero \/ SpecWidth \/ SpecPrecision
  \/ SpecLocale \/ SpecType \/ SpecFill \/ SpecEnd \/ SpecSkip
  \/ Write

(* Every step that reads the string agrees with StepOf.                     *)
LEMMA ReadNextAgrees ==
  ASSUME IInv, ~Named, Counts_ok(Config), ReadNext
  PROVE  Agrees
BY TextAgrees, CloseBraceAgrees, OpenBraceAgrees, FieldAutomaticAgrees, FieldIndexedAgrees,
   FieldNamedNot, FieldBrokenAgrees, FinishAgrees, SpecAlignAgrees, SpecSignAgrees, SpecHashAgrees,
   SpecZeroAgrees, SpecWidthAgrees, SpecPrecisionAgrees, SpecLocaleAgrees, SpecTypeAgrees,
   SpecFillAgrees, SpecEndAgrees, SpecSkipAgrees, WriteAgrees DEF ReadNext

(* A doomed run fails, or stays doomed.                                     *)
LEMMA ReadNextDoomed ==
  ASSUME IInv, mode = "run", Doomed, ReadNext
  PROVE  pc' = "error" \/ Doomed'
<1>1. pc \in {"specs", "write"} /\ Bad_counts(specs, current_state)
  BY DEF Doomed
<1>2. ~(Text \/ CloseBrace \/ OpenBrace \/ FieldAutomatic \/ FieldIndexed \/ FieldNamed
        \/ FieldBroken \/ Finish)
  BY <1>1 DEF Text, CloseBrace, OpenBrace, FieldAutomatic, FieldIndexed, FieldNamed, FieldBroken, Finish
<1> QED BY <1>1, <1>2, DoomedEarly, DoomedPrecision, DoomedLast, DoomedWrite DEF ReadNext

(* They stay in the call.                                                   *)
LEMMA ReadNextStays == ReadNext => Reading /\ UNCHANGED call_vars
<1>1. \A message, written : Fail(message, written) => UNCHANGED call_vars
  BY DEF Fail
<1>2. \A r, q : Field(r, q) => UNCHANGED call_vars
  <2> TAKE r, q
  <2> DEFINE e == First(r.err, IF mode = "run" /\ at(q) \in {close, ":"}
                               THEN IF get_arg(args, r.id).type = "none_type" THEN "argument_not_found"
                                    ELSE IF at(q) = close THEN write_error(get_arg(args, r.id), format_specs)
                                    ELSE "none"
                               ELSE "none")
  <2>1. close # ":"
    BY Braces
  <2>2. Field(r, q) =>
          \/ Fail(e, Written(begin, p - 1)) \/ on_replacement_field(r.id, q, r.n)
          \/ on_format_specs(r.id, q + 1, r.n) \/ Fail("missing_brace", Written(begin, p - 1))
    BY <2>1 DEF Field
  <2> QED BY <1>1, <2>2 DEF on_replacement_field, on_format_specs
<1>3. \A s, q, sp, n, e : Go(s, q, sp, n, e) => UNCHANGED call_vars
  BY <1>1 DEF Go
<1>4. \A e, written : Finished(e, written) => UNCHANGED call_vars
  BY <1>1 DEF Finished
<1>5. Text \/ CloseBrace \/ OpenBrace \/ FieldBroken \/ Finish => Reading /\ UNCHANGED call_vars
  BY <1>1 DEF Text, CloseBrace, OpenBrace, FieldBroken, Finish, Reading
<1>6. FieldAutomatic \/ FieldIndexed \/ FieldNamed => Reading /\ UNCHANGED call_vars
  BY <1>2 DEF FieldAutomatic, FieldIndexed, FieldNamed, Reading
<1>7. SpecAlign \/ SpecSign \/ SpecHash \/ SpecZero \/ SpecLocale \/ SpecFill => Reading /\ UNCHANGED call_vars
  BY <1>3 DEF SpecAlign, SpecSign, SpecHash, SpecZero, SpecLocale, SpecFill, Parsed, Reading
<1>8. SpecWidth \/ SpecPrecision => Reading /\ UNCHANGED call_vars
  BY <1>3 DEF SpecWidth, SpecPrecision, GoWidth, GoPrecision, Parsed, Reading
<1>9. SpecType \/ SpecEnd \/ SpecSkip => Reading /\ UNCHANGED call_vars
  BY <1>1 DEF SpecType, SpecEnd, SpecSkip, Parsed, Reading
<1>10. Write => Reading /\ UNCHANGED call_vars
  BY <1>4 DEF Write, WriteReady, WriteArg, Reading
<1> QED BY <1>5, <1>6, <1>7, <1>8, <1>9, <1>10 DEF ReadNext

(* What the checker passed stays passed while the call lasts.               *)
LEMMA SamePasses ==
  ASSUME fmt' = fmt, args' = args, NEW CONSTANT V
  PROVE  /\ Passed(V) => Passed(V)'
         /\ Accepted(V) => Accepted(V)'
         /\ Refused(V) => Refused(V)'
<1>1. \A c \in V : StepOf(c)' = StepOf(c)
  BY SameSteps
<1>2. \A c : Counts_ok(c) => Counts_ok(c)'
  BY DEF Counts_ok, Good_counts, Count_ok
<1>3. Passed(V) => Passed(V)'
  BY <1>2 DEF Passed
<1>4. Accepted(V) => Accepted(V)'
  BY <1>1 DEF Accepted
<1>5. Refused(V) => Refused(V)'
  BY <1>1 DEF Refused
<1> QED BY <1>3, <1>4, <1>5

(* The checker starts in the first configuration.                           *)
LEMMA InitPasses == ASSUME Init PROVE PassesAgree
<1> DEFINE V == {First_config}
<1>1. Config = First_config /\ mode = "check" /\ pc = "text"
  BY DEF Init, Config, First_config
<1>2. Passed(V)
  BY FirstSpecs DEF Passed, First_config, Counts_ok, Good_counts, Count_ok, arg_id_kind
<1>3. Checking(V)
  BY <1>1 DEF Checking
<1> HIDE DEF V
<1> QED BY <1>1, <1>2, <1>3 DEF PassesAgree

(* The checker reads on.                                                    *)
LEMMA CheckPasses ==
  ASSUME IInv, PassesAgree, ReadNext, mode = "check"
  PROVE  PassesAgree'
<1> SUFFICES ASSUME ~Named' PROVE PassesAgree'
  BY DEF PassesAgree
<1>1. Reading /\ fmt' = fmt /\ args' = args /\ mode' = mode /\ mode' = "check"
  BY ReadNextStays DEF call_vars
<1>2. ~Named
  BY <1>1, SameText
<1>3. PICK V : Passed(V) /\ Checking(V)
  BY <1>1, <1>2 DEF PassesAgree
<1>4. Counts_ok(Config) /\ Config \in V /\ Config.pc # "done"
  BY <1>1, <1>3, ConfigIs DEF Passed, Checking, Reading
<1>5. Agrees
  BY <1>2, <1>4, ReadNextAgrees
<1>6. CASE pc' = "error"
  <2>1. ~StepOf(Config).ok
    BY <1>5, <1>6 DEF Agrees
  <2>2. Refused(V)
    BY <1>3, <1>4, <2>1 DEF Checking, Refused
  <2>3. Passed(V)' /\ Refused(V)'
    BY <1>1, <1>3, <2>2, SamePasses
  <2> QED BY <1>1, <1>6, <2>3 DEF PassesAgree, Reading
<1>7. CASE pc' # "error"
  <2>1. StepOf(Config).ok /\ Config' = StepOf(Config).next /\ Counts_ok(Config')
    BY <1>5, <1>7 DEF Agrees
  <2>2. PICK d : d = Config'
    OBVIOUS
  <2> DEFINE W == V \union {d}
  <2>3. Passed(W)
    BY <1>3, <2>1, <2>2 DEF Passed
  <2>4. \A c \in W : c = d \/ (c.pc # "done" /\ StepOf(c).ok /\ StepOf(c).next \in W)
    BY <1>3, <1>4, <2>1, <2>2 DEF Checking
  <2>5. \A c : StepOf(c)' = StepOf(c)
    BY <1>1, SameSteps
  <2>6. d \in W
    OBVIOUS
  <2> HIDE DEF W
  <2>7. Passed(W)'
    BY <1>1, <2>3, SamePasses
  <2>8. Checking(W)'
    BY <2>2, <2>4, <2>5, <2>6 DEF Checking
  <2> QED BY <1>1, <1>7, <2>7, <2>8 DEF PassesAgree
<1> QED BY <1>6, <1>7

(* vformat_to reads on.                                                     *)
LEMMA RunPasses ==
  ASSUME IInv, PassesAgree, ReadNext, mode = "run"
  PROVE  PassesAgree'
<1> SUFFICES ASSUME ~Named' PROVE PassesAgree'
  BY DEF PassesAgree
<1>1. Reading /\ fmt' = fmt /\ args' = args /\ mode' = "run" /\ checked' = checked
  BY ReadNextStays DEF call_vars
<1>2. ~Named
  BY <1>1, SameText
<1>3. pc # "done" /\ Config.pc # "done"
  BY <1>1, ConfigIs DEF Reading
<1>4. CASE checked = "ok"
  <2>1. PICK V : Passed(V) /\ Accepted(V) /\ Config \in V
    BY <1>1, <1>2, <1>4 DEF PassesAgree
  <2>2. Agrees
    BY <1>2, <2>1, ReadNextAgrees DEF Passed
  <2>3. StepOf(Config).ok /\ StepOf(Config).next \in V
    BY <1>3, <2>1 DEF Accepted
  <2>4. Passed(V)' /\ Accepted(V)'
    BY <1>1, <2>1, SamePasses
  <2>5. CASE pc' = "error"
    <3>1. Excused'
      BY <2>2, <2>3, <2>5 DEF Agrees
    <3> QED BY <1>1, <1>4, <2>4, <2>5, <3>1 DEF PassesAgree, Reading
  <2>6. CASE pc' # "error"
    <3>1. Config' \in V
      BY <2>2, <2>3, <2>6 DEF Agrees
    <3> QED BY <1>1, <1>4, <2>4, <2>6, <3>1 DEF PassesAgree
  <2> QED BY <2>5, <2>6
<1>5. CASE checked # "ok"
  <2>1. PICK V : Passed(V) /\ Refused(V) /\ (Config \in V \/ Doomed)
    BY <1>1, <1>2, <1>5 DEF PassesAgree
  <2>2. Passed(V)' /\ Refused(V)'
    BY <1>1, <2>1, SamePasses
  <2>3. pc' = "error" \/ Doomed' \/ (pc' \notin {"done", "returned"} /\ Config' \in V)
    <3>1. CASE Doomed
      BY <3>1, ReadNextDoomed
    <3>2. CASE Config \in V
      <4>1. Agrees
        BY <1>2, <2>1, <3>2, ReadNextAgrees DEF Passed
      <4>2. CASE pc' # "error" /\ StepOf(Config).ok
        <5>1. pc' # "returned" /\ Config' \in V
          BY <2>1, <3>2, <4>1, <4>2 DEF Agrees, Refused
        <5>2. Config'.pc = pc'
          BY DEF Config
        <5> QED BY <2>1, <5>1, <5>2 DEF Refused
      <4>3. CASE pc' # "error" /\ ~StepOf(Config).ok
        BY <4>1, <4>3 DEF Agrees
      <4> QED BY <4>2, <4>3
    <3> QED BY <2>1, <3>1, <3>2
  <2>4. Doomed' => pc' \notin {"done", "returned"}
    BY DEF Doomed
  <2>5. pc' = "error" => ~Reading'
    BY DEF Reading
  <2> QED BY <1>1, <1>5, <2>2, <2>3, <2>4, <2>5 DEF PassesAgree
<1> QED BY <1>4, <1>5

(* The call is made.                                                        *)
LEMMA CallPasses ==
  ASSUME IInv, PassesAgree, Call
  PROVE  PassesAgree'
<1> SUFFICES ASSUME ~Named' PROVE PassesAgree'
  BY DEF PassesAgree
<1>1. /\ mode = "check" /\ pc \in {"done", "error"} /\ checked' = (IF pc = "done" THEN "ok" ELSE "refused")
      /\ fmt' = fmt /\ args' = args /\ mode' = "run" /\ pc' \in {"fast", "text"}
      /\ p' = 1 /\ next_arg_id' = 0 /\ arg_id' = 0 /\ specs' = format_specs /\ current_state' = 0
  BY DEF Call, Start
<1>2. ~Named
  BY <1>1, SameText
<1>3. Reading' => Config' = First_config
  BY <1>1 DEF Config, First_config, Reading
<1>4. CASE pc = "done"
  <2>1. PICK V : Passed(V) /\ Checking(V)
    BY <1>1, <1>2, <1>4 DEF PassesAgree
  <2>2. Accepted(V)
    BY <1>4, <2>1, ConfigIs DEF Checking, Accepted
  <2>3. Passed(V)' /\ Accepted(V)'
    BY <1>1, <2>1, <2>2, SamePasses
  <2>4. Reading' => Config' \in V
    BY <1>3, <2>1 DEF Passed
  <2> QED BY <1>1, <1>4, <2>3, <2>4 DEF PassesAgree
<1>5. CASE pc = "error"
  <2>1. PICK V : Passed(V) /\ Refused(V)
    BY <1>1, <1>2, <1>5 DEF PassesAgree
  <2>2. Passed(V)' /\ Refused(V)'
    BY <1>1, <2>1, SamePasses
  <2>3. Reading' => Config' \in V
    BY <1>3, <2>1 DEF Passed
  <2> QED BY <1>1, <1>5, <2>2, <2>3 DEF PassesAgree
<1> QED BY <1>1, <1>4, <1>5

(* The string "{}" takes the short way to the same end.                     *)
LEMMA FastPathPasses ==
  ASSUME IInv, PassesAgree, FastPath
  PROVE  PassesAgree'
<1> SUFFICES ASSUME ~Named' PROVE PassesAgree'
  BY DEF PassesAgree
<1> DEFINE a == get_arg(args, 0)
           w == write_error(a, format_specs)
           e == IF a.type = "none_type" THEN "argument_not_found" ELSE w
<1>1. pc = "fast" /\ fmt' = fmt /\ args' = args /\ mode' = mode /\ checked' = checked
  BY DEF FastPath, Fail, call_vars
<1>2. /\ e # "none" => pc' = "error" /\ err' = e
      /\ e = "none" => pc' = "done"
  BY DEF FastPath, Fail
<1>3. /\ mode = "run" /\ ~Named /\ fmt = <<open, close>> /\ Args_ok /\ Len(args) \in Nat
  BY <1>1, SameText DEF IInv, Place_ok, Args_ok
<1> DEFINE Next1 == [First_config EXCEPT !.p = 3, !.n = 1, !.id = 0]
           Next2 == [Next1 EXCEPT !.pc = "done"]
<1>4. at(1) = open /\ at(2) = close /\ at(3) = "END"
  BY <1>3 DEF at
<1>5. /\ (StepOf(First_config).ok <=> Len(args) > 0) /\ StepOf(First_config).next = Next1
      /\ StepOf(Next1).ok /\ StepOf(Next1).next = Next2 /\ Next2.pc = "done"
  <2> DEFINE r == automatic("check", 0)
             b == r.err = "none"
  <2>1. First_config.pc = "text" /\ First_config.p = 1 /\ First_config.n = 0
    BY DEF First_config
  <2>0. First_config.p + 1 = 2
    BY <2>1
  <2>2. StepOf(First_config) = FieldStep(First_config, r, 2)
    BY <1>4, <2>1, <2>0, Braces DEF StepOf, TextStep
  <2>3. r.n = 1 /\ r.id = 0 /\ (b <=> Len(args) > 0)
    BY <1>3 DEF automatic, not_found
  <2>4. StepOf(First_config) = Reads(b, Next1)
    <3> HIDE DEF r
    <3> QED BY <1>4, <2>2, <2>3 DEF FieldStep
  <2>5. b \in BOOLEAN
    OBVIOUS
  <2>6. (StepOf(First_config).ok <=> b) /\ StepOf(First_config).next = Next1
    <3> HIDE DEF b, Next1, r
    <3> QED BY <2>4, <2>5, ReadsIs
  <2>7. Next1.pc = "text" /\ Next1.p = 3
    BY DEF First_config
  <2>8. StepOf(Next1) = Reads(TRUE, Next2)
    <3> HIDE DEF Next1
    <3> QED BY <1>4, <2>7, Braces DEF StepOf, TextStep
  <2>9. Next2.pc = "done"
    BY DEF First_config
  <2> HIDE DEF Next1, Next2, b
  <2> QED BY <2>3, <2>6, <2>8, <2>9 DEF Reads, b
<1>6. Len(args) = 0 => e # "none"
  <2>1. Len(args) = 0 => a.type = "none_type"
    <3>1. no_arg.type = "none_type"
      BY DEF no_arg
    <3> QED BY <1>3, <3>1, GetArg
  <2> QED BY <2>1
<1>7. Len(args) > 0 /\ e # "none" => e \in {"string_pointer_is_null", "number_is_too_big"}
  <2>1. Len(args) > 0 => a.type # "none_type"
    BY <1>3, GetArg
  <2>2. w \in {"none", "string_pointer_is_null", "number_is_too_big"}
    BY WriteErrors
  <2> HIDE DEF w, a
  <2> QED BY <2>1, <2>2
<1> HIDE DEF e, Next1, Next2
<1>8. CASE checked = "ok"
  <2>1. PICK V : Passed(V) /\ Accepted(V)
    BY <1>3, <1>8 DEF PassesAgree
  <2>2. Passed(V)' /\ Accepted(V)'
    BY <1>1, <2>1, SamePasses
  <2>3. Len(args) > 0
    <3>1. First_config \in V /\ First_config.pc # "done"
      BY <2>1 DEF Passed, First_config
    <3> QED BY <1>5, <2>1, <3>1 DEF Accepted
  <2>4. pc' = "error" => Excused'
    BY <1>2, <1>7, <2>3 DEF Excused
  <2>5. ~Reading'
    BY <1>2 DEF Reading
  <2> QED BY <1>1, <1>8, <2>2, <2>4, <2>5, <1>3 DEF PassesAgree
<1>9. CASE checked # "ok"
  <2>1. PICK V : Passed(V) /\ Refused(V)
    BY <1>3, <1>9 DEF PassesAgree
  <2>2. Passed(V)' /\ Refused(V)'
    BY <1>1, <2>1, SamePasses
  <2>3. ~(Len(args) > 0)
    BY <1>5, <2>1 DEF Passed, Refused
  <2>4. pc' = "error"
    BY <1>2, <1>3, <1>6, <2>3
  <2>5. ~Reading'
    BY <2>4 DEF Reading
  <2> QED BY <1>1, <1>3, <1>9, <2>2, <2>4, <2>5 DEF PassesAgree
<1> QED BY <1>8, <1>9

(* The call returns.                                                        *)
LEMMA ReturnPasses ==
  ASSUME IInv, PassesAgree, Return
  PROVE  PassesAgree'
<1> SUFFICES ASSUME ~Named' PROVE PassesAgree'
  BY DEF PassesAgree
<1>1. /\ mode = "run" /\ pc = "done" /\ pc' = "returned" /\ fmt' = fmt /\ args' = args
      /\ mode' = mode /\ checked' = checked
  BY DEF Return
<1>2. ~Named
  BY <1>1, SameText
<1>3. checked = "ok"
  BY <1>1, <1>2 DEF PassesAgree
<1>4. PICK V : Passed(V) /\ Accepted(V)
  BY <1>1, <1>2, <1>3 DEF PassesAgree
<1>5. Passed(V)' /\ Accepted(V)'
  BY <1>1, <1>4, SamePasses
<1> QED BY <1>1, <1>3, <1>5 DEF PassesAgree, Reading

(* Nothing happens.                                                         *)
LEMMA StutterPasses ==
  ASSUME PassesAgree, UNCHANGED vars
  PROVE  PassesAgree'
<1> SUFFICES ASSUME ~Named' PROVE PassesAgree'
  BY DEF PassesAgree
<1>1. /\ fmt' = fmt /\ args' = args /\ mode' = mode /\ pc' = pc /\ p' = p
      /\ next_arg_id' = next_arg_id /\ arg_id' = arg_id /\ specs' = specs
      /\ current_state' = current_state /\ err' = err /\ checked' = checked
  BY DEF vars
<1>2. ~Named
  BY <1>1, SameText
<1>3. /\ Config' = Config /\ (Reading' <=> Reading) /\ (Doomed => Doomed') /\ (Excused => Excused')
  BY <1>1 DEF Config, Reading, Doomed, Bad_counts, Bad_count, Excused
<1>4. CASE mode = "check" /\ (Reading \/ pc = "done")
  <2>1. PICK V : Passed(V) /\ Checking(V)
    BY <1>2, <1>4 DEF PassesAgree
  <2>2. Passed(V)'
    BY <1>1, <2>1, SamePasses
  <2>3. \A c : StepOf(c)' = StepOf(c)
    BY <1>1, SameSteps
  <2>4. Checking(V)'
    BY <1>3, <2>1, <2>3 DEF Checking
  <2> QED BY <1>1, <1>3, <1>4, <2>2, <2>4 DEF PassesAgree, Reading
<1>5. CASE mode = "check" /\ pc = "error"
  <2>1. PICK V : Passed(V) /\ Refused(V)
    BY <1>2, <1>5 DEF PassesAgree
  <2>2. Passed(V)' /\ Refused(V)'
    BY <1>1, <2>1, SamePasses
  <2> QED BY <1>1, <1>3, <1>5, <2>2 DEF PassesAgree, Reading
<1>6. CASE mode = "run" /\ checked = "ok"
  <2>1. PICK V : Passed(V) /\ Accepted(V) /\ (Reading => Config \in V)
    BY <1>2, <1>6 DEF PassesAgree
  <2>2. Passed(V)' /\ Accepted(V)'
    BY <1>1, <2>1, SamePasses
  <2>3. pc = "error" => Excused
    BY <1>2, <1>6 DEF PassesAgree
  <2> QED BY <1>1, <1>3, <1>6, <2>1, <2>2, <2>3 DEF PassesAgree
<1>7. CASE mode = "run" /\ checked # "ok"
  <2>1. PICK V : Passed(V) /\ Refused(V) /\ (Reading => Config \in V \/ Doomed)
    BY <1>2, <1>7 DEF PassesAgree
  <2>2. Passed(V)' /\ Refused(V)'
    BY <1>1, <2>1, SamePasses
  <2>3. pc \notin {"done", "returned"}
    BY <1>2, <1>7 DEF PassesAgree
  <2> QED BY <1>1, <1>3, <1>7, <2>1, <2>2, <2>3 DEF PassesAgree
<1>8. CASE mode' \notin {"check", "run"} \/ (mode = "check" /\ ~Reading /\ pc \notin {"done", "error"})
  BY <1>1, <1>3, <1>8 DEF PassesAgree
<1> QED BY <1>1, <1>4, <1>5, <1>6, <1>7, <1>8

(* Every step of the two passes.                                            *)
LEMMA StepPasses == ASSUME IInv, PassesAgree, [Next]_vars PROVE PassesAgree'
<1>1. mode \in {"check", "run"}
  BY DEF IInv, Place_ok
<1>2. ReadNext \/ FastPath \/ Call \/ Return \/ UNCHANGED vars
  BY DEF Next, ReadNext, Ended
<1> QED BY <1>1, <1>2, CheckPasses, RunPasses, FastPathPasses, CallPasses, ReturnPasses, StutterPasses

(* The inductive invariant.                                                 *)
LEMMA PassesAlways == Spec => [](IInv /\ PassesAgree)
<1>1. Init => IInv /\ PassesAgree
  BY InitType, InitPasses
<1>2. IInv /\ PassesAgree /\ [Next]_vars => (IInv /\ PassesAgree)'
  BY StepType, StepPasses
<1> QED BY <1>1, <1>2, PTL DEF Spec

(* A format string that the constructor of fstring accepts for the types of *)
(* the arguments does not make vformat_to throw, but for what the types do  *)
(* not tell: the value of a width or precision, a null string, a number too *)
(* big, and the bool or char that the checker takes for an integer. Named   *)
(* arguments are excluded.                                                  *)
THEOREM CompiledStringsRun == Spec => []CheckedRuns
<1>1. PassesAgree => CheckedRuns
  BY DEF PassesAgree, CheckedRuns, HasEnded, Excused
<1> QED BY <1>1, PassesAlways, PTL

(* A format string that the checker refuses makes vformat_to throw when it  *)
(* is passed at run time: nothing is formatted from a string that does not  *)
(* fit its arguments. Named arguments are excluded.                         *)
THEOREM RefusedStringsFail == Spec => []RefusedFails
<1>1. PassesAgree => RefusedFails
  BY DEF PassesAgree, RefusedFails, HasEnded
<1> QED BY <1>1, PassesAlways, PTL

=============================================================================

----------------------------- MODULE MCFmt ----------------------------------
(* The bundled fmt library for TLC: short format strings over the           *)
(* characters that matter with a few lists of arguments, and fields with    *)
(* the values at their boundaries; and what must come out of them.          *)
EXTENDS FmtGrammar, FmtShown

MCUnprintable == {173, 8203, 917505}   \* two columns of the first pages, and a tag
MCGrouping == <<2, 1>>
MCTieExponent == -8

arg(t, v) == [type |-> t, name |-> <<>>, value |-> v]
cstring(address, s) == [type |-> "cstring_type", name |-> <<>>, value |-> s, address |-> address]
real(negative, biased_e, significand) ==
  [negative |-> negative, biased_e |-> biased_e, significand |-> significand]
any(t) == CASE t = "cstring_type" -> cstring(165, <<104, 105>>)
            [] t \in {"string_type", "custom_type"} -> arg(t, <<104, 195, 169>>)
            [] t = "float_type" -> arg(t, real(FALSE, 16, 8))
            [] t = "bool_type" -> arg(t, 1)
            [] OTHER -> arg(t, 65)
named(t, v, n) == [type |-> t, name |-> <<n>>, value |-> v]

Words(tokens, n) == FoldLeft(LAMBDA W, i : W \union {w \o t : w \in W, t \in tokens}, {<<>>},
                             [i \in 1 .. n |-> i])

FieldArgs == { <<>>, <<arg("int_type", 3), arg("uint_type", 0)>>,
               <<any("string_type"), any("bool_type"), arg("int_type", 0 - 1)>>,
               <<any("string_type"), named("int_type", 2, "a")>> }
FieldWords == Words({<<"{", "}">>, <<"{">>, <<"}">>, <<":">>, <<"1">>, <<"a">>}, 5)
                \union {<<"{", "}", "{", "a", "}", "{", "1", "}">>, <<"{", "}", "{", "a", "}", "{", "}">>}

SpecArgs == {<<any(t), arg("int_type", 2), arg("uint_type", 7)>> :
               t \in {"int_type", "float_type", "string_type", "char_type", "bool_type"}}
SpecWords == {<<"{", ":">> \o w \o <<"}">> :
                w \in Words({<<"<">>, <<"+">>, <<"#">>, <<"0">>, <<"1">>, <<"{", "}">>, <<".">>,
                             <<"L">>, <<"d">>, <<"f">>, <<"s">>, <<"X">>, <<"C3", "A9">>}, 3)}
(* All specifiers in their order, any of them left out; and two swapped.    *)
Full == << <<"C3", "A9", "<">>, <<"+">>, <<"#">>, <<"0">>, <<"{", "}">>, <<".", "{", "}">>, <<"L">>,
           <<"e">> >>
Chosen(S) == FlattenSeq([i \in DOMAIN Full |-> IF i \in S THEN Full[i] ELSE <<>>])
Swapped(i, j) == FlattenSeq([Full EXCEPT ![i] = Full[j], ![j] = Full[i]])
LongWords == {<<"{", ":">> \o w \o <<"}">> :
                w \in {Chosen(S) : S \in SUBSET DOMAIN Full}
                        \union {Swapped(i, j) : i \in DOMAIN Full, j \in DOMAIN Full}}
MoreArgs == {<<any(t)>> : t \in {"pointer_type", "custom_type", "cstring_type"}}
              \union {<<arg("int_type", 7), any("float_type")>>}
MoreWords == {<<"{", ":">> \o w \o <<"}">> :
                w \in Words({<<"<">>, <<" ">>, <<"-">>, <<"0">>, <<"?">>, <<"p">>, <<"c">>,
                             <<"{", "}">>}, 2)}
NumberWords == {<<"{", ":">> \o w \o <<"}">> : w \in SeqOf({"0", "1", "2", "7", "8"}, 4)}
                 \union {<<"{">> \o w \o <<"}">> : w \in SeqOf({"0", "1", "2", "7", "8"}, 4)}

Calls(fmts, args_) == [fmts |-> fmts, args |-> args_]

WordInputs ==
  << Calls(FieldWords, FieldArgs), Calls(SpecWords, SpecArgs), Calls(LongWords, SpecArgs),
     Calls(MoreWords, MoreArgs), Calls(NumberWords, {<<arg("int_type", 7)>>}) >>

(* One field: each of the parts is one of a few, in their order.            *)
FieldOf(parts) == {<<"{", ":">> \o w \o <<"}">> :
                    w \in FoldLeft(LAMBDA S, P : {s \o t : s \in S, t \in P}, {<<>>}, parts)}
Each(fields, values) == Calls(fields, {<<a>> : a \in values})
OneOf(S) == {<<>>} \union {<<c>> : c \in S}

Integers_ ==
  {arg("int_type", v) : v \in {-128, -127, -100, -99, -10, -9, -1, 0, 1, 7, 8, 9, 10, 64, 99, 127}}
    \union {arg("uint_type", v) : v \in {100, 128, 199, 255}}
    \union {arg("long_long_type", v) : v \in {-32768, -10000, -1000, 999, 1000, 9999, 10000}}
    \union {arg("ulong_long_type", v) : v \in {0, 34463, 32768, 65535}}
IntegerInputs ==
  << Each({<<"{", "}">>} \union FieldOf(<<{<<>>, <<"#">>}, OneOf({"d", "x", "X", "o", "b", "B", "L"})>>),
            Integers_),
     Each(FieldOf(<<{<<>>, <<"^">>, <<"C3", "A9", ">">>}, {<<>>, <<"+">>}, {<<>>, <<"#">>},
               {<<>>, <<"0">>}, {<<"7">>}, OneOf({"x", "X", "o", "b"})>>),
            {arg("int_type", v) : v \in {-10, 0, 127}}),
     Each(FieldOf(<<{<<>>, <<"<">>}, {<<>>, <<" ">>}, {<<>>, <<"#">>}, {<<"8">>}, {<<"L">>},
               OneOf({"x", "o", "b"})>>),
            {arg("int_type", v) : v \in {-10, 0, 127}}) >>
OtherInputs ==
  << Each(FieldOf(<<{<<>>, <<"^">>, <<"0">>}, {<<>>, <<"6">>}, OneOf({"s", "d", "x"})>>),
            {arg("bool_type", 0), arg("bool_type", 1)}),
     Each(FieldOf(<<{<<>>, <<">">>}, {<<>>, <<"3">>}, OneOf({"d", "x", "c"})>>),
            {arg("char_type", v) : v \in {10, 39, 65, 200}}),
     Each(FieldOf(<<OneOf({"c", "?"})>>),
            {arg("char_type", v) : v \in {0, 9, 10, 13, 34, 39, 65, 92, 127, 200}}),
     Each(FieldOf(<<{<<>>, <<"<">>}, {<<>>, <<"6">>}, OneOf({"p", "s"})>>),
            {cstring(0, <<>>), cstring(165, <<104, 105>>), arg("pointer_type", 0),
            arg("pointer_type", 165)}),
     Each({<<"{", "}">>}, {cstring(0, <<>>), cstring(165, <<104, 105>>),
            arg("pointer_type", 165), arg("char_type", 10)}) >>

(* h, the two columns of a Chinese character, e with acute accent, an emoji. *)
wide == <<228, 184, 173>>
e_acute == <<195, 169>>
emoji == <<240, 159, 152, 128>>
Strings_ == {<<>>, <<104>>, <<104>> \o e_acute, wide \o <<104>>, <<104>> \o wide, e_acute \o emoji,
             <<104, 195>>, <<226, 184>> \o e_acute, <<9, 104, 34>>, <<104, 195, 39>>,
             <<194, 173>>, <<226, 128, 139>> \o wide, <<243, 160, 128, 129>>, <<127, 92>>}
(* Bytes at the boundaries of UTF-8. *)
Sequences_ ==
  {<<a, b>> : a \in {127, 128, 191, 192, 193, 194, 223}, b \in {127, 128, 191, 192}}
    \union {<<a, b, c>> : a \in {224, 225, 237, 239}, b \in {128, 159, 160, 191}, c \in {127, 128, 191, 192}}
    \union {<<a, b, c, d>> : a \in {240, 241, 244, 245, 248}, b \in {128, 143, 144, 191}, c \in {128, 192},
                            d \in {65, 191}}
StringInputs ==
  << Each({<<"{", "}">>}
            \union FieldOf(<<{<<>>, <<"^">>, <<"C3", "A9", ">">>}, {<<>>, <<"4">>},
               {<<>>, <<".", "0">>, <<".", "1">>, <<".", "2">>, <<".", "3">>}>>),
            {arg("string_type", s) : s \in Strings_}),
     Each(FieldOf(<<{<<>>, <<"^">>}, {<<>>, <<"9">>},
               {<<>>, <<".", "1">>, <<".", "2">>, <<".", "4">>, <<".", "7">>}, {<<"?">>}>>),
            {arg("string_type", s) : s \in Strings_ \ {<<>>}}),
     Each(FieldOf(<<{<<>>, <<".", "1">>}, {<<"?">>}>>),
            {arg("string_type", s) : s \in Sequences_}) >>

(* Every number of the small format, and those that are none. Without the   *)
(* smallest normal number where to_decimal is used: it counts on the IEEE   *)
(* formats to have the same shortest digits for both intervals there.       *)
Reals(exponents, significands) ==
  {real(FALSE, e, f) : e \in exponents, f \in significands}
Finite == 0 .. max_biased - 1
Floats(S) == {arg("float_type", v) : v \in S \ {real(FALSE, 1, 0)}}
(* Long doubles with all that matters in their eight bits: the powers of    *)
(* two and next to them, the last digit of either half, all ones.           *)
LongDoubles ==
  {arg("long_double_type", v) :
     v \in Reals({0}, {0, 1, 2, 3, 5, 8, 16, 17, 37, 64, 100, 127})
             \union Reals(Finite \ {0}, {128, 129, 135, 149, 156, 168, 195, 231, 247, 250, 254, 255})}
Precise(S, letters) == {<<"{", ":", ".", d, c, "}">> : d \in S, c \in letters}
FloatInputs ==
  << Each({<<"{", "}">>}, Floats(Reals(Finite, 0 .. 15) \union Reals({max_biased}, {0, 1}))),
     Each({<<"{", "}">>}, LongDoubles \union {arg("long_double_type", v) : v \in Reals({max_biased}, {128, 192})}),
     Each(UNION {Precise({"0", "1", "2", "3"}, {"e", "f", "g", "a"}), Precise({"4"}, {"e"}),
                   Precise({"1", "3", "5"}, {"}"})},
            Floats(Reals(Finite, 0 .. 15)) \union LongDoubles),
     Each(FieldOf(<<{<<>>, <<"^">>}, {<<>>, <<"+">>}, {<<>>, <<"#">>}, {<<>>, <<"0">>},
               {<<>>, <<"9">>}, {<<>>, <<".", "2">>}, {<<>>, <<"L">>},
               OneOf({"e", "g", "A"})>>),
            {arg("double_type", v) : v \in {real(FALSE, 0, 0), real(TRUE, 16, 8), real(FALSE, 30, 15),
               real(TRUE, max_biased, 0)}}) >>

MCInputs == WordInputs \o IntegerInputs \o OtherInputs \o StringInputs \o FloatInputs

-----------------------------------------------------------------------------
(* What was written, one element for a character or an argument.            *)
Flat == FlattenSeq([i \in DOMAIN out |->
          IF "text" \in DOMAIN out[i] THEN [k \in DOMAIN out[i].text |-> [text |-> out[i].text[k]]]
          ELSE LET s == IF "specs" \in DOMAIN out[i] THEN out[i].specs ELSE format_specs
               IN  <<[arg |-> out[i].arg, fill |-> fill(s), align |-> get(s, align_field),
                      sign |-> get(s, sign_field), alt |-> get(s, alternate_field),
                      locale |-> get(s, localized_field), upper |-> get(s, uppercase_field),
                      type |-> get(s, type_field), width |-> s.width, precision |-> s.precision]>>])

(* vformat_to reads a string as the grammar does: a word gives what it      *)
(* stands for, with every specifier where write() looks for it, and what is *)
(* no word, or not for these arguments, is an error.                        *)
ReadsAsGrammar ==
  (HasEnded /\ \A i \in DOMAIN args : args[i].type # "custom_type") =>
    IF Outcomes = {} THEN pc = "error"
    ELSE pc = "returned" /\ Outcomes = {Flat}

-----------------------------------------------------------------------------
(* What is written: one field and nothing else.                             *)
OneField == HasEnded /\ pc = "returned" /\ Len(out) = 1 /\ "arg" \in DOMAIN out[1]
TypeIn(types) == OneField /\ Only.type \in types

(* An integer is written with its sign, the prefix of its base and its      *)
(* digits, which denote it, grouped as the locale says and with zeroes only *)
(* to reach the width; boundary values do not overflow. Excluded: a zero    *)
(* with a locale, which is taken for a fill.                                *)
AsInteger == \/ TypeIn(sint_set \union uint_set) /\ ~presentation_is({"chr"})
             \/ TypeIn(bool_set) /\ ~presentation_is({"none", "string"})
             \/ TypeIn(char_set) /\ ~presentation_is({"none", "chr", "debug"})
IntegersShown ==
  AsInteger => Shows(result, LAMBDA c : IntegerContent(Only.value, c), Len, align.right)

(* A string is cut to as many whole characters as the precision has columns *)
(* for, and padded by the columns it takes, not by its bytes.               *)
StringsShown ==
  (TypeIn(string_set \union cstring_set) /\ presentation_is({"none", "string"})) =>
    Shows(result, LAMBDA c : StringContent(Only.value, c), ColumnsOf, align.left)

(* whole, or the longest part of it that has room.                          *)
ShowsQuoted(whole) ==
  LET Content(c) ==
        /\ StartsWith(whole, c) /\ ColumnsOf(c) <= Limit
        /\ c # whole => ColumnsOf(SubSeq(whole, 1, Len(c) + 1)) > Limit
                       \/ \E cp \in Range(Characters(Without(whole, c))) : display_width_of(cp.cp) = 2
  IN  DebugString(Only.value, whole) /\ Shows(result, Content, ColumnsOf, align.left)

(* A quoted string reads back as the string, invalid bytes as themselves;   *)
(* with a precision it is the longest part of that text that has room.      *)
DebugShown ==
  (TypeIn(string_set) /\ presentation_is({"debug"}) /\ Only.value # <<>>) =>
    ShowsQuoted(write_escaped_string(codepoints(Only.value)))

(* The digits of a number are the shortest that are read back as it, or the *)
(* nearest with the precision; they are laid out as the specifiers say.     *)
(* Excluded, of long double: with a precision, what is just below a power   *)
(* of ten; in hexadecimal, a subnormal number, whose exponent is too large. *)
Misplaced == /\ ~is_fast_float(Only)
             /\ IF presentation_is({"hexfloat"}) THEN Only.value.biased_e = 0 /\ ~is_zero(Only.value)
                ELSE BelowPower(Only.value) /\ float_precision(Specs_) >= 0
FloatsShown ==
  (TypeIn(float_set) /\ isfinite(Only.value) /\ ~Misplaced) =>
    FloatShown(result, Only.value, LAMBDA v, t : IF presentation_is({"hexfloat"}) THEN HexText(v, t)
                                                 ELSE FloatText(v, t))

(* A number begins with a digit that is not zero, or with 0 and a point:    *)
(* the fixup that corrects exp10, "which can be off by one", leaves none.   *)
LeadingDigit ==
  (TypeIn(float_set) /\ isfinite(Only.value) /\ presentation_is({"fixed"})) =>
    (result[1] = 48 => (Len(result) = 1 \/ result[2] = 46))

LongDoubleInputs ==
  << Each(Precise({"1"}, {"f"}), {arg("long_double_type", v) : v \in Reals({27, 28}, 150 .. 160)}) >>

=============================================================================

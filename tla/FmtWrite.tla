------------------------------ MODULE FmtWrite ------------------------------
(***************************************************************************)
(* The bundled fmt library writes an argument: integers in their bases,    *)
(* with prefix, zeros and groups of digits; characters and strings, cut at *)
(* a display width, quoted and escaped; pointers and booleans; all of them *)
(* padded. A string is a sequence of bytes. Each operator is one function  *)
(* of the code and gives the bytes it writes. What the specifiers hold is  *)
(* in FmtSpecs.                                                            *)
(***************************************************************************)
EXTENDS FmtSpecs, FiniteSets, TLC

CONSTANTS
  Unprintable,  \* the code points that is_printable() knows not to print
  Grouping,     \* std::numpunct of the locale: sizes of the groups of digits
  Separator     \* and the byte between them

ASSUME WriteAssumption == Grouping \in Seq(Nat) /\ Separator \in 0 .. 255

(* The bytes of the characters that the code names.                         *)
ch == [tab |-> 9, newline |-> 10, cr |-> 13, space |-> 32, quote |-> 34, apostrophe |-> 39,
       plus |-> 43, minus |-> 45, dot |-> 46, zero |-> 48, A |-> 65, B |-> 66, X |-> 88,
       backslash |-> 92, a |-> 97, b |-> 98, n |-> 110, r |-> 114, t |-> 116, u |-> 117,
       U |-> 85, x |-> 120, e |-> 101, E |-> 69]
true_text == <<116, 114, 117, 101>>
false_text == <<102, 97, 108, 115, 101>>

(* The bytes of what the parser keeps as characters: ASCII from the blank   *)
(* on, and the bytes of a few longer code points by their numbers.          *)
ascii == << " ", "!", "quote", "#", "$", "%", "&", "'", "(", ")", "*", "+", ",", "-", ".", "/",
            "0", "1", "2", "3", "4", "5", "6", "7", "8", "9", ":", ";", "<", "=", ">", "?",
            "@", "A", "B", "C", "D", "E", "F", "G", "H", "I", "J", "K", "L", "M", "N", "O",
            "P", "Q", "R", "S", "T", "U", "V", "W", "X", "Y", "Z", "[", "backslash", "]", "^", "_",
            "backquote", "a", "b", "c", "d", "e", "f", "g", "h", "i", "j", "k", "l", "m", "n", "o",
            "p", "q", "r", "s", "t", "u", "v", "w", "x", "y", "z", "{", "|", "}", "~" >>
unit == [c \in {ascii[k] : k \in DOMAIN ascii} |->
           31 + CHOOSE k \in DOMAIN ascii : ascii[k] = c] @@ ("C3" :> 195) @@ ("A9" :> 169)
units(s) == [i \in DOMAIN s |-> unit[s[i]]]

Copies(n, s) == FlattenSeq([i \in 1 .. n |-> s])

-----------------------------------------------------------------------------
(* UTF-8. utf8_decode reads four bytes at p whatever follows, zeroes behind *)
(* the end; a code point is accepted when it has its shortest encoding, is  *)
(* no surrogate and in range, and its tail bytes begin with 10.             *)
byte(s, p) == IF p <= Len(s) THEN s[p] ELSE 0

invalid_code_point == -1   \* ~0u

encoded_length(lead) == CASE lead < 128 -> 1
                          [] lead \in 128 .. 191 -> 0
                          [] lead \in 192 .. 223 -> 2
                          [] lead \in 224 .. 239 -> 3
                          [] lead \in 240 .. 247 -> 4
                          [] OTHER -> 0

(* What e collects; of the three tail bytes it looks at those of the length. *)
(* Mutation: what is not the shortest encoding passes.                      *)
malformed_not_minimal(len, c, tail) ==
  len = 0 \/ c \div 2^11 = 27 \/ c > 1114111 \/ \E i \in 1 .. len - 1 : tail[i] \div 64 # 2
malformed(len, c, tail) ==
  LET mins == <<4194304, 0, 128, 2048, 65536>>
      looked_at == <<3, 0, 1, 2, 3>>
  IN  \/ c < mins[len + 1]
      \/ c \div 2^11 = 27
      \/ c > 1114111
      \/ \E i \in 1 .. looked_at[len + 1] : tail[i] \div 64 # 2

utf8_decode(s, p) ==
  LET len == encoded_length(byte(s, p))
      masks == <<0, 127, 31, 15, 7>>
      shiftc == <<0, 18, 12, 6, 0>>
      tail == [i \in 1 .. 3 |-> byte(s, p + i)]
      lead == byte(s, p) % (masks[len + 1] + 1)
      c == (lead * 2^18 + (tail[1] % 64) * 2^12 + (tail[2] % 64) * 2^6 + (tail[3] % 64))
             \div 2^shiftc[len + 1]
      error == malformed(len, c, tail)
  IN  [cp |-> IF error THEN invalid_code_point ELSE c, len |-> IF error THEN 1 ELSE len]

(* for_each_codepoint: the code points of s with the bytes of each.         *)
codepoints_by(s, decoded) ==
  LET from[p \in 1 .. Len(s) + 4] ==
        IF p > Len(s) THEN <<>>
        ELSE <<[cp |-> decoded[p].cp, sv |-> SubSeq(s, p, p + decoded[p].len - 1)]>>
               \o from[p + decoded[p].len]
  IN  from[1]
codepoints(s) == codepoints_by(s, [p \in DOMAIN s |-> utf8_decode(s, p)])

(* Two columns for the wide scripts. *)
display_width_of(cp) ==
  IF \/ cp \in 4352 .. 4447 \/ cp \in {9001, 9002}
     \/ cp \in (11904 .. 42191) \ {12351} \/ cp \in 44032 .. 55203
     \/ cp \in 63744 .. 64255 \/ cp \in 65040 .. 65049 \/ cp \in 65072 .. 65135
     \/ cp \in 65280 .. 65376 \/ cp \in 65504 .. 65510
     \/ cp \in 131072 .. 196605 \/ cp \in 196608 .. 262141
     \/ cp \in 127744 .. 128591 \/ cp \in 129280 .. 129535
  THEN 2 ELSE 1

-----------------------------------------------------------------------------
(* Digits. *)
bsr(n) == CHOOSE k \in 0 .. 30 : 2^k <= n /\ (k = 30 \/ n < 2^(k + 1))

(* do_count_digits(uint64_t): a guess from the number of bits, corrected.   *)
bsr2log10 == << 1, 1, 1, 2, 2, 2, 3, 3, 3, 4, 4, 4, 4, 5, 5, 5,
                6, 6, 6, 7, 7, 7, 7, 8, 8, 8, 9, 9, 9, 10, 10 >>
do_count_digits64(n) ==
  LET t == bsr2log10[bsr(IF n % 2 = 0 THEN n + 1 ELSE n) + 1]
      zero_or_powers_of_10 == IF t = 1 THEN 0 ELSE 10^(t - 1)
  IN  t - (IF n < zero_or_powers_of_10 THEN 1 ELSE 0)

(* do_count_digits(uint32_t): the increments have the number of digits in   *)
(* their upper half, and borrow one when n is below the power of ten.       *)
inc == << 0, 0, 0, 1, 1, 1, 2, 2, 2, 3, 3, 3, 3, 4, 4, 4, 5, 5, 5, 6, 6, 6, 6, 7, 7, 7,
          8, 8, 8, 9, 9 >>
do_count_digits32(n) ==
  LET T == inc[bsr(IF n % 2 = 0 THEN n + 1 ELSE n) + 1]
  IN  IF T > 0 /\ n < 10^T THEN T ELSE T + 1

count_digits(bits, n) == IF bits > IntBits THEN do_count_digits64(n) ELSE do_count_digits32(n)

digit_char(d, upper) == IF d < 10 THEN ch.zero + d ELSE (IF upper THEN ch.A ELSE ch.a) + d - 10
digits2(v) == <<ch.zero + (v \div 10), ch.zero + (v % 10)>>

(* Mutation: a last pair below ten loses its zero.                          *)
decimal_digits_short[value \in Nat] ==
  IF value >= 100 THEN decimal_digits_short[value \div 100] \o
                         (IF value % 100 < 10 THEN <<ch.zero + (value % 100)>> ELSE digits2(value % 100))
  ELSE IF value >= 10 THEN digits2(value) ELSE <<ch.zero + value>>
(* do_format_decimal: two digits at a time, from the right.                 *)
decimal_digits[value \in Nat] ==
  IF value >= 100 THEN decimal_digits[value \div 100] \o digits2(value % 100)
  ELSE IF value >= 10 THEN digits2(value)
  ELSE <<ch.zero + value>>

(* The same, behind zeroes when there are more places than digits.          *)
format_decimal(value, num_digits) ==
  Copies(num_digits - Len(decimal_digits[value]), <<ch.zero>>) \o decimal_digits[value]

do_format_base2e(base_bits, value, upper) ==
  LET digits[v \in Nat] ==
        (IF v < 2^base_bits THEN <<>> ELSE digits[v \div 2^base_bits])
          \o <<digit_char(v % 2^base_bits, upper)>>
  IN  digits[value]

-----------------------------------------------------------------------------
(* write_padded: what the content leaves of the width is filled left and    *)
(* right of it. The table of shifts is a string: alignments are its indices *)
(* and align::numeric reads its terminator.                                 *)
shifts == [left |-> <<31, 31, 0, 1, 0>>, right |-> <<0, 31, 0, 1, 0>>]

write_padded(default_align, specs, width, content) ==
  LET padding == IF specs.width > width THEN specs.width - width ELSE 0
      shift == shifts[default_align][get(specs, align_field) + 1]
      left_padding == IF shift = 31 THEN 0 ELSE padding \div 2^shift
  IN  Copies(left_padding, units(fill(specs))) \o content
        \o Copies(padding - left_padding, units(fill(specs)))

write_bytes(default_align, bytes, specs) == write_padded(default_align, specs, Len(bytes), bytes)

write_ptr(value, specs) ==
  write_bytes("right", <<ch.zero, ch.x>> \o do_format_base2e(4, value, FALSE), specs)

-----------------------------------------------------------------------------
(* Integers. The prefix is up to three characters packed into a word, here  *)
(* a sequence.                                                              *)
getsign(s) == CASE s = sign.none -> <<>> [] s = sign.minus -> <<ch.minus>>
                [] s = sign.plus -> <<ch.plus>> [] s = sign.space -> <<ch.space>>

is_negative(v) == v < 0

(* The width of the type that holds the value.                              *)
num_bits(type_) == IF type_ \in {"long_long_type", "ulong_long_type"} THEN 2 * IntBits ELSE IntBits

(* The absolute value in the unsigned type: 0 - value wraps.                *)
make_write_int_arg(bits, v, s) ==
  LET unsigned == v % 2^bits
  IN  IF is_negative(v)
      THEN [abs_value |-> (2^bits - unsigned) % 2^bits, prefix |-> <<ch.minus>>]
      ELSE [abs_value |-> unsigned, prefix |-> IF s = sign.minus THEN <<>> ELSE getsign(s)]

presented(specs) == get(specs, type_field)
upper_case(specs) == get(specs, uppercase_field) = 1

(* The digits of the value, and what `#` puts in front. Octal has its zero  *)
(* only when no digit is one already.                                       *)
int_digits(value, specs) ==
  CASE presented(specs) \in {presentation_type.none, presentation_type.dec} -> decimal_digits[value]
    [] presented(specs) = presentation_type.hex -> do_format_base2e(4, value, upper_case(specs))
    [] presented(specs) = presentation_type.oct -> do_format_base2e(3, value, FALSE)
    [] presented(specs) = presentation_type.bin -> do_format_base2e(1, value, FALSE)

alt_prefix(value, num_digits, specs) ==
  LET letter == CASE presented(specs) = presentation_type.hex -> ch.x
                  [] presented(specs) = presentation_type.bin -> ch.b
                  [] OTHER -> 0
  IN  CASE get(specs, alternate_field) = 0 -> <<>>
        [] get(specs, alternate_field) = 1 /\ letter # 0 ->
             <<ch.zero, IF upper_case(specs) THEN letter - 32 ELSE letter>>
        [] get(specs, alternate_field) = 1 /\ presented(specs) = presentation_type.oct
             /\ specs.precision <= num_digits /\ value # 0 -> <<ch.zero>>
        [] OTHER -> <<>>

(* size_padding: the zeroes between prefix and digits.                      *)
(* Mutation: the prefix is not counted.                                     *)
numeric_padding_bare(num_digits, prefix, specs) ==
  IF get(specs, align_field) = align.numeric
  THEN IF specs.width > num_digits THEN specs.width - num_digits ELSE 0
  ELSE IF specs.precision > num_digits THEN specs.precision - num_digits ELSE 0
numeric_padding(num_digits, prefix, specs) ==
  IF get(specs, align_field) = align.numeric
  THEN IF specs.width > Len(prefix) + num_digits
       THEN specs.width - (Len(prefix) + num_digits) ELSE 0
  ELSE IF specs.precision > num_digits THEN specs.precision - num_digits ELSE 0

write_char_plain(value, specs) == write_padded("left", specs, 1, <<value>>)

write_prefixed(digits, prefix, specs) ==
  IF specs.width = 0 /\ specs.precision = -1 THEN prefix \o digits
  ELSE write_bytes("right", prefix \o Copies(numeric_padding(Len(digits), prefix, specs), <<ch.zero>>)
                              \o digits, specs)
write_int(arg, digits, specs) ==
  write_prefixed(digits, arg.prefix \o alt_prefix(arg.abs_value, Len(digits), specs), specs)

(* digit_grouping::next: how many digits are behind the k-th separator.     *)
(* Zero and CHAR_MAX end the groups, the last size is repeated.             *)
CharMax == 127
Unlimited == 2147483647
separator_position[k \in Nat] ==
  IF k = 0 THEN 0
  ELSE LET size == IF k <= Len(Grouping) THEN Grouping[k] ELSE Last(Grouping)
       IN  IF Grouping = <<>> \/ separator_position[k - 1] = Unlimited \/ size \in {0, CharMax}
           THEN Unlimited ELSE separator_position[k - 1] + size

(* Mutation: a separator before the first digit.                            *)
separators_first(num_digits) == {separator_position[k] : k \in 1 .. num_digits} \intersect 1 .. num_digits
separators(num_digits) == {separator_position[k] : k \in 1 .. num_digits} \intersect 1 .. num_digits - 1
count_separators(num_digits) == Cardinality(separators(num_digits))

apply(digits) ==
  FlattenSeq([i \in DOMAIN digits |->
                IF Len(digits) - i + 1 \in separators(Len(digits))
                THEN <<Separator, digits[i]>> ELSE <<digits[i]>>])

(* The other write_int, with groups: all padding is outside.                *)
write_int_grouped(arg, digits, specs) ==
  LET prefix == arg.prefix \o alt_prefix(arg.abs_value, Len(digits), specs)
      size == Len(prefix) + Len(digits) + count_separators(Len(digits))
  IN  write_padded("right", specs, size, prefix \o apply(digits))

(* write of an integer; `L` asks the locale, and `c` is a character.        *)
write_int_arg(arg, specs) ==
  CASE presented(specs) = presentation_type.chr -> write_char_plain(arg.abs_value % 256, specs)
    [] presented(specs) # presentation_type.chr /\ get(specs, localized_field) = 1 ->
         write_int_grouped(arg, int_digits(arg.abs_value, specs), specs)
    [] OTHER -> write_int(arg, int_digits(arg.abs_value, specs), specs)
write_integer(bits, v, specs) ==
  write_int_arg(make_write_int_arg(bits, v, get(specs, sign_field)), specs)

(* The same without specifiers: the digits are counted, then written into   *)
(* as many places.                                                          *)
write_integer_default(bits, v) ==
  LET unsigned == v % 2^bits
      abs_value == IF is_negative(v) THEN ((2^bits - 1 - unsigned) + 1) % 2^bits ELSE unsigned
  IN  (IF is_negative(v) THEN <<ch.minus>> ELSE <<>>)
        \o format_decimal(abs_value, count_digits(bits, abs_value))

-----------------------------------------------------------------------------
(* Escapes. *)
is_printable(cp) == cp # invalid_code_point /\ cp < 1114112 /\ cp \notin Unprintable
needs_escape(cp) == (cp >= 0 /\ cp < 32) \/ cp \in {127, ch.quote, ch.backslash} \/ ~is_printable(cp)

(* Mutation: a short escape gets no leading zeroes.                         *)
write_codepoint_bare(width, prefix, cp) ==
  <<ch.backslash, prefix>> \o do_format_base2e(4, cp, FALSE)
write_codepoint(width, prefix, cp) ==
  LET digits == do_format_base2e(4, cp, FALSE)
  IN  <<ch.backslash, prefix>> \o Copies(width - Len(digits), <<ch.zero>>) \o digits

escape_form(cp) ==
  IF cp < 256 THEN <<2, ch.x>> ELSE IF cp < 65536 THEN <<4, ch.u>> ELSE <<8, ch.U>>

write_escaped_cp(cp, sv) ==
  CASE cp = ch.newline -> <<ch.backslash, ch.n>>
    [] cp = ch.cr -> <<ch.backslash, ch.r>>
    [] cp = ch.tab -> <<ch.backslash, ch.t>>
    [] cp \in {ch.quote, ch.apostrophe, ch.backslash} -> <<ch.backslash, cp>>
    [] cp = invalid_code_point ->
         FlattenSeq([i \in DOMAIN sv |-> write_codepoint(2, ch.x, sv[i])])
    [] OTHER -> write_codepoint(escape_form(cp)[1], escape_form(cp)[2], cp)

(* find_escape gives the next code point to escape, the rest is copied.     *)
write_escaped_string(cps) ==
  <<ch.quote>>
    \o FlattenSeq([i \in DOMAIN cps |-> IF needs_escape(cps[i].cp)
                                        THEN write_escaped_cp(cps[i].cp, cps[i].sv)
                                        ELSE cps[i].sv])
    \o <<ch.quote>>

(* A char is one byte and taken for a code point; above 127 it is negative  *)
(* and converts to none.                                                    *)
write_escaped_char(v) ==
  LET cp == IF v < 128 THEN v ELSE invalid_code_point
  IN  <<ch.apostrophe>>
        \o (IF (needs_escape(cp) /\ v # ch.quote) \/ v = ch.apostrophe
            THEN write_escaped_cp(cp, <<v>>) ELSE <<v>>)
        \o <<ch.apostrophe>>

is_debug(specs) == presented(specs) = presentation_type.debug

write_char(value, specs) ==
  IF is_debug(specs) THEN write_padded("left", specs, 1, write_escaped_char(value))
  ELSE write_char_plain(value, specs)

write_char_or_int(value, specs) ==
  IF presented(specs) \in {presentation_type.none, presentation_type.chr, presentation_type.debug}
  THEN write_char(value, specs)
  ELSE write_integer(IntBits, value, specs)

write_bool(value, specs) ==
  IF presented(specs) \notin {presentation_type.none, presentation_type.string}
  THEN write_integer(IntBits, value, specs)
  ELSE write_bytes("left", IF value = 1 THEN true_text ELSE false_text, specs)

-----------------------------------------------------------------------------
(* Strings. The code points are counted until the next does not fit: each   *)
(* one as wide as it is shown, an escape as wide as its text, and a quote   *)
(* after the last.                                                          *)
Limitless == 2147483647  \* SIZE_MAX

(* A code point as it is shown: as itself, or as an escape.                 *)
escape_of(n) == [width |-> n, size |-> n, escaped |-> TRUE]
shown_as(c, debug) ==
  IF debug /\ needs_escape(c.cp) THEN escape_of(Len(write_escaped_cp(c.cp, c.sv)))
  ELSE [width |-> display_width_of(c.cp), size |-> Len(c.sv), escaped |-> FALSE]

(* Mutation: a code point may reach over the limit.                         *)
fit_over(shown, specs) ==
  LET limit == IF specs.precision < 0 THEN Limitless ELSE specs.precision
      step(m, c) == IF m.display_width >= limit THEN m
                    ELSE [m EXCEPT !.display_width = @ + c.width, !.size = @ + c.size]
  IN  FoldLeft(step, [display_width |-> 0, size |-> 0, more |-> TRUE], shown)
fit(shown, specs) ==
  LET limit == IF specs.precision < 0 THEN Limitless ELSE specs.precision
      quote == IF ~is_debug(specs) \/ specs.precision = 0 THEN 0 ELSE 1
      closing(i, width) == IF is_debug(specs) /\ width < limit /\ i = Len(shown) THEN 1 ELSE 0
      step(m, i) ==
        LET width == m.display_width + shown[i].width
        IN  CASE ~m.more -> m
              [] m.more /\ width <= limit ->
                   [display_width |-> width + closing(i, width),
                    size |-> m.size + shown[i].size + closing(i, width), more |-> TRUE]
              [] m.more /\ width > limit /\ shown[i].escaped ->
                   [display_width |-> limit, size |-> m.size + (limit - m.display_width),
                    more |-> FALSE]
              [] OTHER -> [m EXCEPT !.more = FALSE]
  IN  FoldLeft(step, [display_width |-> quote, size |-> quote, more |-> TRUE],
               [i \in DOMAIN shown |-> i])

(* bounded_output_iterator: what is written behind the size is dropped.     *)
bounded(s, size) == SubSeq(s, 1, IF size < Len(s) THEN size ELSE Len(s))

write_fitted(text, f, specs) ==
  write_padded("left", specs, f.display_width, bounded(text, f.size))
write_text(text, cps, specs) ==
  IF specs.precision < 0 /\ specs.width = 0 THEN text
  ELSE write_fitted(text, fit([i \in DOMAIN cps |-> shown_as(cps[i], is_debug(specs))], specs), specs)
write_points(s, cps, specs) ==
  write_text(IF is_debug(specs) THEN write_escaped_string(cps) ELSE s, cps, specs)
write_string(s, specs) == write_points(s, codepoints(s), specs)

=============================================================================

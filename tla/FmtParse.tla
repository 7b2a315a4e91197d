------------------------------ MODULE FmtParse ------------------------------
(***************************************************************************)
(* The bundled fmt library reads a format string: parse_format_string with *)
(* its replacement fields, argument ids and format specifiers. A string is *)
(* read twice, by the checker when the call is compiled (mode "check") and *)
(* by vformat_to when the message is logged (mode "run", also for strings  *)
(* that come from fmt::runtime and were never checked). One action per     *)
(* case of the code's switches. An error is an exception: the string is    *)
(* given up where it is found, and what was written before stays written.  *)
(***************************************************************************)
EXTENDS FmtArg

CONSTANT Inputs   \* the calls: records [fmts, args], each string with each list of arguments

(* Strings of characters, and sequences of arguments of the library's types. *)
ASSUME InputsAssumption ==
  \A i \in DOMAIN Inputs :
    /\ Inputs[i].fmts \subseteq Seq(STRING)
    /\ \A as \in Inputs[i].args :
         /\ as \in Seq(Range(as))
         /\ \A k \in DOMAIN as :
              /\ {"type", "name", "value"} \subseteq DOMAIN as[k] /\ as[k].type \in Range(type)
              /\ as[k].type \in sint_set \union uint_set => as[k].value \in Int

VARIABLES
  fmt,          \* the format string: a sequence of characters
  args,         \* the arguments: a sequence of [type, name, value]
  mode,         \* "check" or "run"
  pc,           \* "text", "specs", "write", "fast", "done", "error" or "returned"
  p,            \* position of the next character, from 1
  begin,        \* where the text that is not written yet begins
  next_arg_id,  \* of the parse context: -1 once ids are given by hand
  arg_id,       \* the argument of the field that is read
  specs,        \* its specifiers
  current_state,\* how far enter_state is in the order of the specifiers
  out,          \* what was written: texts and fields
  err,          \* the message of the exception
  checked,      \* what the checker said: "ok" or "refused", "none" before
  result        \* the bytes that the call returns

vars == <<fmt, args, mode, pc, p, begin, next_arg_id, arg_id, specs, current_state, out, err,
          checked, result>>
call_vars == <<fmt, args, mode, checked, result>>

-----------------------------------------------------------------------------
open == "{"     \* of a field
close == "}"
Digits == <<"0", "1", "2", "3", "4", "5", "6", "7", "8", "9">>
DigitValue == [c \in Range(Digits) |-> (CHOOSE i \in DOMAIN Digits : Digits[i] = c) - 1]
digit == DOMAIN DigitValue
name_start == {"a", "b", "_"}

(* The character at q; the sequences are not terminated.                    *)
at(q) == IF q <= Len(fmt) THEN fmt[q] ELSE "END"

(* Lead bytes say how many code units a code point has.                     *)
code_point_length(c) == IF c = "C3" THEN 2 ELSE IF c = "E2" THEN 3 ELSE 1

parse_align(c) == CASE c = "<" -> align.left
                    [] c = ">" -> align.right
                    [] c = "^" -> align.center
                    [] OTHER -> align.none

(* The first position from q on whose character is not in the class.        *)
SkipWhile(q, class) ==
  CHOOSE e \in q .. Len(fmt) + 1 : /\ at(e) \notin class
                                   /\ \A i \in q .. e - 1 : at(i) \in class

(* The sums of the first digits of the n from q on, which wrap.             *)
sums(q, n) ==
  LET value[k \in 0 .. n] ==
        IF k = 0 THEN 0 ELSE (value[k - 1] * 10 + DigitValue[at(q + k - 1)]) % 2^IntBits
  IN  value

(* As many digits always fit an int. *)
digits10 == (IntBits * 3) \div 10
power10[k \in 0 .. digits10] == IF k = 0 THEN 1 ELSE 10 * power10[k - 1]
ASSUME DigitsAssumption == power10[digits10] <= IntMax + 1

(* The digits from q on. Whether the sum wrapped is decided by how many     *)
(* digits there were and, for one more than always fits, by the sum before  *)
(* the last.                                                                *)
parse_nonnegative_int(q, error_value) ==
  LET e == SkipWhile(q, digit)
      n == e - q
      value == sums(q, n)
      fits == \/ n <= digits10
              \/ /\ n = digits10 + 1
                 /\ value[n - 1] * 10 + DigitValue[at(e - 1)] <= IntMax
  IN  [p |-> e, value |-> IF fits THEN value[n] ELSE error_value]

(* parse_arg_id: an index, a name, or neither. An index must be followed    *)
(* by the end of the field or by its specifiers.                            *)
parse_arg_id(q) ==
  LET c == at(q)
      index == IF c = "0" THEN [p |-> q + 1, value |-> 0]
               ELSE parse_nonnegative_int(q, IntMax)
      name_end == SkipWhile(q, name_start \union digit)
  IN  IF c \in digit
      THEN [kind |-> IF at(index.p) \in {close, ":"} THEN "index" ELSE "error",
            id |-> index.value, p |-> index.p]
      ELSE IF c \notin name_start THEN [kind |-> "error", id |-> 0, p |-> q]
      ELSE [kind |-> "name", id |-> SubSeq(fmt, q, name_end - 1), p |-> name_end]

-----------------------------------------------------------------------------
(* The parse context. Each operation gives the counter, the id and the      *)
(* error if any; m is the mode, for the checker's context knows the         *)
(* arguments as well.                                                       *)
(* Mutation: the checker counts one argument less.                          *)
not_found_last(m, id) == IF m = "check" /\ id + 1 >= Len(args) THEN "argument_not_found" ELSE "none"
not_found(m, id) == IF m = "check" /\ id >= Len(args) THEN "argument_not_found" ELSE "none"

(* next_arg_id(). *)
automatic(m, n) ==
  IF n < 0
  THEN [n |-> n, id |-> 0, err |-> "cannot_switch_from_manual_to_automatic_argument_indexing"]
  ELSE [n |-> n + 1, id |-> n, err |-> not_found(m, n)]

check_arg_id(m, n, id) ==
  IF n > 0
  THEN [n |-> n, id |-> id, err |-> "cannot_switch_from_automatic_to_manual_argument_indexing"]
  ELSE [n |-> -1, id |-> id, err |-> not_found(m, id)]

(* Mutation: the checker accepts any type for a width.                      *)
check_dynamic_spec_any(m, id) == "none"
(* What the checker demands of an argument that gives a width or precision. *)
check_dynamic_spec(m, id) ==
  IF m = "check" /\ id < Len(args) /\ ~is_integral_type(args[id + 1].type)
  THEN "width/precision_is_not_integer" ELSE "none"

First(e1, e2) == IF e1 # "none" THEN e1 ELSE e2

(* parse_dynamic_spec: a number, or the id of the argument that holds it.   *)
(* dflt is the value the field keeps when there is no number.               *)
parse_dynamic_spec(m, q, n, dflt) ==
  LET int == parse_nonnegative_int(q, -1)
      failed(e) == [p |-> q, n |-> n, kind |-> arg_id_kind.none, ref |-> 0, value |-> dflt,
                       err |-> e]
      given(r, kind, id, e, q2) ==
        [p |-> q2 + 1, n |-> r.n, kind |-> kind, ref |-> id, value |-> dflt,
         err |-> First(e, IF at(q2) = close THEN "none" ELSE "invalid_format_string")]
      id == parse_arg_id(q + 1)
  IN  CASE at(q) \in digit ->
             [p |-> int.p, n |-> n, kind |-> arg_id_kind.none, ref |-> 0, value |-> int.value,
              err |-> IF int.value = -1 THEN "number_is_too_big" ELSE "none"]
        [] at(q) = open /\ at(q + 1) \in {close, ":"} ->
             LET r == automatic(m, n)
             IN  given(r, arg_id_kind.index, r.id, First(r.err, check_dynamic_spec(m, r.id)), q + 1)
        [] at(q) = open /\ at(q + 1) \notin {close, ":", "END"} /\ id.kind = "index" ->
             LET r == check_arg_id(m, n, id.id)
             IN  given(r, arg_id_kind.index, id.id, First(r.err, check_dynamic_spec(m, id.id)), id.p)
        [] at(q) = open /\ at(q + 1) \notin {close, ":", "END"} /\ id.kind = "name" ->
             given([n |-> -1], arg_id_kind.name, id.id, "none", id.p)
        [] OTHER -> failed("invalid_format_string")

-----------------------------------------------------------------------------
(* report_error, when `written` has been written. *)
Fail(message, written) ==
  /\ pc' = "error" /\ err' = message /\ out' = written
  /\ UNCHANGED <<call_vars, p, begin, next_arg_id, arg_id, specs, current_state>>

(* on_text: only vformat_to writes. *)
Written(from, to) ==
  IF mode = "run" /\ from <= to THEN Append(out, [text |-> SubSeq(fmt, from, to)]) ELSE out

Start ==
  /\ mode' = "run"
  /\ pc' = (IF fmt = <<open, close>> THEN "fast" ELSE "text") /\ p' = 1 /\ begin' = 1
  /\ next_arg_id' = 0 /\ arg_id' = 0 /\ specs' = format_specs /\ current_state' = 0
  /\ out' = <<>> /\ err' = "none"

Init ==
  /\ \E i \in DOMAIN Inputs : fmt \in Inputs[i].fmts /\ args \in Inputs[i].args
  /\ ~check_for_duplicate(args)
  /\ mode = "check" /\ pc = "text" /\ p = 1 /\ begin = 1
  /\ next_arg_id = 0 /\ arg_id = 0 /\ specs = format_specs /\ current_state = 0
  /\ out = <<>> /\ err = "none" /\ checked = "none" /\ result = <<>>

-----------------------------------------------------------------------------
(* parse_format_string: one character of text. *)
Text ==
  /\ pc = "text" /\ at(p) \notin {open, close, "END"}
  /\ p' = p + 1
  /\ UNCHANGED <<call_vars, pc, begin, next_arg_id, arg_id, specs, current_state, out, err>>

(* A closing brace stands for itself when it is doubled. *)
CloseBrace ==
  /\ pc = "text" /\ at(p) = close
  /\ IF at(p + 1) # close
     THEN Fail("unmatched_brace", out)
     ELSE /\ out' = Written(begin, p)
          /\ p' = p + 2 /\ begin' = p + 2
          /\ UNCHANGED <<call_vars, pc, next_arg_id, arg_id, specs, current_state, err>>

(* parse_replacement_field: {{ *)
OpenBrace ==
  /\ pc = "text" /\ at(p) = open /\ at(p + 1) = open
  /\ out' = (IF mode = "run" THEN Append(Written(begin, p - 1), [text |-> <<open>>]) ELSE out)
  /\ p' = p + 2 /\ begin' = p + 2
  /\ UNCHANGED <<call_vars, pc, next_arg_id, arg_id, specs, current_state, err>>

(* The handlers' on_replacement_field, for the field whose } is at q.       *)
on_replacement_field(id, q, n) ==
  /\ pc' = "text" /\ p' = q + 1 /\ begin' = q + 1
  /\ next_arg_id' = n /\ arg_id' = id
  /\ out' = (IF mode = "run"
             THEN Append(Written(begin, p - 1), [arg |-> get_arg(args, id)])
             ELSE out)
  /\ UNCHANGED <<call_vars, specs, current_state, err>>

(* on_format_specs: the specifiers begin at q. *)
on_format_specs(id, q, n) ==
  /\ pc' = "specs" /\ p' = q
  /\ next_arg_id' = n /\ arg_id' = id /\ specs' = format_specs /\ current_state' = 0
  /\ out' = Written(begin, p - 1)
  /\ UNCHANGED <<call_vars, begin, err>>

(* The id is known: r is what the context or the name said about it, q is   *)
(* at the character behind it. An argument of no type is an error at run    *)
(* time, with or without specifiers.                                        *)
Field(r, q) ==
  LET e == First(r.err, IF mode = "run" /\ at(q) \in {close, ":"}
                        THEN IF get_arg(args, r.id).type = "none_type" THEN "argument_not_found"
                             ELSE IF at(q) = close THEN write_error(get_arg(args, r.id), format_specs)
                             ELSE "none"
                        ELSE "none")
  IN  CASE e # "none" -> Fail(e, Written(begin, p - 1))
        [] e = "none" /\ at(q) = close -> on_replacement_field(r.id, q, r.n)
        [] e = "none" /\ at(q) = ":" -> on_format_specs(r.id, q + 1, r.n)
        [] OTHER -> Fail("missing_brace", Written(begin, p - 1))

FieldAutomatic ==
  /\ pc = "text" /\ at(p) = open /\ at(p + 1) \in {close, ":"}
  /\ Field(automatic(mode, next_arg_id), p + 1)

FieldIndexed ==
  /\ pc = "text" /\ at(p) = open /\ at(p + 1) \notin {open, close, ":", "END"}
  /\ LET id == parse_arg_id(p + 1)
     IN  /\ id.kind = "index"
         /\ Field(check_arg_id(mode, next_arg_id, id.id), id.p)

(* on_arg_id(name). vformat_to gives up automatic ids and looks the name    *)
(* up; the checker looks among the names it knows at compile time - here    *)
(* none, names are given with fmt::arg - and goes on with the id -1.        *)
FieldNamed ==
  /\ pc = "text" /\ at(p) = open /\ at(p + 1) \notin {open, close, ":", "END"}
  /\ LET id == parse_arg_id(p + 1)
         found == get_id(args, id.id)
     IN  /\ id.kind = "name"
         /\ Field(IF mode = "run"
                  THEN [n |-> -1, id |-> found,
                        err |-> IF found < 0 THEN "argument_not_found" ELSE "none"]
                  ELSE [n |-> next_arg_id, id |-> -1,
                        err |-> IF make_descriptor(args).named THEN "none" ELSE "argument_not_found"],
                  id.p)

FieldBroken ==
  /\ pc = "text" /\ at(p) = open
  /\ \/ at(p + 1) = "END"
     \/ at(p + 1) \notin {open, close, ":", "END"} /\ parse_arg_id(p + 1).kind = "error"
  /\ Fail("invalid_format_string", Written(begin, p - 1))

(* The end of the string. *)
Finish ==
  /\ pc = "text" /\ at(p) = "END"
  /\ pc' = "done" /\ out' = Written(begin, p - 1)
  /\ UNCHANGED <<call_vars, p, begin, next_arg_id, arg_id, specs, current_state, err>>

-----------------------------------------------------------------------------
(* parse_format_specs. *)
arg_type == args[arg_id + 1].type

(* The checker does not know the type of an argument it has by name only,   *)
(* and an argument of a user's type is left to its formatter (which here    *)
(* takes everything up to the brace).                                       *)
Parsed == pc = "specs" /\ arg_id >= 0 /\ arg_type # "custom_type"

(* c of the code: at the first step an alignment that comes second makes    *)
(* the first character the fill, whatever it is.                            *)
c_ == IF current_state = 0 /\ parse_align(at(p + 1)) # align.none THEN "NUL" ELSE at(p)

order == [align |-> 1, sign |-> 2, hash |-> 3, zero |-> 4, width |-> 5, precision |-> 6,
          locale |-> 7]

(* Mutation: a specifier may be repeated.                                   *)
enter_state_again(s, valid) == IF current_state > s \/ ~valid THEN "invalid_format_specifier" ELSE "none"
enter_state(s, valid) == IF current_state >= s \/ ~valid THEN "invalid_format_specifier" ELSE "none"

(* One specifier is read: the next is at q. *)
Go(s, q, sp, n, e) ==
  IF e # "none" THEN Fail(e, out)
  ELSE /\ p' = q /\ current_state' = s /\ specs' = sp /\ next_arg_id' = n
       /\ UNCHANGED <<call_vars, pc, begin, arg_id, out, err>>

SpecAlign ==
  /\ Parsed /\ c_ \in {"<", ">", "^"}
  /\ Go(order.align, p + 1, set(specs, align_field, parse_align(c_)), next_arg_id,
        enter_state(order.align, TRUE))

SpecSign ==
  /\ Parsed /\ c_ \in {"+", blank, "-"}
  /\ Go(order.sign, p + 1,
        CASE c_ = blank -> set(specs, sign_field, sign.space)
          [] c_ = "+" -> set(specs, sign_field, sign.plus)
          [] OTHER -> specs,
        next_arg_id, enter_state(order.sign, arg_type \in sint_set \union float_set))

SpecHash ==
  /\ Parsed /\ c_ = "#"
  /\ Go(order.hash, p + 1, set(specs, alternate_field, 1), next_arg_id,
        enter_state(order.hash, is_arithmetic_type(arg_type)))

(* A zero pads with zeros behind the sign, unless an alignment was given.   *)
SpecZero ==
  /\ Parsed /\ c_ = "0"
  /\ Go(order.zero, p + 1,
        IF get(specs, align_field) = align.none
        THEN set_fill(set(specs, align_field, align.numeric), <<"0">>) ELSE specs,
        next_arg_id,
        First(enter_state(order.zero, TRUE),
              IF is_arithmetic_type(arg_type) THEN "none"
              ELSE "format_specifier_requires_numeric_argument"))

GoWidth(r) ==
  Go(order.width, r.p,
     [set(specs, width_field, r.kind) EXCEPT !.width = r.value, !.width_ref = r.ref],
     r.n, First(enter_state(order.width, TRUE), r.err))
SpecWidth ==
  /\ Parsed /\ c_ \in (digit \ {"0"}) \union {open}
  /\ GoWidth(parse_dynamic_spec(mode, p, next_arg_id, specs.width))

GoPrecision(r) ==
  Go(order.precision, r.p,
     [set(specs, precision_field, r.kind) EXCEPT !.precision = r.value, !.precision_ref = r.ref],
     r.n, First(enter_state(order.precision, arg_type \in float_set \union string_set \union cstring_set),
                IF at(p + 1) = "END" THEN "invalid_precision" ELSE r.err))
SpecPrecision ==
  /\ Parsed /\ c_ = "."
  /\ GoPrecision(parse_dynamic_spec(mode, p + 1, next_arg_id, specs.precision))

SpecLocale ==
  /\ Parsed /\ c_ = "L"
  /\ Go(order.locale, p + 1, set(specs, localized_field, 1), next_arg_id,
        enter_state(order.locale, is_arithmetic_type(arg_type)))

(* The presentation types: what each letter means and for which arguments.  *)
presentation ==
  [d |-> [as |-> "dec", for |-> integral_set], x |-> [as |-> "hex", for |-> integral_set],
   o |-> [as |-> "oct", for |-> integral_set], b |-> [as |-> "bin", for |-> integral_set],
   c |-> [as |-> "chr", for |-> integral_set \ bool_set],
   e |-> [as |-> "exp", for |-> float_set], f |-> [as |-> "fixed", for |-> float_set],
   g |-> [as |-> "general", for |-> float_set], a |-> [as |-> "hexfloat", for |-> float_set],
   s |-> [as |-> "string", for |-> bool_set \union string_set \union cstring_set],
   p |-> [as |-> "pointer", for |-> pointer_set \union cstring_set]]
upper == [X |-> "x", B |-> "b", E |-> "e", F |-> "f", G |-> "g", A |-> "a"]
debug_set == char_set \union string_set \union cstring_set

(* parse_presentation_type: the letter ends the specifiers.                 *)
SpecType ==
  /\ Parsed /\ c_ \in DOMAIN presentation \union DOMAIN upper \union {"?"}
  /\ LET letter == IF c_ \in DOMAIN upper THEN upper[c_] ELSE c_
         t == IF c_ = "?" THEN [as |-> "debug", for |-> debug_set] ELSE presentation[letter]
         cased == IF c_ \in DOMAIN upper THEN set(specs, uppercase_field, 1) ELSE specs
     IN  IF arg_type \notin t.for
         THEN Fail("invalid_format_specifier", out)
         ELSE /\ specs' = set(cased, type_field, presentation_type[t.as])
              /\ p' = p + 1 /\ pc' = "write"
              /\ UNCHANGED <<call_vars, begin, next_arg_id, arg_id, current_state, out, err>>

(* The default case: a code point to fill with, and an alignment.           *)
SpecFill ==
  /\ Parsed /\ at(p) \notin {close, "END"}
  /\ c_ \notin {"<", ">", "^", "+", blank, "-", "#", ".", "L", open, "?"}
                  \union digit \union DOMAIN presentation \union DOMAIN upper
  /\ LET fill_end == p + code_point_length(at(p))
         alignment == parse_align(at(fill_end))
     IN  Go(order.align, fill_end + 1,
            set(set_fill(specs, SubSeq(fmt, p, fill_end - 1)), align_field, alignment), next_arg_id,
            CASE fill_end > Len(fmt) -> "invalid_format_specifier"
              [] fill_end <= Len(fmt) /\ at(p) = open -> "invalid_fill_character"
              [] OTHER -> enter_state(order.align, alignment # align.none))

SpecEnd ==
  /\ Parsed /\ at(p) \in {close, "END"}
  /\ c_ \in {close, "END", "NUL"}
  /\ pc' = "write"
  /\ UNCHANGED <<call_vars, p, begin, next_arg_id, arg_id, specs, current_state, out, err>>

(* The end of what is skipped from q on, for the argument id: with an id    *)
(* that is not known, nested fields included.                               *)
skipped(q, id) ==
  LET depth[i \in q .. Len(fmt) + 1] ==
        IF i = q THEN 0
        ELSE depth[i - 1] + (IF at(i - 1) = open THEN 1 ELSE IF at(i - 1) = close THEN -1 ELSE 0)
      Ends(i) == at(i) = "END" \/ (at(i) = close /\ (id >= 0 \/ depth[i] <= 0))
  IN  CHOOSE e \in q .. Len(fmt) + 1 : Ends(e) /\ \A i \in q .. e - 1 : ~Ends(i)

(* The checker skips what it cannot judge.                                  *)
SpecSkip ==
  /\ pc = "specs" /\ ~Parsed
  /\ p' = skipped(p, arg_id) /\ pc' = "write"
  /\ UNCHANGED <<call_vars, begin, next_arg_id, arg_id, specs, current_state, out, err>>

-----------------------------------------------------------------------------
dynamic_arg(kind, ref) ==
  IF kind = arg_id_kind.index THEN get_arg(args, ref)
  ELSE IF get_id(args, ref) < 0 THEN no_arg ELSE get_arg(args, get_id(args, ref))

(* Mutation: a count is not compared with the range of int.                 *)
get_dynamic_spec_any(a) ==
  IF a.type \in sint_set \union uint_set THEN [value |-> a.value, err |-> "none"]
  ELSE [value |-> 0, err |-> "width/precision_is_not_integer"]
(* The value of a width or precision that the argument a gives. A negative  *)
(* one becomes too large.                                                   *)
get_dynamic_spec(a) ==
  CASE a.type = "none_type" -> [value |-> 0, err |-> "argument_not_found"]
    [] a.type \in sint_set \union uint_set ->
         [value |-> a.value,
          err |-> IF a.value \notin 0 .. IntMax THEN "width/precision_is_out_of_range" ELSE "none"]
    [] OTHER -> [value |-> 0, err |-> "width/precision_is_not_integer"]
handle_dynamic_spec(kind, ref, value) ==
  IF kind = arg_id_kind.none THEN [value |-> value, err |-> "none"]
  ELSE get_dynamic_spec(dynamic_arg(kind, ref))

(* check_char_specs: no number formatting for a character.                  *)
check_char_specs ==
  IF /\ arg_id >= 0 /\ arg_type = "char_type"
     /\ get(specs, type_field) \in {presentation_type.none, presentation_type.chr,
                                    presentation_type.debug}
     /\ \/ get(specs, align_field) = align.numeric
        \/ get(specs, sign_field) # sign.none
        \/ get(specs, alternate_field) = 1
  THEN "invalid_format_specifier_for_char" ELSE "none"

(* The argument is written, and the field must end here.                    *)
Finished(e, written) ==
  CASE e # "none" -> Fail(e, out)
    [] e = "none" /\ at(p) # close -> Fail("unknown_format_specifier", written)
    [] OTHER -> /\ out' = written
                /\ pc' = "text" /\ p' = p + 1 /\ begin' = p + 1
                /\ UNCHANGED <<call_vars, next_arg_id, arg_id, specs, current_state, err>>
WriteArg(a, ready, e) ==
  Finished(First(e, First(check_char_specs, write_error(a, ready))),
           Append(out, [arg |-> a, specs |-> ready]))
WriteReady(width, precision) ==
  WriteArg(get_arg(args, arg_id), [specs EXCEPT !.width = width.value, !.precision = precision.value],
           First(width.err, precision.err))

Write ==
  /\ pc = "write"
  /\ IF mode = "check" THEN Finished(check_char_specs, out)
     ELSE WriteReady(
            handle_dynamic_spec(get(specs, width_field), specs.width_ref, specs.width),
            handle_dynamic_spec(get(specs, precision_field), specs.precision_ref, specs.precision))

-----------------------------------------------------------------------------
(* vformat_to does not parse the string "{}". *)
FastPath ==
  /\ pc = "fast"
  /\ LET a == get_arg(args, 0)
         e == IF a.type = "none_type" THEN "argument_not_found" ELSE write_error(a, format_specs)
     IN  IF e # "none" THEN Fail(e, out)
         ELSE /\ out' = <<[arg |-> a]>> /\ pc' = "done"
              /\ UNCHANGED <<call_vars, p, begin, next_arg_id, arg_id, specs, current_state, err>>

(* The string is compiled; the call is made, through fmt::runtime when the  *)
(* checker refused the string.                                              *)
Call ==
  /\ mode = "check" /\ pc \in {"done", "error"}
  /\ checked' = (IF pc = "done" THEN "ok" ELSE "refused")
  /\ Start
  /\ UNCHANGED <<fmt, args, result>>

(* What stands in the buffer. *)
buffer ==
  FlattenSeq([i \in DOMAIN out |->
                IF "text" \in DOMAIN out[i] THEN units(out[i].text)
                ELSE IF "specs" \in DOMAIN out[i] THEN write(out[i].arg, out[i].specs)
                ELSE write_default(out[i].arg)])

(* vformat gives them as a string. *)
Return ==
  /\ mode = "run" /\ pc = "done"
  /\ pc' = "returned" /\ result' = buffer
  /\ UNCHANGED <<fmt, args, mode, p, begin, next_arg_id, arg_id, specs, current_state, out, err,
                 checked>>

Ended ==
  /\ mode = "run" /\ pc \in {"returned", "error"}
  /\ UNCHANGED vars

Next ==
  \/ Text \/ CloseBrace \/ OpenBrace
  \/ FieldAutomatic \/ FieldIndexed \/ FieldNamed \/ FieldBroken \/ Finish
  \/ SpecAlign \/ SpecSign \/ SpecHash \/ SpecZero \/ SpecWidth \/ SpecPrecision
  \/ SpecLocale \/ SpecType \/ SpecFill \/ SpecEnd \/ SpecSkip
  \/ Write \/ FastPath \/ Call \/ Return \/ Ended

Spec == Init /\ [][Next]_vars

-----------------------------------------------------------------------------
(* The words of parse_context, specifiers and positions stay in range: the  *)
(* specifiers word has no bit beyond its fields and no field a value that   *)
(* is none of its enumeration's; a width that is used fits an int.          *)
TypeOK ==
  /\ mode \in {"check", "run"} /\ pc \in {"text", "specs", "write", "fast", "done", "error", "returned"}
  /\ p \in 1 .. Len(fmt) + 1 /\ begin \in 1 .. p
  /\ next_arg_id \in -1 .. Len(fmt) /\ arg_id \in Int /\ arg_id >= -1
  /\ get(specs, align_field) \in 0 .. 4 /\ get(specs, width_field) \in 0 .. 2
  /\ get(specs, precision_field) \in 0 .. 2 /\ get(specs, fill_size_field) \in 1 .. max_fill_size
  /\ specs.data \in Nat /\ specs.data < 2^18
  /\ (err # "none") <=> (pc = "error")
  /\ \A i \in DOMAIN out : "specs" \in DOMAIN out[i] =>
       out[i].specs.width \in 0 .. IntMax /\ out[i].specs.precision \in -1 .. IntMax

HasEnded == mode = "run" /\ pc \in {"returned", "error"}

(* An argument is given by its name.                                        *)
Named == \E q \in 1 .. Len(fmt) : at(q) = open /\ at(q + 1) \in name_start

(* A string that compiled runs: all that can still go wrong is a width that *)
(* is out of range, one from a bool or char (which the checker takes for    *)
(* integers), a C string that is null, a precision beyond all numbers, and  *)
(* what depends on the name of an argument.                                 *)
CheckedRuns ==
  (HasEnded /\ checked = "ok" /\ pc = "error" /\ ~Named) =>
    \/ err \in {"width/precision_is_out_of_range", "string_pointer_is_null", "number_is_too_big"}
    \/ /\ err = "width/precision_is_not_integer"
       /\ \E i \in DOMAIN args : args[i].type \in bool_set \union char_set

(* What the checker refuses would not have run either. After a name the two *)
(* passes count differently: "{}{a}{1}" is refused and would run.           *)
RefusedFails == (HasEnded /\ checked # "ok" /\ ~Named) => pc = "error"

=============================================================================

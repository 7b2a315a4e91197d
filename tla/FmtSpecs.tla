------------------------------ MODULE FmtSpecs ------------------------------
(***************************************************************************)
(* What the bundled fmt library keeps between parsing a replacement field  *)
(* and writing it: the types of the arguments, the specifiers packed into  *)
(* one word (basic_specs), and the list of arguments packed into another   *)
(* (basic_format_args). A word is a number; a field of it is read and      *)
(* written at its shift, as the masks of the code do.                      *)
(***************************************************************************)
EXTENDS Integers, Sequences, SequencesExt

CONSTANTS
  MaxPacked,  \* max_packed_args: types that fit the descriptor (15 in the code)
  IntBits     \* width of int (32 in the code)

ASSUME SpecsAssumption == MaxPacked \in Nat /\ IntBits \in Nat /\ IntBits >= 4

IntMax == 2^(IntBits - 1) - 1

(* enum class type; none_type is 0. *)
type == << "int_type", "uint_type", "long_long_type", "ulong_long_type", "int128_type",
           "uint128_type", "bool_type", "char_type", "float_type", "double_type",
           "long_double_type", "cstring_type", "string_type", "pointer_type", "custom_type" >>

type_number(t) == IF t = "none_type" THEN 0 ELSE CHOOSE i \in DOMAIN type : type[i] = t
type_of_number(i) == IF i = 0 THEN "none_type" ELSE type[i]

is_integral_type(t) == type_number(t) \in 1 .. type_number("char_type")
is_arithmetic_type(t) == type_number(t) \in 1 .. type_number("long_double_type")

(* The bitsets of types. *)
sint_set    == {"int_type", "long_long_type", "int128_type"}
uint_set    == {"uint_type", "ulong_long_type", "uint128_type"}
bool_set    == {"bool_type"}
char_set    == {"char_type"}
float_set   == {"float_type", "double_type", "long_double_type"}
string_set  == {"string_type"}
cstring_set == {"cstring_type"}
pointer_set == {"pointer_type"}
integral_set == sint_set \union uint_set \union bool_set \union char_set

-----------------------------------------------------------------------------
(* basic_specs: where each field lies in data_, and what its values mean.   *)
type_field        == [shift |-> 0, bits |-> 3]
align_field       == [shift |-> 3, bits |-> 3]
width_field       == [shift |-> 6, bits |-> 2]
precision_field   == [shift |-> 8, bits |-> 2]
sign_field        == [shift |-> 10, bits |-> 2]
uppercase_field   == [shift |-> 12, bits |-> 1]
alternate_field   == [shift |-> 13, bits |-> 1]
localized_field   == [shift |-> 14, bits |-> 1]
fill_size_field   == [shift |-> 15, bits |-> 3]

(* presentation_type: a number means different things for different types.  *)
presentation_type == [none |-> 0, debug |-> 1, string |-> 2, dec |-> 3, hex |-> 4, oct |-> 5,
                      bin |-> 6, chr |-> 7, pointer |-> 3,
                      exp |-> 1, fixed |-> 2, general |-> 3, hexfloat |-> 4]
align == [none |-> 0, left |-> 1, right |-> 2, center |-> 3, numeric |-> 4]
sign  == [none |-> 0, minus |-> 1, plus |-> 2, space |-> 3]
arg_id_kind == [none |-> 0, index |-> 1, name |-> 2]

(* (data_ & mask) >> shift, and (data_ & ~mask) | (v << shift).             *)
get_field(data, f) == (data \div 2^f.shift) % 2^f.bits
set_field(data, f, v) == data + (v - get_field(data, f)) * 2^f.shift

max_fill_size == 4
blank == " "

(* format_specs(): width 0, precision -1, and one blank to fill with.       *)
format_specs ==
  [data |-> set_field(0, fill_size_field, 1),
   fill_data |-> [i \in 1 .. max_fill_size |-> IF i = 1 THEN blank ELSE "NUL"],
   width |-> 0, precision |-> -1, width_ref |-> 0, precision_ref |-> 0]

get(specs, f) == get_field(specs.data, f)

set(specs, f, v) == [specs EXCEPT !.data = set_field(@, f, v)]

(* set_fill: the code units of one code point, and how many they are.       *)
set_fill(specs, s) ==
  LET sized == set(specs, fill_size_field, Len(s))
  IN  [sized EXCEPT !.fill_data = [i \in DOMAIN @ |-> IF i <= Len(s) THEN s[i]
                                                      ELSE IF Len(s) = 1 /\ i <= 3 THEN "NUL"
                                                      ELSE @[i]]]

fill(specs) == SubSeq(specs.fill_data, 1, get(specs, fill_size_field))

-----------------------------------------------------------------------------
(* The arguments of a call: a sequence of [type, name, value], the name     *)
(* empty for none. make_descriptor packs their types into a word, of which  *)
(* low is what each digit of packed_arg_bits says from the lowest on, or    *)
(* keeps their number when there are too many.                              *)
make_descriptor(args) ==
  [unpacked |-> Len(args) > MaxPacked,
   named    |-> \E i \in DOMAIN args : args[i].name # <<>>,
   low      |-> IF Len(args) > MaxPacked THEN Len(args)
                ELSE [id \in 0 .. MaxPacked - 1 |->
                        IF id < Len(args) THEN type_number(args[id + 1].type)
                        ELSE type_number("none_type")]]

no_arg == [type |-> "none_type", name |-> <<>>, value |-> 0]

(* basic_format_args::get: the type comes from the descriptor when it is    *)
(* packed, and an id that is too large gives an argument of no type.        *)
get_arg(args, id) ==
  LET desc == make_descriptor(args)
      type_at == type_of_number(desc.low[id])
  IN  IF desc.unpacked
      THEN IF id < desc.low THEN args[id + 1] ELSE no_arg
      ELSE IF id >= MaxPacked \/ type_at = "none_type" THEN no_arg
           ELSE [args[id + 1] EXCEPT !.type = type_at]

(* get_id(name): the first argument with that name, -1 when there is none.  *)
get_id(args, name) ==
  IF make_descriptor(args).named /\ \E i \in DOMAIN args : args[i].name = name
  THEN (CHOOSE i \in DOMAIN args : /\ args[i].name = name
                                   /\ \A j \in 1 .. i - 1 : args[j].name # name) - 1
  ELSE -1

(* init_named_arg: a name that is used twice is refused when the arguments  *)
(* are bound.                                                               *)
check_for_duplicate(args) ==
  \E i, j \in DOMAIN args : i < j /\ args[i].name # <<>> /\ args[i].name = args[j].name

=============================================================================

------------------------------- MODULE FmtArg -------------------------------
(***************************************************************************)
(* arg_formatter and default_arg_formatter of the bundled fmt library: an  *)
(* argument is written by the overload for its type, or refused with an    *)
(* exception. A C string has an address besides its bytes, 0 for none; an  *)
(* argument of a user's type has the bytes that its formatter writes.      *)
(***************************************************************************)
EXTENDS FmtFloat

is_fast_float(a) == a.type # "long_double_type"

as_pointer(a, specs) == a.type \in cstring_set /\ presented(specs) = presentation_type.pointer

(* The message of the exception, if any. *)
write_error(a, specs) ==
  CASE a.type \in cstring_set /\ a.address = 0 /\ ~as_pointer(a, specs) -> "string_pointer_is_null"
    [] a.type \in float_set -> float_error(a.value, is_fast_float(a), specs)
    [] OTHER -> "none"

write(a, specs) ==
  CASE a.type \in sint_set \union uint_set -> write_integer(num_bits(a.type), a.value, specs)
    [] a.type \in bool_set -> write_bool(a.value, specs)
    [] a.type \in char_set -> write_char_or_int(a.value, specs)
    [] a.type \in float_set -> write_float(a.value, is_fast_float(a), specs)
    [] a.type \in pointer_set -> write_ptr(a.value, specs)
    [] as_pointer(a, specs) -> write_ptr(a.address, specs)
    [] a.type \in string_set \union cstring_set /\ ~as_pointer(a, specs) ->
         write_string(a.value, specs)
    [] a.type = "custom_type" -> a.value

write_default(a) ==
  CASE a.type \in sint_set \union uint_set -> write_integer_default(num_bits(a.type), a.value)
    [] a.type \in char_set -> <<a.value>>
    [] a.type \in string_set \union cstring_set -> a.value
    [] a.type \in float_set -> write_float_default(a.value, is_fast_float(a))
    [] a.type \in bool_set \union pointer_set \union {"custom_type"} -> write(a, format_specs)

=============================================================================

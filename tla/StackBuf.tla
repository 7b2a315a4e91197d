------------------------------ MODULE StackBuf ------------------------------
(***************************************************************************)
(* spdlite::detail::stack_buf<StackSize>, as operators on a buffer: bytes  *)
(* go to an array until they no longer fit, and to a string from then on.  *)
(* Bytes that a buffer leaves behind are Junk: a later read would show.    *)
(***************************************************************************)
EXTENDS Naturals, Sequences

CONSTANTS
  StackSize,  \* bytes of the array (250 in the code)
  Junk        \* model value: an indeterminate byte

ASSUME StackBufAssumption == StackSize \in Nat

NoBytes == [i \in 1 .. StackSize |-> Junk]

EmptyBuf == [stack |-> NoBytes, size |-> 0, heap |-> FALSE, heap_storage |-> <<>>]

(* data() and size(). *)
Contents(b) == IF b.heap THEN b.heap_storage ELSE SubSeq(b.stack, 1, b.size)

spill_to_heap(b) ==
  [b EXCEPT !.heap_storage = SubSeq(b.stack, 1, b.size), !.heap = TRUE]

(* Mutation: the test for room lets one byte too many in. *)
push_back_past(b, c) ==
  IF b.heap \/ b.size > StackSize
  THEN LET h == IF b.heap THEN b ELSE spill_to_heap(b)
       IN  [h EXCEPT !.heap_storage = Append(@, c)]
  ELSE [b EXCEPT !.stack[b.size + 1] = c, !.size = @ + 1]
push_back(b, c) ==
  IF b.heap \/ b.size >= StackSize
  THEN LET h == IF b.heap THEN b ELSE spill_to_heap(b)
       IN  [h EXCEPT !.heap_storage = Append(@, c)]
  ELSE [b EXCEPT !.stack[b.size + 1] = c, !.size = @ + 1]

(* Mutation: the bytes of the array are not taken along. *)
append_unspilled(b, s) ==
  IF b.heap \/ b.size + Len(s) > StackSize
  THEN [b EXCEPT !.heap_storage = IF b.heap THEN @ \o s ELSE s, !.heap = TRUE]
  ELSE [b EXCEPT !.stack = [i \in DOMAIN @ |-> IF i \in b.size + 1 .. b.size + Len(s)
                                               THEN s[i - b.size] ELSE @[i]],
                 !.size = @ + Len(s)]
append(b, s) ==
  IF b.heap \/ b.size + Len(s) > StackSize
  THEN LET h == IF b.heap THEN b ELSE spill_to_heap(b)
       IN  [h EXCEPT !.heap_storage = @ \o s]
  ELSE [b EXCEPT !.stack = [i \in DOMAIN @ |-> IF i \in b.size + 1 .. b.size + Len(s)
                                               THEN s[i - b.size] ELSE @[i]],
                 !.size = @ + Len(s)]

clear(b) ==
  [b EXCEPT !.heap = FALSE, !.size = 0]

(* The abstraction of what a line leaves in its buffer: one Junk byte in    *)
(* the same place.                                                          *)
spent(b) ==
  [stack |-> NoBytes, size |-> IF b.heap \/ b.size = 0 THEN 0 ELSE 1, heap |-> b.heap,
   heap_storage |-> IF b.heap_storage = <<>> THEN <<>> ELSE <<Junk>>]

(* What the move constructor makes of b. It copies size_ bytes of an array  *)
(* that is live, or takes the string over.                                  *)
moved(b) ==
  IF b.heap
  THEN [b EXCEPT !.stack = NoBytes, !.size = 0]
  ELSE [b EXCEPT !.stack = [i \in DOMAIN @ |-> IF i <= b.size THEN @[i] ELSE Junk]]

=============================================================================

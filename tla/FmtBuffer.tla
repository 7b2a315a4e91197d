----------------------------- MODULE FmtBuffer ------------------------------
(***************************************************************************)
(* detail::buffer of the bundled fmt library, through which every byte of  *)
(* a formatted text goes, and the buffers derived from it. They differ in  *)
(* grow(), which is called when the bytes in hand do not fit:              *)
(*   memory      basic_memory_buffer, the buffer of a logger: an array in  *)
(*               the object, later a block of the heap; it can be moved    *)
(*   container   a string or vector behind a back_inserter                 *)
(*   iterator    any output iterator: flushed when the array is full       *)
(*   iterator_n  the same for format_to_n: only n bytes are passed on      *)
(*   array_n     format_to_n and format_to for an array of n bytes, which  *)
(*               is written directly until it is full                      *)
(*   counting    formatted_size: bytes are counted and dropped             *)
(* A text comes in pieces: appended, pushed byte by byte into room that    *)
(* was reserved, or written through a pointer. One action per pass of the  *)
(* loop in append() and per push_back(). An allocation may fail, a write   *)
(* through the iterator may throw, and formatting may throw between two    *)
(* pieces.                                                                 *)
(***************************************************************************)
EXTENDS Integers, Sequences

CONSTANTS
  Byte,
  Pieces,      \* what the formatter writes at once: sequences of bytes
  BufferSize,  \* buffer_size (256), and SIZE of a memory buffer (250 in spdlite)
  AllocMax,    \* max_size() of the allocator
  Blocks,      \* bound: blocks of the heap
  Kinds,       \* which buffers there are
  Limits,      \* the n of format_to_n
  Initials,    \* what a container holds before
  Objects,     \* memory buffers; of the other kinds there is the first one only
  First,
  MaxText      \* bound: bytes of the texts

AllKinds == {"memory", "container", "iterator", "iterator_n", "array_n", "counting"}
Limited == {"iterator_n", "array_n"}

ASSUME BufferAssumption ==
  /\ First \in Objects /\ "inline" \notin Blocks /\ "target" \notin Blocks
  /\ Pieces \subseteq Seq(Byte) /\ \A s \in Pieces : Len(s) > 0
  /\ BufferSize \in Nat \ {0} /\ AllocMax \in Nat /\ MaxText \in Nat
  /\ Kinds \subseteq AllKinds /\ Limits \subseteq Nat /\ Initials \subseteq Seq(Byte)

VARIABLES
  kind,
  n,        \* limit_ of fixed_buffer_traits
  buf,      \* the buffers: [bytes, capacity, at, out, count]. The first size_ cells at ptr_ are
            \* bytes, at says where ptr_ points; out is what was passed on (or is in the array
            \* for good) and count is count_ (buffer_traits keeps none: history there)
  alive,    \* the objects that are constructed
  live,     \* the blocks that are allocated
  use,      \* the object of the piece in hand
  todo,     \* what is not written yet of that piece
  step,     \* "ready", "append", "push" or "closed"
  failed,   \* the output iterator threw
  text      \* history: the pieces of each object

call_vars == <<kind, n>>
vars == <<kind, n, buf, alive, live, use, todo, step, failed, text>>

min_of(a, b) == IF a <= b THEN a ELSE b
max_of(a, b) == IF a >= b THEN a ELSE b

size(w) == Len(w.bytes)

Empty(capacity, at) ==
  [bytes |-> <<>>, capacity |-> capacity, at |-> at, out |-> <<>>, count |-> 0]

(* Mutation: an array keeps a byte for a terminator. *)
Constructed_terminated(k, m, s) ==
  IF k = "container" THEN [Empty(Len(s), "target") EXCEPT !.bytes = s]
  ELSE IF k = "array_n" THEN Empty(m - 1, "target") ELSE Empty(BufferSize, "inline")
Constructed(k, m, s) ==
  CASE k \in {"memory", "iterator", "iterator_n", "counting"} -> Empty(BufferSize, "inline")
    [] k = "array_n" -> Empty(m, "target")
    [] k = "container" -> [Empty(Len(s), "target") EXCEPT !.bytes = s]

Init ==
  /\ kind \in Kinds /\ n \in (IF kind \in Limited THEN Limits ELSE {0})
  /\ \E s \in Initials :
       /\ buf = [o \in Objects |-> Constructed(kind, n, s)]
       /\ text = [o \in Objects |-> IF kind = "container" THEN s ELSE <<>>]
  /\ alive = {First} /\ live = {} /\ use = First /\ todo = <<>> /\ step = "ready"
  /\ failed = FALSE

-----------------------------------------------------------------------------
(* limit(): how many of the bytes in the buffer are passed on.              *)
(* Mutation: what was passed on before is not counted.                      *)
limit_each(w) == IF kind \in Limited THEN min_of(size(w), n) ELSE size(w)
limit(w) ==
  IF kind \in Limited
  THEN min_of(size(w), IF n > w.count THEN n - w.count ELSE 0)
  ELSE size(w)

PassedOn(w) == SubSeq(w.bytes, 1, limit(w))
Counted(w) == [w EXCEPT !.count = @ + size(w), !.bytes = <<>>]

(* flush(). An array gets no bytes here, they are in it; from then on what  *)
(* comes is buffered and dropped.                                           *)
(* Mutation: the array is not replaced by the buffer.                       *)
flush_array(w) ==
  CASE kind \in {"iterator", "iterator_n"} -> [Counted(w) EXCEPT !.out = @ \o PassedOn(w)]
    [] kind = "array_n" -> [Counted(w) EXCEPT !.out = PassedOn(w)]
    [] OTHER -> Counted(w)
flush(w) ==
  CASE kind \in {"iterator", "iterator_n"} -> [Counted(w) EXCEPT !.out = @ \o PassedOn(w)]
    [] kind = "array_n" /\ w.at = "target" ->
         [Counted(w) EXCEPT !.out = PassedOn(w), !.capacity = BufferSize, !.at = "inline"]
    [] OTHER -> Counted(w)

(* grow() of a memory buffer: half as much again, or what is wanted.        *)
(* Mutation: always half as much again.                                     *)
new_capacity_half(w, wanted) == w.capacity + (w.capacity \div 2)
new_capacity(w, wanted) ==
  LET more == w.capacity + (w.capacity \div 2)
  IN  IF wanted > more THEN wanted
      ELSE IF more > AllocMax THEN max_of(wanted, AllocMax) ELSE more

(* The block that the allocator gives. *)
fresh == CHOOSE x \in Blocks : x \notin live

(* grow() of the buffer w for `wanted` bytes. Mutation: once n bytes were   *)
(* passed on, nothing is flushed.                                           *)
grow_until_limit(w, wanted) ==
  CASE kind = "memory" -> [w EXCEPT !.capacity = new_capacity(w, wanted), !.at = fresh]
    [] kind = "container" -> [w EXCEPT !.capacity = wanted]
    [] OTHER -> IF size(w) = w.capacity /\ (kind \in Limited => w.count < n) THEN flush(w) ELSE w
grow(w, wanted) ==
  CASE kind = "memory" -> [w EXCEPT !.capacity = new_capacity(w, wanted), !.at = fresh]
    [] kind = "container" -> [w EXCEPT !.capacity = wanted]
    [] kind \in {"iterator", "iterator_n", "counting"} ->
         IF size(w) = BufferSize THEN flush(w) ELSE w
    [] kind = "array_n" -> IF size(w) = w.capacity THEN flush(w) ELSE w

(* What grow() does to the heap: the old block is freed when the new one    *)
(* has its bytes. Mutation: it is not.                                      *)
Reallocated_leaking(w, wanted) ==
  IF kind = "memory" /\ wanted > w.capacity
  THEN Blocks \ live # {} /\ live' = live \union {fresh}
  ELSE UNCHANGED live
Reallocated(w, wanted) ==
  IF kind = "memory" /\ wanted > w.capacity
  THEN /\ Blocks \ live # {} /\ new_capacity(w, wanted) <= AllocMax
       /\ live' = (live \union {fresh}) \ {w.at}
  ELSE UNCHANGED live

try_reserve(w, wanted) == IF wanted > w.capacity THEN grow(w, wanted) ELSE w

Put(w, s) == [w EXCEPT !.bytes = @ \o s]

-----------------------------------------------------------------------------
(* The bound: of the texts of any two buffers together. *)
Fits(o, s) ==
  \A q \in Objects :
    (IF q = o THEN 0 ELSE Len(text[q])) + Len(text[o]) + Len(s) <= MaxText

Ready(o) == step = "ready" /\ o \in alive

(* The formatter has a piece for the buffer o. *)
Begin(o, s) ==
  /\ Ready(o) /\ s \in Pieces /\ Fits(o, s)
  /\ use' = o /\ text' = [text EXCEPT ![o] = @ \o s]
  /\ UNCHANGED <<call_vars, alive, failed>>

(* append() *)
Append_(o, s) ==
  /\ Begin(o, s)
  /\ todo' = s /\ step' = "append"
  /\ UNCHANGED <<buf, live>>

(* One pass of its loop. Without enough room it grows once and takes what   *)
(* fits then. Mutations: it takes all; it takes nothing unless all fits.     *)
fitting_all(w) == Len(todo)
fitting_whole(w) == IF w.capacity - size(w) >= Len(todo) THEN Len(todo) ELSE 0
fitting(w) == min_of(Len(todo), w.capacity - size(w))
AppendPass ==
  /\ step = "append" /\ todo # <<>>
  /\ LET w == buf[use]
         g == try_reserve(w, size(w) + Len(todo))
     IN  /\ Reallocated(w, size(w) + Len(todo))
         /\ buf' = [buf EXCEPT ![use] = Put(g, SubSeq(todo, 1, fitting(g)))]
         /\ todo' = SubSeq(todo, fitting(g) + 1, Len(todo))
  /\ UNCHANGED <<call_vars, alive, use, step, failed, text>>

AppendEnds ==
  /\ step = "append" /\ todo = <<>>
  /\ step' = "ready"
  /\ UNCHANGED <<call_vars, buf, alive, live, use, todo, failed, text>>

(* reserve(): room for the whole piece, which is then pushed byte by byte.  *)
(* Mutation: for one byte more.                                             *)
reserved_more(w, s) == size(w) + Len(s) + 1
reserved(w, s) == size(w) + Len(s)
Reserve(o, s) ==
  /\ Begin(o, s)
  /\ Reallocated(buf[o], reserved(buf[o], s))
  /\ buf' = [buf EXCEPT ![o] = try_reserve(@, reserved(@, s))]
  /\ todo' = s /\ step' = "push"

(* push_back(): no test for room, try_reserve() has made some.              *)
PushBack ==
  /\ step = "push"
  /\ Reallocated(buf[use], size(buf[use]) + 1)
  /\ buf' = [buf EXCEPT ![use] = Put(try_reserve(@, size(@) + 1), <<Head(todo)>>)]
  /\ todo' = Tail(todo)
  /\ step' = (IF Len(todo) = 1 THEN "ready" ELSE "push")
  /\ UNCHANGED <<call_vars, alive, use, failed, text>>

(* to_pointer(): the piece is written in place when there is room for it,   *)
(* and appended otherwise. Mutation: when room was asked for.               *)
has_room_asked(g, s) == g.capacity > size(g)
has_room(g, s) == g.capacity >= size(g) + Len(s)
ToPointer(o, s) ==
  /\ Begin(o, s)
  /\ Reallocated(buf[o], size(buf[o]) + Len(s))
  /\ LET g == try_reserve(buf[o], size(buf[o]) + Len(s))
     IN  IF has_room(g, s)
         THEN buf' = [buf EXCEPT ![o] = Put(g, s)] /\ todo' = <<>> /\ step' = "ready"
         ELSE buf' = [buf EXCEPT ![o] = g] /\ todo' = s /\ step' = "append"

-----------------------------------------------------------------------------
(* Room is wanted that the buffer has not. *)
Wanting ==
  \/ step = "append" /\ size(buf[use]) + Len(todo) > buf[use].capacity
  \/ step = "push" /\ size(buf[use]) + 1 > buf[use].capacity

(* std::bad_alloc: the rest of the piece is lost, the buffer is as before.  *)
AllocationFails ==
  /\ kind \in {"memory", "container"} /\ Wanting
  /\ text' = [text EXCEPT ![use] = SubSeq(@, 1, Len(@) - Len(todo))]
  /\ todo' = <<>> /\ step' = "ready"
  /\ UNCHANGED <<call_vars, buf, alive, live, use, failed>>

(* The iterator throws at the byte behind the k-th that flush() passes on.  *)
(* The size was cleared before the loop: when the buffer is destroyed, its  *)
(* own flush has nothing left. Mutation: it was not cleared.                *)
Broken_uncleared(w, k) == [w EXCEPT !.out = @ \o SubSeq(w.bytes, 1, k) \o PassedOn(w), !.bytes = <<>>]
Broken(w, k) == [Counted(w) EXCEPT !.out = @ \o SubSeq(w.bytes, 1, k)]
Flushing == step = "ready" \/ (Wanting /\ size(buf[use]) = BufferSize)
IteratorThrows ==
  /\ kind \in {"iterator", "iterator_n"} /\ Flushing
  /\ \E k \in 0 .. limit(buf[First]) - 1 : buf' = [buf EXCEPT ![First] = Broken(@, k)]
  /\ failed' = TRUE /\ step' = "closed" /\ todo' = <<>>
  /\ UNCHANGED <<call_vars, alive, live, use, text>>

(* The call ends: out(), or after an exception of the formatter the         *)
(* destructor; both flush. A memory buffer outlives the call.               *)
Close ==
  /\ step = "ready" /\ kind # "memory"
  /\ buf' = [buf EXCEPT ![First] = IF kind \in {"container", "counting"} THEN @ ELSE flush(@)]
  /\ step' = "closed"
  /\ UNCHANGED <<call_vars, alive, live, use, todo, failed, text>>

-----------------------------------------------------------------------------
(* Memory buffers. *)
Clear(o) ==
  /\ Ready(o) /\ kind = "memory"
  /\ buf' = [buf EXCEPT ![o].bytes = <<>>]
  /\ text' = [text EXCEPT ![o] = <<>>]
  /\ UNCHANGED <<call_vars, alive, live, use, todo, step, failed>>

(* move(): the bytes of the array are copied and stay where they were; a    *)
(* block is taken over, and its old owner gets its array back with a        *)
(* capacity of zero. Mutation: the old owner keeps the block.               *)
moved_from_keeping(w) == w
moved_from(w) == IF w.at = "inline" THEN w ELSE Empty(0, "inline")

Move(from, to) ==
  /\ buf' = [buf EXCEPT ![from] = moved_from(@), ![to] = buf[from]]
  /\ text' = [text EXCEPT ![from] = IF buf[from].at = "inline" THEN @ ELSE <<>>,
                          ![to] = text[from]]
  /\ UNCHANGED <<call_vars, use, todo, step, failed>>

MoveConstruct(from, to) ==
  /\ Ready(from) /\ kind = "memory" /\ to \in Objects \ alive
  /\ alive' = alive \union {to} /\ UNCHANGED live
  /\ Move(from, to)

(* deallocate() first. Mutation: it is forgotten. *)
freed_none(o) == live
freed(o) == live \ {buf[o].at}
MoveAssign(from, to) ==
  /\ Ready(from) /\ kind = "memory" /\ to \in alive \ {from}
  /\ live' = freed(to) /\ UNCHANGED alive
  /\ Move(from, to)

(* The destructor. Nothing is left of the object. *)
Destroy(o) ==
  /\ Ready(o) /\ kind = "memory" /\ alive # {o}
  /\ live' = freed(o) /\ alive' = alive \ {o}
  /\ buf' = [buf EXCEPT ![o] = Empty(0, "inline")] /\ text' = [text EXCEPT ![o] = <<>>]
  /\ UNCHANGED <<call_vars, use, todo, step, failed>>

Closed == step = "closed" /\ UNCHANGED vars

Next ==
  \/ \E o \in Objects, s \in Pieces : Append_(o, s) \/ Reserve(o, s) \/ ToPointer(o, s)
  \/ AppendPass \/ AppendEnds \/ PushBack
  \/ AllocationFails \/ IteratorThrows \/ Close
  \/ \E o \in Objects : Clear(o) \/ Destroy(o)
  \/ \E from, to \in Objects : MoveConstruct(from, to) \/ MoveAssign(from, to)
  \/ Closed

(* A call goes on until its piece is written or something threw.            *)
Spec == Init /\ [][Next]_vars /\ WF_vars(AppendPass \/ AppendEnds \/ PushBack \/ AllocationFails)

-----------------------------------------------------------------------------
TypeOK ==
  /\ kind \in Kinds /\ n \in Nat
  /\ alive \subseteq Objects /\ alive # {} /\ live \subseteq Blocks /\ use \in Objects
  /\ todo \in Seq(Byte) /\ step \in {"ready", "append", "push", "closed"} /\ failed \in BOOLEAN
  /\ text \in [Objects -> Seq(Byte)]
  /\ buf \in [Objects -> [bytes : Seq(Byte), capacity : Nat, out : Seq(Byte), count : Nat,
                          at : Blocks \union {"inline", "target"}]]
  /\ step = "push" => todo # <<>>

(* No byte is written beyond the room there is, also when grow() made less  *)
(* than was asked for.                                                      *)
WithinCapacity == \A o \in alive : size(buf[o]) <= buf[o].capacity

(* What of the text has been written. *)
Written(o) ==
  IF o = use THEN SubSeq(text[o], 1, Len(text[o]) - Len(todo)) ELSE text[o]
Prefix(s, k) == SubSeq(s, 1, min_of(k, Len(s)))

(* The bytes arrive in order, each one once: those that were passed on are  *)
(* the beginning of the text, at most n of them, those in the buffer come   *)
(* next, and all of them are counted. A container holds no byte more than   *)
(* the text when the call is over. What was passed on before the output     *)
(* iterator threw is a beginning of the text as well.                       *)
Delivered ==
  \A o \in alive :
    LET w == buf[o]
        s == Written(o)
    IN  CASE failed -> w.out = Prefix(text[o], Len(w.out))
          [] ~failed /\ kind = "memory" -> w.bytes = s
          [] ~failed /\ kind = "container" ->
               w.bytes = s /\ (step \in {"ready", "closed"} => w.capacity = size(w))
          [] ~failed /\ kind = "counting" -> w.count + size(w) = Len(s)
          [] OTHER -> /\ w.count + size(w) = Len(s)
                      /\ w.out = Prefix(s, IF kind = "iterator" THEN w.count
                                           ELSE min_of(n, w.count))
                      /\ w.bytes = SubSeq(s, w.count + 1, Len(s))

(* Every block has one owner: none is leaked, and none is freed twice.      *)
OneOwner ==
  /\ \A o \in alive : buf[o].at \in Blocks => buf[o].at \in live
  /\ \A x \in live : \E o \in alive : buf[o].at = x
  /\ \A o, q \in alive : buf[o].at = buf[q].at /\ buf[o].at \in Blocks => o = q

(* try_reserve() "guarantees there is space for at least one additional     *)
(* element": push_back() writes without a test, and every pass of append()  *)
(* has to write at least one byte.                                          *)
RoomForOne ==
  step # "closed" =>
    \A o \in alive : \A k \in 1 .. MaxText + 1 :
      LET g == try_reserve(buf[o], size(buf[o]) + k) IN size(g) < g.capacity

(* A call comes to its end, whatever the limit and the room. *)
CallReturns == step \in {"append", "push"} ~> step \in {"ready", "closed"}

=============================================================================

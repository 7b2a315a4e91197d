--------------------------- MODULE StackBufProofs ---------------------------
(* stack_buf implements a sequence of bytes: every operation keeps a buffer *)
(* well formed and does to its contents what the name says, for every size  *)
(* of the array, wherever the bytes are and whatever was left behind.       *)
EXTENDS StackBuf, SequenceTheorems, TLAPS

(* A well-formed buffer of bytes in B. *)
Buffer(B) == [stack : [1 .. StackSize -> B], size : 0 .. StackSize, heap : BOOLEAN,
              heap_storage : Seq(B)]

(* While the array is live the contents are its first `size` bytes.         *)
LEMMA StackContents ==
  ASSUME NEW B, NEW b \in Buffer(B)
  PROVE  LET s == SubSeq(b.stack, 1, b.size)
         IN  /\ s \in Seq(B)
             /\ Len(s) = b.size
             /\ \A i \in 1 .. b.size : s[i] = b.stack[i]
<1>1. \A i \in 1 .. b.size : b.stack[i] \in B
  BY StackBufAssumption DEF Buffer
<1>2. b.size \in Nat
  BY StackBufAssumption DEF Buffer
<1>3. QED
  BY <1>1, <1>2, SubSeqProperties

LEMMA ContentsType ==
  ASSUME NEW B, NEW b \in Buffer(B)
  PROVE  Contents(b) \in Seq(B)
BY StackContents DEF Contents, Buffer

LEMMA SpillKeeps ==
  ASSUME NEW B, NEW b \in Buffer(B), ~b.heap
  PROVE  /\ spill_to_heap(b) \in Buffer(B)
         /\ spill_to_heap(b).heap
         /\ spill_to_heap(b).heap_storage = Contents(b)
BY StackContents DEF spill_to_heap, Contents, Buffer

(* Where the bytes of a concatenation come from, when the first part has n. *)
LEMMA ConcatFacts ==
  ASSUME NEW B, NEW s \in Seq(B), NEW n
  PROVE  \A t \in Seq(B) :
           Len(t) = n =>
             /\ t \o s \in Seq(B)
             /\ Len(t \o s) = n + Len(s)
             /\ \A i \in 1 .. n + Len(s) : (t \o s)[i] = IF i <= n THEN t[i] ELSE s[i - n]
<1>1. SUFFICES ASSUME NEW t \in Seq(B), Len(t) = n
               PROVE  /\ t \o s \in Seq(B)
                      /\ Len(t \o s) = Len(t) + Len(s)
                      /\ \A i \in 1 .. Len(t) + Len(s) :
                           (t \o s)[i] = IF i <= Len(t) THEN t[i] ELSE s[i - Len(t)]
  BY <1>1
<1>2. t \o s \in Seq(B) /\ Len(t \o s) = Len(t) + Len(s)
  BY ConcatProperties
<1>3. \A i \in 1 .. Len(t) + Len(s) : (t \o s)[i] = IF i <= Len(t) THEN t[i] ELSE s[i - Len(t)]
  BY ConcatProperties
<1>4. QED
  BY <1>2, <1>3

(* append(begin, end) puts the bytes behind the contents, on either side of *)
(* the capacity and when it crosses it (append).                            *)
THEOREM AppendCorrect ==
  ASSUME NEW B, NEW b \in Buffer(B), NEW s \in Seq(B)
  PROVE  /\ append(b, s) \in Buffer(B)
         /\ Contents(append(b, s)) = Contents(b) \o s
<1>1. CASE b.heap \/ b.size + Len(s) > StackSize
  <2> DEFINE h == IF b.heap THEN b ELSE spill_to_heap(b)
  <2>1. h \in Buffer(B) /\ h.heap /\ h.heap_storage = Contents(b)
    BY SpillKeeps DEF Contents
  <2>2. append(b, s) = [h EXCEPT !.heap_storage = @ \o s]
    BY <1>1 DEF append
  <2> HIDE DEF h
  <2>3. h.heap_storage \o s \in Seq(B)
    BY <2>1, ConcatProperties DEF Buffer
  <2>4. QED
    BY <2>1, <2>2, <2>3 DEF Buffer, Contents
<1>2. CASE ~b.heap /\ b.size + Len(s) <= StackSize
  <2> DEFINE c == append(b, s)
  <2>1. b.size \in Nat /\ Len(s) \in Nat
    BY StackBufAssumption, LenProperties DEF Buffer
  <2>2. c = [b EXCEPT !.stack = [i \in DOMAIN @ |-> IF i \in b.size + 1 .. b.size + Len(s)
                                                    THEN s[i - b.size] ELSE @[i]],
                      !.size = @ + Len(s)]
    BY <1>2, <2>1, StackBufAssumption DEF append
  <2>3. DOMAIN b.stack = 1 .. StackSize
    BY DEF Buffer
  <2>4. \A i \in b.size + 1 .. b.size + Len(s) : s[i - b.size] \in B
    BY <2>1, ElementOfSeq
  <2>5. /\ c.stack = [i \in 1 .. StackSize |-> IF i \in b.size + 1 .. b.size + Len(s)
                                               THEN s[i - b.size] ELSE b.stack[i]]
        /\ c.size = b.size + Len(s) /\ c.heap = b.heap /\ c.heap_storage = b.heap_storage
        /\ c = [stack |-> c.stack, size |-> c.size, heap |-> c.heap, heap_storage |-> c.heap_storage]
    BY <2>2, <2>3 DEF Buffer
  <2>6. c \in Buffer(B)
    <3>1. c.stack \in [1 .. StackSize -> B]
      BY <2>4, <2>5 DEF Buffer
    <3>2. c.size \in 0 .. StackSize
      BY <1>2, <2>1, <2>5, StackBufAssumption
    <3>3. QED
      BY <2>5, <3>1, <3>2 DEF Buffer
  <2> HIDE DEF c
  <2>7. /\ Contents(b) \in Seq(B) /\ Len(Contents(b)) = b.size
        /\ \A i \in 1 .. b.size : Contents(b)[i] = b.stack[i]
    BY <1>2, StackContents DEF Contents
  <2>8. /\ Contents(c) \in Seq(B) /\ Len(Contents(c)) = c.size
        /\ \A i \in 1 .. c.size : Contents(c)[i] = c.stack[i]
    BY <1>2, <2>5, <2>6, StackContents DEF Contents
  <2>9. /\ Contents(b) \o s \in Seq(B)
        /\ Len(Contents(b) \o s) = b.size + Len(s)
        /\ \A i \in 1 .. b.size + Len(s) :
             (Contents(b) \o s)[i] = IF i <= b.size THEN Contents(b)[i] ELSE s[i - b.size]
    BY <2>7, ConcatFacts
  <2>10. ASSUME NEW i \in 1 .. b.size + Len(s)
         PROVE  Contents(c)[i] = (Contents(b) \o s)[i]
    <3>1. i \in 1 .. StackSize
      BY <1>2, <2>1, StackBufAssumption
    <3>2. Contents(c)[i] = IF i \in b.size + 1 .. b.size + Len(s) THEN s[i - b.size] ELSE b.stack[i]
      BY <2>5, <2>8, <3>1
    <3>3. QED
      BY <2>1, <2>7, <2>9, <3>2
  <2>11. Contents(c) = Contents(b) \o s
    BY <2>5, <2>8, <2>9, <2>10, SeqEqual
  <2>12. QED
    BY <2>6, <2>11 DEF c
<1>3. QED
  BY <1>1, <1>2, StackBufAssumption, LenProperties DEF Buffer

(* push_back is an append of one byte, so that bytes rendered through a     *)
(* back_inserter and bytes appended in one piece give the same line.        *)
THEOREM PushBackCorrect ==
  ASSUME NEW B, NEW b \in Buffer(B), NEW c \in B
  PROVE  /\ push_back(b, c) \in Buffer(B)
         /\ Contents(push_back(b, c)) = Append(Contents(b), c)
<1>1. CASE b.heap \/ b.size >= StackSize
  <2> DEFINE h == IF b.heap THEN b ELSE spill_to_heap(b)
  <2>1. h \in Buffer(B) /\ h.heap /\ h.heap_storage = Contents(b)
    BY SpillKeeps DEF Contents
  <2>2. push_back(b, c) = [h EXCEPT !.heap_storage = Append(@, c)]
    BY <1>1 DEF push_back
  <2> HIDE DEF h
  <2>3. Append(h.heap_storage, c) \in Seq(B)
    BY <2>1 DEF Buffer
  <2>4. QED
    BY <2>1, <2>2, <2>3 DEF Buffer, Contents
<1>2. CASE ~b.heap /\ b.size < StackSize
  <2> DEFINE d == push_back(b, c)
  <2>1. b.size \in Nat
    BY StackBufAssumption DEF Buffer
  <2>2. d = [b EXCEPT !.stack[b.size + 1] = c, !.size = @ + 1]
    BY <1>2, <2>1, StackBufAssumption DEF push_back
  <2>3. /\ d.stack = [b.stack EXCEPT ![b.size + 1] = c]
        /\ d.size = b.size + 1 /\ d.heap = b.heap /\ d.heap_storage = b.heap_storage
        /\ d \in Buffer(B)
    <3>1. b.size + 1 \in 0 .. StackSize
      BY <1>2, <2>1, StackBufAssumption
    <3>2. [b.stack EXCEPT ![b.size + 1] = c] \in [1 .. StackSize -> B]
      BY DEF Buffer
    <3> HIDE DEF d
    <3>3. QED
      BY <2>2, <3>1, <3>2 DEF Buffer
  <2> HIDE DEF d
  <2>4. /\ Contents(b) \in Seq(B) /\ Len(Contents(b)) = b.size
        /\ \A i \in 1 .. b.size : Contents(b)[i] = b.stack[i]
    BY <1>2, StackContents DEF Contents
  <2>5. /\ Contents(d) \in Seq(B) /\ Len(Contents(d)) = d.size
        /\ \A i \in 1 .. d.size : Contents(d)[i] = d.stack[i]
    BY <1>2, <2>3, StackContents DEF Contents
  <2>6. /\ Append(Contents(b), c) \in Seq(B)
        /\ Len(Append(Contents(b), c)) = b.size + 1
        /\ \A i \in 1 .. b.size : Append(Contents(b), c)[i] = Contents(b)[i]
        /\ Append(Contents(b), c)[b.size + 1] = c
    BY <2>1, <2>4
  <2>7. ASSUME NEW i \in 1 .. b.size + 1
        PROVE  Contents(d)[i] = Append(Contents(b), c)[i]
    <3>1. b.stack \in [1 .. StackSize -> B] /\ i \in 1 .. StackSize
      BY <1>2, <2>1, StackBufAssumption DEF Buffer
    <3>2. d.stack[i] = IF i = b.size + 1 THEN c ELSE b.stack[i]
      BY <2>3, <3>1
    <3>3. QED
      BY <2>1, <2>3, <2>4, <2>5, <2>6, <3>2
  <2>8. Contents(d) = Append(Contents(b), c)
    BY <2>3, <2>5, <2>6, <2>7, SeqEqual
  <2>9. QED
    BY <2>3, <2>8 DEF d
<1>3. QED
  BY <1>1, <1>2, StackBufAssumption DEF Buffer

(* clear() empties the buffer, also when it is on the heap.                 *)
THEOREM ClearCorrect ==
  ASSUME NEW B, NEW b \in Buffer(B)
  PROVE  clear(b) \in Buffer(B) /\ Contents(clear(b)) = <<>>
<1> DEFINE d == clear(b)
<1>0. /\ 0 \in 0 .. StackSize /\ FALSE \in BOOLEAN
      /\ d = [b EXCEPT !.heap = FALSE, !.size = 0]
  BY StackBufAssumption DEF clear
<1> HIDE DEF d
<1>1. d \in Buffer(B) /\ d.heap = FALSE /\ d.size = 0
  BY <1>0 DEF Buffer
<1>2. SubSeq(d.stack, 1, 0) = <<>>
  BY SubSeqEmpty
<1>3. QED
  BY <1>1, <1>2 DEF Contents, d

(* The move constructor takes the contents over, and nothing that was left  *)
(* behind becomes visible.                                                  *)
THEOREM MoveCorrect ==
  ASSUME NEW B, Junk \in B, NEW b \in Buffer(B)
  PROVE  moved(b) \in Buffer(B) /\ Contents(moved(b)) = Contents(b)
<1>1. CASE b.heap
  <2>1. 0 \in 0 .. StackSize /\ NoBytes \in [1 .. StackSize -> B]
    BY StackBufAssumption DEF NoBytes
  <2>2. moved(b) = [b EXCEPT !.stack = NoBytes, !.size = 0]
    BY <1>1 DEF moved
  <2>3. QED
    BY <1>1, <2>1, <2>2 DEF Buffer, Contents
<1>2. CASE ~b.heap
  <2> DEFINE d == moved(b)
  <2>1. /\ d \in Buffer(B) /\ d.size = b.size /\ ~d.heap
        /\ \A i \in 1 .. StackSize : d.stack[i] = IF i <= b.size THEN b.stack[i] ELSE Junk
    BY <1>2 DEF moved, Buffer
  <2> HIDE DEF d
  <2>2. b.size \in Nat /\ \A i \in 1 .. b.size : d.stack[i] = b.stack[i]
    BY <2>1, StackBufAssumption DEF Buffer
  <2>3. /\ SubSeq(b.stack, 1, b.size) \in Seq(B) /\ Len(SubSeq(b.stack, 1, b.size)) = b.size
        /\ \A i \in 1 .. b.size : SubSeq(b.stack, 1, b.size)[i] = b.stack[i]
    BY StackContents
  <2>4. /\ SubSeq(d.stack, 1, b.size) \in Seq(B) /\ Len(SubSeq(d.stack, 1, b.size)) = b.size
        /\ \A i \in 1 .. b.size : SubSeq(d.stack, 1, b.size)[i] = d.stack[i]
    BY <2>1, StackContents
  <2>5. SubSeq(d.stack, 1, b.size) = SubSeq(b.stack, 1, b.size)
    BY <2>2, <2>3, <2>4, SeqEqual
  <2>6. QED
    BY <1>2, <2>1, <2>5 DEF Contents, d
<1>3. QED
  BY <1>1, <1>2

=============================================================================

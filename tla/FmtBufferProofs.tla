-------------------------- MODULE FmtBufferProofs --------------------------
(* Every buffer of fmt hands the text on in order, up to its limit and      *)
(* within its room, for all sizes of the array and of the allocator, all    *)
(* pieces, limits and numbers of objects and blocks.                        *)
EXTENDS FmtBuffer, SequenceTheorems, TLAPS

Buffer == [bytes : Seq(Byte), capacity : Nat, out : Seq(Byte), count : Nat,
           at : Blocks \union {"inline", "target"}]

(* What a buffer of kind k with limit m is like while the call runs. *)
ShapeOf(k, m, w) ==
  /\ size(w) <= w.capacity
  /\ k # "memory" => w.at \in {"inline", "target"}
  /\ k \in {"iterator", "iterator_n", "counting"} => w.capacity = BufferSize /\ w.at = "inline"
  /\ k = "array_n" =>
       \/ w.at = "target" /\ w.capacity = m /\ w.count = 0 /\ w.out = <<>>
       \/ w.at = "inline" /\ w.capacity = BufferSize /\ w.count >= m

(* What it has done with the text s. *)
HoldsOf(k, m, w, s) ==
  /\ k \in {"memory", "container"} => w.bytes = s
  /\ k \in {"iterator", "iterator_n", "array_n", "counting"} => w.count + size(w) = Len(s)
  /\ k \in {"iterator", "iterator_n", "array_n"} =>
       /\ w.out = SubSeq(s, 1, IF k = "iterator" THEN w.count ELSE min_of(m, w.count))
       /\ w.bytes = SubSeq(s, w.count + 1, Len(s))

Control ==
  /\ kind # "memory" => alive = {First} /\ use = First
  /\ step \in {"append", "push"} => use \in alive
  /\ step \in {"ready", "closed"} => todo = <<>>
  /\ failed => step = "closed"
  /\ Len(todo) <= Len(text[use])
  /\ text[use] = Written(use) \o todo

(* What a container has reserved is filled when the piece is written.       *)
Reserved ==
  kind = "container" =>
    buf[First].capacity = size(buf[First]) + (IF step = "push" THEN Len(todo) ELSE 0)

Handed ==
  step # "closed" =>
    \A o \in alive : ShapeOf(kind, n, buf[o]) /\ HoldsOf(kind, n, buf[o], Written(o))

Final == step = "closed" => Delivered /\ WithinCapacity

IInv == TypeOK /\ Control /\ Reserved /\ Handed /\ OneOwner /\ Final

-----------------------------------------------------------------------------
(* Sequences. *)

LEMMA SubSeqFacts ==
  ASSUME NEW s \in Seq(Byte), NEW i \in Nat \ {0}, NEW j \in 0 .. Len(s)
  PROVE  /\ SubSeq(s, i, j) \in Seq(Byte)
         /\ Len(SubSeq(s, i, j)) = IF i <= j THEN j - i + 1 ELSE 0
         /\ \A k \in 1 .. j - i + 1 : SubSeq(s, i, j)[k] = s[k + i - 1]
<1>1. \A k \in i .. j : s[k] \in Byte
  BY ElementOfSeq
<1>2. i \in Int /\ j \in Int
  OBVIOUS
<1>3. \A k \in 1 .. j - i + 1 : i + k - 1 = k + i - 1
  BY <1>2
<1>4. QED
  BY <1>1, <1>2, <1>3, SubSeqProperties

LEMMA NatOfLen == \A s \in Seq(Byte) : Len(s) \in Nat
  BY LenProperties

(* A prefix stays one when bytes come behind. *)
LEMMA PrefixOfConcat ==
  ASSUME NEW s \in Seq(Byte), NEW t \in Seq(Byte), NEW k \in 0 .. Len(s)
  PROVE  SubSeq(s \o t, 1, k) = SubSeq(s, 1, k)
<1>1. CASE k = 0
  BY <1>1, SubSeqEmpty
<1>2. CASE k # 0
  <2>1. k \in 1 .. Len(s) /\ 1 \in 1 .. Len(s)
    BY <1>2, NatOfLen
  <2>2. QED
    BY <2>1, SubSeqOfConcat1
<1>3. QED
  BY <1>1, <1>2

(* A suffix grows by them. *)
LEMMA SuffixOfConcat ==
  ASSUME NEW s \in Seq(Byte), NEW t \in Seq(Byte), NEW k \in 0 .. Len(s)
  PROVE  SubSeq(s \o t, k + 1, Len(s \o t)) = SubSeq(s, k + 1, Len(s)) \o t
<1> DEFINE u == SubSeq(s, k + 1, Len(s))
           v == SubSeq(s \o t, k + 1, Len(s \o t))
<1>1. /\ Len(s) \in Nat /\ Len(t) \in Nat /\ s \o t \in Seq(Byte)
      /\ Len(s \o t) = Len(s) + Len(t)
      /\ \A i \in 1 .. Len(s) + Len(t) : (s \o t)[i] = IF i <= Len(s) THEN s[i] ELSE t[i - Len(s)]
  BY ConcatProperties, NatOfLen
<1>2. /\ u \in Seq(Byte) /\ Len(u) = Len(s) - k
      /\ \A i \in 1 .. Len(s) - k : u[i] = s[i + k]
  <2>1. k + 1 \in Nat \ {0} /\ Len(s) \in 0 .. Len(s)
    BY <1>1
  <2>2. QED
    BY <1>1, <2>1, SubSeqFacts
<1>3. /\ v \in Seq(Byte) /\ Len(v) = Len(s) + Len(t) - k
      /\ \A i \in 1 .. Len(s) + Len(t) - k : v[i] = (s \o t)[i + k]
  <2>1. k + 1 \in Nat \ {0} /\ Len(s \o t) \in 0 .. Len(s \o t)
    BY <1>1
  <2>2. QED
    BY <1>1, <2>1, SubSeqFacts
<1> HIDE DEF u, v
<1>4. /\ u \o t \in Seq(Byte) /\ Len(u \o t) = Len(u) + Len(t)
      /\ \A i \in 1 .. Len(u) + Len(t) : (u \o t)[i] = IF i <= Len(u) THEN u[i] ELSE t[i - Len(u)]
  BY <1>2, ConcatProperties
<1>5. ASSUME NEW i \in 1 .. Len(v) PROVE v[i] = (u \o t)[i]
  <2>1. i \in 1 .. Len(s) + Len(t) - k /\ i + k \in 1 .. Len(s) + Len(t)
    BY <1>1, <1>3
  <2>2. v[i] = IF i + k <= Len(s) THEN s[i + k] ELSE t[i + k - Len(s)]
    BY <1>1, <1>3, <2>1
  <2>3. CASE i <= Len(s) - k
    BY <1>1, <1>2, <1>4, <2>1, <2>2, <2>3
  <2>4. CASE i > Len(s) - k
    <3>1. i - (Len(s) - k) = i + k - Len(s)
      BY <1>1
    <3>2. QED
      BY <1>1, <1>2, <1>4, <2>1, <2>2, <2>4, <3>1
  <2>5. k \in Int /\ i \in Int /\ Len(s) - k \in Int
    BY <1>1, <1>3
  <2>6. i <= Len(s) - k \/ i > Len(s) - k
    BY <2>5
  <2>7. QED
    BY <2>3, <2>4, <2>6
<1>6. v = u \o t
  <2>1. Len(v) = Len(u \o t)
    BY <1>1, <1>2, <1>3, <1>4
  <2>2. QED
    BY <1>3, <1>4, <1>5, <2>1, SeqEqual
<1>7. QED
  BY <1>6 DEF u, v

(* A prefix and a part of what follows it are a longer prefix. *)
LEMMA PrefixGrows ==
  ASSUME NEW s \in Seq(Byte), NEW a \in 0 .. Len(s), NEW k \in 0 .. Len(s) - a
  PROVE  SubSeq(s, 1, a) \o SubSeq(SubSeq(s, a + 1, Len(s)), 1, k) = SubSeq(s, 1, a + k)
<1>1. Len(s) \in Nat
  BY NatOfLen
<1>2. SubSeq(SubSeq(s, a + 1, Len(s)), 1, k) = SubSeq(s, a + 1, a + k)
  <2>1. CASE k = 0
    BY <1>1, <2>1, SubSeqEmpty
  <2>2. CASE k > 0
    <3>1. /\ a + 1 \in 1 .. Len(s) /\ Len(s) \in 1 .. Len(s)
          /\ 1 \in 1 .. Len(s) - (a + 1) + 1 /\ k \in 1 .. Len(s) - (a + 1) + 1
          /\ (a + 1) + 1 - 1 = a + 1 /\ (a + 1) + k - 1 = a + k
      BY <1>1, <2>2
    <3>2. QED
      BY <3>1, SubSeqOfSubSeq
  <2>3. QED
    BY <2>1, <2>2
<1>3. SubSeq(s, 1, a) \o SubSeq(s, a + 1, a + k) = SubSeq(s, 1, a + k)
  <2>1. 1 \in 1 .. Len(s) + 1 /\ a \in 1 - 1 .. Len(s) /\ a + k \in a .. Len(s)
    BY <1>1
  <2>2. QED
    BY <2>1, ConcatAdjacentSubSeq
<1>4. QED
  BY <1>2, <1>3

(* A sequence is a prefix and the rest. *)
LEMMA Split ==
  ASSUME NEW s \in Seq(Byte), NEW k \in 0 .. Len(s)
  PROVE  /\ SubSeq(s, 1, k) \in Seq(Byte) /\ Len(SubSeq(s, 1, k)) = k
         /\ SubSeq(s, k + 1, Len(s)) \in Seq(Byte)
         /\ Len(SubSeq(s, k + 1, Len(s))) = Len(s) - k
         /\ SubSeq(s, 1, k) \o SubSeq(s, k + 1, Len(s)) = s
<1>1. Len(s) \in Nat /\ Len(s) \in 0 .. Len(s) /\ k + 1 \in Nat \ {0} /\ 1 \in Nat \ {0}
  BY NatOfLen
<1>2. 1 \in 1 .. Len(s) + 1 /\ k \in 1 - 1 .. Len(s) /\ Len(s) \in k .. Len(s)
  BY <1>1
<1>3. SubSeq(s, 1, k) \o SubSeq(s, k + 1, Len(s)) = s
  BY <1>2, ConcatAdjacentSubSeq, SubSeqFull
<1>4. SubSeq(s, 1, k) \in Seq(Byte) /\ Len(SubSeq(s, 1, k)) = k
  BY <1>1, SubSeqFacts
<1>5. /\ SubSeq(s, k + 1, Len(s)) \in Seq(Byte)
      /\ Len(SubSeq(s, k + 1, Len(s))) = Len(s) - k
  BY <1>1, SubSeqFacts
<1>6. QED
  BY <1>3, <1>4, <1>5

-----------------------------------------------------------------------------
(* What the code does with one buffer. *)

LEMMA Constants ==
  /\ BufferSize \in Nat /\ BufferSize > 0
  /\ "inline" \notin Blocks /\ "target" \notin Blocks /\ First \in Objects
  /\ AllocMax \in Nat /\ MaxText \in Nat
  BY BufferAssumption

LEMMA BufferFields ==
  ASSUME NEW w \in Buffer
  PROVE  /\ w.bytes \in Seq(Byte) /\ w.capacity \in Nat /\ w.out \in Seq(Byte) /\ w.count \in Nat
         /\ w.at \in Blocks \union {"inline", "target"}
         /\ size(w) \in Nat
  BY NatOfLen DEF Buffer, size

(* How many of the bytes are passed on, and what the target has then. *)
LEMMA PassedOnCorrect ==
  ASSUME kind \in {"iterator", "iterator_n", "array_n"}, n \in Nat,
         NEW w \in Buffer, NEW s \in Seq(Byte),
         ShapeOf(kind, n, w), HoldsOf(kind, n, w, s)
  PROVE  /\ limit(w) \in 0 .. size(w)
         /\ limit(w) > 0 /\ kind \in Limited => w.count < n
         /\ PassedOn(w) \in Seq(Byte)
         /\ w.out \o PassedOn(w) = SubSeq(s, 1, IF kind = "iterator" THEN Len(s) ELSE min_of(n, Len(s)))
<1> DEFINE c == w.count
           l == limit(w)
<1>1. /\ w.bytes \in Seq(Byte) /\ c \in Nat /\ size(w) \in Nat /\ w.out \in Seq(Byte)
      /\ Len(s) \in Nat /\ c + size(w) = Len(s)
  BY BufferFields, NatOfLen DEF HoldsOf
<1>2. /\ w.out = SubSeq(s, 1, IF kind = "iterator" THEN c ELSE min_of(n, c))
      /\ w.bytes = SubSeq(s, c + 1, Len(s))
  BY DEF HoldsOf
<1>3. l = IF kind = "iterator" THEN size(w)
          ELSE IF n > c THEN (IF size(w) <= n - c THEN size(w) ELSE n - c) ELSE 0
  BY <1>1 DEF limit, Limited, min_of
<1> HIDE DEF l
<1>4. l \in 0 .. size(w)
  BY <1>1, <1>3
<1>5. PassedOn(w) = SubSeq(w.bytes, 1, l)
  BY DEF PassedOn, l
<1>6. PassedOn(w) \in Seq(Byte)
  <2>1. l \in 0 .. Len(w.bytes)
    BY <1>4 DEF size
  <2>2. QED
    BY <1>1, <1>5, <2>1, Split
<1>7. ASSUME kind = "iterator" \/ n > c
      PROVE  w.out \o PassedOn(w) = SubSeq(s, 1, c + l)
  <2>1. w.out = SubSeq(s, 1, c)
    BY <1>1, <1>2, <1>7 DEF min_of
  <2>2. c \in 0 .. Len(s) /\ l \in 0 .. Len(s) - c
    BY <1>1, <1>4
  <2>3. QED
    BY <1>2, <1>5, <2>1, <2>2, PrefixGrows
<1>8. CASE kind = "iterator"
  <2>1. c + l = Len(s)
    BY <1>1, <1>3, <1>8
  <2>2. QED
    BY <1>4, <1>6, <1>7, <1>8, <2>1 DEF Limited, l
<1>9. CASE kind # "iterator" /\ n > c
  <2>1. c + l = min_of(n, Len(s))
    BY <1>1, <1>3, <1>9 DEF min_of
  <2>2. QED
    BY <1>4, <1>6, <1>7, <1>9, <2>1 DEF l
<1>10. CASE kind # "iterator" /\ ~(n > c)
  <2>1. l = 0
    BY <1>3, <1>10
  <2>2. PassedOn(w) = <<>>
    BY <1>5, <2>1, SubSeqEmpty
  <2>3. w.out \o PassedOn(w) = w.out
    BY <1>1, <2>2, ConcatEmptySeq
  <2>4. min_of(n, Len(s)) = n /\ min_of(n, c) = n
    BY <1>1, <1>10 DEF min_of
  <2>5. QED
    BY <1>2, <1>4, <1>6, <1>10, <2>1, <2>3, <2>4 DEF l
<1>11. QED
  BY <1>8, <1>9, <1>10

(* flush() empties the buffer into the target. *)
LEMMA FlushCorrect ==
  ASSUME kind \in {"iterator", "iterator_n", "array_n"}, n \in Nat,
         NEW w \in Buffer, NEW s \in Seq(Byte),
         ShapeOf(kind, n, w), HoldsOf(kind, n, w, s)
  PROVE  /\ flush(w) \in Buffer
         /\ flush(w).bytes = <<>> /\ flush(w).count = Len(s)
         /\ flush(w).out = SubSeq(s, 1, IF kind = "iterator" THEN Len(s) ELSE min_of(n, Len(s)))
         /\ flush(w).at = "inline" /\ flush(w).capacity = BufferSize
<1> DEFINE p == PassedOn(w)
<1>1. /\ p \in Seq(Byte)
      /\ w.out \o p = SubSeq(s, 1, IF kind = "iterator" THEN Len(s) ELSE min_of(n, Len(s)))
      /\ limit(w) \in 0 .. size(w)
      /\ limit(w) > 0 /\ kind \in Limited => w.count < n
  BY PassedOnCorrect
<1>2. /\ w.out \in Seq(Byte) /\ w.count + size(w) = Len(s) /\ Len(s) \in Nat /\ w.count \in Nat
      /\ size(w) \in Nat
  BY BufferFields, NatOfLen DEF HoldsOf
<1>3. w.out \o p \in Seq(Byte) /\ <<>> \in Seq(Byte)
  BY <1>1, <1>2, ConcatProperties, EmptySeq
<1> HIDE DEF p
<1>4. CASE kind \in {"iterator", "iterator_n"}
  <2>1. flush(w) = [w EXCEPT !.count = Len(s), !.bytes = <<>>, !.out = @ \o p]
    BY <1>2, <1>4 DEF flush, Counted, p, Buffer
  <2>2. w.capacity = BufferSize /\ w.at = "inline"
    BY <1>4 DEF ShapeOf
  <2>3. /\ flush(w) \in Buffer
        /\ flush(w).bytes = <<>> /\ flush(w).count = Len(s) /\ flush(w).out = w.out \o p
        /\ flush(w).at = w.at /\ flush(w).capacity = w.capacity
    BY <1>2, <1>3, <2>1 DEF Buffer
  <2>4. QED
    BY <1>1, <2>2, <2>3
<1>5. CASE kind = "array_n" /\ w.at = "target"
  <2>1. w.out \o p = p
    BY <1>1, <1>5, ConcatEmptySeq DEF ShapeOf
  <2>2. flush(w) = [w EXCEPT !.count = Len(s), !.bytes = <<>>, !.out = p,
                             !.capacity = BufferSize, !.at = "inline"]
    BY <1>2, <1>5 DEF flush, Counted, p, Buffer
  <2>3. QED
    BY <1>1, <1>2, <1>3, <2>1, <2>2, Constants DEF Buffer
<1>6. CASE kind = "array_n" /\ w.at # "target"
  <2>1. w.at = "inline" /\ w.capacity = BufferSize /\ w.count >= n
    BY <1>6 DEF ShapeOf
  <2>2. flush(w) = [w EXCEPT !.count = Len(s), !.bytes = <<>>]
    BY <1>2, <1>6 DEF flush, Counted, Buffer
  <2>3. min_of(n, Len(s)) = n /\ min_of(n, w.count) = n
    BY <1>2, <2>1 DEF min_of
  <2>4. w.out = SubSeq(s, 1, n)
    BY <1>6, <2>3 DEF HoldsOf
  <2>5. /\ flush(w) \in Buffer
        /\ flush(w).bytes = <<>> /\ flush(w).count = Len(s) /\ flush(w).out = w.out
        /\ flush(w).at = w.at /\ flush(w).capacity = w.capacity
    BY <1>2, <1>3, <2>2 DEF Buffer
  <2>6. QED
    BY <1>6, <2>1, <2>3, <2>4, <2>5
<1>7. QED
  BY <1>4, <1>5, <1>6

(* Growing keeps the shape and the text, and makes room for one byte; of    *)
(* memory it makes all the room that was wanted.                            *)
LEMMA GrowCorrect ==
  ASSUME kind \in AllKinds, n \in Nat, NEW w \in Buffer, NEW m \in Nat, NEW s \in Seq(Byte),
         ShapeOf(kind, n, w), HoldsOf(kind, n, w, s),
         kind = "memory" /\ m > w.capacity => fresh \in Blocks
  PROVE  /\ try_reserve(w, m) \in Buffer
         /\ ShapeOf(kind, n, try_reserve(w, m)) /\ HoldsOf(kind, n, try_reserve(w, m), s)
         /\ m > size(w) => size(try_reserve(w, m)) < try_reserve(w, m).capacity
         /\ kind \in {"memory", "container"} => try_reserve(w, m).capacity >= m
         /\ kind = "container" => try_reserve(w, m).capacity = IF m > w.capacity THEN m ELSE w.capacity
<1> DEFINE g == try_reserve(w, m)
<1>1. /\ w.bytes \in Seq(Byte) /\ w.capacity \in Nat /\ w.out \in Seq(Byte) /\ w.count \in Nat
      /\ size(w) \in Nat /\ size(w) <= w.capacity /\ Len(s) \in Nat
  BY BufferFields, NatOfLen DEF ShapeOf
<1>2. CASE ~(m > w.capacity)
  <2>1. g = w
    BY <1>2 DEF try_reserve
  <2>2. QED
    BY <1>1, <1>2, <2>1
<1>3. CASE m > w.capacity /\ kind = "memory"
  <2> DEFINE more == new_capacity(w, m)
  <2>1. more \in Nat /\ more >= m
    BY <1>1, Constants DEF new_capacity, max_of
  <2>2. g = [w EXCEPT !.capacity = more, !.at = fresh]
    BY <1>3 DEF try_reserve, grow
  <2> HIDE DEF more, g
  <2>3. /\ g \in Buffer /\ g.bytes = w.bytes /\ g.capacity = more
    BY <1>3, <2>1, <2>2 DEF Buffer
  <2>4. size(g) = size(w)
    BY <2>3 DEF size
  <2>5. ShapeOf(kind, n, g) /\ HoldsOf(kind, n, g, s)
    BY <1>1, <1>3, <2>1, <2>3, <2>4 DEF ShapeOf, HoldsOf
  <2>6. QED
    BY <1>1, <1>3, <2>1, <2>3, <2>4, <2>5 DEF g
<1>4. CASE m > w.capacity /\ kind = "container"
  <2>1. g = [w EXCEPT !.capacity = m]
    BY <1>4 DEF try_reserve, grow
  <2> HIDE DEF g
  <2>2. g \in Buffer /\ g.bytes = w.bytes /\ g.capacity = m /\ g.at = w.at
    BY <2>1 DEF Buffer
  <2>3. size(g) = size(w)
    BY <2>2 DEF size
  <2>4. ShapeOf(kind, n, g) /\ HoldsOf(kind, n, g, s)
    BY <1>1, <1>4, <2>2, <2>3 DEF ShapeOf, HoldsOf
  <2>5. QED
    BY <1>1, <1>4, <2>2, <2>3, <2>4 DEF g
<1>5. CASE m > w.capacity /\ kind = "counting"
  <2>1. w.capacity = BufferSize /\ w.at = "inline" /\ w.count + size(w) = Len(s)
    BY <1>5 DEF ShapeOf, HoldsOf
  <2>2. CASE size(w) = BufferSize
    <3>1. g = [w EXCEPT !.count = Len(s), !.bytes = <<>>]
      BY <1>1, <1>5, <2>1, <2>2 DEF try_reserve, grow, flush, Counted, Buffer
    <3> HIDE DEF g
    <3>2. <<>> \in Seq(Byte) /\ Len(<<>>) = 0
      BY EmptySeq
    <3>3. g \in Buffer /\ g.bytes = <<>> /\ g.count = Len(s) /\ g.capacity = w.capacity /\ g.at = w.at
      BY <1>1, <3>1, <3>2 DEF Buffer
    <3>4. size(g) = 0
      BY <3>2, <3>3 DEF size
    <3>5. ShapeOf(kind, n, g) /\ HoldsOf(kind, n, g, s)
      BY <1>1, <1>5, <2>1, <3>3, <3>4, Constants DEF ShapeOf, HoldsOf
    <3>6. QED
      BY <1>5, <2>1, <3>3, <3>4, <3>5, Constants DEF g
  <2>3. CASE size(w) # BufferSize
    <3>1. g = w
      BY <1>5, <2>3 DEF try_reserve, grow
    <3>2. QED
      BY <1>1, <1>5, <2>1, <2>3, <3>1, Constants
  <2>4. QED
    BY <2>2, <2>3
<1>6. CASE m > w.capacity /\ kind \in {"iterator", "iterator_n", "array_n"}
  <2>1. CASE size(w) = w.capacity
    <3>1. g = flush(w)
      BY <1>6, <2>1 DEF try_reserve, grow, ShapeOf
    <3> DEFINE f == flush(w)
    <3>2. /\ f \in Buffer /\ f.bytes = <<>> /\ f.count = Len(s)
          /\ f.out = SubSeq(s, 1, IF kind = "iterator" THEN Len(s) ELSE min_of(n, Len(s)))
          /\ f.at = "inline" /\ f.capacity = BufferSize
      BY <1>6, FlushCorrect
    <3>3. kind = "array_n" => Len(s) >= n
      <4>1. w.count + size(w) = Len(s)
        BY <1>6 DEF HoldsOf
      <4>2. QED
        BY <1>1, <2>1, <4>1 DEF ShapeOf
    <3> HIDE DEF f, g
    <3>4. size(f) = 0
      BY <3>2, EmptySeq DEF size
    <3>5. SubSeq(s, Len(s) + 1, Len(s)) = <<>>
      BY <1>1, SubSeqEmpty
    <3>6. ShapeOf(kind, n, f)
      BY <1>6, <3>2, <3>3, <3>4, Constants DEF ShapeOf
    <3>7. HoldsOf(kind, n, f, s)
      BY <1>1, <1>6, <3>2, <3>4, <3>5 DEF HoldsOf
    <3>8. QED
      BY <1>6, <3>1, <3>2, <3>4, <3>6, <3>7, Constants DEF f, g
  <2>2. CASE size(w) # w.capacity
    <3>1. g = w
      BY <1>6, <2>2 DEF try_reserve, grow, ShapeOf
    <3>2. QED
      BY <1>1, <1>6, <2>2, <3>1
  <2>3. QED
    BY <2>1, <2>2
<1>7. QED
  BY <1>2, <1>3, <1>4, <1>5, <1>6 DEF AllKinds

(* Bytes for which there is room are behind the text then. *)
LEMMA PutCorrect ==
  ASSUME NEW k \in AllKinds, NEW m \in Nat, NEW w \in Buffer,
         NEW s \in Seq(Byte), NEW t \in Seq(Byte),
         ShapeOf(k, m, w), HoldsOf(k, m, w, s), size(w) + Len(t) <= w.capacity
  PROVE  /\ Put(w, t) \in Buffer /\ size(Put(w, t)) = size(w) + Len(t)
         /\ Put(w, t).capacity = w.capacity /\ Put(w, t).at = w.at
         /\ ShapeOf(k, m, Put(w, t)) /\ HoldsOf(k, m, Put(w, t), s \o t)
<1> DEFINE p == Put(w, t)
<1>1. /\ w.bytes \in Seq(Byte) /\ w.count \in Nat /\ size(w) \in Nat /\ w.capacity \in Nat
      /\ Len(s) \in Nat /\ Len(t) \in Nat
  BY BufferFields, NatOfLen
<1>2. w.bytes \o t \in Seq(Byte) /\ Len(w.bytes \o t) = size(w) + Len(t)
  BY <1>1, ConcatProperties DEF size
<1>3. Len(s \o t) = Len(s) + Len(t)
  BY ConcatProperties
<1>4. /\ p \in Buffer /\ p.bytes = w.bytes \o t /\ p.capacity = w.capacity /\ p.at = w.at
      /\ p.count = w.count /\ p.out = w.out
  BY <1>2 DEF Put, Buffer
<1> HIDE DEF p
<1>5. size(p) = size(w) + Len(t)
  BY <1>2, <1>4 DEF size
<1>6. ShapeOf(k, m, p)
  BY <1>1, <1>4, <1>5 DEF ShapeOf
<1>7. w.count + size(w) = Len(s) => p.count + size(p) = Len(s \o t)
  <2>1. p.count = w.count
    BY <1>4
  <2> DEFINE a == w.count
             b == size(w)
             l == Len(t)
  <2>2. a \in Nat /\ b \in Nat /\ l \in Nat
    BY <1>1
  <2>3. /\ size(p) = b + l /\ Len(s \o t) = Len(s) + l /\ p.count = a
    BY <1>3, <1>5, <2>1
  <2> HIDE DEF a, b, l
  <2>4. a + (b + l) = (a + b) + l
    BY <2>2
  <2>5. QED
    BY <2>3, <2>4 DEF a, b
<1>8. CASE k \in {"memory", "container", "counting"}
  <2>1. k \in {"memory", "container"} => p.bytes = s \o t
    BY <1>4 DEF HoldsOf
  <2>2. k = "counting" => p.count + size(p) = Len(s \o t)
    <3>1. k = "counting" => w.count + size(w) = Len(s)
      BY DEF HoldsOf
    <3>2. QED
      BY <1>7, <3>1
  <2>3. HoldsOf(k, m, p, s \o t)
    BY <1>8, <2>1, <2>2 DEF HoldsOf
  <2>4. QED
    BY <1>4, <1>5, <1>6, <2>3 DEF p
<1>9. CASE k \in {"iterator", "iterator_n", "array_n"}
  <2>1. /\ w.count + size(w) = Len(s) /\ w.bytes = SubSeq(s, w.count + 1, Len(s))
        /\ w.out = SubSeq(s, 1, IF k = "iterator" THEN w.count ELSE min_of(m, w.count))
    BY <1>9 DEF HoldsOf
  <2>2. p.bytes = SubSeq(s \o t, w.count + 1, Len(s \o t))
    <3>1. w.count \in 0 .. Len(s)
      BY <1>1, <2>1
    <3>2. QED
      BY <1>4, <2>1, <3>1, SuffixOfConcat
  <2>3. p.out = SubSeq(s \o t, 1, IF k = "iterator" THEN w.count ELSE min_of(m, w.count))
    <3> DEFINE a == IF k = "iterator" THEN w.count ELSE min_of(m, w.count)
    <3>1. a \in 0 .. Len(s) /\ w.out = SubSeq(s, 1, a)
      BY <1>1, <2>1 DEF min_of
    <3> HIDE DEF a
    <3>2. p.out = SubSeq(s \o t, 1, a)
      BY <1>4, <3>1, PrefixOfConcat
    <3>3. QED
      BY <3>2 DEF a
  <2>4. p.count + size(p) = Len(s \o t)
    BY <1>7, <2>1
  <2>5. HoldsOf(k, m, p, s \o t)
    BY <1>4, <1>9, <2>2, <2>3, <2>4 DEF HoldsOf
  <2>6. QED
    BY <1>4, <1>5, <1>6, <2>5 DEF p
<1>10. QED
  BY <1>8, <1>9 DEF AllKinds

-----------------------------------------------------------------------------
(* What the steps have in common. *)

LEMMA StateFacts ==
  ASSUME IInv
  PROVE  /\ kind \in AllKinds /\ kind \in Kinds /\ n \in Nat /\ buf \in [Objects -> Buffer]
         /\ alive \subseteq Objects /\ alive # {} /\ live \subseteq Blocks /\ use \in Objects
         /\ todo \in Seq(Byte) /\ Len(todo) \in Nat /\ text \in [Objects -> Seq(Byte)]
         /\ \A o \in Objects : buf[o] \in Buffer /\ text[o] \in Seq(Byte) /\ Written(o) \in Seq(Byte)
         /\ \A o \in Objects : o # use \/ todo = <<>> => Written(o) = text[o]
         /\ step # "closed" =>
              \A o \in alive : ShapeOf(kind, n, buf[o]) /\ HoldsOf(kind, n, buf[o], Written(o))
<1>1. /\ kind \in Kinds /\ n \in Nat /\ buf \in [Objects -> Buffer]
      /\ alive \subseteq Objects /\ alive # {} /\ live \subseteq Blocks /\ use \in Objects
      /\ todo \in Seq(Byte) /\ text \in [Objects -> Seq(Byte)]
  BY DEF IInv, TypeOK, Buffer
<1>2. kind \in AllKinds
  BY <1>1, BufferAssumption
<1>3. \A o \in Objects : buf[o] \in Buffer /\ text[o] \in Seq(Byte)
  BY <1>1
<1>4. ASSUME NEW o \in Objects
      PROVE  Written(o) \in Seq(Byte) /\ (o # use \/ todo = <<>> => Written(o) = text[o])
  <2>1. CASE o # use
    BY <1>3, <2>1 DEF Written
  <2>2. CASE o = use
    <3> DEFINE k == Len(text[o]) - Len(todo)
    <3>1. Written(o) = SubSeq(text[o], 1, k)
      BY <2>2 DEF Written
    <3>2. Len(todo) <= Len(text[o])
      BY <2>2 DEF IInv, Control
    <3>3. k \in 0 .. Len(text[o])
      BY <1>1, <1>3, <3>2, NatOfLen
    <3>4. Written(o) \in Seq(Byte)
      BY <1>3, <3>1, <3>3, Split
    <3>5. todo = <<>> => Written(o) = text[o]
      <4>1. todo = <<>> => k = Len(text[o])
        BY <1>3, NatOfLen, EmptySeq
      <4>2. QED
        BY <1>3, <3>1, <4>1, SubSeqFull
    <3>6. QED
      BY <2>2, <3>4, <3>5
  <2>3. QED
    BY <2>1, <2>2
<1>5. step # "closed" =>
        \A o \in alive : ShapeOf(kind, n, buf[o]) /\ HoldsOf(kind, n, buf[o], Written(o))
  BY DEF IInv, Handed
<1>6. Len(todo) \in Nat
  BY <1>1, NatOfLen
<1>7. QED
  BY <1>1, <1>2, <1>3, <1>4, <1>5, <1>6

LEMMA WrittenIs ==
  ASSUME NEW x \in Seq(Byte), NEW y \in Seq(Byte)
  PROVE  /\ x \o y \in Seq(Byte) /\ Len(y) <= Len(x \o y)
         /\ SubSeq(x \o y, 1, Len(x \o y) - Len(y)) = x
<1>1. /\ x \o y \in Seq(Byte) /\ Len(x \o y) = Len(x) + Len(y) /\ Len(x) \in Nat /\ Len(y) \in Nat
  BY ConcatProperties, NatOfLen
<1>2. Len(x \o y) - Len(y) = Len(x) /\ Len(y) <= Len(x \o y) /\ Len(x) \in 0 .. Len(x)
  BY <1>1
<1>3. SubSeq(x \o y, 1, Len(x)) = x
  BY <1>2, PrefixOfConcat, SubSeqFull
<1>4. QED
  BY <1>1, <1>2, <1>3

(* The piece in hand, after a step that leaves y of it. *)
LEMMA ControlKept ==
  ASSUME NEW o \in Objects, NEW x \in Seq(Byte), NEW y \in Seq(Byte),
         use' = o, todo' = y, text'[o] = x \o y,
         kind # "memory" => alive = {First} /\ o = First, UNCHANGED <<kind, alive>>,
         step' \in {"append", "push"} => o \in alive,
         step' \in {"ready", "closed"} => y = <<>>, failed' => step' = "closed"
  PROVE  Control' /\ Written(o)' = x
<1>1. /\ Len(y) <= Len(x \o y) /\ SubSeq(x \o y, 1, Len(x \o y) - Len(y)) = x
  BY WrittenIs
<1>2. Written(o)' = x
  BY <1>1 DEF Written
<1>3. QED
  BY <1>1, <1>2 DEF Control

(* A step that writes to one buffer. *)
LEMMA HandedKept ==
  ASSUME IInv, step # "closed", UNCHANGED <<kind, n, alive>>,
         NEW o \in alive, NEW w \in Buffer, buf' = [buf EXCEPT ![o] = w],
         ShapeOf(kind, n, w), HoldsOf(kind, n, w, Written(o)'),
         \A q \in alive : q # o => Written(q)' = Written(q)
  PROVE  Handed'
<1>1. o \in Objects /\ \A q \in alive : q \in Objects
  BY StateFacts
<1>2. \A q \in alive : ShapeOf(kind, n, buf[q]) /\ HoldsOf(kind, n, buf[q], Written(q))
  BY StateFacts
<1>3. \A q \in alive : buf'[q] = IF q = o THEN w ELSE buf[q]
  BY <1>1, StateFacts
<1>4. ASSUME NEW q \in alive
      PROVE  ShapeOf(kind, n, buf'[q]) /\ HoldsOf(kind, n, buf'[q], Written(q)')
  BY <1>2, <1>3
<1>5. QED
  BY <1>4 DEF Handed

(* ... and may allocate a block for it. *)
LEMMA OwnerKept ==
  ASSUME IInv, step # "closed", UNCHANGED <<kind, n, alive>>, NEW m \in Nat,
         NEW o \in alive, NEW w \in Buffer, buf' = [buf EXCEPT ![o] = w],
         ShapeOf(kind, n, w), w.at = try_reserve(buf[o], m).at, Reallocated(buf[o], m)
  PROVE  OneOwner' /\ live' \subseteq Blocks
<1>1. /\ o \in Objects /\ live \subseteq Blocks /\ alive \subseteq Objects
      /\ buf \in [Objects -> Buffer] /\ OneOwner
  BY StateFacts DEF IInv
<1>2. \A q \in alive : buf'[q] = IF q = o THEN w ELSE buf[q]
  BY <1>1
<1>3. /\ \A q \in alive : buf[q].at \in Blocks => buf[q].at \in live
      /\ \A x \in live : \E q \in alive : buf[q].at = x
      /\ \A p, q \in alive : buf[p].at = buf[q].at /\ buf[p].at \in Blocks => p = q
  BY <1>1 DEF OneOwner
<1>4. CASE kind = "memory" /\ m > buf[o].capacity
  <2>1. Blocks \ live # {} /\ live' = (live \union {fresh}) \ {buf[o].at}
    BY <1>4 DEF Reallocated
  <2>2. fresh \in Blocks /\ fresh \notin live
    BY <2>1 DEF fresh
  <2>3. w.at = fresh
    BY <1>1, <1>4 DEF try_reserve, grow, Buffer
  <2> DEFINE f == fresh
  <2> HIDE DEF f
  <2>4. f \in Blocks /\ f \notin live /\ w.at = f /\ live' = (live \union {f}) \ {buf[o].at}
    BY <2>1, <2>2, <2>3 DEF f
  <2>5. \A q \in alive : buf'[q].at = IF q = o THEN f ELSE buf[q].at
    BY <1>2, <2>4
  <2>6. QED
    BY <1>1, <1>3, <2>4, <2>5 DEF OneOwner
<1>5. CASE kind = "memory" /\ ~(m > buf[o].capacity)
  <2>1. live' = live /\ w.at = buf[o].at
    BY <1>5 DEF Reallocated, try_reserve
  <2>2. \A q \in alive : buf'[q].at = buf[q].at
    BY <1>2, <2>1
  <2>3. QED
    BY <1>1, <1>3, <2>1, <2>2 DEF OneOwner
<1>6. CASE kind # "memory"
  <2>1. live' = live /\ alive = {First} /\ o = First
    BY <1>6 DEF Reallocated, IInv, Control
  <2>2. buf[o].at \notin Blocks /\ w.at \notin Blocks
    BY <1>6, StateFacts, Constants DEF ShapeOf
  <2>3. live = {}
    BY <1>1, <1>3, <2>1, <2>2
  <2>4. \A q \in alive : buf'[q].at \notin Blocks
    BY <1>2, <2>1, <2>2
  <2>5. QED
    BY <2>1, <2>3, <2>4 DEF OneOwner
<1>7. QED
  BY <1>4, <1>5, <1>6

LEMMA Room ==
  ASSUME NEW w, NEW m, Reallocated(w, m), kind = "memory" /\ m > w.capacity
  PROVE  fresh \in Blocks
<1>1. Blocks \ live # {}
  BY DEF Reallocated
<1>2. QED
  BY <1>1 DEF fresh

(* A step of a piece in the buffer o: x of its text is written now, y is    *)
(* not.                                                                     *)
LEMMA PieceStep ==
  ASSUME IInv, step # "closed", UNCHANGED <<kind, n, alive, failed>>,
         NEW o \in alive, NEW m \in Nat, NEW w \in Buffer, buf' = [buf EXCEPT ![o] = w],
         ShapeOf(kind, n, w), w.at = try_reserve(buf[o], m).at, Reallocated(buf[o], m),
         NEW x \in Seq(Byte), NEW y \in Seq(Byte), HoldsOf(kind, n, w, x),
         use' = o, todo' = y, text' = [text EXCEPT ![o] = x \o y],
         step = "ready" \/ o = use, step' \in {"ready", "append", "push"},
         step' = "ready" => y = <<>>, step' = "push" => y # <<>>,
         kind = "container" => w.capacity = size(w) + (IF step' = "push" THEN Len(y) ELSE 0)
  PROVE  IInv'
<1>1. /\ kind \in AllKinds /\ kind \in Kinds /\ n \in Nat /\ buf \in [Objects -> Buffer]
      /\ alive \subseteq Objects /\ alive # {} /\ text \in [Objects -> Seq(Byte)]
      /\ failed \in BOOLEAN /\ o \in Objects
  BY StateFacts DEF IInv, TypeOK
<1>2. x \o y \in Seq(Byte)
  BY WrittenIs
<1>3. text'[o] = x \o y /\ \A q \in Objects : q # o => text'[q] = text[q]
  BY <1>1
<1>4. OneOwner' /\ live' \subseteq Blocks
  BY OwnerKept
<1>5. TypeOK'
  BY <1>1, <1>2, <1>4 DEF TypeOK, Buffer
<1>6. kind # "memory" => alive = {First} /\ o = First
  BY <1>1 DEF IInv, Control
<1>7. ~failed
  BY DEF IInv, Control
<1>8. Control' /\ Written(o)' = x
  BY <1>1, <1>3, <1>6, <1>7, ControlKept
<1>9. ASSUME NEW q \in alive, q # o PROVE Written(q)' = Written(q)
  <2>1. Written(q)' = text[q]
    BY <1>1, <1>3, <1>9 DEF Written
  <2>2. q # use \/ todo = <<>>
    BY <1>9 DEF IInv, Control
  <2>3. QED
    BY <1>1, <2>1, <2>2, StateFacts
<1>10. Handed'
  BY <1>8, <1>9, HandedKept
<1>11. Reserved'
  <2>1. kind = "container" => buf'[First] = w
    BY <1>1, <1>6
  <2>2. QED
    BY <2>1 DEF Reserved, size
<1>12. Final'
  BY DEF Final
<1>13. QED
  BY <1>4, <1>5, <1>8, <1>10, <1>11, <1>12 DEF IInv

(* A step on whole memory buffers, between two pieces. *)
LEMMA MemoryStep ==
  ASSUME IInv, kind = "memory", step = "ready", UNCHANGED <<kind, n, use, todo, step, failed>>,
         alive' \subseteq Objects, alive' # {}, live' \subseteq Blocks,
         buf' \in [Objects -> Buffer], text' \in [Objects -> Seq(Byte)],
         \A o \in alive' : size(buf'[o]) <= buf'[o].capacity /\ buf'[o].bytes = text'[o],
         OneOwner'
  PROVE  IInv'
<1>1. /\ todo = <<>> /\ use \in Objects /\ kind \in Kinds /\ n \in Nat
      /\ ~failed /\ failed \in BOOLEAN
  BY StateFacts DEF IInv, Control, TypeOK
<1>2. TypeOK'
  BY <1>1, EmptySeq DEF TypeOK, Buffer
<1>3. ASSUME NEW o \in Objects PROVE Written(o)' = text'[o]
  <2>1. Len(<<>>) = 0 /\ Len(text'[o]) - 0 = Len(text'[o])
    BY NatOfLen, EmptySeq
  <2>2. QED
    BY <1>1, <2>1, SubSeqFull DEF Written
<1>4. Control'
  <2>1. text'[use] \o <<>> = text'[use] /\ Len(<<>>) <= Len(text'[use])
    BY <1>1, ConcatEmptySeq, NatOfLen, EmptySeq
  <2>2. QED
    BY <1>1, <1>3, <2>1 DEF Control
<1>5. ASSUME NEW o \in alive' PROVE ShapeOf(kind, n, buf'[o]) /\ HoldsOf(kind, n, buf'[o], Written(o)')
  BY <1>3, <1>5 DEF ShapeOf, HoldsOf
<1>6. Handed'
  BY <1>5 DEF Handed
<1>7. Reserved' /\ Final'
  BY DEF Reserved, Final
<1>8. QED
  BY <1>2, <1>4, <1>6, <1>7 DEF IInv

-----------------------------------------------------------------------------
(* Each action keeps the invariant. *)

LEMMA Beginning ==
  ASSUME IInv, NEW o \in Objects, NEW s \in Pieces, Begin(o, s)
  PROVE  /\ step = "ready" /\ step # "closed" /\ o \in alive /\ todo = <<>>
         /\ s \in Seq(Byte) /\ s # <<>> /\ Len(s) \in Nat /\ Len(s) > 0
         /\ use' = o /\ text' = [text EXCEPT ![o] = text[o] \o s]
         /\ UNCHANGED <<kind, n, alive, failed>>
         /\ buf[o] \in Buffer /\ text[o] \in Seq(Byte)
         /\ ShapeOf(kind, n, buf[o]) /\ HoldsOf(kind, n, buf[o], text[o])
         /\ kind = "container" => buf[o].capacity = size(buf[o])
<1>1. /\ step = "ready" /\ o \in alive /\ use' = o /\ text' = [text EXCEPT ![o] = text[o] \o s]
      /\ UNCHANGED <<kind, n, alive, failed>>
  BY DEF Begin, Ready, call_vars
<1>2. s \in Seq(Byte) /\ Len(s) > 0
  BY BufferAssumption
<1>3. Len(s) \in Nat /\ s # <<>>
  BY <1>2, NatOfLen, EmptySeq
<1>4. todo = <<>> /\ Written(o) = text[o]
  BY <1>1, StateFacts DEF IInv, Control
<1>5. kind = "container" => buf[o].capacity = size(buf[o])
  <2>1. kind = "container" => alive = {First} /\ size(buf[First]) \in Nat
    BY <1>1, StateFacts, Constants, BufferFields DEF IInv, Control
  <2>2. kind = "container" => buf[First].capacity = size(buf[First]) + 0
    BY <1>1 DEF IInv, Reserved
  <2>3. QED
    BY <1>1, <2>1, <2>2
<1>6. QED
  BY <1>1, <1>2, <1>3, <1>4, <1>5, StateFacts

LEMMA AppendKeeps ==
  ASSUME IInv, NEW o \in Objects, NEW s \in Pieces, Append_(o, s)
  PROVE  IInv'
<1>1. Begin(o, s) /\ todo' = s /\ step' = "append" /\ UNCHANGED <<buf, live>>
  BY DEF Append_
<1>2. ~(0 > buf[o].capacity)
  BY <1>1, Beginning, BufferFields
<1>3. try_reserve(buf[o], 0) = buf[o] /\ Reallocated(buf[o], 0)
  BY <1>1, <1>2 DEF try_reserve, Reallocated
<1>4. buf' = [buf EXCEPT ![o] = buf[o]]
  BY <1>1, StateFacts
<1>5. kind = "container" => buf[o].capacity = size(buf[o]) + 0
  BY <1>1, Beginning, BufferFields
<1>6. QED
  BY <1>1, <1>3, <1>4, <1>5, Beginning, PieceStep

LEMMA ReserveKeeps ==
  ASSUME IInv, NEW o \in Objects, NEW s \in Pieces, Reserve(o, s)
  PROVE  IInv'
<1> DEFINE m == size(buf[o]) + Len(s)
           w == try_reserve(buf[o], m)
<1>1. /\ Begin(o, s) /\ Reallocated(buf[o], m) /\ todo' = s /\ step' = "push"
      /\ buf' = [buf EXCEPT ![o] = w]
  BY DEF Reserve, reserved
<1>2. /\ m \in Nat /\ m > size(buf[o]) /\ size(buf[o]) \in Nat /\ buf[o].capacity \in Nat
  BY <1>1, Beginning, BufferFields
<1>3. kind = "memory" /\ m > buf[o].capacity => fresh \in Blocks
  BY <1>1, Room
<1> HIDE DEF m
<1>4. /\ w \in Buffer /\ ShapeOf(kind, n, w) /\ HoldsOf(kind, n, w, text[o])
      /\ kind = "container" => w.capacity = IF m > buf[o].capacity THEN m ELSE buf[o].capacity
  BY <1>1, <1>2, <1>3, Beginning, StateFacts, GrowCorrect
<1> HIDE DEF w
<1>5. kind = "container" => w.capacity = size(w) + Len(s)
  <2>1. kind = "container" => size(w) = size(buf[o])
    BY <1>1, <1>4, Beginning DEF HoldsOf, size
  <2>2. kind = "container" => buf[o].capacity = size(buf[o])
    BY <1>1, Beginning
  <2>3. QED
    BY <1>2, <1>4, <2>1, <2>2 DEF m
<1>6. w.at = try_reserve(buf[o], m).at
  BY DEF w
<1>7. QED
  BY <1>1, <1>2, <1>4, <1>5, <1>6, Beginning, PieceStep

LEMMA ToPointerKeeps ==
  ASSUME IInv, NEW o \in Objects, NEW s \in Pieces, ToPointer(o, s)
  PROVE  IInv'
<1> DEFINE m == size(buf[o]) + Len(s)
           g == try_reserve(buf[o], m)
<1>1. /\ Begin(o, s) /\ Reallocated(buf[o], m)
      /\ IF g.capacity >= size(g) + Len(s)
         THEN buf' = [buf EXCEPT ![o] = Put(g, s)] /\ todo' = <<>> /\ step' = "ready"
         ELSE buf' = [buf EXCEPT ![o] = g] /\ todo' = s /\ step' = "append"
  BY DEF ToPointer, has_room
<1>2. /\ m \in Nat /\ m > size(buf[o]) /\ size(buf[o]) \in Nat /\ buf[o].capacity \in Nat
  BY <1>1, Beginning, BufferFields
<1>3. kind = "memory" /\ m > buf[o].capacity => fresh \in Blocks
  BY <1>1, Room
<1> HIDE DEF m
<1>4. /\ g \in Buffer /\ ShapeOf(kind, n, g) /\ HoldsOf(kind, n, g, text[o])
      /\ kind = "container" => g.capacity = IF m > buf[o].capacity THEN m ELSE buf[o].capacity
  BY <1>1, <1>2, <1>3, Beginning, StateFacts, GrowCorrect
<1> HIDE DEF g
<1>5. g.at = try_reserve(buf[o], m).at
  BY DEF g
<1>6. kind = "container" => g.capacity = size(g) + Len(s)
  <2>1. kind = "container" => size(g) = size(buf[o])
    BY <1>1, <1>4, Beginning DEF HoldsOf, size
  <2>2. kind = "container" => buf[o].capacity = size(buf[o])
    BY <1>1, Beginning
  <2>3. QED
    BY <1>2, <1>4, <2>1, <2>2 DEF m
<1>7. size(g) \in Nat /\ g.capacity \in Nat /\ Len(s) \in Nat
  BY <1>1, <1>4, Beginning, BufferFields
<1>8. CASE g.capacity >= size(g) + Len(s)
  <2> DEFINE w == Put(g, s)
  <2>1. /\ w \in Buffer /\ size(w) = size(g) + Len(s) /\ w.capacity = g.capacity /\ w.at = g.at
        /\ ShapeOf(kind, n, w) /\ HoldsOf(kind, n, w, text[o] \o s)
    BY <1>1, <1>4, <1>7, <1>8, Beginning, StateFacts, PutCorrect
  <2>2. buf' = [buf EXCEPT ![o] = w] /\ todo' = <<>> /\ step' = "ready"
    BY <1>1, <1>8
  <2> HIDE DEF w
  <2>3. text[o] \o s \in Seq(Byte) /\ (text[o] \o s) \o <<>> = text[o] \o s /\ <<>> \in Seq(Byte)
    BY <1>1, Beginning, WrittenIs, ConcatEmptySeq, EmptySeq
  <2>4. kind = "container" => w.capacity = size(w) + 0
    BY <1>6, <1>7, <2>1
  <2>5. w.at = try_reserve(buf[o], m).at
    BY <1>5, <2>1
  <2> DEFINE x == text[o] \o s
  <2>6. x \in Seq(Byte) /\ x \o <<>> = x /\ HoldsOf(kind, n, w, x)
        /\ text' = [text EXCEPT ![o] = x \o <<>>]
    BY <1>1, <2>1, <2>3, Beginning
  <2> HIDE DEF x
  <2>7. QED
    BY <1>1, <1>2, <2>1, <2>2, <2>3, <2>4, <2>5, <2>6, Beginning, PieceStep
<1>9. CASE ~(g.capacity >= size(g) + Len(s))
  <2>1. buf' = [buf EXCEPT ![o] = g] /\ todo' = s /\ step' = "append"
    BY <1>1, <1>9
  <2>2. kind # "container"
    BY <1>6, <1>7, <1>9
  <2>3. QED
    BY <1>1, <1>2, <1>4, <1>5, <2>1, <2>2, Beginning, PieceStep
<1>10. QED
  BY <1>8, <1>9

(* A piece in hand. *)
LEMMA Writing ==
  ASSUME IInv, step \in {"append", "push"}
  PROVE  /\ step # "closed" /\ use \in Objects /\ use \in alive
         /\ buf[use] \in Buffer /\ Written(use) \in Seq(Byte) /\ todo \in Seq(Byte)
         /\ Len(todo) \in Nat /\ size(buf[use]) \in Nat /\ buf[use].capacity \in Nat
         /\ ShapeOf(kind, n, buf[use]) /\ HoldsOf(kind, n, buf[use], Written(use))
         /\ text[use] = Written(use) \o todo
         /\ kind = "container" =>
              buf[use].capacity = size(buf[use]) + (IF step = "push" THEN Len(todo) ELSE 0)
<1>1. use \in alive
  BY DEF IInv, Control
<1>2. QED
  BY <1>1, StateFacts, BufferFields DEF IInv, Control, Reserved

LEMMA Piecewise ==
  ASSUME NEW s \in Seq(Byte), NEW t \in Seq(Byte), NEW y \in Seq(Byte)
  PROVE  s \o t \in Seq(Byte) /\ (s \o t) \o y = s \o (t \o y)
  BY ConcatProperties, ConcatAssociative

LEMMA AppendPassKeeps ==
  ASSUME IInv, AppendPass
  PROVE  IInv'
<1> DEFINE m == size(buf[use]) + Len(todo)
           g == try_reserve(buf[use], m)
           f == fitting(g)
           t == SubSeq(todo, 1, f)
           w == Put(g, t)
           x == Written(use) \o t
           y == SubSeq(todo, f + 1, Len(todo))
<1>1. /\ step = "append" /\ todo # <<>> /\ Reallocated(buf[use], m)
      /\ buf' = [buf EXCEPT ![use] = w] /\ todo' = y
      /\ UNCHANGED <<kind, n, alive, use, step, failed, text>>
  BY DEF AppendPass, call_vars
<1>2. /\ m \in Nat /\ Len(todo) > 0
  BY <1>1, Writing, EmptySeq
<1>3. kind = "memory" /\ m > buf[use].capacity => fresh \in Blocks
  BY <1>1, Room
<1> HIDE DEF m
<1>4. /\ g \in Buffer /\ ShapeOf(kind, n, g) /\ HoldsOf(kind, n, g, Written(use))
      /\ kind = "container" => g.capacity = IF m > buf[use].capacity THEN m ELSE buf[use].capacity
  BY <1>1, <1>2, <1>3, Writing, StateFacts, GrowCorrect
<1>5. g.at = try_reserve(buf[use], m).at
  OBVIOUS
<1> HIDE DEF g
<1>6. size(g) \in Nat /\ g.capacity \in Nat /\ size(g) <= g.capacity /\ Len(todo) \in Nat
  BY <1>1, <1>4, Writing, BufferFields DEF ShapeOf
<1>7. f \in 0 .. Len(todo) /\ size(g) + f <= g.capacity
  BY <1>6 DEF fitting, min_of
<1>8. kind = "container" => f = Len(todo) /\ g.capacity = size(g) + Len(todo)
  <2>1. kind = "container" => size(g) = size(buf[use])
    BY <1>1, <1>4, Writing DEF HoldsOf, size
  <2>2. kind = "container" => buf[use].capacity = size(buf[use]) + 0
    BY <1>1, Writing
  <2>3. kind = "container" => g.capacity = size(g) + Len(todo)
    BY <1>1, <1>2, <1>4, <1>6, <2>1, <2>2, Writing DEF m
  <2>4. QED
    BY <1>6, <2>3 DEF fitting, min_of
<1> HIDE DEF f
<1>9. /\ t \in Seq(Byte) /\ Len(t) = f /\ y \in Seq(Byte) /\ Len(y) = Len(todo) - f /\ t \o y = todo
  BY <1>1, <1>7, Writing, Split
<1> HIDE DEF t, y
<1>10. /\ w \in Buffer /\ size(w) = size(g) + f /\ w.capacity = g.capacity /\ w.at = g.at
       /\ ShapeOf(kind, n, w) /\ HoldsOf(kind, n, w, x)
  <2>1. size(g) + Len(t) <= g.capacity
    BY <1>7, <1>9
  <2>2. kind \in AllKinds /\ n \in Nat /\ Written(use) \in Seq(Byte)
    BY <1>1, Writing, StateFacts
  <2>3. /\ g \in Buffer /\ t \in Seq(Byte)
        /\ ShapeOf(kind, n, g) /\ HoldsOf(kind, n, g, Written(use))
    BY <1>4, <1>9
  <2>4. /\ Put(g, t) \in Buffer /\ size(Put(g, t)) = size(g) + Len(t)
        /\ Put(g, t).capacity = g.capacity /\ Put(g, t).at = g.at
        /\ ShapeOf(kind, n, Put(g, t)) /\ HoldsOf(kind, n, Put(g, t), Written(use) \o t)
    BY <2>1, <2>2, <2>3, PutCorrect
  <2>5. Len(t) = f
    BY <1>9
  <2>6. QED
    BY <2>4, <2>5
<1>11. x \in Seq(Byte) /\ x \o y = text[use]
  <2>1. Written(use) \in Seq(Byte) /\ text[use] = Written(use) \o todo
    BY <1>1, Writing
  <2>2. QED
    BY <1>9, <2>1, Piecewise
<1>12. text' = [text EXCEPT ![use] = x \o y]
  BY <1>1, <1>11, StateFacts
<1> HIDE DEF w, x
<1>13. kind = "container" => w.capacity = size(w) + 0
  BY <1>6, <1>8, <1>10
<1>14. w.at = try_reserve(buf[use], m).at
  BY <1>5, <1>10
<1>15. step' = "append" /\ use' = use
  BY <1>1
<1>16. QED
  BY <1>1, <1>2, <1>9, <1>10, <1>11, <1>12, <1>13, <1>14, <1>15, Writing, PieceStep

LEMMA AppendEndsKeeps ==
  ASSUME IInv, AppendEnds
  PROVE  IInv'
<1> DEFINE x == Written(use)
<1>1. /\ step = "append" /\ todo = <<>> /\ step' = "ready"
      /\ UNCHANGED <<kind, n, buf, alive, live, use, todo, failed, text>>
  BY DEF AppendEnds, call_vars
<1>2. ~(0 > buf[use].capacity)
  BY <1>1, Writing
<1>3. try_reserve(buf[use], 0) = buf[use] /\ Reallocated(buf[use], 0)
  BY <1>1, <1>2 DEF try_reserve, Reallocated
<1>4. buf' = [buf EXCEPT ![use] = buf[use]]
  BY <1>1, StateFacts
<1>5. kind = "container" => buf[use].capacity = size(buf[use]) + 0
  BY <1>1, Writing
<1>6. text' = [text EXCEPT ![use] = x \o <<>>]
  BY <1>1, Writing, StateFacts
<1>7. x \in Seq(Byte) /\ <<>> \in Seq(Byte) /\ HoldsOf(kind, n, buf[use], x)
  BY <1>1, Writing, EmptySeq
<1> HIDE DEF x
<1>8. use' = use /\ todo' = <<>> /\ 0 \in Nat
  BY <1>1
<1>9. QED
  BY <1>1, <1>3, <1>4, <1>5, <1>6, <1>7, <1>8, Writing, PieceStep

(* The first byte and the others. *)
LEMMA HeadSplit ==
  ASSUME NEW s \in Seq(Byte), s # <<>>
  PROVE  /\ <<Head(s)>> \in Seq(Byte) /\ Len(<<Head(s)>>) = 1
         /\ Tail(s) \in Seq(Byte) /\ Len(Tail(s)) = Len(s) - 1
         /\ <<Head(s)>> \o Tail(s) = s
<1>1. /\ Head(s) \in Byte /\ Tail(s) \in Seq(Byte) /\ Len(Tail(s)) = Len(s) - 1
      /\ Len(s) \in Nat \ {0}
  BY HeadTailProperties, EmptySeq
<1>2. <<Head(s)>> \in Seq(Byte) /\ Len(<<Head(s)>>) = 1
  BY <1>1
<1>3. <<Head(s)>> \o Tail(s) = s
  <2>1. 1 \in 0 .. Len(s)
    BY <1>1
  <2>2. SubSeq(s, 1, 1) \o SubSeq(s, 1 + 1, Len(s)) = s
    BY <2>1, Split
  <2>3. Tail(s) = SubSeq(s, 1 + 1, Len(s))
    BY TailIsSubSeq
  <2>4. SubSeq(s, 1, 1) = <<Head(s)>>
    <3>1. SubSeq(s, 1, 1) \in Seq(Byte) /\ Len(SubSeq(s, 1, 1)) = 1
      BY <2>1, Split
    <3>2. SubSeq(s, 1, 1)[1] = s[1]
      BY <1>1, <2>1, SubSeqFacts
    <3>3. Head(s) = s[1] /\ <<Head(s)>>[1] = Head(s)
      BY <1>1
    <3>4. \A i \in 1 .. 1 : SubSeq(s, 1, 1)[i] = <<Head(s)>>[i]
      BY <3>2, <3>3
    <3>5. QED
      BY <1>2, <3>1, <3>4, SeqEqual
  <2>5. QED
    BY <2>2, <2>3, <2>4
<1>4. QED
  BY <1>1, <1>2, <1>3

LEMMA PushBackKeeps ==
  ASSUME IInv, PushBack
  PROVE  IInv'
<1> DEFINE m == size(buf[use]) + 1
           g == try_reserve(buf[use], m)
           t == <<Head(todo)>>
           w == Put(g, t)
           x == Written(use) \o t
           y == Tail(todo)
<1>1. /\ step = "push" /\ Reallocated(buf[use], m)
      /\ buf' = [buf EXCEPT ![use] = w] /\ todo' = y
      /\ step' = (IF Len(todo) = 1 THEN "ready" ELSE "push")
      /\ UNCHANGED <<kind, n, alive, use, failed, text>>
  BY DEF PushBack, call_vars
<1>2. m \in Nat /\ m > size(buf[use]) /\ todo # <<>> /\ Len(todo) \in Nat \ {0}
  <2>1. todo # <<>>
    BY <1>1 DEF IInv, TypeOK
  <2>2. m \in Nat /\ m > size(buf[use]) /\ todo \in Seq(Byte)
    BY <1>1, Writing
  <2>3. QED
    BY <2>1, <2>2, EmptySeq
<1>3. kind = "memory" /\ m > buf[use].capacity => fresh \in Blocks
  BY <1>1, Room
<1> HIDE DEF m
<1>4. /\ g \in Buffer /\ ShapeOf(kind, n, g) /\ HoldsOf(kind, n, g, Written(use))
      /\ size(g) < g.capacity
      /\ kind = "container" => g.capacity = IF m > buf[use].capacity THEN m ELSE buf[use].capacity
  BY <1>1, <1>2, <1>3, Writing, StateFacts, GrowCorrect
<1>5. g.at = try_reserve(buf[use], m).at
  OBVIOUS
<1> HIDE DEF g
<1>6. size(g) \in Nat /\ g.capacity \in Nat
  BY <1>4, BufferFields
<1>7. /\ t \in Seq(Byte) /\ Len(t) = 1 /\ y \in Seq(Byte) /\ Len(y) = Len(todo) - 1 /\ t \o y = todo
  BY <1>1, <1>2, Writing, HeadSplit
<1> HIDE DEF t, y
<1>8. kind = "container" => g.capacity = size(g) + Len(todo)
  <2>1. kind = "container" => size(g) = size(buf[use])
    BY <1>1, <1>4, Writing DEF HoldsOf, size
  <2>2. kind = "container" => buf[use].capacity = size(buf[use]) + Len(todo)
    BY <1>1, Writing
  <2>3. kind = "container" => ~(m > buf[use].capacity)
    BY <1>1, <1>2, <2>2, Writing DEF m
  <2>4. QED
    BY <1>4, <2>1, <2>2, <2>3
<1>9. /\ w \in Buffer /\ size(w) = size(g) + 1 /\ w.capacity = g.capacity /\ w.at = g.at
      /\ ShapeOf(kind, n, w) /\ HoldsOf(kind, n, w, x)
  <2>1. size(g) + Len(t) <= g.capacity
    BY <1>4, <1>6, <1>7
  <2>2. kind \in AllKinds /\ n \in Nat /\ Written(use) \in Seq(Byte)
    BY <1>1, Writing, StateFacts
  <2>3. /\ g \in Buffer /\ t \in Seq(Byte)
        /\ ShapeOf(kind, n, g) /\ HoldsOf(kind, n, g, Written(use))
    BY <1>4, <1>7
  <2>4. /\ Put(g, t) \in Buffer /\ size(Put(g, t)) = size(g) + Len(t)
        /\ Put(g, t).capacity = g.capacity /\ Put(g, t).at = g.at
        /\ ShapeOf(kind, n, Put(g, t)) /\ HoldsOf(kind, n, Put(g, t), Written(use) \o t)
    BY <2>1, <2>2, <2>3, PutCorrect
  <2>5. Len(t) = 1
    BY <1>7
  <2>6. QED
    BY <2>4, <2>5
<1>10. x \in Seq(Byte) /\ x \o y = text[use]
  <2>1. Written(use) \in Seq(Byte) /\ text[use] = Written(use) \o todo
    BY <1>1, Writing
  <2>2. QED
    BY <1>7, <2>1, Piecewise
<1>11. text' = [text EXCEPT ![use] = x \o y]
  BY <1>1, <1>10, StateFacts
<1> HIDE DEF w, x
<1>12. step' = "ready" => Len(y) = 0
  BY <1>1, <1>2, <1>7
<1>13. step' = "push" => Len(y) > 0
  BY <1>1, <1>2, <1>7
<1>14. (step' = "ready" => y = <<>>) /\ (step' = "push" => y # <<>>)
  BY <1>7, <1>12, <1>13, EmptySeq
<1>15. kind = "container" => w.capacity = size(w) + (IF step' = "push" THEN Len(y) ELSE 0)
  <2>1. kind = "container" => w.capacity = size(w) + Len(y)
    BY <1>2, <1>6, <1>7, <1>8, <1>9
  <2>2. QED
    BY <1>1, <1>9, <1>12, <2>1
<1>16. w.at = try_reserve(buf[use], m).at
  BY <1>5, <1>9
<1>17. step' \in {"ready", "append", "push"} /\ use' = use
  BY <1>1
<1>18. QED
  BY <1>1, <1>2, <1>7, <1>9, <1>10, <1>11, <1>14, <1>15, <1>16, <1>17, Writing, PieceStep

LEMMA AllocationFailsKeeps ==
  ASSUME IInv, AllocationFails
  PROVE  IInv'
<1> DEFINE x == Written(use)
<1>1. /\ kind \in {"memory", "container"} /\ step \in {"append", "push"}
      /\ text' = [text EXCEPT ![use] = x] /\ todo' = <<>> /\ step' = "ready"
      /\ UNCHANGED <<kind, n, buf, alive, live, use, failed>>
  BY DEF AllocationFails, Wanting, call_vars, Written
<1>2. kind = "container" => step = "append"
  <2>1. ASSUME kind = "container", step = "push" PROVE FALSE
    <3>1. size(buf[use]) + 1 > buf[use].capacity
      BY <2>1 DEF AllocationFails, Wanting
    <3>2. todo # <<>> /\ Len(todo) > 0
      BY <2>1, EmptySeq, Writing DEF IInv, TypeOK
    <3>3. QED
      BY <2>1, <3>1, <3>2, Writing
  <2>2. QED
    BY <1>1, <2>1
<1>3. ~(0 > buf[use].capacity)
  BY <1>1, Writing
<1>4. try_reserve(buf[use], 0) = buf[use] /\ Reallocated(buf[use], 0)
  BY <1>1, <1>3 DEF try_reserve, Reallocated
<1>5. buf' = [buf EXCEPT ![use] = buf[use]]
  BY <1>1, StateFacts
<1>6. kind = "container" => buf[use].capacity = size(buf[use]) + 0
  BY <1>1, <1>2, Writing
<1>7. x \in Seq(Byte) /\ <<>> \in Seq(Byte) /\ HoldsOf(kind, n, buf[use], x) /\ x \o <<>> = x
  BY <1>1, Writing, EmptySeq, ConcatEmptySeq
<1>8. text' = [text EXCEPT ![use] = x \o <<>>]
  BY <1>1, <1>7
<1> HIDE DEF x
<1>9. use' = use /\ 0 \in Nat
  BY <1>1
<1>10. QED
  BY <1>1, <1>4, <1>5, <1>6, <1>7, <1>8, <1>9, Writing, PieceStep

(* The memory buffers between two pieces. *)
LEMMA MemoryFacts ==
  ASSUME IInv, kind = "memory", step = "ready"
  PROVE  /\ \A q \in Objects : buf[q] \in Buffer /\ text[q] \in Seq(Byte)
         /\ \A q \in alive : size(buf[q]) <= buf[q].capacity /\ buf[q].bytes = text[q]
         /\ \A q \in alive : buf[q].at \in Blocks => buf[q].at \in live
         /\ \A x \in live : \E q \in alive : buf[q].at = x
         /\ \A p, q \in alive : buf[p].at = buf[q].at /\ buf[p].at \in Blocks => p = q
         /\ \A x : size(Empty(0, x)) = 0 /\ Empty(0, x).bytes = <<>> /\ Empty(0, x).at = x
                   /\ Empty(0, x).capacity = 0
         /\ Empty(0, "inline") \in Buffer /\ <<>> \in Seq(Byte)
<1>1. todo = <<>>
  BY DEF IInv, Control
<1>2. \A q \in alive : q \in Objects /\ Written(q) = text[q]
  BY <1>1, StateFacts
<1>3. \A q \in alive : size(buf[q]) <= buf[q].capacity /\ buf[q].bytes = text[q]
  BY <1>2, StateFacts DEF ShapeOf, HoldsOf
<1>4. <<>> \in Seq(Byte) /\ Len(<<>>) = 0
  BY EmptySeq
<1>5. \A x : size(Empty(0, x)) = 0 /\ Empty(0, x).bytes = <<>> /\ Empty(0, x).at = x
             /\ Empty(0, x).capacity = 0
  BY <1>4 DEF Empty, size
<1>6. Empty(0, "inline") \in Buffer
  BY <1>4 DEF Empty, Buffer
<1>7. /\ \A q \in alive : buf[q].at \in Blocks => buf[q].at \in live
      /\ \A x \in live : \E q \in alive : buf[q].at = x
      /\ \A p, q \in alive : buf[p].at = buf[q].at /\ buf[p].at \in Blocks => p = q
  BY DEF IInv, OneOwner
<1>8. QED
  BY <1>3, <1>4, <1>5, <1>6, <1>7, StateFacts

LEMMA ClearKeeps ==
  ASSUME IInv, NEW o \in Objects, Clear(o)
  PROVE  IInv'
<1> DEFINE w == [buf[o] EXCEPT !.bytes = <<>>]
<1>1. /\ step = "ready" /\ o \in alive /\ kind = "memory"
      /\ buf' = [buf EXCEPT ![o] = w] /\ text' = [text EXCEPT ![o] = <<>>]
      /\ UNCHANGED <<kind, n, alive, live, use, todo, step, failed>>
  BY DEF Clear, Ready, call_vars
<1>2. /\ w \in Buffer /\ w.bytes = <<>> /\ w.capacity = buf[o].capacity /\ w.at = buf[o].at
      /\ buf[o].capacity \in Nat
  <2>1. buf[o] \in Buffer /\ <<>> \in Seq(Byte)
    BY StateFacts, EmptySeq
  <2>2. QED
    BY <2>1 DEF Buffer
<1> HIDE DEF w
<1>3. size(w) = 0
  BY <1>2, EmptySeq DEF size
<1>4. \A q \in alive : q \in Objects
  BY StateFacts
<1>5. buf' \in [Objects -> Buffer] /\ text' \in [Objects -> Seq(Byte)]
  BY <1>1, <1>2, StateFacts, EmptySeq
<1>6. \A q \in Objects : buf'[q] = (IF q = o THEN w ELSE buf[q])
                         /\ text'[q] = (IF q = o THEN <<>> ELSE text[q])
  BY <1>1, StateFacts
<1>7. \A q \in alive : size(buf'[q]) <= buf'[q].capacity /\ buf'[q].bytes = text'[q]
  BY <1>1, <1>2, <1>3, <1>4, <1>6, MemoryFacts
<1>8. OneOwner'
  <2>1. \A q \in alive : buf'[q].at = buf[q].at
    BY <1>2, <1>4, <1>6
  <2>2. QED
    BY <1>1, <2>1, MemoryFacts DEF OneOwner
<1>9. QED
  BY <1>1, <1>5, <1>7, <1>8, StateFacts, MemoryStep

(* What a move does, to an object that was there or not. *)
LEMMA MoveFacts ==
  ASSUME IInv, kind = "memory", step = "ready",
         NEW from \in alive, NEW to \in Objects \ {from}, Move(from, to)
  PROVE  /\ buf' \in [Objects -> Buffer] /\ text' \in [Objects -> Seq(Byte)]
         /\ \A q \in alive \union {to} :
              size(buf'[q]) <= buf'[q].capacity /\ buf'[q].bytes = text'[q]
         /\ \A q \in Objects : buf'[q].at = IF q = to THEN buf[from].at
                                            ELSE IF q = from THEN "inline" ELSE buf[q].at
         /\ UNCHANGED <<kind, n, use, todo, step, failed>>
<1> DEFINE v == moved_from(buf[from])
           t == IF buf[from].at = "inline" THEN text[from] ELSE <<>>
<1>1. /\ buf' = [buf EXCEPT ![from] = v, ![to] = buf[from]]
      /\ text' = [text EXCEPT ![from] = t, ![to] = text[from]]
      /\ UNCHANGED <<kind, n, use, todo, step, failed>>
  BY DEF Move, call_vars
<1>2. from \in Objects /\ \A q \in alive : q \in Objects
  BY StateFacts
<1>3. /\ v \in Buffer /\ t \in Seq(Byte) /\ size(v) <= v.capacity /\ v.bytes = t /\ v.at = "inline"
  <2>1. CASE buf[from].at = "inline"
    BY <1>2, <2>1, MemoryFacts DEF moved_from
  <2>2. CASE buf[from].at # "inline"
    <3>1. v = Empty(0, "inline") /\ t = <<>>
      BY <2>2 DEF moved_from
    <3> HIDE DEF v, t
    <3>2. /\ Empty(0, "inline") \in Buffer /\ <<>> \in Seq(Byte)
          /\ size(Empty(0, "inline")) = 0 /\ Empty(0, "inline").capacity = 0
          /\ Empty(0, "inline").bytes = <<>> /\ Empty(0, "inline").at = "inline"
      BY MemoryFacts
    <3>3. size(v) = 0 /\ v.capacity = 0
      BY <3>1, <3>2
    <3>4. QED
      BY <3>1, <3>2, <3>3
  <2>3. QED
    BY <2>1, <2>2
<1> HIDE DEF v, t
<1>4. \A q \in Objects : buf'[q] = IF q = to THEN buf[from] ELSE IF q = from THEN v ELSE buf[q]
  BY <1>1, <1>2, StateFacts
<1>5. \A q \in Objects : text'[q] = IF q = to THEN text[from] ELSE IF q = from THEN t ELSE text[q]
  BY <1>1, <1>2, StateFacts
<1>6. buf[from] \in Buffer /\ text[from] \in Seq(Byte)
  BY <1>2, StateFacts
<1>7. buf' \in [Objects -> Buffer]
  BY <1>1, <1>3, <1>6, StateFacts
<1>8. text' \in [Objects -> Seq(Byte)]
  BY <1>1, <1>3, <1>6, StateFacts
<1>9. ASSUME NEW q \in alive \union {to}
      PROVE  size(buf'[q]) <= buf'[q].capacity /\ buf'[q].bytes = text'[q]
  <2>1. q \in Objects /\ buf'[q] = (IF q = to THEN buf[from] ELSE IF q = from THEN v ELSE buf[q])
        /\ text'[q] = IF q = to THEN text[from] ELSE IF q = from THEN t ELSE text[q]
    BY <1>2, <1>4, <1>5
  <2>2. CASE q = to
    BY <2>1, <2>2, MemoryFacts
  <2>3. CASE q # to /\ q = from
    BY <1>3, <2>1, <2>3
  <2>4. CASE q # to /\ q # from
    BY <2>1, <2>4, MemoryFacts
  <2>5. QED
    BY <2>2, <2>3, <2>4
<1>10. QED
  BY <1>1, <1>3, <1>4, <1>7, <1>8, <1>9

LEMMA MoveConstructKeeps ==
  ASSUME IInv, NEW from \in Objects, NEW to \in Objects, MoveConstruct(from, to)
  PROVE  IInv'
<1>1. /\ step = "ready" /\ from \in alive /\ kind = "memory" /\ to \in Objects \ {from} /\ to \notin alive
      /\ alive' = alive \union {to} /\ live' = live /\ Move(from, to)
  BY DEF MoveConstruct, Ready
<1> DEFINE f == buf[from].at
<1>2. \A q \in alive' : buf'[q].at = IF q = to THEN f ELSE IF q = from THEN "inline" ELSE buf[q].at
  BY <1>1, StateFacts, MoveFacts
<1>3. OneOwner'
  <2>1. /\ f \in Blocks => f \in live
        /\ \A q \in alive : buf[q].at = f /\ f \in Blocks => q = from
    BY <1>1, MemoryFacts
  <2>2. ASSUME NEW q \in alive', buf'[q].at \in Blocks PROVE buf'[q].at \in live'
    <3>1. q # from
      BY <1>1, <1>2, <2>2, Constants
    <3>2. CASE q = to
      BY <1>1, <1>2, <2>1, <2>2, <3>2
    <3>3. CASE q # to
      <4>1. buf'[q].at = buf[q].at /\ q \in alive
        BY <1>1, <1>2, <3>1, <3>3
      <4>2. QED
        BY <1>1, <2>2, <4>1, MemoryFacts
    <3>4. QED
      BY <3>2, <3>3
  <2>3. ASSUME NEW x \in live' PROVE \E q \in alive' : buf'[q].at = x
    <3>1. PICK p \in alive : buf[p].at = x
      BY <1>1, MemoryFacts
    <3>2. CASE p = from
      BY <1>1, <1>2, <3>1, <3>2
    <3>3. CASE p # from
      <4>1. p # to /\ p \in alive'
        BY <1>1
      <4>2. buf'[p].at = x
        BY <1>2, <3>1, <3>3, <4>1
      <4>3. QED
        BY <4>1, <4>2
    <3>4. QED
      BY <3>2, <3>3
  <2>4. ASSUME NEW p \in alive', NEW q \in alive', buf'[p].at = buf'[q].at, buf'[p].at \in Blocks
        PROVE  p = q
    <3>1. p # from /\ q # from
      BY <1>1, <1>2, <2>4, Constants
    <3>2. CASE p = to
      BY <1>1, <1>2, <2>1, <2>4, <3>1, <3>2
    <3>3. CASE q = to
      BY <1>1, <1>2, <2>1, <2>4, <3>1, <3>3
    <3>4. CASE p # to /\ q # to
      BY <1>1, <1>2, <2>4, <3>1, <3>4, MemoryFacts
    <3>5. QED
      BY <3>2, <3>3, <3>4
  <2>5. QED
    BY <2>2, <2>3, <2>4 DEF OneOwner
<1>4. QED
  BY <1>1, <1>3, StateFacts, MoveFacts, MemoryStep

LEMMA MoveAssignKeeps ==
  ASSUME IInv, NEW from \in Objects, NEW to \in Objects, MoveAssign(from, to)
  PROVE  IInv'
<1>1. /\ step = "ready" /\ from \in alive /\ kind = "memory" /\ to \in Objects \ {from} /\ to \in alive
      /\ alive' = alive /\ live' = live \ {buf[to].at} /\ Move(from, to)
  BY DEF MoveAssign, Ready, freed
<1> DEFINE f == buf[from].at
           g == buf[to].at
<1>2. \A q \in alive' : buf'[q].at = IF q = to THEN f ELSE IF q = from THEN "inline" ELSE buf[q].at
  BY <1>1, StateFacts, MoveFacts
<1>3. OneOwner'
  <2>1. /\ f \in Blocks => f \in live /\ f # g
        /\ \A q \in alive : buf[q].at = f /\ f \in Blocks => q = from
        /\ \A q \in alive : buf[q].at = g /\ g \in Blocks => q = to
    BY <1>1, MemoryFacts
  <2>2. ASSUME NEW q \in alive', buf'[q].at \in Blocks PROVE buf'[q].at \in live'
    <3>1. q # from /\ q \in alive
      BY <1>1, <1>2, <2>2, Constants
    <3>2. CASE q = to
      BY <1>1, <1>2, <2>1, <2>2, <3>2
    <3>3. CASE q # to
      <4>1. buf'[q].at = buf[q].at
        BY <1>2, <3>1, <3>3
      <4>2. buf[q].at \in live /\ buf[q].at # g
        BY <1>1, <2>2, <3>1, <3>3, <4>1, MemoryFacts
      <4>3. QED
        BY <1>1, <4>1, <4>2
    <3>4. QED
      BY <3>2, <3>3
  <2>3. ASSUME NEW x \in live' PROVE \E q \in alive' : buf'[q].at = x
    <3>1. PICK p \in alive : buf[p].at = x
      BY <1>1, MemoryFacts
    <3>2. p # to
      BY <1>1, <3>1
    <3>3. CASE p = from
      BY <1>1, <1>2, <3>1, <3>3
    <3>4. CASE p # from
      BY <1>1, <1>2, <3>1, <3>2, <3>4
    <3>5. QED
      BY <3>3, <3>4
  <2>4. ASSUME NEW p \in alive', NEW q \in alive', buf'[p].at = buf'[q].at, buf'[p].at \in Blocks
        PROVE  p = q
    <3>1. p # from /\ q # from
      BY <1>1, <1>2, <2>4, Constants
    <3>2. CASE p = to
      BY <1>1, <1>2, <2>1, <2>4, <3>1, <3>2
    <3>3. CASE q = to
      BY <1>1, <1>2, <2>1, <2>4, <3>1, <3>3
    <3>4. CASE p # to /\ q # to
      BY <1>1, <1>2, <2>4, <3>1, <3>4, MemoryFacts
    <3>5. QED
      BY <3>2, <3>3, <3>4
  <2>5. QED
    BY <2>2, <2>3, <2>4 DEF OneOwner
<1>4. live' \subseteq Blocks /\ alive' \subseteq Objects /\ alive' # {}
  BY <1>1, StateFacts
<1>5. QED
  BY <1>1, <1>3, <1>4, MoveFacts, MemoryStep

LEMMA DestroyKeeps ==
  ASSUME IInv, NEW o \in Objects, Destroy(o)
  PROVE  IInv'
<1> DEFINE e == Empty(0, "inline")
<1>1. /\ step = "ready" /\ o \in alive /\ kind = "memory" /\ alive # {o}
      /\ live' = live \ {buf[o].at} /\ alive' = alive \ {o}
      /\ buf' = [buf EXCEPT ![o] = e] /\ text' = [text EXCEPT ![o] = <<>>]
      /\ UNCHANGED <<kind, n, use, todo, step, failed>>
  BY DEF Destroy, Ready, freed, call_vars
<1>2. alive' \subseteq Objects /\ alive' # {} /\ live' \subseteq Blocks
  BY <1>1, StateFacts
<1>3. buf' \in [Objects -> Buffer] /\ text' \in [Objects -> Seq(Byte)]
  BY <1>1, StateFacts, MemoryFacts
<1>4. \A q \in alive' : q \in alive /\ buf'[q] = buf[q] /\ text'[q] = text[q]
  BY <1>1, StateFacts
<1>5. \A q \in alive' : size(buf'[q]) <= buf'[q].capacity /\ buf'[q].bytes = text'[q]
  BY <1>1, <1>4, MemoryFacts
<1>6. OneOwner'
  BY <1>1, <1>4, MemoryFacts DEF OneOwner
<1>7. QED
  BY <1>1, <1>2, <1>3, <1>5, <1>6, MemoryStep

(* The call ends; w is what is in the buffer then. *)
LEMMA EndStep ==
  ASSUME IInv, kind # "memory", step # "closed", step' = "closed", todo' = <<>>,
         UNCHANGED <<kind, n, alive, live, use, text>>, failed' \in BOOLEAN,
         NEW w \in Buffer, buf' = [buf EXCEPT ![First] = w],
         w.at \in {"inline", "target"}, size(w) <= w.capacity,
         kind = "container" => w.capacity = size(w), Delivered'
  PROVE  IInv'
<1>1. /\ kind \in Kinds /\ n \in Nat /\ buf \in [Objects -> Buffer] /\ text \in [Objects -> Seq(Byte)]
      /\ alive = {First} /\ use = First /\ live \subseteq Blocks /\ First \in Objects
  BY StateFacts, Constants DEF IInv, Control
<1>2. buf'[First] = w
  BY <1>1
<1>3. buf[First].at \notin Blocks
  BY <1>1, StateFacts, Constants DEF ShapeOf
<1>4. live = {}
  BY <1>1, <1>3 DEF IInv, OneOwner
<1>5. <<>> \in Seq(Byte) /\ Len(<<>>) = 0
  BY EmptySeq
<1>6. TypeOK'
  <2>1. buf' \in [Objects -> Buffer]
    BY <1>1
  <2>2. QED
    BY <1>1, <1>5, <2>1 DEF TypeOK, Buffer
<1>7. Control'
  <2>1. text[First] \in Seq(Byte) /\ Len(text[First]) \in Nat /\ text[First] \o <<>> = text[First]
    BY <1>1, NatOfLen, ConcatEmptySeq
  <2>2. SubSeq(text[First], 1, Len(text[First]) - 0) = text[First]
    BY <2>1, SubSeqFull
  <2>3. Written(use)' = text[First]
    BY <1>1, <1>5, <2>2 DEF Written
  <2>4. QED
    BY <1>1, <1>5, <2>1, <2>3 DEF Control
<1>8. OneOwner'
  BY <1>1, <1>2, <1>4, Constants DEF OneOwner
<1>9. WithinCapacity'
  BY <1>1, <1>2 DEF WithinCapacity
<1>10. Reserved'
  <2>1. kind = "container" => w.capacity = size(w) + 0
    BY BufferFields
  <2>2. QED
    BY <1>2, <2>1 DEF Reserved, size
<1>11. Handed' /\ Final'
  BY <1>9 DEF Handed, Final
<1>12. QED
  BY <1>6, <1>7, <1>8, <1>10, <1>11 DEF IInv

LEMMA IteratorThrowsKeeps ==
  ASSUME IInv, IteratorThrows
  PROVE  IInv'
<1> DEFINE v == buf[First]
           s == Written(First)
<1>1. /\ kind \in {"iterator", "iterator_n"} /\ step # "closed"
      /\ failed' = TRUE /\ step' = "closed" /\ todo' = <<>>
      /\ UNCHANGED <<kind, n, alive, live, use, text>>
  BY DEF IteratorThrows, Flushing, Wanting, call_vars
<1>2. PICK k \in 0 .. limit(v) - 1 : buf' = [buf EXCEPT ![First] = Broken(@, k)]
  BY DEF IteratorThrows
<1>3. /\ First \in Objects /\ alive = {First} /\ use = First /\ buf \in [Objects -> Buffer]
      /\ v \in Buffer /\ s \in Seq(Byte) /\ ShapeOf(kind, n, v) /\ HoldsOf(kind, n, v, s)
      /\ text[First] = s \o todo /\ todo \in Seq(Byte) /\ n \in Nat
  BY <1>1, StateFacts, Constants DEF IInv, Control
<1> HIDE DEF v, s
<1>4. limit(v) \in 0 .. size(v) /\ (limit(v) > 0 /\ kind \in Limited => v.count < n)
  BY <1>1, <1>3, PassedOnCorrect
<1> DEFINE c == v.count
           o == v.out \o SubSeq(v.bytes, 1, k)
           w == Broken(v, k)
<1>5. /\ v.bytes \in Seq(Byte) /\ v.out \in Seq(Byte) /\ c \in Nat /\ size(v) \in Nat /\ Len(s) \in Nat
      /\ v.capacity = BufferSize /\ v.at = "inline" /\ c + size(v) = Len(s)
      /\ v.out = SubSeq(s, 1, IF kind = "iterator" THEN c ELSE min_of(n, c))
      /\ v.bytes = SubSeq(s, c + 1, Len(s))
  BY <1>1, <1>3, BufferFields, NatOfLen DEF ShapeOf, HoldsOf
<1>6. k \in Nat /\ k < size(v) /\ (kind \in Limited => c < n)
  BY <1>4, <1>5
<1>7. v.out = SubSeq(s, 1, c)
  BY <1>1, <1>3, <1>5, <1>6 DEF min_of, Limited
<1>8. c \in 0 .. Len(s) /\ k \in 0 .. Len(s) - c /\ c + k \in 0 .. Len(s)
  BY <1>5, <1>6
<1>9. o = SubSeq(s, 1, c + k)
  BY <1>3, <1>5, <1>7, <1>8, PrefixGrows
<1>10. o \in Seq(Byte) /\ Len(o) = c + k
  BY <1>3, <1>8, <1>9, Split
<1>11. o = Prefix(text[First], Len(o))
  <2>1. Len(text[First]) = Len(s) + Len(todo) /\ Len(todo) \in Nat
    BY <1>3, NatOfLen, ConcatProperties
  <2>2. min_of(c + k, Len(text[First])) = c + k
    BY <1>5, <1>8, <2>1 DEF min_of
  <2>3. SubSeq(text[First], 1, c + k) = SubSeq(s, 1, c + k)
    BY <1>3, <1>8, PrefixOfConcat
  <2>4. QED
    BY <1>9, <1>10, <2>2, <2>3 DEF Prefix
<1>12. /\ w \in Buffer /\ w.bytes = <<>> /\ w.out = o /\ w.at = "inline" /\ w.capacity = BufferSize
       /\ size(w) = 0
  <2>1. w = [v EXCEPT !.count = c + size(v), !.bytes = <<>>, !.out = o]
    BY <1>3 DEF Broken, Counted, Buffer
  <2>2. <<>> \in Seq(Byte) /\ Len(<<>>) = 0 /\ c + size(v) \in Nat
    BY <1>5, EmptySeq
  <2> HIDE DEF o, w, c
  <2>3. w \in Buffer /\ w.bytes = <<>> /\ w.out = o /\ w.at = v.at /\ w.capacity = v.capacity
    BY <1>3, <1>10, <2>1, <2>2 DEF Buffer
  <2>4. QED
    BY <1>5, <2>2, <2>3 DEF size
<1> HIDE DEF o, w
<1>13. buf' = [buf EXCEPT ![First] = w]
  BY <1>2 DEF w, v
<1>14. Delivered'
  <2>1. buf'[First] = w /\ alive' = {First} /\ text' = text
    BY <1>1, <1>3, <1>13
  <2>2. w.out = Prefix(text[First], Len(w.out))
    BY <1>11, <1>12
  <2>3. QED
    BY <1>1, <2>1, <2>2 DEF Delivered
<1>15. size(w) <= w.capacity
  BY <1>12, Constants
<1>16. kind # "memory" /\ kind # "container" /\ failed' \in BOOLEAN /\ w.at \in {"inline", "target"}
  BY <1>1, <1>12
<1>17. QED
  BY <1>1, <1>12, <1>13, <1>14, <1>15, <1>16, EndStep

LEMMA CloseKeeps ==
  ASSUME IInv, Close
  PROVE  IInv'
<1> DEFINE v == buf[First]
           s == text[First]
           w == IF kind \in {"container", "counting"} THEN v ELSE flush(v)
<1>1. /\ step = "ready" /\ kind # "memory" /\ step' = "closed"
      /\ buf' = [buf EXCEPT ![First] = w]
      /\ UNCHANGED <<kind, n, alive, live, use, todo, failed, text>>
  BY DEF Close, call_vars
<1>2. /\ First \in Objects /\ alive = {First} /\ use = First /\ buf \in [Objects -> Buffer]
      /\ v \in Buffer /\ s \in Seq(Byte) /\ ShapeOf(kind, n, v) /\ HoldsOf(kind, n, v, s)
      /\ todo = <<>> /\ n \in Nat /\ kind \in AllKinds /\ ~failed /\ failed \in BOOLEAN
  BY <1>1, StateFacts, Constants DEF IInv, Control, TypeOK
<1>3. size(v) \in Nat /\ v.capacity \in Nat /\ Len(s) \in Nat
  BY <1>2, BufferFields, NatOfLen
<1>4. kind = "container" => v.capacity = size(v)
  <2>1. kind = "container" => v.capacity = size(v) + 0
    BY <1>1 DEF IInv, Reserved
  <2>2. QED
    BY <1>3, <2>1
<1>5. kind \in {"iterator", "iterator_n", "array_n"} =>
        /\ w \in Buffer /\ w.bytes = <<>> /\ w.count = Len(s)
        /\ w.out = SubSeq(s, 1, IF kind = "iterator" THEN Len(s) ELSE min_of(n, Len(s)))
        /\ w.at = "inline" /\ w.capacity = BufferSize
  BY <1>2, FlushCorrect
<1>6. kind \in {"container", "counting"} => w = v
  OBVIOUS
<1> HIDE DEF w, v, s
<1>7. kind \in {"iterator", "iterator_n", "array_n"} => size(w) = 0
  BY <1>5, EmptySeq DEF size
<1>8. kind \in {"container", "counting", "iterator", "iterator_n", "array_n"}
  BY <1>1, <1>2 DEF AllKinds
<1>9. w \in Buffer /\ w.at \in {"inline", "target"} /\ size(w) <= w.capacity
  <2>1. CASE kind \in {"container", "counting"}
    BY <1>2, <1>6, <2>1 DEF ShapeOf
  <2>2. CASE kind \in {"iterator", "iterator_n", "array_n"}
    BY <1>5, <1>7, <2>2, Constants
  <2>3. QED
    BY <1>8, <2>1, <2>2
<1>10. Written(First)' = s
  <2>1. SubSeq(s, 1, Len(s) - Len(<<>>)) = s
    BY <1>2, <1>3, EmptySeq, SubSeqFull
  <2>2. text'[First] = s /\ todo' = <<>> /\ use' = First
    BY <1>1, <1>2 DEF s
  <2>3. QED
    BY <2>1, <2>2 DEF Written
<1>11. buf'[First] = w /\ alive' = {First} /\ failed' = FALSE /\ kind' = kind /\ n' = n
  BY <1>1, <1>2
<1>12. Delivered'
  <2>1. CASE kind = "container"
    <3>1. w.bytes = s /\ w.capacity = size(w)
      BY <1>2, <1>4, <1>6, <2>1 DEF HoldsOf
    <3>2. QED
      BY <1>10, <1>11, <2>1, <3>1 DEF Delivered, size
  <2>2. CASE kind = "counting"
    <3>1. w.count + size(w) = Len(s)
      BY <1>2, <1>6, <2>2 DEF HoldsOf
    <3>2. QED
      BY <1>10, <1>11, <2>2, <3>1 DEF Delivered, size
  <2>3. CASE kind \in {"iterator", "iterator_n", "array_n"}
    <3> DEFINE a == IF kind = "iterator" THEN w.count ELSE min_of(n, w.count)
    <3>1. w.count + size(w) = Len(s) /\ w.count = Len(s)
      BY <1>3, <1>5, <1>7, <2>3
    <3>2. w.bytes = SubSeq(s, w.count + 1, Len(s))
      <4>1. SubSeq(s, Len(s) + 1, Len(s)) = <<>>
        BY <1>3, SubSeqEmpty
      <4>2. QED
        BY <1>5, <2>3, <3>1, <4>1
    <3>3. min_of(a, Len(s)) = a
      BY <1>2, <1>3, <3>1 DEF min_of
    <3>4. w.out = SubSeq(s, 1, a)
      BY <1>5, <2>3, <3>1
    <3>5. w.out = Prefix(s, a)
      BY <3>3, <3>4 DEF Prefix
    <3> HIDE DEF a
    <3>6. a = IF kind = "iterator" THEN w.count ELSE min_of(n, w.count)
      BY DEF a
    <3>7. QED
      BY <1>10, <1>11, <2>3, <3>1, <3>2, <3>5, <3>6 DEF Delivered, size, min_of
  <2>4. QED
    BY <1>8, <2>1, <2>2, <2>3
<1>13. kind = "container" => w.capacity = size(w)
  BY <1>4, <1>6
<1>14. QED
  BY <1>1, <1>2, <1>9, <1>12, <1>13, EndStep

-----------------------------------------------------------------------------
LEMMA InitInv == Init => IInv
<1> SUFFICES ASSUME Init PROVE IInv
  OBVIOUS
<1>1. PICK s \in Initials :
        /\ buf = [o \in Objects |-> Constructed(kind, n, s)]
        /\ text = [o \in Objects |-> IF kind = "container" THEN s ELSE <<>>]
  BY DEF Init
<1> DEFINE w == Constructed(kind, n, s)
           t == IF kind = "container" THEN s ELSE <<>>
<1>2. /\ kind \in Kinds /\ kind \in AllKinds /\ n \in Nat
      /\ alive = {First} /\ live = {} /\ use = First /\ todo = <<>> /\ step = "ready"
      /\ failed = FALSE /\ s \in Seq(Byte) /\ First \in Objects
  BY BufferAssumption DEF Init
<1>3. /\ <<>> \in Seq(Byte) /\ Len(<<>>) = 0 /\ Len(s) \in Nat
      /\ \A i \in Nat \ {0} : SubSeq(<<>>, i, 0) = <<>>
  BY <1>2, EmptySeq, NatOfLen, SubSeqEmpty
<1> DEFINE Good == /\ w \in Buffer /\ ShapeOf(kind, n, w) /\ HoldsOf(kind, n, w, t)
                   /\ w.at \in {"inline", "target"}
                   /\ (kind = "container" => w.capacity = size(w))
<1>5. Good
  <2>1. CASE kind = "container"
    <3>1. w = [bytes |-> s, capacity |-> Len(s), at |-> "target", out |-> <<>>, count |-> 0]
      BY <2>1 DEF Constructed, Empty
    <3>2. w \in Buffer /\ size(w) = Len(s)
      BY <1>2, <1>3, <3>1 DEF Buffer, size
    <3>3. ShapeOf(kind, n, w) /\ HoldsOf(kind, n, w, s)
      BY <1>3, <2>1, <3>1, <3>2 DEF ShapeOf, HoldsOf
    <3>4. QED
      BY <2>1, <3>1, <3>2, <3>3
  <2>2. CASE kind = "array_n"
    <3>1. w = [bytes |-> <<>>, capacity |-> n, at |-> "target", out |-> <<>>, count |-> 0]
      BY <2>2 DEF Constructed, Empty
    <3>2. w \in Buffer /\ size(w) = 0
      BY <1>2, <1>3, <3>1 DEF Buffer, size
    <3>3. min_of(n, 0) = 0 /\ SubSeq(<<>>, 1, 0) = <<>>
      BY <1>2, <1>3 DEF min_of
    <3>4. w.bytes = <<>> /\ w.count = 0 /\ w.out = <<>> /\ w.at = "target" /\ w.capacity = n
      BY <3>1
    <3>5. ShapeOf(kind, n, w)
      BY <1>2, <2>2, <3>2, <3>4 DEF ShapeOf
    <3>6. HoldsOf(kind, n, w, <<>>)
      <4>1. w.count + 1 = 1 /\ w.count + size(w) = Len(<<>>)
        BY <1>3, <3>2, <3>4
      <4>2. SubSeq(<<>>, w.count + 1, Len(<<>>)) = <<>> /\ SubSeq(<<>>, 1, min_of(n, w.count)) = <<>>
        BY <1>3, <3>3, <3>4, <4>1
      <4> HIDE DEF w
      <4>3. QED
        BY <2>2, <3>4, <4>1, <4>2 DEF HoldsOf
    <3>7. QED
      BY <2>2, <3>1, <3>2, <3>5, <3>6
  <2>3. CASE kind \in {"memory", "iterator", "iterator_n", "counting"}
    <3>1. w = [bytes |-> <<>>, capacity |-> BufferSize, at |-> "inline", out |-> <<>>, count |-> 0]
      BY <2>3 DEF Constructed, Empty
    <3>2. w \in Buffer /\ size(w) = 0
      BY <1>2, <1>3, <3>1, Constants DEF Buffer, size
    <3>3. min_of(n, 0) = 0 /\ SubSeq(<<>>, 1, 0) = <<>>
      BY <1>2, <1>3 DEF min_of
    <3>4. ShapeOf(kind, n, w) /\ HoldsOf(kind, n, w, <<>>)
      BY <1>2, <1>3, <2>3, <3>1, <3>2, <3>3, Constants DEF ShapeOf, HoldsOf
    <3>5. QED
      BY <2>3, <3>1, <3>2, <3>4
  <2>4. QED
    BY <1>2, <2>1, <2>2, <2>3 DEF AllKinds
<1>6. t \in Seq(Byte) /\ Len(t) \in Nat
  BY <1>2, <1>3
<1>7. buf = [o \in Objects |-> w] /\ text = [o \in Objects |-> t]
  BY <1>1
<1> HIDE DEF w, t
<1>8. buf[First] = w /\ text[First] = t
  BY <1>2, <1>7
<1>9. SubSeq(t, 1, Len(t) - 0) = t /\ t \o <<>> = t
  BY <1>6, SubSeqFull, ConcatEmptySeq
<1>10. Written(First) = t
  BY <1>2, <1>3, <1>8, <1>9 DEF Written
<1>11. TypeOK
  <2>1. buf \in [Objects -> Buffer]
    BY <1>5, <1>7
  <2>2. text \in [Objects -> Seq(Byte)]
    BY <1>6, <1>7
  <2>3. QED
    BY <1>2, <1>3, <2>1, <2>2 DEF TypeOK, Buffer
<1>12. Control
  BY <1>2, <1>3, <1>6, <1>8, <1>9, <1>10 DEF Control
<1>13. Reserved
  <2>1. kind = "container" => w.capacity = size(w) + 0
    BY <1>5, BufferFields
  <2>2. QED
    BY <1>2, <1>8, <2>1 DEF Reserved
<1>14. Handed
  BY <1>2, <1>5, <1>8, <1>10 DEF Handed
<1>15. OneOwner
  BY <1>2, <1>5, <1>8, Constants DEF OneOwner
<1>16. Final
  BY <1>2 DEF Final
<1>17. QED
  BY <1>11, <1>12, <1>13, <1>14, <1>15, <1>16 DEF IInv

LEMMA StutterKeeps ==
  ASSUME IInv, UNCHANGED vars
  PROVE  IInv'
  BY DEF IInv, vars, TypeOK, Control, Reserved, Handed, OneOwner, Final, Delivered, WithinCapacity, Written,
         Prefix

LEMMA NextInv == IInv /\ [Next]_vars => IInv'
<1> SUFFICES ASSUME IInv, [Next]_vars PROVE IInv'
  OBVIOUS
<1>1. ASSUME NEW o \in Objects, NEW s \in Pieces, Append_(o, s) \/ Reserve(o, s) \/ ToPointer(o, s)
      PROVE  IInv'
  BY <1>1, AppendKeeps, ReserveKeeps, ToPointerKeeps
<1>2. CASE AppendPass \/ AppendEnds \/ PushBack
  BY <1>2, AppendPassKeeps, AppendEndsKeeps, PushBackKeeps
<1>3. CASE AllocationFails \/ IteratorThrows \/ Close
  BY <1>3, AllocationFailsKeeps, IteratorThrowsKeeps, CloseKeeps
<1>4. ASSUME NEW o \in Objects, Clear(o) \/ Destroy(o)
      PROVE  IInv'
  BY <1>4, ClearKeeps, DestroyKeeps
<1>5. ASSUME NEW from \in Objects, NEW to \in Objects,
             MoveConstruct(from, to) \/ MoveAssign(from, to)
      PROVE  IInv'
  BY <1>5, MoveConstructKeeps, MoveAssignKeeps
<1>6. CASE Closed \/ UNCHANGED vars
  BY <1>6, StutterKeeps DEF Closed
<1>7. QED
  BY <1>1, <1>2, <1>3, <1>4, <1>5, <1>6 DEF Next

(* What the invariant says. *)
LEMMA InvWithin == IInv => WithinCapacity
<1> SUFFICES ASSUME IInv PROVE WithinCapacity
  OBVIOUS
<1>1. CASE step = "closed"
  BY <1>1 DEF IInv, Final
<1>2. CASE step # "closed"
  BY <1>2, StateFacts DEF WithinCapacity, ShapeOf
<1>3. QED
  BY <1>1, <1>2

LEMMA InvDelivered == IInv => Delivered
<1> SUFFICES ASSUME IInv PROVE Delivered
  OBVIOUS
<1>1. CASE step = "closed"
  BY <1>1 DEF IInv, Final
<1>2. CASE step # "closed"
  <2>1. ~failed /\ kind \in AllKinds /\ n \in Nat
    BY <1>2, StateFacts DEF IInv, Control
  <2>2. ASSUME NEW o \in alive
        PROVE  LET w == buf[o]
                   s == Written(o)
               IN  /\ kind \in {"memory", "container"} => w.bytes = s
                   /\ kind = "container" /\ step = "ready" => w.capacity = size(w)
                   /\ kind \in {"iterator", "iterator_n", "array_n", "counting"} =>
                        w.count + size(w) = Len(s)
                   /\ kind \in {"iterator", "iterator_n", "array_n"} =>
                        /\ w.out = Prefix(s, IF kind = "iterator" THEN w.count
                                             ELSE min_of(n, w.count))
                        /\ w.bytes = SubSeq(s, w.count + 1, Len(s))
    <3> DEFINE w == buf[o]
               s == Written(o)
               a == IF kind = "iterator" THEN w.count ELSE min_of(n, w.count)
    <3>1. w \in Buffer /\ s \in Seq(Byte) /\ HoldsOf(kind, n, w, s)
      BY <1>2, StateFacts
    <3>2. w.count \in Nat /\ size(w) \in Nat /\ Len(s) \in Nat
      BY <3>1, BufferFields, NatOfLen
    <3>3. kind = "container" /\ step = "ready" => w.capacity = size(w)
      <4>1. kind = "container" => o = First
        BY StateFacts DEF IInv, Control
      <4>2. kind = "container" /\ step = "ready" => w.capacity = size(w) + 0
        BY <4>1 DEF IInv, Reserved
      <4>3. QED
        BY <3>2, <4>2
    <3> HIDE DEF w, s
    <3>4. kind \in {"iterator", "iterator_n", "array_n"} => min_of(a, Len(s)) = a
      BY <2>1, <3>1, <3>2 DEF HoldsOf, min_of
    <3>5. kind \in {"iterator", "iterator_n", "array_n"} => w.out = SubSeq(s, 1, a)
      BY <3>1 DEF HoldsOf
    <3>6. kind \in {"iterator", "iterator_n", "array_n"} => w.out = Prefix(s, a)
      BY <3>4, <3>5 DEF Prefix
    <3>7. QED
      BY <3>1, <3>3, <3>6 DEF HoldsOf, w, s
  <2>3. QED
    BY <1>2, <2>1, <2>2 DEF Delivered, AllKinds
<1>3. QED
  BY <1>1, <1>2

LEMMA InvRoom == IInv => RoomForOne
<1> SUFFICES ASSUME IInv, step # "closed", NEW o \in alive, NEW k \in 1 .. MaxText + 1
             PROVE  size(try_reserve(buf[o], size(buf[o]) + k))
                      < try_reserve(buf[o], size(buf[o]) + k).capacity
  BY DEF RoomForOne
<1> DEFINE w == buf[o]
           m == size(w) + k
           g == try_reserve(w, m)
<1>1. /\ w \in Buffer /\ kind \in AllKinds /\ n \in Nat /\ Written(o) \in Seq(Byte)
      /\ ShapeOf(kind, n, w) /\ HoldsOf(kind, n, w, Written(o))
  BY StateFacts
<1>2. size(w) \in Nat /\ w.capacity \in Nat /\ k \in Nat /\ k > 0 /\ m \in Nat /\ m > size(w)
  BY <1>1, BufferFields, Constants
<1>3. CASE kind = "memory" /\ m > w.capacity
  <2> DEFINE more == new_capacity(w, m)
  <2>1. more \in Nat /\ more >= m
    BY <1>2, Constants DEF new_capacity, max_of
  <2>2. g = [w EXCEPT !.capacity = more, !.at = fresh]
    BY <1>3 DEF try_reserve, grow
  <2> HIDE DEF more, g, m, w
  <2>3. g.bytes = w.bytes /\ g.capacity = more
    BY <1>1, <2>2 DEF Buffer
  <2>4. size(g) = size(w)
    BY <2>3 DEF size
  <2>5. size(g) < g.capacity
    BY <1>2, <2>1, <2>3, <2>4
  <2>6. QED
    BY <2>5 DEF g, m, w
<1>4. CASE ~(kind = "memory" /\ m > w.capacity)
  <2> HIDE DEF m, w
  <2>1. size(g) < g.capacity
    BY <1>1, <1>2, <1>4, GrowCorrect
  <2>2. QED
    BY <2>1 DEF m, w
<1>5. QED
  BY <1>3, <1>4

(* The inductive invariant holds: every buffer keeps its shape and holds    *)
(* what it is to hold between any two steps of buffer's operations.          *)
THEOREM Inductive == Spec => []IInv
  BY InitInv, NextInv, PTL DEF Spec

(* The buffers of fmt keep their types, whatever is written to them.        *)
THEOREM TypeCorrect == Spec => []TypeOK
<1>1. IInv => TypeOK
  BY DEF IInv
<1>2. QED
  BY <1>1, Inductive, PTL

(* No operation of a buffer writes beyond its room: not append() when       *)
(* grow() made less than was asked for, nor push_back() without a test.     *)
THEOREM NeverBeyond == Spec => []WithinCapacity
  BY InvWithin, Inductive, PTL

(* The bytes reach the target in order and once, up to the limit of         *)
(* format_to_n, however the text is cut into pieces, where flush() falls,   *)
(* what fails to be allocated and where the iterator throws.                *)
THEOREM TextDelivered == Spec => []Delivered
  BY InvDelivered, Inductive, PTL

(* The destructor, the moves and grow() of basic_memory_buffer leak no      *)
(* block and free none twice, for any number of buffers.                    *)
THEOREM BlocksOwned == Spec => []OneOwner
<1>1. IInv => OneOwner
  BY DEF IInv
<1>2. QED
  BY <1>1, Inductive, PTL

(* try_reserve() makes room for a byte at least, for every limit, size of   *)
(* array and capacity.                                                      *)
THEOREM AlwaysRoom == Spec => []RoomForOne
  BY InvRoom, Inductive, PTL

=============================================================================

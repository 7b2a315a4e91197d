-------------------------- MODULE RenderingProofs --------------------------
(***************************************************************************)
(* A line of a logger is the one of the documented layout, and the console *)
(* sink colors exactly its level, for every layout, name, clock and size   *)
(* of the buffers. First bytes and patches as facts about sequences; then  *)
(* the header as one layout filled with nine pieces, which a rebuild, a    *)
(* new second and a message each replace; then one lemma for each step.    *)
(***************************************************************************)
EXTENDS Rendering, StackBufProofs, Integers

(* The bytes of the lines, whatever the sizes and values.                   *)
Words == {"0", "[", "]", "space", "-", ":", ".", "year", "month", "day", "hour", "minute", "second",
          "frac", "tid", "name", "level", "payload", "newline", "color", "reset"}

Byte == {Junk} \cup (Words \X Nat \X Nat)

Of(k) == {s \in Seq(Byte) : Len(s) = k}

(* What is assumed of the constants, as facts.                             *)
LEMMA Constants ==
  /\ Utc \subseteq BOOLEAN /\ ShowDate \subseteq BOOLEAN /\ ShowThreadId \subseteq BOOLEAN
  /\ Widths \subseteq {0, 3, 6, 9}
  /\ NameLens \subseteq Nat /\ PayloadLens \subseteq Nat
  /\ Secs \subseteq Nat /\ Fracs \subseteq Nat /\ Tids \subseteq Nat /\ Zone \in Nat
  /\ MsgLevels \subseteq 0 .. 6
  /\ Outputs \subseteq {"stream", "console", "handle", "none"}
  /\ StackSize \in Nat /\ Junk \in Byte
BY RenderingAssumption, StackBufAssumption DEF Byte

(* A field of k bytes.                                                      *)
LEMMA FieldIs ==
  ASSUME NEW what \in Words, NEW k \in Nat, NEW v \in Nat
  PROVE  /\ Field(what, k, v) \in Of(k)
         /\ \A i \in 1 .. k : Field(what, k, v)[i] = <<what, i, v>>
<1> DEFINE f == Field(what, k, v)
<1>1. \A i \in 1 .. k : <<what, i, v>> \in Byte
  BY DEF Byte
<1>2. f = [i \in 1 .. k |-> <<what, i, v>>]
  BY DEF Field
<1> HIDE DEF f
<1>3. f \in [1 .. k -> Byte] /\ \A i \in 1 .. k : f[i] = <<what, i, v>>
  BY <1>1, <1>2
<1>4. DOMAIN f = 1 .. k
  BY <1>2
<1>5. f \in Seq(Byte)
  BY <1>3
<1>6. Len(f) = k
  BY <1>4, <1>5, LenProperties
<1>7. QED
  BY <1>3, <1>5, <1>6 DEF Of, f

(* One byte of text.                                                        *)
LEMMA TextIs ==
  ASSUME NEW what \in Words
  PROVE  Text(what) \in Of(1)
BY FieldIs DEF Text

(* The text that stands between the fields of a line.                       *)
LEMMA Texts ==
  /\ Text("[") \in Of(1) /\ Text("]") \in Of(1) /\ Text("space") \in Of(1) /\ Text("-") \in Of(1)
  /\ Text(":") \in Of(1) /\ Text(".") \in Of(1) /\ Reset \in Of(1)
<1>1. /\ "[" \in Words /\ "]" \in Words /\ "space" \in Words /\ "-" \in Words /\ ":" \in Words
      /\ "." \in Words /\ "reset" \in Words
  BY DEF Words
<1>2. QED
  BY <1>1, TextIs DEF Reset

(* Placeholders.                                                            *)
LEMMA ZerosAre ==
  ASSUME NEW k \in Nat
  PROVE  Zeros(k) \in Of(k)
<1> DEFINE f == Zeros(k)
<1>1. <<"0", 0, 0>> \in Byte
  BY DEF Byte, Words
<1>2. f = [i \in 1 .. k |-> <<"0", 0, 0>>]
  BY DEF Zeros
<1> HIDE DEF f
<1>3. f \in [1 .. k -> Byte] /\ DOMAIN f = 1 .. k
  BY <1>1, <1>2
<1>4. f \in Seq(Byte)
  BY <1>3
<1>5. Len(f) = k
  BY <1>3, <1>4, LenProperties
<1>6. QED
  BY <1>4, <1>5 DEF Of, f

(* Two pieces behind each other.                                            *)
LEMMA Join ==
  ASSUME NEW x \in Seq(Byte), NEW y \in Seq(Byte)
  PROVE  /\ x \o y \in Seq(Byte) /\ Len(x \o y) = Len(x) + Len(y)
         /\ Len(x) \in Nat /\ Len(y) \in Nat
         /\ \A i \in 1 .. Len(x) + Len(y) : (x \o y)[i] = IF i <= Len(x) THEN x[i] ELSE y[i - Len(x)]
BY ConcatProperties, LenProperties

(* Lengths add up.                                                         *)
LEMMA JoinOf ==
  ASSUME NEW k \in Nat, NEW j \in Nat, NEW x \in Of(k), NEW y \in Of(j)
  PROVE  x \o y \in Of(k + j)
BY Join DEF Of

(* A patch that fits changes its bytes only.                                *)
LEMMA PatchedIs ==
  ASSUME NEW x \in Seq(Byte), NEW off \in Nat, NEW t \in Seq(Byte), off + Len(t) <= Len(x)
  PROVE  /\ Patched(x, off, t) \in Seq(Byte) /\ Len(Patched(x, off, t)) = Len(x)
         /\ \A i \in 1 .. Len(x) :
              Patched(x, off, t)[i] = IF i \in off + 1 .. off + Len(t) THEN t[i - off] ELSE x[i]
<1> DEFINE p == Patched(x, off, t)
           n == Len(x)
           k == Len(t)
<1>1. n \in Nat /\ k \in Nat /\ DOMAIN x = 1 .. n
  BY LenProperties
<1>2. 1 .. n \cup 1 .. off + k = 1 .. n
  BY <1>1
<1>3. p = [i \in 1 .. n |-> IF i \in off + 1 .. off + k THEN t[i - off] ELSE x[i]]
  BY <1>1, <1>2 DEF Patched
<1>4. \A i \in 1 .. k : t[i] \in Byte
  BY ElementOfSeq
<1>5. \A i \in 1 .. n : x[i] \in Byte
  BY ElementOfSeq
<1> HIDE DEF p, n, k
<1>6. \A i \in off + 1 .. off + k : i - off \in 1 .. k
  BY <1>1
<1>7. \A i \in 1 .. n : (IF i \in off + 1 .. off + k THEN t[i - off] ELSE x[i]) \in Byte
  BY <1>4, <1>5, <1>6
<1>8. p \in [1 .. n -> Byte] /\ DOMAIN p = 1 .. n
  BY <1>3, <1>7
<1>9. p \in Seq(Byte)
  BY <1>1, <1>8
<1>10. Len(p) = n
  BY <1>1, <1>8, <1>9, LenProperties
<1>11. QED
  BY <1>3, <1>9, <1>10 DEF p, n, k

(* A patch over all of it.                                                  *)
LEMMA PatchWhole ==
  ASSUME NEW x \in Seq(Byte), NEW t \in Seq(Byte), Len(t) = Len(x)
  PROVE  Patched(x, 0, t) = t
<1> DEFINE p == Patched(x, 0, t)
<1>1. Len(x) \in Nat /\ 0 + Len(t) <= Len(x)
  BY LenProperties
<1>2. /\ p \in Seq(Byte) /\ Len(p) = Len(x)
      /\ \A i \in 1 .. Len(x) : p[i] = IF i \in 0 + 1 .. 0 + Len(t) THEN t[i - 0] ELSE x[i]
  BY <1>1, PatchedIs
<1> HIDE DEF p
<1>3. \A i \in 1 .. Len(x) : i \in 0 + 1 .. 0 + Len(t) /\ i - 0 = i
  BY <1>1
<1>4. \A i \in 1 .. Len(p) : p[i] = t[i]
  BY <1>2, <1>3
<1>5. p = t
  BY <1>2, <1>4, SeqEqual
<1>6. QED
  BY <1>5 DEF p

(* A patch in the first of two pieces, and in the second.                   *)
LEMMA PatchFirst ==
  ASSUME NEW x \in Seq(Byte), NEW y \in Seq(Byte), NEW off \in Nat, NEW t \in Seq(Byte),
         off + Len(t) <= Len(x)
  PROVE  Patched(x \o y, off, t) = Patched(x, off, t) \o y
<1> DEFINE p == Patched(x, off, t)
           q == Patched(x \o y, off, t)
           c == x \o y
           d == p \o y
<1>1. Len(t) \in Nat
  BY LenProperties
<1>2. /\ c \in Seq(Byte) /\ Len(c) = Len(x) + Len(y) /\ Len(x) \in Nat /\ Len(y) \in Nat
      /\ \A i \in 1 .. Len(x) + Len(y) : c[i] = IF i <= Len(x) THEN x[i] ELSE y[i - Len(x)]
  BY Join
<1>3. /\ p \in Seq(Byte) /\ Len(p) = Len(x)
      /\ \A i \in 1 .. Len(x) : p[i] = IF i \in off + 1 .. off + Len(t) THEN t[i - off] ELSE x[i]
  BY PatchedIs
<1> HIDE DEF c, p
<1>4. /\ d \in Seq(Byte) /\ Len(d) = Len(x) + Len(y)
      /\ \A i \in 1 .. Len(x) + Len(y) : d[i] = IF i <= Len(x) THEN p[i] ELSE y[i - Len(x)]
  <2>1. p \in Seq(Byte) /\ Len(p) = Len(x)
    BY <1>3
  <2> HIDE DEF d
  <2>2. /\ p \o y \in Seq(Byte) /\ Len(p \o y) = Len(p) + Len(y)
        /\ \A i \in 1 .. Len(p) + Len(y) : (p \o y)[i] = IF i <= Len(p) THEN p[i] ELSE y[i - Len(p)]
    BY <2>1, Join
  <2>3. QED
    BY <2>1, <2>2 DEF d
<1>5. /\ Patched(c, off, t) \in Seq(Byte) /\ Len(Patched(c, off, t)) = Len(c)
      /\ \A i \in 1 .. Len(c) :
           Patched(c, off, t)[i] = IF i \in off + 1 .. off + Len(t) THEN t[i - off] ELSE c[i]
  <2>1. c \in Seq(Byte) /\ off + Len(t) <= Len(c)
    BY <1>1, <1>2
  <2>2. QED
    BY <2>1, PatchedIs
<1>6. q = Patched(c, off, t)
  BY DEF c
<1> HIDE DEF d, q
<1>7. ASSUME NEW i \in 1 .. Len(c) PROVE q[i] = d[i]
  <2>1. CASE i <= Len(x)
    <3>1. i \in 1 .. Len(x)
      BY <1>2, <2>1
    <3>2. d[i] = IF i \in off + 1 .. off + Len(t) THEN t[i - off] ELSE x[i]
      BY <1>2, <1>3, <1>4, <2>1, <3>1
    <3>3. c[i] = x[i]
      BY <1>2, <2>1
    <3>4. QED
      BY <1>5, <1>6, <3>2, <3>3
  <2>2. CASE ~(i <= Len(x))
    <3>1. i \notin off + 1 .. off + Len(t)
      BY <1>1, <1>2, <2>2
    <3>2. q[i] = c[i]
      BY <1>5, <1>6, <3>1
    <3>3. QED
      BY <1>2, <1>4, <2>2, <3>2
  <2>3. QED
    BY <2>1, <2>2
<1>8. q = d
  BY <1>2, <1>4, <1>5, <1>6, <1>7, SeqEqual
<1>9. QED
  BY <1>8 DEF q, c, d, p

(* See PatchFirst.                                                         *)
LEMMA PatchSecond ==
  ASSUME NEW x \in Seq(Byte), NEW y \in Seq(Byte), NEW off \in Nat, NEW t \in Seq(Byte),
         off + Len(t) <= Len(y)
  PROVE  Patched(x \o y, Len(x) + off, t) = x \o Patched(y, off, t)
<1> DEFINE p == Patched(y, off, t)
           n == Len(x) + off
           q == Patched(x \o y, n, t)
           c == x \o y
           d == x \o p
<1>1. Len(t) \in Nat
  BY LenProperties
<1>2. /\ c \in Seq(Byte) /\ Len(c) = Len(x) + Len(y) /\ Len(x) \in Nat /\ Len(y) \in Nat
      /\ \A i \in 1 .. Len(x) + Len(y) : c[i] = IF i <= Len(x) THEN x[i] ELSE y[i - Len(x)]
  BY Join
<1>3. /\ p \in Seq(Byte) /\ Len(p) = Len(y)
      /\ \A i \in 1 .. Len(y) : p[i] = IF i \in off + 1 .. off + Len(t) THEN t[i - off] ELSE y[i]
  BY PatchedIs
<1> HIDE DEF c, p
<1>4. /\ d \in Seq(Byte) /\ Len(d) = Len(x) + Len(y)
      /\ \A i \in 1 .. Len(x) + Len(y) : d[i] = IF i <= Len(x) THEN x[i] ELSE p[i - Len(x)]
  <2>1. p \in Seq(Byte) /\ Len(p) = Len(y)
    BY <1>3
  <2> HIDE DEF d
  <2>2. /\ x \o p \in Seq(Byte) /\ Len(x \o p) = Len(x) + Len(p)
        /\ \A i \in 1 .. Len(x) + Len(p) : (x \o p)[i] = IF i <= Len(x) THEN x[i] ELSE p[i - Len(x)]
    BY <2>1, Join
  <2>3. QED
    BY <2>1, <2>2 DEF d
<1>0. n \in Nat /\ n + Len(t) <= Len(c)
  BY <1>1, <1>2
<1> HIDE DEF n
<1>5. /\ Patched(c, n, t) \in Seq(Byte) /\ Len(Patched(c, n, t)) = Len(c)
      /\ \A i \in 1 .. Len(c) :
           Patched(c, n, t)[i] = IF i \in n + 1 .. n + Len(t) THEN t[i - n] ELSE c[i]
  <2>1. c \in Seq(Byte)
    BY <1>2
  <2>2. QED
    BY <1>0, <2>1, PatchedIs
<1>6. q = Patched(c, n, t)
  BY DEF c
<1> HIDE DEF d, q
<1>7. ASSUME NEW i \in 1 .. Len(c) PROVE q[i] = d[i]
  <2>1. CASE i <= Len(x)
    <3>1. i \notin n + 1 .. n + Len(t)
      BY <1>1, <1>2, <2>1 DEF n
    <3>2. q[i] = c[i]
      BY <1>5, <1>6, <3>1
    <3>3. QED
      BY <1>2, <1>4, <2>1, <3>2
  <2>2. CASE ~(i <= Len(x))
    <3> DEFINE j == i - Len(x)
    <3>1. j \in 1 .. Len(y) /\ (i \in n + 1 .. n + Len(t) <=> j \in off + 1 .. off + Len(t))
          /\ i - n = j - off
      BY <1>1, <1>2, <2>2 DEF n
    <3>2. c[i] = y[j] /\ d[i] = p[j]
      BY <1>2, <1>4, <2>2
    <3> HIDE DEF j
    <3>3. p[j] = IF j \in off + 1 .. off + Len(t) THEN t[j - off] ELSE y[j]
      BY <1>3, <3>1
    <3>4. q[i] = IF i \in n + 1 .. n + Len(t) THEN t[i - n] ELSE c[i]
      BY <1>5, <1>6
    <3>5. QED
      BY <3>1, <3>2, <3>3, <3>4
  <2>3. QED
    BY <2>1, <2>2
<1>8. q = d
  BY <1>2, <1>4, <1>5, <1>6, <1>7, SeqEqual
<1>9. QED
  BY <1>8 DEF q, c, d, p, n

-----------------------------------------------------------------------------
(* x with t at off instead of what was there is p.                          *)
Takes(x, off, t, p) ==
  /\ x \in Seq(Byte) /\ t \in Seq(Byte) /\ off \in Nat /\ off + Len(t) <= Len(x)
  /\ p \in Seq(Byte) /\ Len(p) = Len(x) /\ Patched(x, off, t) = p

(* A piece may be replaced by another of its length, alone or with a piece  *)
(* behind it or before it.                                                  *)
LEMMA TakesWhole ==
  ASSUME NEW k \in Nat, NEW x \in Of(k), NEW t \in Of(k)
  PROVE  Takes(x, 0, t, t)
<1>1. x \in Seq(Byte) /\ t \in Seq(Byte) /\ Len(x) = k /\ Len(t) = k
  BY DEF Of
<1>2. Patched(x, 0, t) = t
  BY <1>1, PatchWhole
<1>3. 0 + Len(t) <= Len(x)
  BY <1>1
<1>4. QED
  BY <1>1, <1>2, <1>3 DEF Takes

(* See TakesWhole.                                                         *)
LEMMA TakesFirst ==
  ASSUME NEW x, NEW off, NEW t, NEW p, Takes(x, off, t, p), NEW y \in Seq(Byte)
  PROVE  Takes(x \o y, off, t, p \o y)
<1>1. x \in Seq(Byte) /\ t \in Seq(Byte) /\ off \in Nat /\ off + Len(t) <= Len(x)
      /\ p \in Seq(Byte) /\ Len(p) = Len(x) /\ Patched(x, off, t) = p
  BY DEF Takes
<1>2. Patched(x \o y, off, t) = p \o y
  <2>1. x \in Seq(Byte) /\ t \in Seq(Byte) /\ off \in Nat /\ off + Len(t) <= Len(x)
    BY <1>1
  <2>2. Patched(x \o y, off, t) = Patched(x, off, t) \o y
    BY <2>1, PatchFirst
  <2>3. QED
    BY <1>1, <2>2
<1>3. x \o y \in Seq(Byte) /\ Len(x \o y) = Len(x) + Len(y) /\ Len(x) \in Nat /\ Len(y) \in Nat
  BY <1>1, Join
<1>4. p \o y \in Seq(Byte) /\ Len(p \o y) = Len(p) + Len(y)
  BY <1>1, Join
<1>5. Len(t) \in Nat
  BY <1>1, LenProperties
<1>6. off + Len(t) <= Len(x \o y) /\ Len(p \o y) = Len(x \o y)
  BY <1>1, <1>3, <1>4, <1>5
<1>7. QED
  BY <1>1, <1>2, <1>3, <1>4, <1>6 DEF Takes

(* See TakesWhole.                                                         *)
LEMMA TakesSecond ==
  ASSUME NEW x \in Seq(Byte), NEW y, NEW off, NEW t, NEW p, Takes(y, off, t, p)
  PROVE  Takes(x \o y, Len(x) + off, t, x \o p)
<1>1. y \in Seq(Byte) /\ t \in Seq(Byte) /\ off \in Nat /\ off + Len(t) <= Len(y)
      /\ p \in Seq(Byte) /\ Len(p) = Len(y) /\ Patched(y, off, t) = p
  BY DEF Takes
<1>2. Patched(x \o y, Len(x) + off, t) = x \o p
  <2>1. y \in Seq(Byte) /\ t \in Seq(Byte) /\ off \in Nat /\ off + Len(t) <= Len(y)
    BY <1>1
  <2>2. Patched(x \o y, Len(x) + off, t) = x \o Patched(y, off, t)
    BY <2>1, PatchSecond
  <2>3. QED
    BY <1>1, <2>2
<1>3. x \o y \in Seq(Byte) /\ Len(x \o y) = Len(x) + Len(y) /\ Len(x) \in Nat /\ Len(y) \in Nat
  BY <1>1, Join
<1>4. x \o p \in Seq(Byte) /\ Len(x \o p) = Len(x) + Len(p)
  BY <1>1, Join
<1>5. Len(t) \in Nat
  BY <1>1, LenProperties
<1>6. Len(x) + off \in Nat /\ Len(x) + off + Len(t) <= Len(x \o y) /\ Len(x \o p) = Len(x \o y)
  BY <1>1, <1>3, <1>4, <1>5
<1>7. QED
  BY <1>1, <1>2, <1>3, <1>4, <1>6 DEF Takes

(* The same for a piece of k bytes behind a known number of bytes.          *)
LEMMA TakesBehind ==
  ASSUME NEW k \in Nat, NEW x \in Of(k), NEW y, NEW off, NEW t, NEW p, Takes(y, off, t, p)
  PROVE  Takes(x \o y, k + off, t, x \o p)
BY TakesSecond DEF Of

(* What a piece of k bytes is.                                             *)
LEMMA OfSeq ==
  ASSUME NEW k, NEW x \in Of(k)
  PROVE  x \in Seq(Byte) /\ Len(x) = k
BY DEF Of

-----------------------------------------------------------------------------
(* The nine pieces that fill a layout.                                      *)
Pieces(o) ==
  [year : Of(4), month : Of(2), day : Of(2), hour : Of(2), minute : Of(2), second : Of(2),
   frac : Of(o.precision), tid : Of(6), lvl : Of(level_width)]

DateOf(p) == p.year \o Text("-") \o p.month \o Text("-") \o p.day \o Text("space")
Before(o, p) == Text("[") \o (IF o.show_date THEN DateOf(p) ELSE <<>>)
ClockOf(o, p) == Before(o, p) \o p.hour \o Text(":") \o p.minute \o Text(":") \o p.second
PointOf(o, p) == IF o.precision # 0 THEN Text(".") \o p.frac ELSE <<>>
TimeOf(o, p) == ClockOf(o, p) \o PointOf(o, p) \o Text("]") \o Text("space")
ThreadOf(o, p) == IF o.show_thread_id THEN Bracketed(p.tid) ELSE <<>>
WhoOf(n) == IF n # <<>> THEN Bracketed(n) ELSE <<>>
OpenOf(o, n, p) == TimeOf(o, p) \o ThreadOf(o, p) \o WhoOf(n) \o Text("[")
Built(o, n, p) == OpenOf(o, n, p) \o p.lvl \o Text("]") \o Text("space")

(* Their lengths.                                                           *)
BeforeLen(o) == IF o.show_date THEN 12 ELSE 1
ClockLen(o) == BeforeLen(o) + 8
PointLen(o) == IF o.precision # 0 THEN 1 + o.precision ELSE 0
TimeLen(o) == ClockLen(o) + PointLen(o) + 2
ThreadLen(o) == IF o.show_thread_id THEN 9 ELSE 0
WhoLen(n) == IF n # <<>> THEN Len(n) + 3 ELSE 0
OpenLen(o, n) == TimeLen(o) + ThreadLen(o) + WhoLen(n) + 1

(* The types of the options, one by one.                                   *)
LEMMA OptionsAre ==
  ASSUME NEW o \in Options
  PROVE  /\ o.precision \in {0, 3, 6, 9} /\ o.precision \in Nat
         /\ o.show_date \in BOOLEAN /\ o.show_thread_id \in BOOLEAN /\ o.utc \in BOOLEAN
<1>1. o.precision \in {0, 3, 6, 9}
  BY Constants DEF Options
<1>2. o.precision \in Nat
  BY <1>1
<1>3. o.show_date \in BOOLEAN /\ o.show_thread_id \in BOOLEAN /\ o.utc \in BOOLEAN
  BY Constants DEF Options
<1>4. QED
  BY <1>1, <1>2, <1>3

(* The lengths are natural numbers.                                        *)
LEMMA LengthsAre ==
  ASSUME NEW o \in Options, NEW n \in Seq(Byte)
  PROVE  /\ BeforeLen(o) \in Nat /\ ClockLen(o) \in Nat /\ PointLen(o) \in Nat /\ TimeLen(o) \in Nat
         /\ ThreadLen(o) \in Nat /\ WhoLen(n) \in Nat /\ OpenLen(o, n) \in Nat
<1>1. Len(n) \in Nat
  BY LenProperties
<1>2. BeforeLen(o) \in Nat
  BY DEF BeforeLen
<1>3. ClockLen(o) \in Nat
  BY <1>2 DEF ClockLen
<1>4. PointLen(o) \in Nat
  BY OptionsAre DEF PointLen
<1>5. TimeLen(o) \in Nat
  BY <1>3, <1>4 DEF TimeLen
<1>6. ThreadLen(o) \in Nat
  BY DEF ThreadLen
<1>7. WhoLen(n) \in Nat
  BY <1>1 DEF WhoLen
<1>8. OpenLen(o, n) \in Nat
  BY <1>5, <1>6, <1>7 DEF OpenLen
<1>9. QED
  BY <1>2, <1>3, <1>4, <1>5, <1>6, <1>7, <1>8

(* The pieces, one by one.                                                 *)
LEMMA PieceFields ==
  ASSUME NEW o, NEW p \in Pieces(o)
  PROVE  /\ p.year \in Of(4) /\ p.month \in Of(2) /\ p.day \in Of(2) /\ p.hour \in Of(2)
         /\ p.minute \in Of(2) /\ p.second \in Of(2) /\ p.frac \in Of(o.precision) /\ p.tid \in Of(6)
         /\ p.lvl \in Of(3)
BY DEF Pieces, level_width

(* Nothing is no bytes.                                                    *)
LEMMA EmptyOf == <<>> \in Of(0)
BY EmptySeq DEF Of

(* Brackets and a space around k bytes.                                    *)
LEMMA BracketedIs ==
  ASSUME NEW k \in Nat, NEW x \in Of(k)
  PROVE  Bracketed(x) \in Of(k + 3)
<1>1. Text("[") \o x \in Of(1 + k)
  BY JoinOf, Texts
<1> DEFINE a == Text("[") \o x
<1> HIDE DEF a
<1>2. a \in Of(1 + k)
  BY <1>1 DEF a
<1>3. a \o Text("]") \in Of(1 + k + 1)
  <2>1. Text("]") \in Of(1) /\ 1 + k \in Nat /\ 1 \in Nat
    BY Texts
  <2>2. QED
    BY <1>2, <2>1, JoinOf
<1> DEFINE b == a \o Text("]")
<1>4. b \in Of(k + 2)
  <2>1. 1 + k + 1 = k + 2
    OBVIOUS
  <2>2. QED
    BY <1>3, <2>1
<1> HIDE DEF b
<1>5. b \o Text("space") \in Of(k + 2 + 1)
  <2>1. Text("space") \in Of(1) /\ k + 2 \in Nat /\ 1 \in Nat
    BY Texts
  <2>2. QED
    BY <1>4, <2>1, JoinOf
<1>6. k + 2 + 1 = k + 3
  OBVIOUS
<1>7. QED
  BY <1>5, <1>6 DEF Bracketed, a, b

(* A piece may have several pieces behind it.                               *)
LEMMA TakesFirst2 ==
  ASSUME NEW x, NEW off, NEW t, NEW p, Takes(x, off, t, p),
         NEW a \in Seq(Byte), NEW b \in Seq(Byte)
  PROVE  Takes(x \o a \o b, off, t, p \o a \o b)
<1>1. Takes(x \o a, off, t, p \o a)
  BY TakesFirst
<1>2. QED
  BY <1>1, TakesFirst

(* See TakesFirst2.                                                        *)
LEMMA TakesFirst3 ==
  ASSUME NEW x, NEW off, NEW t, NEW p, Takes(x, off, t, p),
         NEW a \in Seq(Byte), NEW b \in Seq(Byte), NEW c \in Seq(Byte)
  PROVE  Takes(x \o a \o b \o c, off, t, p \o a \o b \o c)
<1>1. Takes(x \o a \o b, off, t, p \o a \o b)
  BY TakesFirst2
<1>2. QED
  BY <1>1, TakesFirst

(* See TakesFirst2.                                                        *)
LEMMA TakesFirst4 ==
  ASSUME NEW x, NEW off, NEW t, NEW p, Takes(x, off, t, p),
         NEW a \in Seq(Byte), NEW b \in Seq(Byte), NEW c \in Seq(Byte), NEW d \in Seq(Byte)
  PROVE  Takes(x \o a \o b \o c \o d, off, t, p \o a \o b \o c \o d)
<1>1. Takes(x \o a \o b \o c, off, t, p \o a \o b \o c)
  BY TakesFirst3
<1>2. QED
  BY <1>1, TakesFirst

(* See TakesFirst2.                                                        *)
LEMMA TakesFirst5 ==
  ASSUME NEW x, NEW off, NEW t, NEW p, Takes(x, off, t, p),
         NEW a \in Seq(Byte), NEW b \in Seq(Byte), NEW c \in Seq(Byte), NEW d \in Seq(Byte),
         NEW e \in Seq(Byte)
  PROVE  Takes(x \o a \o b \o c \o d \o e, off, t, p \o a \o b \o c \o d \o e)
<1>1. Takes(x \o a \o b \o c \o d, off, t, p \o a \o b \o c \o d)
  BY TakesFirst4
<1>2. QED
  BY <1>1, TakesFirst

(* Its pieces make a layout, of the lengths said.                           *)
LEMMA BuiltIs ==
  ASSUME NEW o \in Options, NEW n \in Seq(Byte), NEW p \in Pieces(o)
  PROVE  /\ DateOf(p) \in Of(11) /\ Before(o, p) \in Of(BeforeLen(o))
         /\ ClockOf(o, p) \in Of(ClockLen(o)) /\ PointOf(o, p) \in Of(PointLen(o))
         /\ TimeOf(o, p) \in Of(TimeLen(o)) /\ ThreadOf(o, p) \in Of(ThreadLen(o))
         /\ WhoOf(n) \in Of(WhoLen(n)) /\ OpenOf(o, n, p) \in Of(OpenLen(o, n))
         /\ Built(o, n, p) \in Of(OpenLen(o, n) + 5)
<1>1. /\ p.year \in Of(4) /\ p.month \in Of(2) /\ p.day \in Of(2) /\ p.hour \in Of(2)
      /\ p.minute \in Of(2) /\ p.second \in Of(2) /\ p.frac \in Of(o.precision) /\ p.tid \in Of(6)
      /\ p.lvl \in Of(3)
  BY PieceFields
<1>2. /\ Text("[") \in Of(1) /\ Text("]") \in Of(1) /\ Text("space") \in Of(1)
      /\ Text("-") \in Of(1) /\ Text(":") \in Of(1) /\ Text(".") \in Of(1)
  BY Texts
<1>3. DateOf(p) \in Of(11)
  <2>1. p.year \o Text("-") \in Of(5)
    BY <1>1, <1>2, JoinOf, 4 + 1 = 5
  <2>2. p.year \o Text("-") \o p.month \in Of(7)
    BY <1>1, <2>1, JoinOf, 5 + 2 = 7
  <2>3. p.year \o Text("-") \o p.month \o Text("-") \in Of(8)
    BY <1>2, <2>2, JoinOf, 7 + 1 = 8
  <2>4. p.year \o Text("-") \o p.month \o Text("-") \o p.day \in Of(10)
    BY <1>1, <2>3, JoinOf, 8 + 2 = 10
  <2>5. p.year \o Text("-") \o p.month \o Text("-") \o p.day \o Text("space") \in Of(11)
    BY <1>2, <2>4, JoinOf, 10 + 1 = 11
  <2>6. QED
    BY <2>5 DEF DateOf
<1>4. Before(o, p) \in Of(BeforeLen(o))
  <2>1. CASE o.show_date
    <3>1. Text("[") \o DateOf(p) \in Of(12)
      BY <1>2, <1>3, JoinOf, 1 + 11 = 12
    <3>2. QED
      BY <2>1, <3>1 DEF Before, BeforeLen
  <2>2. CASE ~o.show_date
    <3>1. Text("[") \o <<>> \in Of(1)
      BY <1>2, EmptyOf, JoinOf, 1 + 0 = 1
    <3>2. QED
      BY <2>2, <3>1 DEF Before, BeforeLen
  <2>3. QED
    BY <2>1, <2>2
<1>5. ClockOf(o, p) \in Of(ClockLen(o))
  <2> DEFINE k == BeforeLen(o)
             x == Before(o, p)
  <2>1. k \in Nat /\ x \in Of(k) /\ ClockLen(o) = k + 8
    BY <1>4, LengthsAre DEF ClockLen
  <2>2. ClockOf(o, p) = x \o p.hour \o Text(":") \o p.minute \o Text(":") \o p.second
    BY DEF ClockOf
  <2> HIDE DEF k, x
  <2>3. k + 2 \in Nat /\ k + 3 \in Nat /\ k + 5 \in Nat /\ k + 6 \in Nat
        /\ k + 2 + 1 = k + 3 /\ k + 3 + 2 = k + 5 /\ k + 5 + 1 = k + 6 /\ k + 6 + 2 = k + 8
    BY <2>1
  <2>4. x \o p.hour \in Of(k + 2)
    BY <1>1, <2>1, JoinOf
  <2>5. x \o p.hour \o Text(":") \in Of(k + 3)
    BY <1>2, <2>3, <2>4, JoinOf
  <2>6. x \o p.hour \o Text(":") \o p.minute \in Of(k + 5)
    BY <1>1, <2>3, <2>5, JoinOf
  <2>7. x \o p.hour \o Text(":") \o p.minute \o Text(":") \in Of(k + 6)
    BY <1>2, <2>3, <2>6, JoinOf
  <2>8. x \o p.hour \o Text(":") \o p.minute \o Text(":") \o p.second \in Of(k + 8)
    BY <1>1, <2>3, <2>7, JoinOf
  <2>9. QED
    BY <2>1, <2>2, <2>8
<1>6. PointOf(o, p) \in Of(PointLen(o))
  <2>1. CASE o.precision # 0
    <3>1. Text(".") \o p.frac \in Of(1 + o.precision)
      BY <1>1, <1>2, OptionsAre, JoinOf
    <3>2. QED
      BY <2>1, <3>1 DEF PointOf, PointLen
  <2>2. CASE o.precision = 0
    BY <2>2, EmptyOf DEF PointOf, PointLen
  <2>3. QED
    BY <2>1, <2>2
<1>7. TimeOf(o, p) \in Of(TimeLen(o))
  <2> DEFINE k == ClockLen(o) + PointLen(o)
             x == ClockOf(o, p) \o PointOf(o, p)
  <2>1. k \in Nat /\ x \in Of(k) /\ TimeLen(o) = k + 2
    BY <1>5, <1>6, LengthsAre, JoinOf DEF TimeLen
  <2>2. TimeOf(o, p) = x \o Text("]") \o Text("space")
    BY DEF TimeOf
  <2> HIDE DEF k, x
  <2>3. k + 1 \in Nat /\ k + 1 + 1 = k + 2
    BY <2>1
  <2>4. x \o Text("]") \in Of(k + 1)
    BY <1>2, <2>1, JoinOf
  <2>5. x \o Text("]") \o Text("space") \in Of(k + 2)
    BY <1>2, <2>3, <2>4, JoinOf
  <2>6. QED
    BY <2>1, <2>2, <2>5
<1>8. ThreadOf(o, p) \in Of(ThreadLen(o))
  <2>1. Bracketed(p.tid) \in Of(9)
    BY <1>1, BracketedIs, 6 + 3 = 9
  <2>2. QED
    BY <2>1, EmptyOf DEF ThreadOf, ThreadLen
<1>9. WhoOf(n) \in Of(WhoLen(n))
  <2>1. Len(n) \in Nat /\ n \in Of(Len(n))
    BY LenProperties DEF Of
  <2>2. Bracketed(n) \in Of(Len(n) + 3)
    BY <2>1, BracketedIs
  <2>3. QED
    BY <2>2, EmptyOf DEF WhoOf, WhoLen
<1>10. OpenOf(o, n, p) \in Of(OpenLen(o, n))
  <2> DEFINE k == TimeLen(o)
             t == ThreadLen(o)
             m == WhoLen(n)
  <2>1. k \in Nat /\ t \in Nat /\ m \in Nat /\ OpenLen(o, n) = k + t + m + 1
    BY LengthsAre DEF OpenLen
  <2>2. TimeOf(o, p) \in Of(k) /\ ThreadOf(o, p) \in Of(t) /\ WhoOf(n) \in Of(m)
    BY <1>7, <1>8, <1>9
  <2> HIDE DEF k, t, m
  <2>3. k + t \in Nat /\ k + t + m \in Nat
    BY <2>1
  <2>4. TimeOf(o, p) \o ThreadOf(o, p) \in Of(k + t)
    BY <2>1, <2>2, JoinOf
  <2>5. TimeOf(o, p) \o ThreadOf(o, p) \o WhoOf(n) \in Of(k + t + m)
    BY <2>1, <2>2, <2>3, <2>4, JoinOf
  <2>6. TimeOf(o, p) \o ThreadOf(o, p) \o WhoOf(n) \o Text("[") \in Of(k + t + m + 1)
    BY <1>2, <2>3, <2>5, JoinOf
  <2>7. QED
    BY <2>1, <2>6 DEF OpenOf
<1>11. Built(o, n, p) \in Of(OpenLen(o, n) + 5)
  <2> DEFINE k == OpenLen(o, n)
             x == OpenOf(o, n, p)
  <2>1. k \in Nat /\ x \in Of(k)
    BY <1>10, LengthsAre
  <2>2. Built(o, n, p) = x \o p.lvl \o Text("]") \o Text("space")
    BY DEF Built
  <2> HIDE DEF k, x
  <2>3. k + 3 \in Nat /\ k + 4 \in Nat /\ k + 3 + 1 = k + 4 /\ k + 4 + 1 = k + 5
    BY <2>1
  <2>4. x \o p.lvl \in Of(k + 3)
    BY <1>1, <2>1, JoinOf
  <2>5. x \o p.lvl \o Text("]") \in Of(k + 4)
    BY <1>2, <2>3, <2>4, JoinOf
  <2>6. x \o p.lvl \o Text("]") \o Text("space") \in Of(k + 5)
    BY <1>2, <2>3, <2>5, JoinOf
  <2>7. QED
    BY <2>2, <2>6 DEF k
<1>12. QED
  BY <1>3, <1>4, <1>5, <1>6, <1>7, <1>8, <1>9, <1>10, <1>11

-----------------------------------------------------------------------------
(* Pieces with another one for one field.                                   *)
LEMMA Exchanged ==
  ASSUME NEW o \in Options, NEW p \in Pieces(o)
  PROVE  /\ \A t \in Of(4) : [p EXCEPT !.year = t] \in Pieces(o)
         /\ \A t \in Of(2) : /\ [p EXCEPT !.month = t] \in Pieces(o) /\ [p EXCEPT !.day = t] \in Pieces(o)
                             /\ [p EXCEPT !.hour = t] \in Pieces(o) /\ [p EXCEPT !.minute = t] \in Pieces(o)
                             /\ [p EXCEPT !.second = t] \in Pieces(o)
         /\ \A t \in Of(o.precision) : [p EXCEPT !.frac = t] \in Pieces(o)
         /\ \A t \in Of(6) : [p EXCEPT !.tid = t] \in Pieces(o)
         /\ \A t \in Of(3) : [p EXCEPT !.lvl = t] \in Pieces(o)
BY DEF Pieces, level_width

(* A patch of the date is one of the clock, and one of the clock is one of  *)
(* the header, at the same place.                                           *)
LEMMA DateUp ==
  ASSUME NEW o \in Options, o.show_date, NEW p \in Pieces(o), NEW q \in Pieces(o), NEW off, NEW t,
         Takes(DateOf(p), off, t, DateOf(q)),
         q.hour = p.hour, q.minute = p.minute, q.second = p.second
  PROVE  Takes(ClockOf(o, p), 1 + off, t, ClockOf(o, q))
<1>1. Takes(Before(o, p), 1 + off, t, Before(o, q))
  <2>1. Text("[") \in Of(1)
    BY Texts
  <2>2. Takes(Text("[") \o DateOf(p), 1 + off, t, Text("[") \o DateOf(q))
    BY <2>1, TakesBehind
  <2>3. QED
    BY <2>2 DEF Before
<1>2. p.hour \in Seq(Byte) /\ p.minute \in Seq(Byte) /\ p.second \in Seq(Byte) /\ Text(":") \in Seq(Byte)
  BY PieceFields, Texts, OfSeq
<1>3. Takes(Before(o, p) \o p.hour \o Text(":") \o p.minute, 1 + off, t,
            Before(o, q) \o p.hour \o Text(":") \o p.minute)
  BY <1>1, <1>2, TakesFirst3
<1>4. Takes(Before(o, p) \o p.hour \o Text(":") \o p.minute \o Text(":") \o p.second, 1 + off, t,
            Before(o, q) \o p.hour \o Text(":") \o p.minute \o Text(":") \o p.second)
  BY <1>2, <1>3, TakesFirst2
<1>5. QED
  BY <1>4 DEF ClockOf

(* See DateUp: up from what stands before the level.                       *)
LEMMA OpenUp ==
  ASSUME NEW o \in Options, NEW n \in Seq(Byte), NEW p \in Pieces(o), NEW q \in Pieces(o), NEW off,
         NEW t,
         Takes(OpenOf(o, n, p), off, t, OpenOf(o, n, q)), q.lvl = p.lvl
  PROVE  Takes(Built(o, n, p), off, t, Built(o, n, q))
<1>1. p.lvl \in Seq(Byte) /\ Text("]") \in Seq(Byte) /\ Text("space") \in Seq(Byte)
  BY PieceFields, Texts, OfSeq
<1>2. Takes(OpenOf(o, n, p) \o p.lvl \o Text("]") \o Text("space"), off, t,
            OpenOf(o, n, q) \o p.lvl \o Text("]") \o Text("space"))
  BY <1>1, TakesFirst3
<1>3. QED
  BY <1>2 DEF Built

(* See DateUp: up from the time.                                           *)
LEMMA TimeUp ==
  ASSUME NEW o \in Options, NEW n \in Seq(Byte), NEW p \in Pieces(o), NEW q \in Pieces(o), NEW off,
         NEW t,
         Takes(TimeOf(o, p), off, t, TimeOf(o, q)), q.tid = p.tid, q.lvl = p.lvl
  PROVE  Takes(Built(o, n, p), off, t, Built(o, n, q))
<1>1. ThreadOf(o, p) \in Seq(Byte) /\ WhoOf(n) \in Seq(Byte) /\ Text("[") \in Seq(Byte)
  BY BuiltIs, Texts, OfSeq
<1>2. Takes(TimeOf(o, p) \o ThreadOf(o, p) \o WhoOf(n) \o Text("["), off, t,
            TimeOf(o, q) \o ThreadOf(o, p) \o WhoOf(n) \o Text("["))
  BY <1>1, TakesFirst3
<1>3. ThreadOf(o, q) = ThreadOf(o, p)
  BY DEF ThreadOf
<1>4. Takes(OpenOf(o, n, p), off, t, OpenOf(o, n, q))
  BY <1>2, <1>3 DEF OpenOf
<1>5. QED
  BY <1>4, OpenUp

(* See DateUp: up from the clock.                                          *)
LEMMA ClockUp ==
  ASSUME NEW o \in Options, NEW n \in Seq(Byte), NEW p \in Pieces(o), NEW q \in Pieces(o), NEW off,
         NEW t,
         Takes(ClockOf(o, p), off, t, ClockOf(o, q)),
         q.frac = p.frac, q.tid = p.tid, q.lvl = p.lvl
  PROVE  Takes(Built(o, n, p), off, t, Built(o, n, q))
<1>1. PointOf(o, p) \in Seq(Byte) /\ Text("]") \in Seq(Byte) /\ Text("space") \in Seq(Byte)
  BY BuiltIs, Texts, OfSeq
<1>2. Takes(ClockOf(o, p) \o PointOf(o, p) \o Text("]") \o Text("space"), off, t,
            ClockOf(o, q) \o PointOf(o, p) \o Text("]") \o Text("space"))
  BY <1>1, TakesFirst3
<1>3. PointOf(o, q) = PointOf(o, p)
  BY DEF PointOf
<1>4. Takes(TimeOf(o, p), off, t, TimeOf(o, q))
  BY <1>2, <1>3 DEF TimeOf
<1>5. QED
  BY <1>4, TimeUp

(* The fields of a date lie at 1, 6 and 9.                                  *)
LEMMA YearTakes ==
  ASSUME NEW o \in Options, o.show_date, NEW n \in Seq(Byte), NEW p \in Pieces(o), NEW t \in Of(4)
  PROVE  LET q == [p EXCEPT !.year = t]
         IN  q \in Pieces(o) /\ Takes(Built(o, n, p), 1, t, Built(o, n, q))
<1> DEFINE q == [p EXCEPT !.year = t]
<1>1. /\ q \in Pieces(o) /\ q.year = t
      /\ q.month = p.month /\ q.day = p.day /\ q.hour = p.hour /\ q.minute = p.minute /\ q.second = p.second
      /\ q.frac = p.frac /\ q.tid = p.tid /\ q.lvl = p.lvl
  BY Exchanged DEF Pieces
<1> HIDE DEF q
<1>2. /\ p.year \in Of(4) /\ p.month \in Of(2) /\ p.day \in Of(2) /\ p.hour \in Of(2)
      /\ p.minute \in Of(2) /\ p.second \in Of(2) /\ p.frac \in Of(o.precision) /\ p.tid \in Of(6)
      /\ p.lvl \in Of(3)
  BY PieceFields
<1>3. Takes(p.year, 0, t, t)
  BY <1>2, TakesWhole
<1>4. Text("-") \in Seq(Byte) /\ Text("space") \in Seq(Byte) /\ p.day \in Seq(Byte) /\ p.month \in Seq(Byte)
  BY <1>2, Texts, OfSeq
<1>7. Takes(p.year \o Text("-") \o p.month \o Text("-") \o p.day \o Text("space"),
            0, t,
            t \o Text("-") \o p.month \o Text("-") \o p.day \o Text("space"))
  BY <1>3, <1>4, TakesFirst5
<1>8. Takes(DateOf(p), 0, t, DateOf(q))
  BY <1>1, <1>7 DEF DateOf
<1>9. Takes(ClockOf(o, p), 1, t, ClockOf(o, q))
  BY <1>1, <1>8, DateUp, 1 + 0 = 1
<1>10. QED
  BY <1>1, <1>9, ClockUp DEF q

(* See YearTakes.                                                          *)
LEMMA MonthTakes ==
  ASSUME NEW o \in Options, o.show_date, NEW n \in Seq(Byte), NEW p \in Pieces(o), NEW t \in Of(2)
  PROVE  LET q == [p EXCEPT !.month = t]
         IN  q \in Pieces(o) /\ Takes(Built(o, n, p), 6, t, Built(o, n, q))
<1> DEFINE q == [p EXCEPT !.month = t]
<1>1. /\ q \in Pieces(o) /\ q.month = t
      /\ q.year = p.year /\ q.day = p.day /\ q.hour = p.hour /\ q.minute = p.minute /\ q.second = p.second
      /\ q.frac = p.frac /\ q.tid = p.tid /\ q.lvl = p.lvl
  BY Exchanged DEF Pieces
<1> HIDE DEF q
<1>2. /\ p.year \in Of(4) /\ p.month \in Of(2) /\ p.day \in Of(2) /\ p.hour \in Of(2)
      /\ p.minute \in Of(2) /\ p.second \in Of(2) /\ p.frac \in Of(o.precision) /\ p.tid \in Of(6)
      /\ p.lvl \in Of(3)
  BY PieceFields
<1>3. Takes(p.month, 0, t, t)
  BY <1>2, TakesWhole
<1>4. Text("-") \in Seq(Byte) /\ Text("space") \in Seq(Byte) /\ p.day \in Seq(Byte)
  BY <1>2, Texts, OfSeq
<1>5. p.year \o Text("-") \in Of(5)
  BY <1>2, Texts, JoinOf, 4 + 1 = 5
<1>6. Takes(p.year \o Text("-") \o p.month, 5 + 0, t, p.year \o Text("-") \o t)
  BY <1>3, <1>5, TakesBehind
<1>7. Takes(p.year \o Text("-") \o p.month \o Text("-") \o p.day \o Text("space"),
            5 + 0, t,
            p.year \o Text("-") \o t \o Text("-") \o p.day \o Text("space"))
  BY <1>6, <1>4, TakesFirst3
<1>8. Takes(DateOf(p), 5, t, DateOf(q))
  BY <1>1, <1>7 DEF DateOf
<1>9. Takes(ClockOf(o, p), 6, t, ClockOf(o, q))
  BY <1>1, <1>8, DateUp, 1 + 5 = 6
<1>10. QED
  BY <1>1, <1>9, ClockUp DEF q

(* See YearTakes.                                                          *)
LEMMA DayTakes ==
  ASSUME NEW o \in Options, o.show_date, NEW n \in Seq(Byte), NEW p \in Pieces(o), NEW t \in Of(2)
  PROVE  LET q == [p EXCEPT !.day = t]
         IN  q \in Pieces(o) /\ Takes(Built(o, n, p), 9, t, Built(o, n, q))
<1> DEFINE q == [p EXCEPT !.day = t]
<1>1. /\ q \in Pieces(o) /\ q.day = t
      /\ q.year = p.year /\ q.month = p.month /\ q.hour = p.hour /\ q.minute = p.minute /\ q.second = p.second
      /\ q.frac = p.frac /\ q.tid = p.tid /\ q.lvl = p.lvl
  BY Exchanged DEF Pieces
<1> HIDE DEF q
<1>2. /\ p.year \in Of(4) /\ p.month \in Of(2) /\ p.day \in Of(2) /\ p.hour \in Of(2)
      /\ p.minute \in Of(2) /\ p.second \in Of(2) /\ p.frac \in Of(o.precision) /\ p.tid \in Of(6)
      /\ p.lvl \in Of(3)
  BY PieceFields
<1>3. Takes(p.day, 0, t, t)
  BY <1>2, TakesWhole
<1>4. Text("space") \in Seq(Byte)
  BY <1>2, Texts, OfSeq
<1>5. p.year \o Text("-") \o p.month \o Text("-") \in Of(8)
  <2>1. p.year \o Text("-") \in Of(5)
    BY <1>2, Texts, JoinOf, 4 + 1 = 5
  <2>2. p.year \o Text("-") \o p.month \in Of(7)
    BY <1>2, <2>1, Texts, JoinOf, 5 + 2 = 7
  <2>3. p.year \o Text("-") \o p.month \o Text("-") \in Of(8)
    BY <1>2, <2>2, Texts, JoinOf, 7 + 1 = 8
  <2>4. QED
    BY <2>3
<1>6. Takes(p.year \o Text("-") \o p.month \o Text("-") \o p.day,
            8 + 0, t,
            p.year \o Text("-") \o p.month \o Text("-") \o t)
  BY <1>3, <1>5, TakesBehind
<1>7. Takes(p.year \o Text("-") \o p.month \o Text("-") \o p.day \o Text("space"),
            8 + 0, t,
            p.year \o Text("-") \o p.month \o Text("-") \o t \o Text("space"))
  BY <1>6, <1>4, TakesFirst
<1>8. Takes(DateOf(p), 8, t, DateOf(q))
  BY <1>1, <1>7 DEF DateOf
<1>9. Takes(ClockOf(o, p), 9, t, ClockOf(o, q))
  BY <1>1, <1>8, DateUp, 1 + 8 = 9
<1>10. QED
  BY <1>1, <1>9, ClockUp DEF q

(* Those of the time of day begin behind the date.                         *)
LEMMA HourTakes ==
  ASSUME NEW o \in Options, NEW n \in Seq(Byte), NEW p \in Pieces(o), NEW t \in Of(2)
  PROVE  LET q == [p EXCEPT !.hour = t]
         IN  q \in Pieces(o) /\ Takes(Built(o, n, p), BeforeLen(o), t, Built(o, n, q))
<1> DEFINE q == [p EXCEPT !.hour = t]
<1>1. /\ q \in Pieces(o) /\ q.hour = t
      /\ q.year = p.year /\ q.month = p.month /\ q.day = p.day /\ q.minute = p.minute /\ q.second = p.second
      /\ q.frac = p.frac /\ q.tid = p.tid /\ q.lvl = p.lvl
  BY Exchanged DEF Pieces
<1> HIDE DEF q
<1>2. /\ p.year \in Of(4) /\ p.month \in Of(2) /\ p.day \in Of(2) /\ p.hour \in Of(2)
      /\ p.minute \in Of(2) /\ p.second \in Of(2) /\ p.frac \in Of(o.precision) /\ p.tid \in Of(6)
      /\ p.lvl \in Of(3)
  BY PieceFields
<1>3. Takes(p.hour, 0, t, t)
  BY <1>2, TakesWhole
<1>4. Text(":") \in Seq(Byte) /\ p.minute \in Seq(Byte) /\ p.second \in Seq(Byte)
  BY <1>2, Texts, OfSeq
<1> DEFINE k == BeforeLen(o)
           b == Before(o, p)
<1>5. k \in Nat /\ b \in Of(k) /\ b = Before(o, q)
  BY <1>1, BuiltIs, LengthsAre DEF Before, DateOf
<1> HIDE DEF k, b
<1>6. b \in Of(k + 0)
  BY <1>5
<1>7. k + 0 \in Nat /\ k + 0 + 0 = k + 0
  BY <1>5
<1>8. Takes(b \o p.hour, k + 0, t, b \o t)
  BY <1>3, <1>6, <1>7, TakesBehind
<1>9. Takes(b \o p.hour \o Text(":") \o p.minute \o Text(":") \o p.second,
            k + 0, t,
            b \o t \o Text(":") \o p.minute \o Text(":") \o p.second)
  BY <1>4, <1>8, TakesFirst4
<1>10. Takes(ClockOf(o, p), k + 0, t, ClockOf(o, q))
  BY <1>1, <1>5, <1>9 DEF ClockOf, b
<1>11. Takes(Built(o, n, p), k + 0, t, Built(o, n, q))
  BY <1>1, <1>10, ClockUp
<1>12. k + 0 = k
  BY <1>5
<1>13. QED
  BY <1>1, <1>11, <1>12 DEF q, k

(* See HourTakes.                                                          *)
LEMMA MinuteTakes ==
  ASSUME NEW o \in Options, NEW n \in Seq(Byte), NEW p \in Pieces(o), NEW t \in Of(2)
  PROVE  LET q == [p EXCEPT !.minute = t]
         IN  q \in Pieces(o) /\ Takes(Built(o, n, p), BeforeLen(o) + 3, t, Built(o, n, q))
<1> DEFINE q == [p EXCEPT !.minute = t]
<1>1. /\ q \in Pieces(o) /\ q.minute = t
      /\ q.year = p.year /\ q.month = p.month /\ q.day = p.day /\ q.hour = p.hour /\ q.second = p.second
      /\ q.frac = p.frac /\ q.tid = p.tid /\ q.lvl = p.lvl
  BY Exchanged DEF Pieces
<1> HIDE DEF q
<1>2. /\ p.year \in Of(4) /\ p.month \in Of(2) /\ p.day \in Of(2) /\ p.hour \in Of(2)
      /\ p.minute \in Of(2) /\ p.second \in Of(2) /\ p.frac \in Of(o.precision) /\ p.tid \in Of(6)
      /\ p.lvl \in Of(3)
  BY PieceFields
<1>3. Takes(p.minute, 0, t, t)
  BY <1>2, TakesWhole
<1>4. Text(":") \in Seq(Byte) /\ p.second \in Seq(Byte)
  BY <1>2, Texts, OfSeq
<1> DEFINE k == BeforeLen(o)
           b == Before(o, p)
<1>5. k \in Nat /\ b \in Of(k) /\ b = Before(o, q)
  BY <1>1, BuiltIs, LengthsAre DEF Before, DateOf
<1> HIDE DEF k, b
<1>6. b \o p.hour \o Text(":") \in Of(k + 3)
  <2>1. b \o p.hour \in Of(k + 2)
    <3>1. b \in Of(k) /\ p.hour \in Of(2)
      BY <1>2, <1>5, Texts
    <3>2. k \in Nat
      BY <1>5
    <3>3. QED
      BY <3>1, <3>2, JoinOf
  <2>2. b \o p.hour \o Text(":") \in Of(k + 3)
    <3>1. b \o p.hour \in Of(k + 2) /\ Text(":") \in Of(1)
      BY <1>2, <2>1, Texts
    <3>2. k + 2 \in Nat /\ k + 2 + 1 = k + 3
      BY <1>5
    <3>3. QED
      BY <3>1, <3>2, JoinOf
  <2>3. QED
    BY <2>2
<1>7. k + 3 \in Nat /\ k + 3 + 0 = k + 3
  BY <1>5
<1>8. Takes(b \o p.hour \o Text(":") \o p.minute, k + 3, t, b \o p.hour \o Text(":") \o t)
  BY <1>3, <1>6, <1>7, TakesBehind
<1>9. Takes(b \o p.hour \o Text(":") \o p.minute \o Text(":") \o p.second,
            k + 3, t,
            b \o p.hour \o Text(":") \o t \o Text(":") \o p.second)
  BY <1>4, <1>8, TakesFirst2
<1>10. Takes(ClockOf(o, p), k + 3, t, ClockOf(o, q))
  BY <1>1, <1>5, <1>9 DEF ClockOf, b
<1>11. Takes(Built(o, n, p), k + 3, t, Built(o, n, q))
  BY <1>1, <1>10, ClockUp
<1>12. QED
  BY <1>1, <1>11 DEF q, k

(* See HourTakes.                                                          *)
LEMMA SecondTakes ==
  ASSUME NEW o \in Options, NEW n \in Seq(Byte), NEW p \in Pieces(o), NEW t \in Of(2)
  PROVE  LET q == [p EXCEPT !.second = t]
         IN  q \in Pieces(o) /\ Takes(Built(o, n, p), BeforeLen(o) + 6, t, Built(o, n, q))
<1> DEFINE q == [p EXCEPT !.second = t]
<1>1. /\ q \in Pieces(o) /\ q.second = t
      /\ q.year = p.year /\ q.month = p.month /\ q.day = p.day /\ q.hour = p.hour /\ q.minute = p.minute
      /\ q.frac = p.frac /\ q.tid = p.tid /\ q.lvl = p.lvl
  BY Exchanged DEF Pieces
<1> HIDE DEF q
<1>2. /\ p.year \in Of(4) /\ p.month \in Of(2) /\ p.day \in Of(2) /\ p.hour \in Of(2)
      /\ p.minute \in Of(2) /\ p.second \in Of(2) /\ p.frac \in Of(o.precision) /\ p.tid \in Of(6)
      /\ p.lvl \in Of(3)
  BY PieceFields
<1>3. Takes(p.second, 0, t, t)
  BY <1>2, TakesWhole
<1> DEFINE k == BeforeLen(o)
           b == Before(o, p)
<1>5. k \in Nat /\ b \in Of(k) /\ b = Before(o, q)
  BY <1>1, BuiltIs, LengthsAre DEF Before, DateOf
<1> HIDE DEF k, b
<1>6. b \o p.hour \o Text(":") \o p.minute \o Text(":") \in Of(k + 6)
  <2>1. b \o p.hour \in Of(k + 2)
    <3>1. b \in Of(k) /\ p.hour \in Of(2)
      BY <1>2, <1>5, Texts
    <3>2. k \in Nat
      BY <1>5
    <3>3. QED
      BY <3>1, <3>2, JoinOf
  <2>2. b \o p.hour \o Text(":") \in Of(k + 3)
    <3>1. b \o p.hour \in Of(k + 2) /\ Text(":") \in Of(1)
      BY <1>2, <2>1, Texts
    <3>2. k + 2 \in Nat /\ k + 2 + 1 = k + 3
      BY <1>5
    <3>3. QED
      BY <3>1, <3>2, JoinOf
  <2>3. b \o p.hour \o Text(":") \o p.minute \in Of(k + 5)
    <3>1. b \o p.hour \o Text(":") \in Of(k + 3) /\ p.minute \in Of(2)
      BY <1>2, <2>2, Texts
    <3>2. k + 3 \in Nat /\ k + 3 + 2 = k + 5
      BY <1>5
    <3>3. QED
      BY <3>1, <3>2, JoinOf
  <2>4. b \o p.hour \o Text(":") \o p.minute \o Text(":") \in Of(k + 6)
    <3>1. b \o p.hour \o Text(":") \o p.minute \in Of(k + 5) /\ Text(":") \in Of(1)
      BY <1>2, <2>3, Texts
    <3>2. k + 5 \in Nat /\ k + 5 + 1 = k + 6
      BY <1>5
    <3>3. QED
      BY <3>1, <3>2, JoinOf
  <2>5. QED
    BY <2>4
<1>7. k + 6 \in Nat /\ k + 6 + 0 = k + 6
  BY <1>5
<1>8. Takes(b \o p.hour \o Text(":") \o p.minute \o Text(":") \o p.second,
            k + 6, t,
            b \o p.hour \o Text(":") \o p.minute \o Text(":") \o t)
  BY <1>3, <1>6, <1>7, TakesBehind
<1>10. Takes(ClockOf(o, p), k + 6, t, ClockOf(o, q))
  BY <1>1, <1>5, <1>8 DEF ClockOf, b
<1>11. Takes(Built(o, n, p), k + 6, t, Built(o, n, q))
  BY <1>1, <1>10, ClockUp
<1>12. QED
  BY <1>1, <1>11 DEF q, k

(* The fraction begins behind its point, the thread behind the bracket      *)
(* after the time, the level behind all that.                               *)
LEMMA FracTakes ==
  ASSUME NEW o \in Options, o.precision # 0, NEW n \in Seq(Byte), NEW p \in Pieces(o),
         NEW t \in Of(o.precision)
  PROVE  LET q == [p EXCEPT !.frac = t]
         IN  q \in Pieces(o) /\ Takes(Built(o, n, p), ClockLen(o) + 1, t, Built(o, n, q))
<1> DEFINE q == [p EXCEPT !.frac = t]
<1>1. /\ q \in Pieces(o) /\ q.frac = t
      /\ q.year = p.year /\ q.month = p.month /\ q.day = p.day /\ q.hour = p.hour /\ q.minute = p.minute
      /\ q.second = p.second /\ q.tid = p.tid /\ q.lvl = p.lvl
  BY Exchanged DEF Pieces
<1> HIDE DEF q
<1>2. Takes(p.frac, 0, t, t)
  <2>1. p.frac \in Of(o.precision) /\ o.precision \in Nat
    BY PieceFields, OptionsAre
  <2>2. QED
    BY <2>1, TakesWhole
<1>3. Text(".") \in Of(1) /\ Text("]") \in Seq(Byte) /\ Text("space") \in Seq(Byte)
  BY Texts, OfSeq
<1>4. Takes(Text(".") \o p.frac, 1 + 0, t, Text(".") \o t)
  BY <1>2, <1>3, TakesBehind
<1>5. Takes(PointOf(o, p), 1, t, PointOf(o, q))
  BY <1>1, <1>4, 1 + 0 = 1 DEF PointOf
<1> DEFINE k == ClockLen(o)
           c == ClockOf(o, p)
<1>6. k \in Nat /\ c \in Of(k)
  BY BuiltIs, LengthsAre
<1>7. c = ClockOf(o, q)
  BY <1>1 DEF ClockOf, Before, DateOf
<1> HIDE DEF k, c
<1>8. Takes(c \o PointOf(o, p), k + 1, t, c \o PointOf(o, q))
  BY <1>5, <1>6, TakesBehind
<1>9. Takes(c \o PointOf(o, p) \o Text("]") \o Text("space"), k + 1, t,
            c \o PointOf(o, q) \o Text("]") \o Text("space"))
  BY <1>3, <1>8, TakesFirst2
<1>10. TimeOf(o, p) = c \o PointOf(o, p) \o Text("]") \o Text("space")
  BY DEF TimeOf, c
<1>11. TimeOf(o, q) = c \o PointOf(o, q) \o Text("]") \o Text("space")
  BY <1>7 DEF TimeOf
<1>12. Takes(TimeOf(o, p), k + 1, t, TimeOf(o, q))
  BY <1>9, <1>10, <1>11
<1>13. Takes(Built(o, n, p), k + 1, t, Built(o, n, q))
  BY <1>1, <1>12, TimeUp
<1>14. QED
  BY <1>1, <1>13 DEF q, k

(* See FracTakes.                                                           *)
LEMMA TidTakes ==
  ASSUME NEW o \in Options, o.show_thread_id, NEW n \in Seq(Byte), NEW p \in Pieces(o), NEW t \in Of(6)
  PROVE  LET q == [p EXCEPT !.tid = t]
         IN  q \in Pieces(o) /\ Takes(Built(o, n, p), TimeLen(o) + 1, t, Built(o, n, q))
<1> DEFINE q == [p EXCEPT !.tid = t]
<1>1. /\ q \in Pieces(o) /\ q.tid = t
      /\ q.year = p.year /\ q.month = p.month /\ q.day = p.day /\ q.hour = p.hour /\ q.minute = p.minute
      /\ q.second = p.second /\ q.frac = p.frac /\ q.lvl = p.lvl
  BY Exchanged DEF Pieces
<1> HIDE DEF q
<1>2. Takes(p.tid, 0, t, t)
  <2>1. p.tid \in Of(6)
    BY PieceFields
  <2>2. QED
    BY <2>1, TakesWhole
<1>3. /\ Text("[") \in Of(1) /\ Text("[") \in Seq(Byte) /\ Text("]") \in Seq(Byte)
      /\ Text("space") \in Seq(Byte) /\ WhoOf(n) \in Seq(Byte)
  BY Texts, OfSeq, BuiltIs
<1>4. Takes(Text("[") \o p.tid, 1 + 0, t, Text("[") \o t)
  BY <1>2, <1>3, TakesBehind
<1>5. Takes(Text("[") \o p.tid \o Text("]") \o Text("space"),
            1 + 0, t,
            Text("[") \o t \o Text("]") \o Text("space"))
  BY <1>3, <1>4, TakesFirst2
<1>6. Takes(ThreadOf(o, p), 1, t, ThreadOf(o, q))
  BY <1>1, <1>5, 1 + 0 = 1 DEF ThreadOf, Bracketed
<1> DEFINE k == TimeLen(o)
           c == TimeOf(o, p)
<1>7. k \in Nat /\ c \in Of(k)
  BY BuiltIs, LengthsAre
<1>8. c = TimeOf(o, q)
  BY <1>1 DEF TimeOf, PointOf, ClockOf, Before, DateOf
<1> HIDE DEF k, c
<1>9. Takes(c \o ThreadOf(o, p), k + 1, t, c \o ThreadOf(o, q))
  BY <1>6, <1>7, TakesBehind
<1>10. Takes(c \o ThreadOf(o, p) \o WhoOf(n) \o Text("["), k + 1, t,
             c \o ThreadOf(o, q) \o WhoOf(n) \o Text("["))
  BY <1>3, <1>9, TakesFirst2
<1>11. OpenOf(o, n, p) = c \o ThreadOf(o, p) \o WhoOf(n) \o Text("[")
  BY DEF OpenOf, c
<1>12. OpenOf(o, n, q) = c \o ThreadOf(o, q) \o WhoOf(n) \o Text("[")
  BY <1>8 DEF OpenOf
<1>13. Takes(OpenOf(o, n, p), k + 1, t, OpenOf(o, n, q))
  BY <1>10, <1>11, <1>12
<1>14. Takes(Built(o, n, p), k + 1, t, Built(o, n, q))
  BY <1>1, <1>13, OpenUp
<1>15. QED
  BY <1>1, <1>14 DEF q, k

(* See FracTakes.                                                           *)
LEMMA LvlTakes ==
  ASSUME NEW o \in Options, NEW n \in Seq(Byte), NEW p \in Pieces(o), NEW t \in Of(3)
  PROVE  LET q == [p EXCEPT !.lvl = t]
         IN  q \in Pieces(o) /\ Takes(Built(o, n, p), OpenLen(o, n), t, Built(o, n, q))
<1> DEFINE q == [p EXCEPT !.lvl = t]
<1>1. /\ q \in Pieces(o) /\ q.lvl = t
      /\ q.year = p.year /\ q.month = p.month /\ q.day = p.day /\ q.hour = p.hour /\ q.minute = p.minute
      /\ q.second = p.second /\ q.frac = p.frac /\ q.tid = p.tid
  BY Exchanged DEF Pieces
<1> HIDE DEF q
<1>2. Takes(p.lvl, 0, t, t)
  <2>1. p.lvl \in Of(3)
    BY PieceFields
  <2>2. QED
    BY <2>1, TakesWhole
<1>3. Text("]") \in Seq(Byte) /\ Text("space") \in Seq(Byte)
  BY Texts, OfSeq
<1> DEFINE k == OpenLen(o, n)
           c == OpenOf(o, n, p)
<1>4. k \in Nat /\ c \in Of(k)
  BY BuiltIs, LengthsAre
<1>5. c = OpenOf(o, n, q)
  BY <1>1 DEF OpenOf, ThreadOf, TimeOf, PointOf, ClockOf, Before, DateOf
<1> HIDE DEF k, c
<1>6. k + 0 = k
  BY <1>4
<1>7. Takes(c \o p.lvl, k, t, c \o t)
  <2>1. Takes(c \o p.lvl, k + 0, t, c \o t)
    BY <1>2, <1>4, TakesBehind
  <2>2. QED
    BY <1>6, <2>1
<1>8. Takes(c \o p.lvl \o Text("]") \o Text("space"), k, t, c \o t \o Text("]") \o Text("space"))
  BY <1>3, <1>7, TakesFirst2
<1>9. Built(o, n, p) = c \o p.lvl \o Text("]") \o Text("space")
  BY DEF Built, c
<1>10. Built(o, n, q) = c \o t \o Text("]") \o Text("space")
  BY <1>1, <1>5 DEF Built
<1>11. QED
  BY <1>1, <1>8, <1>9, <1>10 DEF q, k

-----------------------------------------------------------------------------
(* A formatter, whatever the offsets of the fields that are off.            *)
Formatter ==
  [opts : Options, header : Seq(Byte), frac_offset : Nat, tid_offset : Nat,
   level_offset : Nat, last_secs : Nat]

Message == [secs : Nat, frac : Nat, tid : Nat, lvl : 0 .. 6, len : Nat]

(* p shows the second.                                                      *)
ClockShows(o, p, secs) ==
  LET v == Civil(o, secs)
  IN  /\ o.show_date => /\ p.year = Field("year", 4, v) /\ p.month = Field("month", 2, v)
                        /\ p.day = Field("day", 2, v)
      /\ p.hour = Field("hour", 2, v) /\ p.minute = Field("minute", 2, v)
      /\ p.second = Field("second", 2, v)

(* p shows the message.                                                     *)
Shows(o, p, m) ==
  /\ ClockShows(o, p, m.secs)
  /\ o.precision # 0 => p.frac = Field("frac", o.precision, m.frac)
  /\ o.show_thread_id => p.tid = Field("tid", 6, m.tid)
  /\ p.lvl = Tag(m.lvl)

(* The header is a layout for the name with the second it was rebuilt for,  *)
(* and the offsets that are used are those of its fields.                   *)
Offsets(f, n) ==
  /\ f.opts.precision # 0 => f.frac_offset = ClockLen(f.opts) + 1
  /\ f.opts.show_thread_id => f.tid_offset = TimeLen(f.opts) + 1
  /\ f.level_offset = OpenLen(f.opts, n)

Laid(f, n) ==
  /\ \E p \in Pieces(f.opts) : /\ f.header = Built(f.opts, n, p)
                               /\ f.last_secs # 0 => ClockShows(f.opts, p, f.last_secs)
  /\ Offsets(f, n)

Blank(o) ==
  [year |-> Zeros(4), month |-> Zeros(2), day |-> Zeros(2), hour |-> Zeros(2), minute |-> Zeros(2),
   second |-> Zeros(2), frac |-> Zeros(o.precision), tid |-> Zeros(6), lvl |-> Tag(info)]

(* The tag of a level, and the other fields.                                *)
LEMMA TagIs ==
  ASSUME NEW lvl \in Nat
  PROVE  Tag(lvl) \in Of(3)
<1>1. "level" \in Words
  BY DEF Words
<1>2. QED
  BY <1>1, FieldIs DEF Tag, level_width

(* The fields of a time, of the fraction and of the thread.                *)
LEMMA ClockFields ==
  ASSUME NEW v \in Nat
  PROVE  /\ Field("year", 4, v) \in Of(4) /\ Field("month", 2, v) \in Of(2) /\ Field("day", 2, v) \in Of(2)
         /\ Field("hour", 2, v) \in Of(2) /\ Field("minute", 2, v) \in Of(2) /\ Field("second", 2, v) \in Of(2)
         /\ Field("tid", 6, v) \in Of(6)
         /\ \A k \in Nat : Field("frac", k, v) \in Of(k)
<1>1. /\ "year" \in Words /\ "month" \in Words /\ "day" \in Words /\ "hour" \in Words
      /\ "minute" \in Words /\ "second" \in Words /\ "tid" \in Words /\ "frac" \in Words
  BY DEF Words
<1>2. QED
  BY <1>1, FieldIs

(* A rebuild lays the header out, with placeholders.                        *)
LEMMA BlankIs ==
  ASSUME NEW o \in Options
  PROVE  Blank(o) \in Pieces(o)
<1>1. /\ Zeros(4) \in Of(4) /\ Zeros(2) \in Of(2) /\ Zeros(o.precision) \in Of(o.precision)
      /\ Zeros(6) \in Of(6)
  BY ZerosAre, OptionsAre
<1>2. Tag(info) \in Of(3)
  BY TagIs DEF info
<1>3. QED
  BY <1>1, <1>2 DEF Blank, Pieces, level_width

(* See BlankIs.                                                            *)
LEMMA RebuildLays ==
  ASSUME NEW f \in Formatter, NEW n \in Seq(Byte)
  PROVE  /\ rebuild_header(f, n) \in Formatter /\ rebuild_header(f, n).opts = f.opts
         /\ rebuild_header(f, n).last_secs = 0 /\ Laid(rebuild_header(f, n), n)
<1> DEFINE o == f.opts
           p == Blank(o)
           g == rebuild_header(f, n)
<1>1. o \in Options /\ p \in Pieces(o)
  BY BlankIs DEF Formatter
<1>2. Len(ClockOf(o, p)) = ClockLen(o) /\ Len(TimeOf(o, p)) = TimeLen(o)
      /\ Len(OpenOf(o, n, p)) = OpenLen(o, n) /\ Built(o, n, p) \in Seq(Byte)
  BY <1>1, BuiltIs, OfSeq
<1>3. /\ p.year = Zeros(4) /\ p.month = Zeros(2) /\ p.day = Zeros(2) /\ p.hour = Zeros(2)
      /\ p.minute = Zeros(2) /\ p.second = Zeros(2) /\ p.frac = Zeros(o.precision)
      /\ p.tid = Zeros(6) /\ p.lvl = Tag(info)
  BY DEF Blank
<1> DEFINE date  == Zeros(4) \o Text("-") \o Zeros(2) \o Text("-") \o Zeros(2) \o Text("space")
           clock == Text("[") \o (IF o.show_date THEN date ELSE <<>>)
                    \o Zeros(2) \o Text(":") \o Zeros(2) \o Text(":") \o Zeros(2)
           point == IF o.precision # 0 THEN Text(".") \o Zeros(o.precision) ELSE <<>>
           time  == clock \o point \o Text("]") \o Text("space")
           tid   == IF o.show_thread_id
                    THEN Text("[") \o Zeros(6) \o Text("]") \o Text("space") ELSE <<>>
           who   == IF n # <<>> THEN Text("[") \o n \o Text("]") \o Text("space") ELSE <<>>
           open  == time \o tid \o who \o Text("[")
           built == open \o Tag(info) \o Text("]") \o Text("space")
           frac_at == IF o.precision # 0 THEN Len(clock) + 1 ELSE f.frac_offset
           tid_at  == IF o.show_thread_id THEN Len(time) + 1 ELSE f.tid_offset
<1>4. g = [f EXCEPT !.header = built, !.frac_offset = frac_at, !.tid_offset = tid_at,
                    !.level_offset = Len(open), !.last_secs = 0]
  BY DEF rebuild_header
<1> HIDE DEF p, g
<1>5. date = DateOf(p)
  BY <1>3 DEF DateOf
<1> HIDE DEF date
<1>6. clock = ClockOf(o, p)
  BY <1>3, <1>5 DEF ClockOf, Before
<1>7. point = PointOf(o, p)
  BY <1>3 DEF PointOf
<1> HIDE DEF clock, point
<1>8. time = TimeOf(o, p)
  BY <1>6, <1>7 DEF TimeOf
<1>9. tid = ThreadOf(o, p)
  BY <1>3 DEF ThreadOf, Bracketed
<1>10. who = WhoOf(n)
  BY DEF WhoOf, Bracketed
<1> HIDE DEF time, tid, who
<1>11. open = OpenOf(o, n, p)
  BY <1>8, <1>9, <1>10 DEF OpenOf
<1> HIDE DEF open
<1>12. built = Built(o, n, p)
  BY <1>3, <1>11 DEF Built
<1>13. ClockLen(o) \in Nat /\ TimeLen(o) \in Nat /\ OpenLen(o, n) \in Nat
  BY <1>1, LengthsAre
<1>14. frac_at \in Nat /\ (o.precision # 0 => frac_at = ClockLen(o) + 1)
  BY <1>2, <1>6, <1>13 DEF Formatter
<1>15. tid_at \in Nat /\ (o.show_thread_id => tid_at = TimeLen(o) + 1)
  BY <1>2, <1>8, <1>13 DEF Formatter
<1>16. Len(open) = OpenLen(o, n)
  BY <1>2, <1>11
<1> HIDE DEF built, frac_at, tid_at
<1>17. /\ g \in Formatter /\ g.opts = o /\ g.header = built /\ g.last_secs = 0
       /\ g.frac_offset = frac_at /\ g.tid_offset = tid_at /\ g.level_offset = Len(open)
  <2>1. built \in Seq(Byte) /\ Len(open) \in Nat /\ 0 \in Nat
    BY <1>2, <1>12, <1>13, <1>16
  <2>2. QED
    BY <2>1, <1>4, <1>14, <1>15 DEF Formatter
<1>18. Laid(g, n)
  <2>1. Offsets(g, n)
    BY <1>14, <1>15, <1>16, <1>17 DEF Offsets
  <2>2. g.header = Built(o, n, p)
    BY <1>12, <1>17
  <2>3. QED
    BY <1>1, <1>17, <2>1, <2>2 DEF Laid
<1>19. QED
  BY <1>17, <1>18 DEF g

(* A new formatter is laid out.                                            *)
LEMMA NewFormatterLays ==
  ASSUME NEW o \in Options, NEW n \in Seq(Byte)
  PROVE  /\ NewFormatter(n, o) \in Formatter /\ NewFormatter(n, o).opts = o
         /\ NewFormatter(n, o).last_secs = 0 /\ Laid(NewFormatter(n, o), n)
<1> DEFINE f == [opts |-> o, header |-> <<>>, frac_offset |-> 0, tid_offset |-> 0,
                 level_offset |-> 0, last_secs |-> 0]
<1>1. <<>> \in Seq(Byte)
  BY EmptySeq
<1>2. f \in Formatter /\ f.opts = o
  BY <1>1 DEF Formatter
<1>3. NewFormatter(n, o) = rebuild_header(f, n)
  BY DEF NewFormatter
<1> HIDE DEF f
<1>4. QED
  BY <1>2, <1>3, RebuildLays

(* A patch of the header that takes makes the header of the new pieces.     *)
LEMMA TakesIs ==
  ASSUME NEW x, NEW off, NEW t, NEW p, Takes(x, off, t, p)
  PROVE  Patched(x, off, t) = p
BY DEF Takes

(* With the date of v, if the date is shown.                                *)
LEMMA Dated ==
  ASSUME NEW o \in Options, o.show_date, NEW n \in Seq(Byte), NEW p \in Pieces(o), NEW v \in Nat
  PROVE  \E q \in Pieces(o) :
           /\ q.year = Field("year", 4, v) /\ q.month = Field("month", 2, v) /\ q.day = Field("day", 2, v)
           /\ Patched(Patched(Patched(Built(o, n, p), 1, Field("year", 4, v)),
                              6, Field("month", 2, v)), 9, Field("day", 2, v)) = Built(o, n, q)
<1> DEFINE y == Field("year", 4, v)
           m == Field("month", 2, v)
           d == Field("day", 2, v)
           p1 == [p EXCEPT !.year = y]
           p2 == [p1 EXCEPT !.month = m]
           p3 == [p2 EXCEPT !.day = d]
<1>1. y \in Of(4) /\ m \in Of(2) /\ d \in Of(2)
  BY ClockFields
<1> HIDE DEF y, m, d
<1>2. p1 \in Pieces(o) /\ Patched(Built(o, n, p), 1, y) = Built(o, n, p1)
  <2>1. p \in Pieces(o) /\ y \in Of(4)
    BY <1>1
  <2>2. p1 \in Pieces(o) /\ Takes(Built(o, n, p), 1, y, Built(o, n, p1))
    BY <2>1, YearTakes
  <2>3. QED
    BY <2>2, TakesIs
<1>3. p1.year = y
  BY DEF Pieces
<1> HIDE DEF p1
<1>4. p2 \in Pieces(o) /\ Patched(Built(o, n, p1), 6, m) = Built(o, n, p2)
  <2>1. p1 \in Pieces(o) /\ m \in Of(2)
    BY <1>1, <1>2
  <2>2. p2 \in Pieces(o) /\ Takes(Built(o, n, p1), 6, m, Built(o, n, p2))
    BY <2>1, MonthTakes
  <2>3. QED
    BY <2>2, TakesIs
<1>5. p2.year = y /\ p2.month = m
  BY <1>2, <1>3 DEF Pieces
<1> HIDE DEF p2
<1>6. p3 \in Pieces(o) /\ Patched(Built(o, n, p2), 9, d) = Built(o, n, p3)
  <2>1. p2 \in Pieces(o) /\ d \in Of(2)
    BY <1>1, <1>4
  <2>2. p3 \in Pieces(o) /\ Takes(Built(o, n, p2), 9, d, Built(o, n, p3))
    BY <2>1, DayTakes
  <2>3. QED
    BY <2>2, TakesIs
<1>7. p3.year = y /\ p3.month = m /\ p3.day = d
  BY <1>4, <1>5 DEF Pieces
<1> HIDE DEF p3
<1>8. Patched(Patched(Patched(Built(o, n, p), 1, y), 6, m), 9, d) = Built(o, n, p3)
  BY <1>2, <1>4, <1>6
<1>9. QED
  BY <1>6, <1>7, <1>8 DEF y, m, d

(* With the time of day of v.                                               *)
LEMMA Clocked ==
  ASSUME NEW o \in Options, NEW n \in Seq(Byte), NEW p \in Pieces(o), NEW v \in Nat, NEW k,
         k = BeforeLen(o)
  PROVE  \E q \in Pieces(o) :
           /\ q.year = p.year /\ q.month = p.month /\ q.day = p.day
           /\ q.hour = Field("hour", 2, v) /\ q.minute = Field("minute", 2, v)
           /\ q.second = Field("second", 2, v)
           /\ Patched(Patched(Patched(Built(o, n, p), k, Field("hour", 2, v)),
                              k + 3, Field("minute", 2, v)), k + 6, Field("second", 2, v))
              = Built(o, n, q)
<1> DEFINE h == Field("hour", 2, v)
           m == Field("minute", 2, v)
           s == Field("second", 2, v)
           p1 == [p EXCEPT !.hour = h]
           p2 == [p1 EXCEPT !.minute = m]
           p3 == [p2 EXCEPT !.second = s]
<1>1. h \in Of(2) /\ m \in Of(2) /\ s \in Of(2)
  BY ClockFields
<1> HIDE DEF h, m, s
<1>2. p1 \in Pieces(o) /\ Patched(Built(o, n, p), k, h) = Built(o, n, p1)
  <2>1. p \in Pieces(o) /\ h \in Of(2)
    BY <1>1
  <2>2. p1 \in Pieces(o) /\ Takes(Built(o, n, p), k, h, Built(o, n, p1))
    BY <2>1, HourTakes
  <2>3. QED
    BY <2>2, TakesIs
<1>3. /\ p1.year = p.year /\ p1.month = p.month /\ p1.day = p.day
      /\ p1.hour = h
  BY DEF Pieces
<1> HIDE DEF p1
<1>4. p2 \in Pieces(o) /\ Patched(Built(o, n, p1), k + 3, m) = Built(o, n, p2)
  <2>1. p1 \in Pieces(o) /\ m \in Of(2)
    BY <1>1, <1>2
  <2>2. p2 \in Pieces(o) /\ Takes(Built(o, n, p1), k + 3, m, Built(o, n, p2))
    BY <2>1, MinuteTakes
  <2>3. QED
    BY <2>2, TakesIs
<1>5. /\ p2.year = p.year /\ p2.month = p.month /\ p2.day = p.day
      /\ p2.hour = h /\ p2.minute = m
  BY <1>2, <1>3 DEF Pieces
<1> HIDE DEF p2
<1>6. p3 \in Pieces(o) /\ Patched(Built(o, n, p2), k + 6, s) = Built(o, n, p3)
  <2>1. p2 \in Pieces(o) /\ s \in Of(2)
    BY <1>1, <1>4
  <2>2. p3 \in Pieces(o) /\ Takes(Built(o, n, p2), k + 6, s, Built(o, n, p3))
    BY <2>1, SecondTakes
  <2>3. QED
    BY <2>2, TakesIs
<1>7. /\ p3.year = p.year /\ p3.month = p.month /\ p3.day = p.day
      /\ p3.hour = h /\ p3.minute = m /\ p3.second = s
  BY <1>4, <1>5 DEF Pieces
<1> HIDE DEF p3
<1>8. Patched(Patched(Patched(Built(o, n, p), k, h), k + 3, m), k + 6, s) = Built(o, n, p3)
  BY <1>2, <1>4, <1>6
<1>9. QED
  BY <1>6, <1>7, <1>8 DEF h, m, s

(* Local time is a time.                                                   *)
LEMMA CivilIs ==
  ASSUME NEW o, NEW secs \in Nat
  PROVE  Civil(o, secs) \in Nat
BY Constants DEF Civil

(* A new second rewrites the date and the time.                             *)
LEMMA TimestampIs ==
  ASSUME NEW f \in Formatter, NEW n \in Seq(Byte), NEW p \in Pieces(f.opts),
         f.header = Built(f.opts, n, p), NEW secs \in Nat
  PROVE  \E q \in Pieces(f.opts) :
           /\ ClockShows(f.opts, q, secs)
           /\ rebuild_timestamp(f, secs) = Built(f.opts, n, q)
<1> DEFINE o == f.opts
           v == Civil(o, secs)
           k == BeforeLen(o)
           dated == Patched(Patched(Patched(f.header, 1, Field("year", 4, v)),
                                    6, Field("month", 2, v)), 9, Field("day", 2, v))
           base == IF o.show_date THEN dated ELSE f.header
<1>1. o \in Options /\ v \in Nat
  BY CivilIs DEF Formatter
<1>2. rebuild_timestamp(f, secs) =
        Patched(Patched(Patched(base, k, Field("hour", 2, v)), k + 3, Field("minute", 2, v)),
                k + 6, Field("second", 2, v))
  BY DEF rebuild_timestamp, BeforeLen
<1>3. f.header = Built(o, n, p) /\ p \in Pieces(o)
  OBVIOUS
<1> HIDE DEF o, v
<1>4. \E q \in Pieces(o) :
        /\ o.show_date => /\ q.year = Field("year", 4, v) /\ q.month = Field("month", 2, v)
                          /\ q.day = Field("day", 2, v)
        /\ base = Built(o, n, q)
  <2>1. CASE o.show_date
    BY <1>1, <1>3, <2>1, Dated
  <2>2. CASE ~o.show_date
    BY <1>3, <2>2
  <2>3. QED
    BY <2>1, <2>2
<1> HIDE DEF k, base
<1>5. PICK q \in Pieces(o) :
        /\ o.show_date => /\ q.year = Field("year", 4, v) /\ q.month = Field("month", 2, v)
                          /\ q.day = Field("day", 2, v)
        /\ base = Built(o, n, q)
  BY <1>4
<1>6. k = BeforeLen(o)
  BY DEF k
<1>7. PICK r \in Pieces(o) :
        /\ r.year = q.year /\ r.month = q.month /\ r.day = q.day
        /\ r.hour = Field("hour", 2, v) /\ r.minute = Field("minute", 2, v)
        /\ r.second = Field("second", 2, v)
        /\ Patched(Patched(Patched(base, k, Field("hour", 2, v)), k + 3, Field("minute", 2, v)),
                   k + 6, Field("second", 2, v)) = Built(o, n, r)
  BY <1>1, <1>5, <1>6, Clocked
<1>8. rebuild_timestamp(f, secs) = Built(o, n, r)
  BY <1>2, <1>7 DEF v
<1>9. ClockShows(o, r, secs)
  BY <1>5, <1>7 DEF ClockShows, v
<1>10. QED
  BY <1>8, <1>9 DEF o

(* A stamped header is laid out as before and, but for the second 0 of the  *)
(* epoch, shows the message.                                                *)
LEMMA StampedIs ==
  ASSUME NEW f \in Formatter, NEW n \in Seq(Byte), Laid(f, n), NEW m \in Message
  PROVE  /\ Stamped(f, m) \in Formatter /\ Stamped(f, m).opts = f.opts
         /\ Stamped(f, m).last_secs = m.secs /\ Laid(Stamped(f, m), n)
         /\ m.secs # 0 => \E p \in Pieces(f.opts) : /\ Stamped(f, m).header = Built(f.opts, n, p)
                                                    /\ Shows(f.opts, p, m)
<1> DEFINE o == f.opts
           h == IF m.secs # f.last_secs THEN rebuild_timestamp(f, m.secs) ELSE f.header
           frac == IF o.precision # 0
                   THEN Patched(h, f.frac_offset, Field("frac", o.precision, m.frac)) ELSE h
           tid == IF o.show_thread_id THEN Patched(frac, f.tid_offset, Field("tid", 6, m.tid)) ELSE frac
           lvl == Patched(tid, f.level_offset, Tag(m.lvl))
           g == Stamped(f, m)
           Clock(p) == m.secs # 0 => ClockShows(o, p, m.secs)
<1>1. g = [f EXCEPT !.header = lvl, !.last_secs = m.secs]
  BY DEF Stamped
<1>2. /\ o \in Options /\ o.precision \in Nat
      /\ m.secs \in Nat /\ m.frac \in Nat /\ m.tid \in Nat /\ m.lvl \in Nat
  BY OptionsAre DEF Formatter, Message
<1>3. /\ o.precision # 0 => f.frac_offset = ClockLen(o) + 1
      /\ o.show_thread_id => f.tid_offset = TimeLen(o) + 1
      /\ f.level_offset = OpenLen(o, n)
  BY DEF Laid, Offsets
<1>4. \E p \in Pieces(o) : h = Built(o, n, p) /\ Clock(p)
  <2>1. PICK p \in Pieces(o) : /\ f.header = Built(o, n, p)
                               /\ f.last_secs # 0 => ClockShows(o, p, f.last_secs)
    BY DEF Laid
  <2>2. CASE m.secs # f.last_secs
    BY <1>2, <2>1, <2>2, TimestampIs
  <2>3. CASE m.secs = f.last_secs
    BY <2>1, <2>3
  <2>4. QED
    BY <2>2, <2>3
<1> HIDE DEF h, g
<1>5. PICK p1 \in Pieces(o) : h = Built(o, n, p1) /\ Clock(p1)
  BY <1>4
<1>6. \E p \in Pieces(o) : /\ frac = Built(o, n, p) /\ Clock(p)
                           /\ o.precision # 0 => p.frac = Field("frac", o.precision, m.frac)
  <2>1. CASE o.precision # 0
    <3> DEFINE t == Field("frac", o.precision, m.frac)
               q == [p1 EXCEPT !.frac = t]
    <3>1. t \in Of(o.precision)
      BY <1>2, ClockFields
    <3> HIDE DEF t
    <3>2. q \in Pieces(o) /\ Takes(Built(o, n, p1), ClockLen(o) + 1, t, Built(o, n, q))
      BY <1>2, <2>1, <3>1, FracTakes
    <3>3. /\ q.frac = t /\ q.year = p1.year /\ q.month = p1.month /\ q.day = p1.day
          /\ q.hour = p1.hour /\ q.minute = p1.minute /\ q.second = p1.second
      BY DEF Pieces
    <3> HIDE DEF q
    <3>4. Clock(q)
      BY <1>5, <3>3 DEF ClockShows
    <3>5. Patched(h, f.frac_offset, t) = Built(o, n, q)
      BY <1>3, <1>5, <2>1, <3>2, TakesIs
    <3>6. QED
      BY <2>1, <3>2, <3>3, <3>4, <3>5 DEF t
  <2>2. CASE o.precision = 0
    BY <1>5, <2>2
  <2>3. QED
    BY <2>1, <2>2
<1> HIDE DEF frac
<1>7. PICK p2 \in Pieces(o) : /\ frac = Built(o, n, p2) /\ Clock(p2)
                              /\ o.precision # 0 => p2.frac = Field("frac", o.precision, m.frac)
  BY <1>6
<1>8. \E p \in Pieces(o) : /\ tid = Built(o, n, p) /\ Clock(p)
                           /\ o.precision # 0 => p.frac = Field("frac", o.precision, m.frac)
                           /\ o.show_thread_id => p.tid = Field("tid", 6, m.tid)
  <2>1. CASE o.show_thread_id
    <3> DEFINE t == Field("tid", 6, m.tid)
               q == [p2 EXCEPT !.tid = t]
    <3>1. t \in Of(6)
      BY <1>2, ClockFields
    <3> HIDE DEF t
    <3>2. q \in Pieces(o) /\ Takes(Built(o, n, p2), TimeLen(o) + 1, t, Built(o, n, q))
      BY <1>2, <2>1, <3>1, TidTakes
    <3>3. /\ q.tid = t /\ q.year = p2.year /\ q.month = p2.month /\ q.day = p2.day
          /\ q.hour = p2.hour /\ q.minute = p2.minute /\ q.second = p2.second /\ q.frac = p2.frac
      BY DEF Pieces
    <3> HIDE DEF q
    <3>4. Clock(q)
      BY <1>7, <3>3 DEF ClockShows
    <3>5. Patched(frac, f.tid_offset, t) = Built(o, n, q)
      BY <1>3, <1>7, <2>1, <3>2, TakesIs
    <3>6. QED
      BY <1>7, <2>1, <3>2, <3>3, <3>4, <3>5 DEF t
  <2>2. CASE ~o.show_thread_id
    BY <1>7, <2>2
  <2>3. QED
    BY <2>1, <2>2
<1> HIDE DEF tid
<1>9. PICK p3 \in Pieces(o) : /\ tid = Built(o, n, p3) /\ Clock(p3)
                              /\ o.precision # 0 => p3.frac = Field("frac", o.precision, m.frac)
                              /\ o.show_thread_id => p3.tid = Field("tid", 6, m.tid)
  BY <1>8
<1>10. \E p \in Pieces(o) : /\ lvl = Built(o, n, p) /\ Clock(p)
                            /\ o.precision # 0 => p.frac = Field("frac", o.precision, m.frac)
                            /\ o.show_thread_id => p.tid = Field("tid", 6, m.tid)
                            /\ p.lvl = Tag(m.lvl)
  <2> DEFINE t == Tag(m.lvl)
             q == [p3 EXCEPT !.lvl = t]
  <2>1. t \in Of(3)
    BY <1>2, TagIs
  <2> HIDE DEF t
  <2>2. q \in Pieces(o) /\ Takes(Built(o, n, p3), OpenLen(o, n), t, Built(o, n, q))
    BY <1>2, <2>1, LvlTakes
  <2>3. /\ q.lvl = t /\ q.year = p3.year /\ q.month = p3.month /\ q.day = p3.day
        /\ q.hour = p3.hour /\ q.minute = p3.minute /\ q.second = p3.second /\ q.frac = p3.frac
        /\ q.tid = p3.tid
    BY DEF Pieces
  <2> HIDE DEF q
  <2>4. Clock(q)
    BY <1>9, <2>3 DEF ClockShows
  <2>5. Patched(tid, f.level_offset, t) = Built(o, n, q)
    BY <1>3, <1>9, <2>2, TakesIs
  <2>6. QED
    BY <1>9, <2>2, <2>3, <2>4, <2>5 DEF t
<1> HIDE DEF lvl
<1>11. PICK p4 \in Pieces(o) : /\ lvl = Built(o, n, p4) /\ Clock(p4)
                               /\ o.precision # 0 => p4.frac = Field("frac", o.precision, m.frac)
                               /\ o.show_thread_id => p4.tid = Field("tid", 6, m.tid)
                               /\ p4.lvl = Tag(m.lvl)
  BY <1>10
<1>12. lvl \in Seq(Byte)
  BY <1>2, <1>11, BuiltIs, OfSeq
<1>13. /\ g \in Formatter /\ g.opts = o /\ g.header = lvl /\ g.last_secs = m.secs
       /\ g.frac_offset = f.frac_offset /\ g.tid_offset = f.tid_offset /\ g.level_offset = f.level_offset
  BY <1>1, <1>2, <1>12 DEF Formatter
<1>14. Laid(g, n)
  <2>1. Offsets(g, n)
    BY <1>3, <1>13 DEF Offsets
  <2>2. QED
    BY <1>11, <1>13, <2>1 DEF Laid
<1>15. m.secs # 0 => g.header = Built(o, n, p4) /\ Shows(o, p4, m)
  BY <1>11, <1>13 DEF Shows
<1>16. QED
  BY <1>13, <1>14, <1>15 DEF g

(* Pieces behind each other, put together in another order.                 *)
LEMMA Glued ==
  ASSUME NEW x \in Seq(Byte), NEW y \in Seq(Byte), NEW z \in Seq(Byte)
  PROVE  x \o y \o z = x \o (y \o z)
OBVIOUS

(* The same for five pieces.                                               *)
LEMMA Regroup ==
  ASSUME NEW x \in Seq(Byte), NEW a \in Seq(Byte), NEW b \in Seq(Byte), NEW c \in Seq(Byte),
         NEW d \in Seq(Byte)
  PROVE  /\ x \o (a \o b \o c \o d) = x \o a \o b \o c \o d
         /\ a \o b \o c \o d \in Seq(Byte)
<1> DEFINE ab == a \o b
           abc == ab \o c
<1>1. x \o ab = x \o a \o b
  BY Glued, ZenonT(120)
<1>2. ab \in Seq(Byte)
  BY Join
<1> HIDE DEF ab
<1>3. x \o abc = x \o ab \o c
  BY <1>2, Glued, ZenonT(120)
<1>4. abc \in Seq(Byte)
  BY <1>2, Join
<1> HIDE DEF abc
<1>5. x \o (abc \o d) = x \o abc \o d
  BY <1>4, Glued, ZenonT(120)
<1>6. abc \o d \in Seq(Byte)
  BY <1>4, Join
<1>7. x \o (abc \o d) = x \o a \o b \o c \o d
  BY <1>1, <1>3, <1>5, Zenon
<1>8. QED
  BY <1>6, <1>7 DEF abc, ab

(* Something in brackets behind something else.                             *)
LEMMA BracketedBehind ==
  ASSUME NEW x \in Seq(Byte), NEW a \in Seq(Byte)
  PROVE  x \o Bracketed(a) = x \o Text("[") \o a \o Text("]") \o Text("space")
<1> DEFINE L == Text("[")
           R == Text("]")
           S == Text("space")
           la == L \o a
           lar == la \o R
<1>1. L \in Seq(Byte) /\ R \in Seq(Byte) /\ S \in Seq(Byte)
  BY Texts, OfSeq
<1>2. Bracketed(a) = lar \o S
  BY DEF Bracketed
<1> HIDE DEF L, R, S
<1>3. x \o la = x \o L \o a
  BY <1>1, Glued, ZenonT(120)
<1>4. la \in Seq(Byte)
  BY <1>1, Join
<1> HIDE DEF la
<1>5. x \o lar = x \o la \o R
  BY <1>1, <1>4, Glued, ZenonT(120)
<1>6. lar \in Seq(Byte)
  BY <1>1, <1>4, Join
<1> HIDE DEF lar
<1>7. x \o (lar \o S) = x \o lar \o S
  BY <1>1, <1>6, Glued, ZenonT(120)
<1>8. x \o Bracketed(a) = x \o L \o a \o R \o S
  BY <1>2, <1>3, <1>5, <1>7, Zenon
<1>9. QED
  BY <1>8 DEF L, R, S

(* The layout filled with what shows the message is the documented one.     *)
LEMMA HeaderIs ==
  ASSUME NEW o \in Options, NEW n \in Seq(Byte), NEW m \in Message, NEW p \in Pieces(o), Shows(o, p, m)
  PROVE  Built(o, n, p) = Header(o, n, m)
<1> DEFINE L == Text("[")
           R == Text("]")
           S == Text("space")
           c == Text(":")
           v == Civil(o, m.secs)
           date == Field("year", 4, v) \o Text("-") \o Field("month", 2, v) \o Text("-")
                   \o Field("day", 2, v) \o Text("space")
           time == Field("hour", 2, v) \o Text(":") \o Field("minute", 2, v) \o Text(":")
                   \o Field("second", 2, v)
           frac == Text(".") \o Field("frac", o.precision, m.frac)
           d == IF o.show_date THEN date ELSE <<>>
           f == IF o.precision = 0 THEN <<>> ELSE frac
           t == IF o.show_thread_id THEN Bracketed(Field("tid", 6, m.tid)) ELSE <<>>
           w == IF n = <<>> THEN <<>> ELSE Bracketed(n)
<1>1. Header(o, n, m) = Bracketed(d \o time \o f) \o t \o w \o Bracketed(Tag(m.lvl))
  BY DEF Header
<1>2. d = IF o.show_date THEN DateOf(p) ELSE <<>>
  BY DEF Shows, ClockShows, DateOf
<1>3. time = p.hour \o c \o p.minute \o c \o p.second
  BY DEF Shows, ClockShows
<1>4. f = PointOf(o, p)
  BY DEF Shows, PointOf
<1>5. t = ThreadOf(o, p)
  BY DEF Shows, ThreadOf
<1>6. w = WhoOf(n)
  BY DEF WhoOf
<1>7. Tag(m.lvl) = p.lvl
  BY DEF Shows
<1>8. /\ p.hour \in Seq(Byte) /\ p.minute \in Seq(Byte) /\ p.second \in Seq(Byte) /\ p.lvl \in Seq(Byte)
  BY PieceFields, OfSeq
<1>9. L \in Seq(Byte) /\ R \in Seq(Byte) /\ S \in Seq(Byte) /\ c \in Seq(Byte)
  BY Texts, OfSeq
<1>10. /\ DateOf(p) \in Seq(Byte) /\ PointOf(o, p) \in Seq(Byte) /\ OpenOf(o, n, p) \in Seq(Byte)
       /\ TimeOf(o, p) \in Seq(Byte) /\ ThreadOf(o, p) \in Seq(Byte) /\ WhoOf(n) \in Seq(Byte)
  BY BuiltIs, OfSeq
<1> HIDE DEF d, time, f, t, w, L, R, S, c
<1>11. d \in Seq(Byte) /\ f \in Seq(Byte)
  BY <1>2, <1>4, <1>10, EmptySeq
<1>12. Before(o, p) = L \o d /\ L \o d \in Seq(Byte)
  BY <1>2, <1>9, <1>11, Join DEF Before, L
<1> DEFINE x == L \o d
<1> HIDE DEF x
<1>13. x \o time = x \o p.hour \o c \o p.minute \o c \o p.second /\ time \in Seq(Byte)
  <2> DEFINE h == p.hour \o c \o p.minute \o c
  <2>1. x \o h = x \o p.hour \o c \o p.minute \o c /\ h \in Seq(Byte)
    <3>1. x \in Seq(Byte)
      BY <1>12 DEF x
    <3>2. QED
      BY <1>8, <1>9, <3>1, Regroup
  <2>2. time = h \o p.second
    BY <1>3
  <2> HIDE DEF h
  <2>3. x \o (h \o p.second) = x \o h \o p.second
    <3>1. x \in Seq(Byte) /\ h \in Seq(Byte) /\ p.second \in Seq(Byte)
      BY <1>8, <1>12, <2>1 DEF x
    <3>2. QED
      BY <3>1, Glued, ZenonT(120)
  <2>4. time \in Seq(Byte)
    BY <1>8, <2>1, <2>2, Join
  <2>5. QED
    BY <2>1, <2>2, <2>3, <2>4
<1>14. ClockOf(o, p) = x \o time
  BY <1>12, <1>13 DEF ClockOf, x, c
<1>15. x \o time = L \o (d \o time) /\ d \o time \in Seq(Byte)
  <2>1. L \o d \o time = L \o (d \o time)
    OBVIOUS
  <2>3. d \o time \in Seq(Byte)
    BY <1>11, <1>13, Join
  <2>2. QED
    BY <2>1, <2>3 DEF x
<1>16. ClockOf(o, p) \o f = L \o (d \o time \o f)
  <2> DEFINE dt == d \o time
  <2>1. L \in Seq(Byte) /\ dt \in Seq(Byte) /\ f \in Seq(Byte)
    BY <1>9, <1>11, <1>15
  <2>2. ClockOf(o, p) = L \o dt
    BY <1>14, <1>15
  <2> HIDE DEF dt
  <2>3. L \o dt \o f = L \o (dt \o f)
    OBVIOUS
  <2>4. QED
    BY <2>2, <2>3 DEF dt
<1>17. TimeOf(o, p) = Bracketed(d \o time \o f)
  BY <1>4, <1>16 DEF TimeOf, Bracketed, L
<1>18. Header(o, n, m) = TimeOf(o, p) \o ThreadOf(o, p) \o WhoOf(n) \o Bracketed(p.lvl)
  BY <1>1, <1>5, <1>6, <1>7, <1>17
<1> DEFINE y == TimeOf(o, p) \o ThreadOf(o, p) \o WhoOf(n)
<1>19. y \in Seq(Byte)
  <2>1. TimeOf(o, p) \o ThreadOf(o, p) \in Seq(Byte)
    BY <1>10, Join
  <2>2. QED
    BY <1>10, <2>1, Join
<1>20. Built(o, n, p) = y \o Text("[") \o p.lvl \o Text("]") \o Text("space")
  BY DEF Built, OpenOf
<1>21. Header(o, n, m) = y \o Bracketed(p.lvl)
  BY <1>18
<1> HIDE DEF y
<1>22. y \o Bracketed(p.lvl) = y \o Text("[") \o p.lvl \o Text("]") \o Text("space")
  BY <1>8, <1>19, BracketedBehind, Zenon
<1>23. QED
  BY <1>20, <1>21, <1>22, Zenon

-----------------------------------------------------------------------------
(* t lies in x behind k bytes, and still does when x goes on.               *)
Lies(x, k, t) ==
  /\ x \in Seq(Byte) /\ t \in Seq(Byte) /\ k \in Nat /\ k + Len(t) <= Len(x)
  /\ \A i \in 1 .. Len(t) : x[k + i] = t[i]

(* Whatever is appended lies behind what was there.                        *)
LEMMA LiesBehind ==
  ASSUME NEW k \in Nat, NEW x \in Of(k), NEW t \in Seq(Byte)
  PROVE  Lies(x \o t, k, t)
<1>1. x \in Seq(Byte) /\ Len(x) = k /\ Len(t) \in Nat
  BY OfSeq, LenProperties
<1>2. /\ x \o t \in Seq(Byte) /\ Len(x \o t) = k + Len(t)
      /\ \A i \in 1 .. k + Len(t) : (x \o t)[i] = IF i <= k THEN x[i] ELSE t[i - k]
  BY <1>1, Join
<1> DEFINE y == x \o t
<1> HIDE DEF y
<1>3. ASSUME NEW i \in 1 .. Len(t) PROVE y[k + i] = t[i]
  <2>1. k + i \in 1 .. k + Len(t) /\ ~(k + i <= k) /\ k + i - k = i
    BY <1>1
  <2>2. QED
    BY <1>2, <2>1 DEF y
<1>4. QED
  BY <1>1, <1>2, <1>3 DEF Lies, y

(* See Lies.                                                               *)
LEMMA LiesOn ==
  ASSUME NEW x, NEW k, NEW t, Lies(x, k, t), NEW y \in Seq(Byte)
  PROVE  Lies(x \o y, k, t)
<1>1. /\ x \in Seq(Byte) /\ t \in Seq(Byte) /\ k \in Nat /\ k + Len(t) <= Len(x)
      /\ \A i \in 1 .. Len(t) : x[k + i] = t[i]
  BY DEF Lies
<1>2. /\ x \o y \in Seq(Byte) /\ Len(x \o y) = Len(x) + Len(y) /\ Len(x) \in Nat /\ Len(y) \in Nat
      /\ \A i \in 1 .. Len(x) + Len(y) : (x \o y)[i] = IF i <= Len(x) THEN x[i] ELSE y[i - Len(x)]
  BY <1>1, Join
<1>3. Len(t) \in Nat
  BY <1>1, LenProperties
<1> DEFINE z == x \o y
<1> HIDE DEF z
<1>4. ASSUME NEW i \in 1 .. Len(t) PROVE z[k + i] = t[i]
  <2>1. k + i \in 1 .. Len(x) + Len(y) /\ k + i <= Len(x)
    BY <1>1, <1>2, <1>3
  <2>2. QED
    BY <1>1, <1>2, <2>1 DEF z
<1>5. k + Len(t) <= Len(z)
  BY <1>1, <1>2, <1>3 DEF z
<1>6. QED
  BY <1>1, <1>2, <1>4, <1>5 DEF Lies, z

(* Then a subsequence finds it.                                             *)
LEMMA LiesThere ==
  ASSUME NEW x, NEW k, NEW t, Lies(x, k, t)
  PROVE  SubSeq(x, k + 1, k + Len(t)) = t
<1>1. /\ x \in Seq(Byte) /\ t \in Seq(Byte) /\ k \in Nat /\ k + Len(t) <= Len(x)
      /\ \A i \in 1 .. Len(t) : x[k + i] = t[i]
  BY DEF Lies
<1>2. Len(t) \in Nat /\ Len(x) \in Nat /\ \A i \in 1 .. Len(x) : x[i] \in Byte
  BY <1>1, LenProperties, ElementOfSeq
<1> DEFINE a == k + 1
           b == k + Len(t)
           s == SubSeq(x, a, b)
<1>3. a \in Int /\ b \in Int /\ b - a + 1 = Len(t) /\ (a <= b <=> Len(t) # 0)
      /\ (\A i \in a .. b : i \in 1 .. Len(x)) /\ \A i \in 1 .. Len(t) : a + i - 1 = k + i
  BY <1>1, <1>2
<1> HIDE DEF a, b
<1>4. \A i \in a .. b : x[i] \in Byte
  BY <1>2, <1>3
<1>5. /\ s \in Seq(Byte) /\ Len(s) = IF a <= b THEN b - a + 1 ELSE 0
      /\ \A i \in 1 .. b - a + 1 : s[i] = x[a + i - 1]
  BY <1>3, <1>4, SubSeqProperties
<1> HIDE DEF s
<1>6. Len(s) = Len(t)
  BY <1>2, <1>3, <1>5
<1>7. \A i \in 1 .. Len(t) : s[i] = t[i]
  BY <1>1, <1>3, <1>5
<1>8. s = t
  BY <1>1, <1>5, <1>6, <1>7, SeqEqual
<1>9. QED
  BY <1>8 DEF s, a, b

-----------------------------------------------------------------------------
(* The inductive invariant: the state is of its types; the header is laid   *)
(* out for the options and the name, and during a call it shows its         *)
(* message; behind it the buffer holds what was rendered so far.            *)
TypeInv ==
  /\ buf \in Buffer(Byte) /\ cbuf \in Buffer(Byte)
  /\ \E len \in NameLens : name = Name(len)
  /\ formatter \in Formatter /\ formatter.last_secs \in Secs \cup {0}
  /\ msg \in Message /\ rendered \in 0 .. msg.len /\ (pc # "payload" => rendered = 0)
  /\ pc \in {"idle", "payload", "write"} /\ output \in Outputs /\ should_color \in BOOLEAN

HeaderInv == Laid(formatter, name)

ShownInv ==
  pc # "idle" /\ msg.secs # 0 =>
    \E p \in Pieces(formatter.opts) : /\ formatter.header = Built(formatter.opts, name, p)
                                      /\ Shows(formatter.opts, p, msg)

BodyInv ==
  /\ pc = "payload" => Contents(buf) = formatter.header \o SubSeq(Payload(msg.len), 1, rendered)
  /\ pc = "write" => Contents(buf) = formatter.header \o Payload(msg.len) \o <<Newline>>

IInv == TypeInv /\ HeaderInv /\ ShownInv /\ BodyInv /\ ColorsWrapTag

(* Names, payloads, colors and the newline are bytes.                       *)
LEMMA FieldsAre ==
  ASSUME NEW k \in Nat
  PROVE  /\ Name(k) \in Of(k) /\ Payload(k) \in Of(k) /\ Color(k) \in Of(1)
         /\ Newline \in Byte /\ <<Newline>> \in Of(1)
<1>1. "name" \in Words /\ "payload" \in Words /\ "color" \in Words /\ "newline" \in Words
  BY DEF Words
<1>2. Name(k) \in Of(k)
  BY <1>1, FieldIs DEF Name
<1>3. Payload(k) \in Of(k)
  BY <1>1, FieldIs DEF Payload
<1>4. Color(k) \in Of(1)
  BY <1>1, FieldIs DEF Color
<1>5. Newline \in Byte
  BY <1>1 DEF Newline, Byte
<1>6. <<Newline>> \in Seq(Byte) /\ Len(<<Newline>>) = 1
  BY <1>5
<1>7. QED
  BY <1>2, <1>3, <1>4, <1>5, <1>6 DEF Of

(* A name is a sequence of bytes.                                          *)
LEMMA NameIs ==
  ASSUME NEW n, \E len \in NameLens : n = Name(len)
  PROVE  n \in Seq(Byte)
<1>1. PICK len \in NameLens : n = Name(len)
  OBVIOUS
<1>2. len \in Nat
  BY Constants
<1>3. QED
  BY <1>1, <1>2, FieldsAre, OfSeq

(* What a line leaves in its buffer is a buffer, and so is a new one.       *)
LEMMA SpentIs ==
  ASSUME NEW b \in Buffer(Byte)
  PROVE  spent(b) \in Buffer(Byte)
<1>1. NoBytes \in [1 .. StackSize -> Byte]
  BY Constants DEF NoBytes
<1>2. b.size \in 0 .. StackSize /\ b.heap \in BOOLEAN
  BY DEF Buffer
<1>3. (IF b.heap \/ b.size = 0 THEN 0 ELSE 1) \in 0 .. StackSize
  BY <1>2, Constants
<1>4. <<Junk>> \in Seq(Byte)
  BY Constants
<1>5. (IF b.heap_storage = <<>> THEN <<>> ELSE <<Junk>>) \in Seq(Byte)
  BY <1>4, EmptySeq
<1>6. QED
  BY <1>1, <1>2, <1>3, <1>5 DEF spent, Buffer

(* See SpentIs.                                                            *)
LEMMA EmptyBufIs == EmptyBuf \in Buffer(Byte)
<1>1. NoBytes \in [1 .. StackSize -> Byte] /\ 0 \in 0 .. StackSize /\ FALSE \in BOOLEAN
  BY Constants DEF NoBytes
<1>2. <<>> \in Seq(Byte)
  BY EmptySeq
<1>3. QED
  BY <1>1, <1>2 DEF EmptyBuf, Buffer

(* No message is a message of the second 0.                                *)
LEMMA NoMsgIs == NoMsg \in Message /\ NoMsg.secs = 0 /\ NoMsg.len = 0
BY DEF NoMsg, Message

(* The invariant says what the properties do.                               *)
LEMMA LineIs ==
  ASSUME IInv, pc = "write", msg.secs # 0
  PROVE  LET line == Line(formatter.opts, name, msg)
             k    == formatter.level_offset
         IN  /\ Contents(buf) = line /\ line \in Seq(Byte)
             /\ k \in 0 .. Len(line) - level_width
             /\ SubSeq(line, k + 1, k + level_width) = Tag(msg.lvl)
<1> DEFINE o == formatter.opts
           line == Line(o, name, msg)
           k == formatter.level_offset
           body == Payload(msg.len)
           nl == <<Newline>>
           head == formatter.header
           t == Tag(msg.lvl)
<1>1. o \in Options /\ name \in Seq(Byte) /\ msg \in Message /\ msg.len \in Nat /\ msg.lvl \in Nat
  BY NameIs DEF IInv, TypeInv, Formatter, Message
<1>2. PICK p \in Pieces(o) : head = Built(o, name, p) /\ Shows(o, p, msg)
  BY DEF IInv, ShownInv
<1>3. head = Header(o, name, msg)
  BY <1>1, <1>2, HeaderIs
<1>4. Contents(buf) = line
  BY <1>3 DEF IInv, BodyInv, Line
<1>5. body \in Seq(Byte) /\ nl \in Seq(Byte)
  BY <1>1, FieldsAre, OfSeq
<1>6. k = OpenLen(o, name)
  BY DEF IInv, HeaderInv, Laid, Offsets
<1>7. OpenOf(o, name, p) \in Of(k) /\ k \in Nat
  BY <1>1, <1>6, BuiltIs, LengthsAre
<1>8. t = p.lvl /\ t \in Seq(Byte) /\ Len(t) = 3
  BY <1>1, <1>2, TagIs, OfSeq DEF Shows
<1>9. Text("]") \in Seq(Byte) /\ Text("space") \in Seq(Byte)
  BY Texts, OfSeq
<1> HIDE DEF k, body, nl, t
<1>10. Lies(OpenOf(o, name, p) \o t, k, t)
  BY <1>7, <1>8, LiesBehind
<1>11. Lies(OpenOf(o, name, p) \o t \o Text("]"), k, t)
  BY <1>9, <1>10, LiesOn
<1>12. Lies(OpenOf(o, name, p) \o t \o Text("]") \o Text("space"), k, t)
  BY <1>9, <1>11, LiesOn
<1>13. Lies(head, k, t)
  BY <1>2, <1>8, <1>12 DEF Built
<1> HIDE DEF head
<1>14. Lies(head \o body, k, t)
  BY <1>5, <1>13, LiesOn
<1>15. Lies(head \o body \o nl, k, t)
  BY <1>5, <1>14, LiesOn
<1>16. line = head \o body \o nl
  BY <1>3 DEF Line, body, nl
<1> HIDE DEF line
<1>17. SubSeq(line, k + 1, k + Len(t)) = t
  BY <1>15, <1>16, LiesThere
<1>18. line \in Seq(Byte) /\ k \in Nat /\ k + Len(t) <= Len(line)
  BY <1>15, <1>16 DEF Lies
<1>19. Len(line) \in Nat
  BY <1>18, LenProperties
<1>20. k \in 0 .. Len(line) - level_width
  BY <1>8, <1>18, <1>19 DEF level_width
<1>21. SubSeq(line, k + 1, k + level_width) = t
  BY <1>8, <1>17 DEF level_width
<1>22. QED
  BY <1>4, <1>18, <1>20, <1>21 DEF line, k, t, o

(* The line is the documented one.                                         *)
LEMMA InvLineFresh ==
  ASSUME IInv
  PROVE  LineFresh
BY LineIs DEF LineFresh

(* The types of the run follow from the invariant.                         *)
LEMMA InvTypeOK ==
  ASSUME IInv
  PROVE  TypeOK
<1>1. formatter \in Formatter /\ formatter.opts \in Options /\ name \in Seq(Byte)
  BY NameIs DEF IInv, TypeInv, Formatter
<1>2. formatter.level_offset + level_width <= Len(formatter.header)
  <2> DEFINE k == OpenLen(formatter.opts, name)
  <2>1. PICK p \in Pieces(formatter.opts) : formatter.header = Built(formatter.opts, name, p)
    BY DEF IInv, HeaderInv, Laid
  <2>2. Len(formatter.header) = k + 5 /\ k \in Nat
    BY <1>1, <2>1, BuiltIs, LengthsAre, OfSeq
  <2>3. formatter.level_offset = k
    BY DEF IInv, HeaderInv, Laid, Offsets
  <2> HIDE DEF k
  <2>4. QED
    BY <2>2, <2>3 DEF level_width
<1>3. ASSUME NEW b \in Buffer(Byte) PROVE WellFormed(b)
  <2>1. b.stack \in [1 .. StackSize -> Byte] /\ b.size \in 0 .. StackSize /\ b.heap \in BOOLEAN
    BY DEF Buffer
  <2>2. b.stack \in Seq(Byte) /\ DOMAIN b.stack = 1 .. StackSize
    BY <2>1, Constants
  <2>3. Len(b.stack) = StackSize
    BY <2>2, Constants, LenProperties
  <2>4. QED
    BY <2>1, <2>3 DEF WellFormed
<1>4. QED
  BY <1>1, <1>2, <1>3 DEF TypeOK, IInv, TypeInv

-----------------------------------------------------------------------------
(* Between two calls, or after one that threw, only types and layout count. *)
LEMMA IdleKeeps ==
  ASSUME pc' = "idle", msg' = NoMsg
  PROVE  ShownInv' /\ BodyInv' /\ ColorsWrapTag'
<1>1. msg'.secs = 0
  BY NoMsgIs
<1>2. ShownInv'
  BY DEF ShownInv
<1>3. BodyInv'
  BY DEF BodyInv
<1>4. ColorsWrapTag'
  BY <1>1 DEF ColorsWrapTag
<1>5. QED
  BY <1>2, <1>3, <1>4

(* The invariant holds at the start.                                       *)
LEMMA InitInv ==
  ASSUME Init
  PROVE  IInv
<1>1. PICK len \in NameLens : name = Name(len)
  BY DEF Init
<1>2. PICK o \in Options : formatter = NewFormatter(name, o)
  BY DEF Init
<1>3. name \in Seq(Byte)
  BY <1>1, NameIs
<1>4. formatter \in Formatter /\ formatter.last_secs = 0 /\ Laid(formatter, name)
  BY <1>2, <1>3, NewFormatterLays
<1>5. buf \in Buffer(Byte) /\ cbuf \in Buffer(Byte)
  BY EmptyBufIs DEF Init
<1>6. msg \in Message /\ rendered \in 0 .. msg.len /\ rendered = 0 /\ msg.secs = 0
  BY NoMsgIs DEF Init
<1>7. TypeInv
  BY <1>1, <1>4, <1>5, <1>6 DEF TypeInv, Init
<1>8. ShownInv /\ BodyInv /\ ColorsWrapTag
  BY <1>6 DEF Init, ShownInv, BodyInv, ColorsWrapTag
<1>9. QED
  BY <1>4, <1>7, <1>8 DEF IInv, HeaderInv

(* set_name lays the header out for the new name.                          *)
LEMMA set_nameKeeps ==
  ASSUME IInv, set_name
  PROVE  IInv'
<1>1. /\ pc = "idle" /\ pc' = "idle" /\ msg' = NoMsg /\ rendered' = rendered /\ buf' = buf /\ cbuf' = cbuf
      /\ output' = output /\ should_color' = should_color
      /\ formatter' = rebuild_header(formatter, name')
      /\ \E len \in NameLens : name' = Name(len)
  BY DEF set_name
<1>2. name' \in Seq(Byte)
  BY <1>1, NameIs
<1>3. formatter \in Formatter
  BY DEF IInv, TypeInv
<1>4. formatter' \in Formatter /\ formatter'.last_secs = 0 /\ Laid(formatter', name')
  BY <1>1, <1>2, <1>3, RebuildLays
<1>5. TypeInv'
  BY <1>1, <1>4, NoMsgIs DEF IInv, TypeInv
<1>6. QED
  BY <1>1, <1>4, <1>5, IdleKeeps DEF IInv, HeaderInv

(* set_format_options makes a new formatter.                               *)
LEMMA set_format_optionsKeeps ==
  ASSUME IInv, set_format_options
  PROVE  IInv'
<1>1. /\ pc = "idle" /\ pc' = "idle" /\ msg' = NoMsg /\ rendered' = rendered /\ buf' = buf /\ cbuf' = cbuf
      /\ output' = output /\ should_color' = should_color /\ name' = name
      /\ \E o \in Options : formatter' = NewFormatter(name, o)
  BY DEF set_format_options
<1>2. name \in Seq(Byte)
  BY NameIs DEF IInv, TypeInv
<1>3. formatter' \in Formatter /\ formatter'.last_secs = 0 /\ Laid(formatter', name)
  BY <1>1, <1>2, NewFormatterLays
<1>4. TypeInv'
  BY <1>1, <1>3, NoMsgIs DEF IInv, TypeInv
<1>5. HeaderInv'
  BY <1>1, <1>3 DEF HeaderInv
<1>6. QED
  BY <1>1, <1>4, <1>5, IdleKeeps DEF IInv

(* set_color_mode leaves header and buffers alone.                         *)
LEMMA set_color_modeKeeps ==
  ASSUME IInv, set_color_mode
  PROVE  IInv'
<1>1. /\ pc = "idle" /\ pc' = "idle" /\ msg' = NoMsg /\ rendered' = rendered /\ buf' = buf /\ cbuf' = cbuf
      /\ output' = output /\ should_color' \in BOOLEAN /\ name' = name /\ formatter' = formatter
  BY DEF set_color_mode
<1>2. TypeInv'
  BY <1>1, NoMsgIs DEF IInv, TypeInv
<1>3. HeaderInv'
  BY <1>1 DEF IInv, HeaderInv
<1>4. QED
  BY <1>1, <1>2, <1>3, IdleKeeps DEF IInv

(* A moved buffer is a buffer.                                             *)
LEMMA MoveKeeps ==
  ASSUME IInv, Move
  PROVE  IInv'
<1>1. /\ pc = "idle" /\ pc' = "idle" /\ msg' = NoMsg /\ rendered' = rendered
      /\ buf' = moved(buf) /\ cbuf' = moved(cbuf)
      /\ output' = output /\ should_color' = should_color /\ name' = name /\ formatter' = formatter
  BY DEF Move
<1>2. buf' \in Buffer(Byte) /\ cbuf' \in Buffer(Byte)
  <2>1. buf \in Buffer(Byte) /\ cbuf \in Buffer(Byte) /\ Junk \in Byte
    BY Constants DEF IInv, TypeInv
  <2>2. moved(buf) \in Buffer(Byte) /\ moved(cbuf) \in Buffer(Byte)
    BY <2>1, MoveCorrect
  <2>3. QED
    BY <1>1, <2>2
<1>3. TypeInv'
  BY <1>1, <1>2, NoMsgIs DEF IInv, TypeInv
<1>4. HeaderInv'
  BY <1>1 DEF IInv, HeaderInv
<1>5. QED
  BY <1>1, <1>3, <1>4, IdleKeeps DEF IInv

(* The header is stamped and appended to a cleared buffer.                  *)
LEMMA FormatHeaderKeeps ==
  ASSUME IInv, FormatHeader
  PROVE  IInv'
<1>1. /\ pc = "idle" /\ pc' = "payload" /\ rendered' = rendered
      /\ formatter' = Stamped(formatter, msg') /\ buf' = append(clear(buf), formatter'.header)
      /\ cbuf' = cbuf /\ output' = output /\ should_color' = should_color /\ name' = name
  BY DEF FormatHeader
<1>2. PICK secs \in Secs, frac \in Fracs, tid \in Tids, lvl \in MsgLevels, len \in PayloadLens :
        msg' = [secs |-> secs, frac |-> frac, tid |-> tid, lvl |-> lvl, len |-> len]
  BY DEF FormatHeader
<1>3. msg' \in Message /\ msg'.secs \in Secs /\ msg'.len \in Nat
  BY <1>2, Constants DEF Message
<1>4. formatter \in Formatter /\ name \in Seq(Byte) /\ Laid(formatter, name)
  BY NameIs DEF IInv, TypeInv, HeaderInv
<1>5. /\ formatter' \in Formatter /\ formatter'.opts = formatter.opts
      /\ formatter'.last_secs = msg'.secs /\ Laid(formatter', name)
      /\ msg'.secs # 0 => \E p \in Pieces(formatter.opts) :
                             /\ formatter'.header = Built(formatter.opts, name, p)
                             /\ Shows(formatter.opts, p, msg')
  BY <1>1, <1>3, <1>4, StampedIs
<1> DEFINE h == formatter'.header
<1>6. h \in Seq(Byte)
  BY <1>5 DEF Formatter
<1>7. buf' \in Buffer(Byte) /\ Contents(buf') = h
  <2>1. buf \in Buffer(Byte)
    BY DEF IInv, TypeInv
  <2> DEFINE b == clear(buf)
  <2>2. b \in Buffer(Byte) /\ Contents(b) = <<>>
    BY <2>1, ClearCorrect
  <2> HIDE DEF b, h
  <2>3. append(b, h) \in Buffer(Byte) /\ Contents(append(b, h)) = Contents(b) \o h
    BY <1>6, <2>2, AppendCorrect
  <2>4. <<>> \o h = h
    BY <1>6, ConcatEmptySeq
  <2>5. buf' = append(b, h)
    BY <1>1 DEF b, h
  <2>6. QED
    BY <2>2, <2>3, <2>4, <2>5
<1>8. rendered' = 0
  BY <1>1 DEF IInv, TypeInv
<1>9. TypeInv'
  BY <1>1, <1>3, <1>5, <1>7, <1>8 DEF IInv, TypeInv
<1>10. HeaderInv'
  BY <1>1, <1>5 DEF HeaderInv
<1>11. ShownInv'
  BY <1>1, <1>5 DEF ShownInv
<1>12. BodyInv'
  <2>1. SubSeq(Payload(msg'.len), 1, 0) = <<>>
    BY SubSeqEmpty
  <2>2. h \o <<>> = h
    BY <1>6, ConcatEmptySeq
  <2> HIDE DEF h
  <2>3. Contents(buf') = h \o SubSeq(Payload(msg'.len), 1, rendered')
    BY <1>7, <1>8, <2>1, <2>2
  <2>4. QED
    BY <1>1, <2>3 DEF BodyInv, h
<1>13. ColorsWrapTag'
  BY <1>1 DEF ColorsWrapTag
<1>14. QED
  BY <1>9, <1>10, <1>11, <1>12, <1>13 DEF IInv

(* While a call renders, only the buffer grows.                             *)
LEMMA RenderKeeps ==
  ASSUME IInv, pc = "payload", pc' \in {"payload", "write"}, buf' \in Buffer(Byte),
         rendered' \in 0 .. msg.len, pc' # "payload" => rendered' = 0,
         UNCHANGED <<formatter, name, output, should_color, cbuf, msg>>, BodyInv'
  PROVE  IInv'
<1>1. TypeInv'
  BY DEF IInv, TypeInv
<1>2. HeaderInv'
  BY DEF IInv, HeaderInv
<1>3. ShownInv'
  BY DEF IInv, ShownInv
<1>4. ColorsWrapTag'
  BY DEF ColorsWrapTag
<1>5. QED
  BY <1>1, <1>2, <1>3, <1>4 DEF IInv

(* What the next lemmas have in common.                                     *)
LEMMA Underway ==
  ASSUME IInv, pc = "payload"
  PROVE  /\ buf \in Buffer(Byte) /\ formatter.header \in Seq(Byte) /\ msg.len \in Nat
         /\ Payload(msg.len) \in Seq(Byte) /\ Len(Payload(msg.len)) = msg.len
         /\ rendered \in 0 .. msg.len
         /\ Contents(buf) = formatter.header \o SubSeq(Payload(msg.len), 1, rendered)
<1>1. msg.len \in Nat /\ rendered \in 0 .. msg.len /\ buf \in Buffer(Byte)
  BY DEF IInv, TypeInv, Message
<1>2. formatter.header \in Seq(Byte)
  BY DEF IInv, TypeInv, Formatter
<1>3. Payload(msg.len) \in Seq(Byte) /\ Len(Payload(msg.len)) = msg.len
  BY <1>1, FieldsAre, OfSeq
<1>4. Contents(buf) = formatter.header \o SubSeq(Payload(msg.len), 1, rendered)
  BY DEF IInv, BodyInv
<1>5. QED
  BY <1>1, <1>2, <1>3, <1>4

(* Part of a payload.                                                       *)
LEMMA PartIs ==
  ASSUME NEW s \in Seq(Byte), NEW i \in Nat, NEW j \in Nat, i >= 1, j <= Len(s)
  PROVE  SubSeq(s, i, j) \in Seq(Byte)
<1>1. \A k \in i .. j : s[k] \in Byte
  <2>1. Len(s) \in Nat
    BY LenProperties
  <2>2. \A k \in i .. j : k \in 1 .. Len(s)
    BY <2>1
  <2>3. QED
    BY <2>2, ElementOfSeq
<1>2. QED
  BY <1>1, SubSeqProperties

(* A piece of the payload follows the bytes that are there.                *)
LEMMA RenderPieceKeeps ==
  ASSUME IInv, RenderPiece
  PROVE  IInv'
<1>1. /\ pc = "payload" /\ pc' = "payload" /\ rendered < msg.len
      /\ rendered' \in rendered + 1 .. msg.len
      /\ buf' = append(buf, SubSeq(Payload(msg.len), rendered + 1, rendered'))
      /\ UNCHANGED <<formatter, name, output, should_color, cbuf, msg>>
  BY DEF RenderPiece, PayloadLeft
<1> DEFINE s == Payload(msg.len)
           h == formatter.header
           r == rendered
           q == rendered'
           part == SubSeq(s, r + 1, q)
<1>2. /\ buf \in Buffer(Byte) /\ h \in Seq(Byte) /\ msg.len \in Nat /\ s \in Seq(Byte) /\ Len(s) = msg.len
      /\ r \in 0 .. msg.len /\ Contents(buf) = h \o SubSeq(s, 1, r)
  BY <1>1, Underway
<1>3. q \in r + 1 .. msg.len /\ buf' = append(buf, part) /\ q \in 0 .. msg.len /\ q \in Nat /\ r \in Nat
  BY <1>1, <1>2
<1> HIDE DEF s, h, r, q
<1>4. part \in Seq(Byte) /\ SubSeq(s, 1, r) \in Seq(Byte)
  <2>1. r + 1 \in Nat /\ r + 1 >= 1 /\ q <= Len(s) /\ r <= Len(s) /\ 1 \in Nat /\ 1 >= 1
    BY <1>2, <1>3
  <2>2. QED
    BY <1>2, <1>3, <2>1, PartIs
<1>5. SubSeq(s, 1, r) \o part = SubSeq(s, 1, q)
  <2>1. 1 \in 1 .. Len(s) + 1 /\ r \in 1 - 1 .. Len(s) /\ q \in r .. Len(s)
    BY <1>2, <1>3
  <2>2. QED
    BY <1>2, <2>1, ConcatAdjacentSubSeq
<1> DEFINE a == SubSeq(s, 1, r)
<1> HIDE DEF part, a
<1>6. append(buf, part) \in Buffer(Byte) /\ Contents(append(buf, part)) = Contents(buf) \o part
  BY <1>2, <1>4, AppendCorrect
<1>7. h \o a \o part = h \o (a \o part)
  BY <1>2, <1>4, Glued, Zenon DEF a
<1>8. Contents(buf') = h \o SubSeq(s, 1, q)
  BY <1>2, <1>3, <1>5, <1>6, <1>7 DEF a
<1>9. BodyInv'
  <2>1. s = Payload(msg'.len) /\ h = formatter'.header /\ q = rendered'
    BY <1>1 DEF s, h, q
  <2>2. QED
    BY <1>1, <1>8, <2>1 DEF BodyInv
<1>10. buf' \in Buffer(Byte) /\ rendered' \in 0 .. msg.len
  BY <1>3, <1>6 DEF q
<1>11. QED
  BY <1>1, <1>9, <1>10, RenderKeeps

(* So does one byte.                                                       *)
LEMMA RenderByteKeeps ==
  ASSUME IInv, RenderByte
  PROVE  IInv'
<1>1. /\ pc = "payload" /\ pc' = "payload" /\ rendered < msg.len
      /\ rendered' = rendered + 1
      /\ buf' = push_back(buf, Payload(msg.len)[rendered'])
      /\ UNCHANGED <<formatter, name, output, should_color, cbuf, msg>>
  BY DEF RenderByte, PayloadLeft
<1> DEFINE s == Payload(msg.len)
           h == formatter.header
           r == rendered
           q == rendered'
           c == s[q]
           a == SubSeq(s, 1, r)
<1>2. /\ buf \in Buffer(Byte) /\ h \in Seq(Byte) /\ msg.len \in Nat /\ s \in Seq(Byte) /\ Len(s) = msg.len
      /\ r \in 0 .. msg.len /\ Contents(buf) = h \o a
  BY <1>1, Underway
<1>3. q = r + 1 /\ q \in 1 .. msg.len /\ buf' = push_back(buf, c) /\ r \in Nat /\ q \in Nat
  BY <1>1, <1>2
<1> HIDE DEF s, h, r, q
<1>4. a \in Seq(Byte)
  <2>1. r <= Len(s) /\ 1 \in Nat /\ 1 >= 1
    BY <1>2
  <2>2. QED
    BY <1>2, <1>3, <2>1, PartIs
<1>5. c \in Byte
  BY <1>2, <1>3, ElementOfSeq
<1>6. SubSeq(s, 1, q) = a \o <<c>>
  <2>1. 1 \in 1 .. Len(s) /\ q \in 1 .. Len(s) /\ q - 1 = r
    BY <1>2, <1>3
  <2>2. SubSeq(s, 1, q) = SubSeq(s, 1, q - 1) \o <<s[q]>>
    BY <1>2, <2>1, SubSeqRecursiveSecond
  <2>3. QED
    BY <2>1, <2>2
<1> HIDE DEF a, c
<1>7. h \o a \in Seq(Byte) /\ <<c>> \in Seq(Byte)
  BY <1>2, <1>4, <1>5, Join
<1>8. push_back(buf, c) \in Buffer(Byte) /\ Contents(push_back(buf, c)) = Append(h \o a, c)
  BY <1>2, <1>5, PushBackCorrect
<1>9. Append(h \o a, c) = h \o a \o <<c>>
  BY <1>5, <1>7, AppendIsConcat
<1>10. h \o a \o <<c>> = h \o (a \o <<c>>)
  BY <1>2, <1>4, <1>7, Glued, ZenonT(120)
<1>11. Contents(buf') = h \o SubSeq(s, 1, q)
  BY <1>3, <1>6, <1>8, <1>9, <1>10, Zenon
<1>12. BodyInv'
  <2>1. s = Payload(msg'.len) /\ h = formatter'.header /\ q = rendered'
    BY <1>1 DEF s, h, q
  <2>2. QED
    BY <1>1, <1>11, <2>1 DEF BodyInv
<1>13. buf' \in Buffer(Byte) /\ rendered' \in 0 .. msg.len
  BY <1>2, <1>3, <1>8 DEF q
<1>14. QED
  BY <1>1, <1>12, <1>13, RenderKeeps

(* The newline ends the payload.                                           *)
LEMMA RenderEndKeeps ==
  ASSUME IInv, RenderEnd
  PROVE  IInv'
<1>1. /\ pc = "payload" /\ pc' = "write" /\ rendered = msg.len /\ rendered' = 0
      /\ buf' = push_back(buf, Newline)
      /\ UNCHANGED <<formatter, name, output, should_color, cbuf, msg>>
  BY DEF RenderEnd
<1> DEFINE s == Payload(msg.len)
           h == formatter.header
<1>2. /\ buf \in Buffer(Byte) /\ h \in Seq(Byte) /\ msg.len \in Nat /\ s \in Seq(Byte) /\ Len(s) = msg.len
      /\ Contents(buf) = h \o SubSeq(s, 1, rendered)
  BY <1>1, Underway
<1> HIDE DEF s, h
<1>3. SubSeq(s, 1, rendered) = s
  BY <1>1, <1>2, SubSeqFull
<1>4. h \o s \in Seq(Byte) /\ Newline \in Byte
  BY <1>2, FieldsAre, Join
<1>5. push_back(buf, Newline) \in Buffer(Byte) /\ Contents(push_back(buf, Newline)) = Append(h \o s, Newline)
  BY <1>2, <1>3, <1>4, PushBackCorrect
<1>6. Append(h \o s, Newline) = h \o s \o <<Newline>>
  BY <1>4, AppendIsConcat
<1>7. BodyInv'
  <2>1. s = Payload(msg'.len) /\ h = formatter'.header
    BY <1>1 DEF s, h
  <2>2. QED
    BY <1>1, <1>5, <1>6, <2>1 DEF BodyInv
<1>8. buf' \in Buffer(Byte) /\ rendered' \in 0 .. msg.len
  BY <1>1, <1>2, <1>5
<1>9. QED
  BY <1>1, <1>7, <1>8, RenderKeeps

(* A call that throws leaves a buffer that the next one clears.            *)
LEMMA RenderThrowsKeeps ==
  ASSUME IInv, RenderThrows
  PROVE  IInv'
<1>1. /\ pc' = "idle" /\ msg' = NoMsg /\ rendered' = 0 /\ buf' = spent(buf)
      /\ UNCHANGED <<formatter, name, output, should_color, cbuf>>
  BY DEF RenderThrows
<1>2. buf' \in Buffer(Byte)
  BY <1>1, SpentIs DEF IInv, TypeInv
<1>3. TypeInv'
  BY <1>1, <1>2, NoMsgIs DEF IInv, TypeInv
<1>4. HeaderInv'
  BY <1>1 DEF IInv, HeaderInv
<1>5. QED
  BY <1>1, <1>3, <1>4, IdleKeeps DEF IInv

(* A line that was written leaves its buffers spent; what was printed for   *)
(* it is the one thing to show.                                             *)
LEMMA WriteKeeps ==
  ASSUME IInv, pc = "write", pc' = "idle", buf' = spent(buf), cbuf' \in Buffer(Byte),
         UNCHANGED <<formatter, name, output, should_color, msg, rendered>>,
         ColorsWrapTag'
  PROVE  IInv'
<1>1. buf' \in Buffer(Byte)
  BY SpentIs DEF IInv, TypeInv
<1>2. TypeInv'
  BY <1>1 DEF IInv, TypeInv
<1>3. HeaderInv'
  BY DEF IInv, HeaderInv
<1>4. ShownInv'
  BY DEF ShownInv
<1>5. BodyInv'
  BY DEF BodyInv
<1>6. QED
  BY <1>2, <1>3, <1>4, <1>5 DEF IInv

(* Without colors the line itself is printed.                              *)
LEMMA WritePlainKeeps ==
  ASSUME IInv, WritePlain
  PROVE  IInv'
<1>1. /\ pc = "write" /\ ~Colored /\ pc' = "idle" /\ buf' = spent(buf)
      /\ printed' = IF output = "none" THEN <<>> ELSE Contents(buf)
      /\ UNCHANGED <<formatter, name, output, should_color, cbuf, msg, rendered>>
  BY DEF WritePlain
<1>2. ColorsWrapTag'
  <2>1. SUFFICES ASSUME msg.secs # 0
                 PROVE  printed' = IF output = "none" THEN <<>> ELSE Line(formatter.opts, name, msg)
    BY <1>1 DEF ColorsWrapTag, Colored
  <2>2. Contents(buf) = Line(formatter.opts, name, msg)
    BY <1>1, <2>1, LineIs
  <2>3. QED
    BY <1>1, <2>2
<1>3. cbuf' \in Buffer(Byte)
  BY <1>1 DEF IInv, TypeInv
<1>4. QED
  BY <1>1, <1>2, <1>3, WriteKeeps

(* The line in three parts with the codes around the middle one shows the   *)
(* color of its level there.                                                *)
LEMMA WrapsTag ==
  ASSUME IInv, pc = "write", pc' = "idle",
         UNCHANGED <<formatter, name, output, should_color, msg>>,
         should_color, output \in {"stream", "console"},
         printed' = SubSeq(Contents(buf), 1, LevelStart) \o Color(msg.lvl)
                    \o SubSeq(Contents(buf), LevelStart + 1, LevelEnd) \o Reset
                    \o SubSeq(Contents(buf), LevelEnd + 1, Len(Contents(buf)))
  PROVE  ColorsWrapTag'
<1> DEFINE line == Line(formatter.opts, name, msg)
           k == formatter.level_offset
           Wrapped ==
             \E i \in 0 .. Len(line) - level_width :
               /\ SubSeq(line, i + 1, i + level_width) = Tag(msg.lvl)
               /\ printed' = SubSeq(line, 1, i) \o Color(msg.lvl) \o Tag(msg.lvl) \o Reset
                             \o SubSeq(line, i + level_width + 1, Len(line))
<1>1. ASSUME msg.secs # 0
      PROVE  Wrapped
  <2>1. /\ Contents(buf) = line /\ k \in 0 .. Len(line) - level_width
        /\ SubSeq(line, k + 1, k + level_width) = Tag(msg.lvl)
    BY <1>1, LineIs
  <2>2. LevelStart = k /\ LevelEnd = k + level_width
    BY DEF LevelStart, LevelEnd
  <2> HIDE DEF line, k
  <2>3. printed' = SubSeq(line, 1, k) \o Color(msg.lvl) \o Tag(msg.lvl) \o Reset
                   \o SubSeq(line, k + level_width + 1, Len(line))
    BY <2>1, <2>2, Zenon
  <2>4. QED
    BY <2>1, <2>3
<1>2. output # "none"
  OBVIOUS
<1>3. QED
  BY <1>1, <1>2 DEF ColorsWrapTag

(* Data cut into what may not lie in it is made of bytes if the level does. *)
LEMMA PartsAre ==
  ASSUME IInv, pc = "write"
  PROVE  LET data == Contents(buf)
         IN  /\ SubSeq(data, 1, LevelStart) \in Seq(Byte)
             /\ SubSeq(data, LevelStart + 1, LevelEnd) \in Seq(Byte)
             /\ SubSeq(data, LevelEnd + 1, Len(data)) \in Seq(Byte)
<1> DEFINE data == Contents(buf)
           k == formatter.level_offset
           n == Len(data)
           h == formatter.header
           body == Payload(msg.len)
           nl == <<Newline>>
<1>1. TypeOK
  BY InvTypeOK
<1>2. h \in Seq(Byte) /\ k \in Nat /\ msg.len \in Nat /\ k + 3 <= Len(h)
  BY <1>1 DEF IInv, TypeInv, Formatter, Message, TypeOK, level_width
<1>3. data = h \o body \o nl
  BY DEF IInv, BodyInv
<1>4. body \in Seq(Byte) /\ nl \in Seq(Byte)
  BY <1>2, FieldsAre, OfSeq
<1> HIDE DEF h, body, nl, data, k, n
<1>5. h \o body \in Seq(Byte) /\ Len(h \o body) = Len(h) + Len(body) /\ Len(h) \in Nat /\ Len(body) \in Nat
  BY <1>2, <1>4, Join
<1> DEFINE hb == h \o body
<1>6. hb \in Seq(Byte)
  BY <1>5
<1>7. data \in Seq(Byte) /\ n = Len(h) + Len(body) + Len(nl) /\ Len(nl) \in Nat
  <2>1. Len(hb) = Len(h) + Len(body)
    BY <1>5
  <2>2. data = hb \o nl
    BY <1>3
  <2> HIDE DEF hb
  <2>3. hb \o nl \in Seq(Byte) /\ Len(hb \o nl) = Len(hb) + Len(nl) /\ Len(nl) \in Nat
    BY <1>4, <1>6, Join
  <2>4. QED
    BY <2>1, <2>2, <2>3 DEF n
<1>8. n \in Nat /\ k + 3 <= n /\ k + 1 \in Nat /\ k + 3 \in Nat /\ k + 3 + 1 \in Nat /\ k <= n
      /\ k + 1 >= 1 /\ k + 3 + 1 >= 1 /\ 1 >= 1 /\ n <= n
  BY <1>2, <1>5, <1>7
<1>9. n = Len(data)
  BY DEF n
<1>10. /\ SubSeq(data, 1, k) \in Seq(Byte) /\ SubSeq(data, k + 1, k + 3) \in Seq(Byte)
       /\ SubSeq(data, k + 3 + 1, n) \in Seq(Byte)
  <2>1. SubSeq(data, 1, k) \in Seq(Byte)
    BY <1>2, <1>7, <1>8, <1>9, PartIs
  <2>2. SubSeq(data, k + 1, k + 3) \in Seq(Byte)
    BY <1>2, <1>7, <1>8, <1>9, PartIs
  <2>3. SubSeq(data, k + 3 + 1, n) \in Seq(Byte)
    BY <1>2, <1>7, <1>8, <1>9, PartIs
  <2>4. QED
    BY <2>1, <2>2, <2>3
<1>11. LevelStart = k /\ LevelEnd = k + 3
  BY DEF LevelStart, LevelEnd, level_width, k
<1>12. QED
  BY <1>9, <1>10, <1>11 DEF data

(* The copy with the escape codes is the line with its level colored.      *)
LEMMA WriteColoredKeeps ==
  ASSUME IInv, WriteColored
  PROVE  IInv'
<1> DEFINE data == Contents(buf)
           x == SubSeq(data, 1, LevelStart)
           y == SubSeq(data, LevelStart + 1, LevelEnd)
           z == SubSeq(data, LevelEnd + 1, Len(data))
           c == Color(msg.lvl)
           b0 == clear(cbuf)
           b1 == append(b0, x)
           b2 == append(b1, c)
           b3 == append(b2, y)
           b4 == append(b3, Reset)
           b5 == append(b4, z)
<1>1. /\ pc = "write" /\ Colored /\ output = "stream" /\ pc' = "idle" /\ buf' = spent(buf)
      /\ printed' = Contents(b5) /\ cbuf' = spent(b5)
      /\ UNCHANGED <<formatter, name, output, should_color, msg, rendered>>
  BY DEF WriteColored
<1>2. x \in Seq(Byte) /\ y \in Seq(Byte) /\ z \in Seq(Byte)
  BY <1>1, PartsAre
<1>3. c \in Seq(Byte) /\ Reset \in Seq(Byte) /\ cbuf \in Buffer(Byte)
  <2>1. msg.lvl \in Nat /\ cbuf \in Buffer(Byte)
    BY DEF IInv, TypeInv, Message
  <2>2. QED
    BY <2>1, FieldsAre, Texts, OfSeq
<1> HIDE DEF x, y, z, c, data
<1>4. b0 \in Buffer(Byte) /\ Contents(b0) = <<>>
  BY <1>3, ClearCorrect
<1> HIDE DEF b0
<1>5. b1 \in Buffer(Byte) /\ Contents(b1) = x
  <2>1. b1 \in Buffer(Byte) /\ Contents(b1) = Contents(b0) \o x
    BY <1>2, <1>4, AppendCorrect
  <2>2. <<>> \o x = x
    BY <1>2, ConcatEmptySeq
  <2>3. QED
    BY <1>4, <2>1, <2>2
<1> HIDE DEF b1
<1>6. b2 \in Buffer(Byte) /\ Contents(b2) = x \o c
  BY <1>3, <1>5, AppendCorrect
<1> HIDE DEF b2
<1>7. b3 \in Buffer(Byte) /\ Contents(b3) = x \o c \o y
  BY <1>2, <1>6, AppendCorrect
<1> HIDE DEF b3
<1>8. b4 \in Buffer(Byte) /\ Contents(b4) = x \o c \o y \o Reset
  BY <1>3, <1>7, AppendCorrect
<1> HIDE DEF b4
<1>9. b5 \in Buffer(Byte) /\ Contents(b5) = x \o c \o y \o Reset \o z
  BY <1>2, <1>8, AppendCorrect
<1> HIDE DEF b5
<1>10. printed' = SubSeq(Contents(buf), 1, LevelStart) \o Color(msg.lvl)
                  \o SubSeq(Contents(buf), LevelStart + 1, LevelEnd) \o Reset
                  \o SubSeq(Contents(buf), LevelEnd + 1, Len(Contents(buf)))
  BY <1>1, <1>9 DEF x, y, z, c, data
<1>11. should_color /\ output \in {"stream", "console"}
  BY <1>1 DEF Colored
<1>12. ColorsWrapTag'
  BY <1>1, <1>10, <1>11, WrapsTag
<1>13. cbuf' \in Buffer(Byte)
  BY <1>1, <1>9, SpentIs
<1>14. QED
  BY <1>1, <1>12, <1>13, WriteKeeps

(* So is what is printed on a Windows console.                             *)
LEMMA WriteAttributedKeeps ==
  ASSUME IInv, WriteAttributed
  PROVE  IInv'
<1>1. /\ pc = "write" /\ Colored /\ output = "console" /\ pc' = "idle" /\ buf' = spent(buf)
      /\ printed' = SubSeq(Contents(buf), 1, LevelStart) \o Color(msg.lvl)
                    \o SubSeq(Contents(buf), LevelStart + 1, LevelEnd) \o Reset
                    \o SubSeq(Contents(buf), LevelEnd + 1, Len(Contents(buf)))
      /\ UNCHANGED <<formatter, name, output, should_color, cbuf, msg, rendered>>
  BY DEF WriteAttributed
<1>2. should_color /\ output \in {"stream", "console"}
  BY <1>1 DEF Colored
<1>3. ColorsWrapTag'
  BY <1>1, <1>2, WrapsTag
<1>4. cbuf' \in Buffer(Byte)
  BY <1>1 DEF IInv, TypeInv
<1>5. QED
  BY <1>1, <1>3, <1>4, WriteKeeps

-----------------------------------------------------------------------------
(* Every step keeps the invariant.                                         *)
LEMMA NextInv ==
  ASSUME IInv, [Next]_vars
  PROVE  IInv'
<1>1. CASE set_name
  BY <1>1, set_nameKeeps
<1>2. CASE set_format_options
  BY <1>2, set_format_optionsKeeps
<1>3. CASE set_color_mode
  BY <1>3, set_color_modeKeeps
<1>4. CASE Move
  BY <1>4, MoveKeeps
<1>5. CASE FormatHeader
  BY <1>5, FormatHeaderKeeps
<1>6. CASE RenderPiece
  BY <1>6, RenderPieceKeeps
<1>7. CASE RenderByte
  BY <1>7, RenderByteKeeps
<1>8. CASE RenderEnd
  BY <1>8, RenderEndKeeps
<1>9. CASE RenderThrows
  BY <1>9, RenderThrowsKeeps
<1>10. CASE WritePlain
  BY <1>10, WritePlainKeeps
<1>11. CASE WriteColored
  BY <1>11, WriteColoredKeeps
<1>12. CASE WriteAttributed
  BY <1>12, WriteAttributedKeeps
<1>13. CASE UNCHANGED vars
  <2>1. TypeInv'
    BY <1>13 DEF vars, IInv, TypeInv
  <2>2. HeaderInv' /\ ShownInv' /\ BodyInv' /\ ColorsWrapTag'
    BY <1>13 DEF vars, IInv, HeaderInv, ShownInv, BodyInv, ColorsWrapTag
  <2>3. QED
    BY <2>1, <2>2 DEF IInv
<1>14. QED
  BY <1>1, <1>2, <1>3, <1>4, <1>5, <1>6, <1>7, <1>8, <1>9, <1>10, <1>11, <1>12, <1>13 DEF Next

(* The buffers stay within their arrays and the level within the header,    *)
(* whatever is rendered, reconfigured, thrown or moved.                     *)
THEOREM TypeCorrect == Spec => []TypeOK
<1>1. Init => IInv
  BY InitInv
<1>2. IInv /\ [Next]_vars => IInv'
  BY NextInv
<1>3. IInv => TypeOK
  BY InvTypeOK
<1>4. QED
  BY <1>1, <1>2, <1>3, PTL DEF Spec

(* The line handed to the sinks is the documented one for the options, the  *)
(* name and the message, for every layout, clock, name and buffer size,     *)
(* although the header is patched and never written anew.                   *)
THEOREM LineFreshCorrect == Spec => []LineFresh
<1>1. Init => IInv
  BY InitInv
<1>2. IInv /\ [Next]_vars => IInv'
  BY NextInv
<1>3. IInv => LineFresh
  BY InvLineFresh
<1>4. QED
  BY <1>1, <1>2, <1>3, PTL DEF Spec

(* What the console sink prints is that line with its level colored, or the *)
(* line itself where colors are not wanted or cannot be shown.              *)
THEOREM ColorsWrapTagCorrect == Spec => []ColorsWrapTag
<1>1. Init => IInv
  BY InitInv
<1>2. IInv /\ [Next]_vars => IInv'
  BY NextInv
<1>3. IInv => ColorsWrapTag
  BY DEF IInv
<1>4. QED
  BY <1>1, <1>2, <1>3, PTL DEF Spec

=============================================================================

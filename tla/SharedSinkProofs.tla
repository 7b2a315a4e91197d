-------------------------- MODULE SharedSinkProofs --------------------------
(***************************************************************************)
(* Copies of a shared_sink keep the lines of a stream intact, for any      *)
(* number of loggers and streams, listed in any order, and any sizes of    *)
(* lines and buffers. First the inductive invariant IInv, in named parts;  *)
(* then bytes and lines as sequences; then one lemma for each step.        *)
(***************************************************************************)
EXTENDS SharedSink, Integers, SequenceTheorems, TLAPS

(* Logger l is inside the sink of stream s.                                 *)
Inside == {"find", "copy", "advance", "drain", "reset", "unlock"}

In(l, s) == pc[l] \in Inside /\ Here(l) = s

(* The mutex of a stream belongs to the logger inside its sink.             *)
Owners == \A l \in Loggers : \A s \in Streams : mutex[s] = l <=> In(l, s)

(* A call was counted, so that its line has a number.                       *)
Counted(l) == pc[l] # "idle" => ncalls[l] \in 1 .. MaxCalls

(* The position read is still the position of the stream.                   *)
Found(l) == pc[l] \in {"copy", "advance", "drain", "reset"} => found[l] = pos[Here(l)]

(* A line that was copied is behind the position, and fits.                 *)
Copied(l) ==
  pc[l] = "advance" =>
    /\ found[l] + LineLen <= Capacity
    /\ found[l] + LineLen <= Len(buf[Here(l)])
    /\ \A i \in 1 .. LineLen : buf[Here(l)][found[l] + i] = Bytes(LineOf(l))[i]

InFile(s) == file[s] \o SubSeq(buf[s], 1, pos[s])

Draining(s) == \E l \in Loggers : pc[l] = "reset" /\ Here(l) = s

(* File and buffer together hold the lines. Between the two steps of a      *)
(* flush the buffer is in the file, and not yet empty.                      *)
Kept(s) == (IF Draining(s) THEN file[s] ELSE InFile(s)) = Flattened(s)

Covered(s) == flushed[s] * LineLen <= Len(file[s])

IInv ==
  /\ TypeOK /\ Owners
  /\ \A l \in Loggers : Counted(l) /\ Found(l) /\ Copied(l)
  /\ \A s \in Streams : Kept(s) /\ Covered(s)

-----------------------------------------------------------------------------
(* What the assumptions say of the constants.                               *)
LEMMA Constants ==
  /\ None \notin Loggers /\ Reversed \subseteq Loggers /\ Streams = 1 .. NStreams
  /\ NStreams \in Nat \ {0} /\ LineLen \in Nat \ {0} /\ Capacity \in Nat
  /\ LineLen <= Capacity /\ MaxCalls \in Nat
BY SharedAssumption DEF Streams

(* Quotient and remainder.                                                  *)
LEMMA DivMod ==
  ASSUME NEW L \in Nat \ {0}, NEW x \in Nat
  PROVE  x \div L \in Int /\ x % L \in 0 .. L - 1 /\ x = L * (x \div L) + (x % L)
BY SMTT(30)

(* A bound of the number bounds the quotient.                               *)
LEMMA QuotientBelow ==
  ASSUME NEW L \in Nat \ {0}, NEW q \in Int, NEW r \in 0 .. L - 1, NEW n \in Int, L * q + r < n * L
  PROVE  q < n
<1> SUFFICES ASSUME q >= n PROVE FALSE
  OBVIOUS
<1>1. L * (q - n) >= 0
  OBVIOUS
<1>2. QED
  BY <1>1

(* The quotient of a natural number is not negative.                        *)
LEMMA QuotientPositive ==
  ASSUME NEW L \in Nat \ {0}, NEW q \in Int, NEW r \in 0 .. L - 1, L * q + r >= 0
  PROVE  q >= 0
<1> SUFFICES ASSUME q <= -1 PROVE FALSE
  OBVIOUS
<1>1. L * (-1 - q) >= 0
  OBVIOUS
<1>2. QED
  BY <1>1

(* Dividing a multiple plus a remainder gives both back.                    *)
LEMMA QuotientIs ==
  ASSUME NEW L \in Nat \ {0}, NEW n \in Nat, NEW j \in 0 .. L - 1
  PROVE  (n * L + j) \div L = n /\ (n * L + j) % L = j
<1> DEFINE x == n * L + j
           q == x \div L
           r == x % L
<1>1. x \in Nat /\ n * L \in Nat
  OBVIOUS
<1>2. q \in Int /\ r \in 0 .. L - 1 /\ x = L * q + r
  BY <1>1, DivMod
<1>3. x = n * L + j
  OBVIOUS
<1> HIDE DEF x, q, r
<1>4. q < n + 1
  <2>1. (n + 1) * L = n * L + L
    OBVIOUS
  <2>2. L * q + r < (n + 1) * L
    BY <1>1, <1>2, <1>3, <2>1
  <2>3. QED
    BY <1>2, <2>2, QuotientBelow
<1>5. n < q + 1
  <2>1. (q + 1) * L = L * q + L /\ L * n = n * L
    BY <1>2
  <2>2. L * n + j < (q + 1) * L
    BY <1>1, <1>2, <1>3, <2>1
  <2>3. QED
    BY <1>2, <2>2, QuotientBelow
<1>6. q = n
  BY <1>2, <1>4, <1>5
<1>7. r = j
  <2>1. L * n = n * L
    OBVIOUS
  <2>2. QED
    BY <1>1, <1>2, <1>3, <1>6, <2>1
<1>8. QED
  BY <1>6, <1>7 DEF q, r, x

(* The first n elements.                                                    *)
LEMMA FirstAre ==
  ASSUME NEW S, NEW s \in Seq(S), NEW n \in Nat, n <= Len(s)
  PROVE  /\ SubSeq(s, 1, n) \in Seq(S) /\ Len(SubSeq(s, 1, n)) = n
         /\ \A i \in 1 .. n : SubSeq(s, 1, n)[i] = s[i]
<1>1. \A i \in 1 .. n : s[i] \in S
  BY ElementOfSeq, LenProperties
<1>2. /\ SubSeq(s, 1, n) \in Seq(S)
      /\ Len(SubSeq(s, 1, n)) = IF 1 <= n THEN n - 1 + 1 ELSE 0
      /\ \A i \in 1 .. n - 1 + 1 : SubSeq(s, 1, n)[i] = s[1 + i - 1]
  BY <1>1, SubSeqProperties
<1>3. n - 1 + 1 = n /\ \A i \in 1 .. n : 1 + i - 1 = i
  OBVIOUS
<1>4. Len(SubSeq(s, 1, n)) = n
  BY <1>2, <1>3
<1>5. QED
  BY <1>2, <1>3, <1>4

(* What a stream writes out: the first n bytes of its buffer.               *)
LEMMA WrittenOut ==
  ASSUME NEW S, NEW f \in Seq(S), NEW b \in Seq(S), NEW n \in Nat, n <= Len(b)
  PROVE  /\ f \o SubSeq(b, 1, n) \in Seq(S)
         /\ Len(f \o SubSeq(b, 1, n)) = Len(f) + n /\ Len(f) \in Nat
<1> DEFINE h == SubSeq(b, 1, n)
           c == f \o h
<1>1. h \in Seq(S) /\ Len(h) = n
  BY FirstAre
<1> HIDE DEF h
<1>2. c \in Seq(S) /\ Len(c) = Len(f) + Len(h)
  BY <1>1, ConcatProperties
<1>3. Len(f) \in Nat
  BY LenProperties
<1> HIDE DEF c
<1>4. QED
  BY <1>1, <1>2, <1>3 DEF c, h

(* What fwrite leaves in the buffer.                                        *)
LEMMA OverwrittenIs ==
  ASSUME NEW S, NEW b \in Seq(S), NEW n \in Nat, n <= Len(b), NEW y \in Seq(S)
  PROVE  LET o == Overwritten(b, n, y)
         IN  /\ o \in Seq(S) /\ Len(o) \in Nat /\ n + Len(y) <= Len(o)
             /\ \A i \in 1 .. n : o[i] = b[i]
             /\ \A i \in 1 .. Len(y) : o[n + i] = y[i]
<1> DEFINE m == n + Len(y) + 1
           head == SubSeq(b, 1, n)
           rest == SubSeq(b, m, Len(b))
           front == head \o y
<1>1. Len(b) \in Nat /\ Len(y) \in Nat /\ m \in Nat /\ \A i \in 1 .. Len(b) : b[i] \in S
  BY ElementOfSeq, LenProperties
<1>2. head \in Seq(S) /\ Len(head) = n /\ \A i \in 1 .. n : head[i] = b[i]
  BY FirstAre
<1>3. rest \in Seq(S)
  <2>1. m >= 1
    BY <1>1
  <2> HIDE DEF m
  <2>2. \A i \in m .. Len(b) : b[i] \in S
    BY <1>1, <2>1
  <2>3. QED
    BY <1>1, <2>2, SubSeqProperties
<1> HIDE DEF head, rest, m
<1>4. /\ front \in Seq(S) /\ Len(front) = n + Len(y)
      /\ \A i \in 1 .. n + Len(y) : front[i] = IF i <= n THEN head[i] ELSE y[i - n]
  BY <1>1, <1>2, ConcatProperties
<1>5. (\A i \in 1 .. n : front[i] = b[i]) /\ \A i \in 1 .. Len(y) : front[n + i] = y[i]
  <2>1. \A i \in 1 .. n : i \in 1 .. n + Len(y) /\ i <= n
    BY <1>1
  <2>2. \A i \in 1 .. Len(y) : n + i \in 1 .. n + Len(y) /\ ~(n + i <= n) /\ n + i - n = i
    BY <1>1
  <2>3. QED
    BY <1>2, <1>4, <2>1, <2>2
<1> HIDE DEF front
<1> DEFINE o == front \o rest
<1>6. /\ o \in Seq(S) /\ Len(o) = Len(front) + Len(rest) /\ Len(rest) \in Nat
      /\ \A i \in 1 .. Len(front) + Len(rest) :
           o[i] = IF i <= Len(front) THEN front[i] ELSE rest[i - Len(front)]
  BY <1>3, <1>4, ConcatProperties, LenProperties
<1> HIDE DEF o
<1>7. Len(o) \in Nat /\ n + Len(y) <= Len(o) /\ \A i \in 1 .. n + Len(y) : o[i] = front[i]
  BY <1>1, <1>4, <1>6
<1>8. (\A i \in 1 .. n : o[i] = b[i]) /\ \A i \in 1 .. Len(y) : o[n + i] = y[i]
  <2>1. \A i \in 1 .. n : i \in 1 .. n + Len(y)
    BY <1>1
  <2>2. \A i \in 1 .. Len(y) : n + i \in 1 .. n + Len(y)
    BY <1>1
  <2>3. QED
    BY <1>5, <1>7, <2>1, <2>2
<1>9. Overwritten(b, n, y) = o
  BY DEF Overwritten, o, front, head, rest, m
<1>10. QED
  BY <1>6, <1>7, <1>8, <1>9

(* The bytes of a sequence of lines.                                        *)
Flat(w) ==
  [i \in 1 .. Len(w) * LineLen |-> <<w[((i - 1) \div LineLen) + 1], ((i - 1) % LineLen) + 1>>]

(* The bytes of a line.                                                     *)
LEMMA BytesAre ==
  ASSUME NEW line \in Line
  PROVE  /\ Bytes(line) \in Seq(Byte) /\ Len(Bytes(line)) = LineLen
         /\ \A i \in 1 .. LineLen : Bytes(line)[i] = <<line, i>>
<1>1. \A i \in 1 .. LineLen : <<line, i>> \in Byte
  BY DEF Byte
<1>2. QED
  BY <1>1, Constants DEF Bytes

(* The i-th byte is a byte of the line it falls in.                         *)
LEMMA FlatIs ==
  ASSUME NEW w \in Seq(Line)
  PROVE  /\ Flat(w) \in Seq(Byte) /\ Len(Flat(w)) = Len(w) * LineLen /\ Len(w) * LineLen \in Nat
         /\ \A i \in 1 .. Len(w) * LineLen :
              /\ ((i - 1) \div LineLen) + 1 \in 1 .. Len(w)
              /\ Flat(w)[i] = <<w[((i - 1) \div LineLen) + 1], ((i - 1) % LineLen) + 1>>
<1> DEFINE n == Len(w)
           L == LineLen
<1>1. n \in Nat /\ L \in Nat \ {0} /\ n * L \in Nat
  BY Constants, LenProperties
<1>2. ASSUME NEW i \in 1 .. n * L
      PROVE  ((i - 1) \div L) + 1 \in 1 .. n /\ ((i - 1) % L) + 1 \in 1 .. L
  <2> DEFINE q == (i - 1) \div L
             r == (i - 1) % L
  <2>1. i - 1 \in Nat /\ i - 1 < n * L
    BY <1>1
  <2>2. q \in Int /\ r \in 0 .. L - 1 /\ i - 1 = L * q + r
    BY <1>1, <2>1, DivMod
  <2> HIDE DEF q, r, n, L
  <2>3. q < n /\ q >= 0
    BY <1>1, <2>1, <2>2, QuotientBelow, QuotientPositive
  <2>4. q + 1 \in 1 .. n /\ r + 1 \in 1 .. L
    BY <1>1, <2>2, <2>3
  <2>5. QED
    BY <2>4 DEF q, r
<1>3. \A i \in 1 .. n * L : <<w[((i - 1) \div L) + 1], ((i - 1) % L) + 1>> \in Byte
  <2>1. \A k \in 1 .. n : w[k] \in Line
    BY ElementOfSeq
  <2>2. QED
    BY <1>2, <2>1 DEF Byte
<1> HIDE DEF n, L
<1> DEFINE f == [i \in 1 .. n * L |-> <<w[((i - 1) \div L) + 1], ((i - 1) % L) + 1>>]
<1>4. f \in [1 .. n * L -> Byte]
  BY <1>3
<1>5. f \in Seq(Byte) /\ Len(f) = n * L
  <2>2. DOMAIN f = 1 .. n * L
    OBVIOUS
  <2> HIDE DEF f
  <2>1. f \in Seq(Byte)
    <3> DEFINE m == n * L
    <3>1. m \in Nat /\ f \in [1 .. m -> Byte]
      BY <1>1, <1>4
    <3> HIDE DEF m
    <3>2. QED
      BY <3>1
  <2>3. QED
    BY <1>1, <2>1, <2>2, LenProperties
<1>6. f = Flat(w)
  BY DEF Flat, n, L
<1>7. QED
  BY <1>1, <1>2, <1>5, <1>6 DEF n, L

(* A line more is its bytes more.                                           *)
LEMMA FlatAppend ==
  ASSUME NEW w \in Seq(Line), NEW line \in Line
  PROVE  Flat(Append(w, line)) = Flat(w) \o Bytes(line)
<1> DEFINE n == Len(w)
           L == LineLen
           v == Append(w, line)
           f == Flat(w)
           y == Bytes(line)
           c == f \o y
<1>1. n \in Nat /\ L \in Nat \ {0} /\ n * L \in Nat /\ (n + 1) * L = n * L + L
  BY Constants, LenProperties
<1>2. /\ v \in Seq(Line) /\ Len(v) = n + 1 /\ v[n + 1] = line
      /\ \A k \in 1 .. n : v[k] = w[k]
  BY AppendProperties
<1>3. /\ f \in Seq(Byte) /\ Len(f) = n * L
      /\ \A i \in 1 .. n * L :
           /\ ((i - 1) \div L) + 1 \in 1 .. n
           /\ f[i] = <<w[((i - 1) \div L) + 1], ((i - 1) % L) + 1>>
  BY FlatIs
<1>4. y \in Seq(Byte) /\ Len(y) = L /\ \A i \in 1 .. L : y[i] = <<line, i>>
  BY BytesAre
<1>5. /\ Flat(v) \in Seq(Byte) /\ Len(Flat(v)) = (n + 1) * L
      /\ \A i \in 1 .. (n + 1) * L :
           Flat(v)[i] = <<v[((i - 1) \div L) + 1], ((i - 1) % L) + 1>>
  BY <1>2, FlatIs
<1> HIDE DEF n, L, v, f, y
<1>6. /\ c \in Seq(Byte) /\ Len(c) = n * L + L
      /\ \A i \in 1 .. n * L + L : c[i] = IF i <= n * L THEN f[i] ELSE y[i - n * L]
  <2>1. /\ c \in Seq(Byte) /\ Len(c) = Len(f) + Len(y)
        /\ \A i \in 1 .. Len(f) + Len(y) : c[i] = IF i <= Len(f) THEN f[i] ELSE y[i - Len(f)]
    BY <1>3, <1>4, ConcatProperties
  <2>2. Len(f) = n * L /\ Len(y) = L
    BY <1>3, <1>4
  <2>3. QED
    BY <2>1, <2>2
<1>7. ASSUME NEW i \in 1 .. n * L + L PROVE Flat(v)[i] = c[i]
  <2>1. Flat(v)[i] = <<v[((i - 1) \div L) + 1], ((i - 1) % L) + 1>>
    BY <1>1, <1>5
  <2>2. CASE i <= n * L
    <3>1. i \in 1 .. n * L
      BY <1>1, <2>2
    <3>2. QED
      BY <1>2, <1>3, <1>6, <2>1, <2>2, <3>1
  <2>3. CASE ~(i <= n * L)
    <3> DEFINE j == i - n * L - 1
    <3>1. j \in 0 .. L - 1 /\ i - 1 = n * L + j /\ i - n * L = j + 1 /\ j + 1 \in 1 .. L
      BY <1>1, <2>3
    <3> HIDE DEF j
    <3>2. (i - 1) \div L = n /\ (i - 1) % L = j
      BY <1>1, <3>1, QuotientIs
    <3>3. Flat(v)[i] = <<line, j + 1>>
      BY <1>2, <2>1, <3>2
    <3>4. c[i] = <<line, j + 1>>
      BY <1>4, <1>6, <2>3, <3>1
    <3>5. QED
      BY <3>3, <3>4
  <2>4. QED
    BY <2>2, <2>3
<1>8. Flat(v) = c
  BY <1>1, <1>5, <1>6, <1>7, SeqEqual
<1>9. QED
  BY <1>8 DEF v, f, y

-----------------------------------------------------------------------------
(* The types of a logger's fields.                                          *)
LEMMA LoggerFields ==
  ASSUME TypeOK, NEW l \in Loggers
  PROVE  /\ pc[l] \in {"idle", "lock", "find", "copy", "advance", "drain", "reset", "unlock"}
         /\ op[l] \in {"none", "write", "flush"} /\ at[l] \in 1 .. NStreams
         /\ found[l] \in 0 .. Capacity /\ ncalls[l] \in 0 .. MaxCalls
BY DEF TypeOK, Streams

(* A logger is at a stream.                                                 *)
LEMMA HereIn ==
  ASSUME TypeOK, NEW l \in Loggers
  PROVE  Here(l) \in Streams
<1>1. at[l] \in 1 .. NStreams
  BY LoggerFields
<1>2. \A k \in 1 .. NStreams : NStreams + 1 - k \in 1 .. NStreams
  BY Constants
<1>3. QED
  BY <1>1, <1>2, Constants DEF Here, StreamAt

(* The types of a stream's fields.                                          *)
LEMMA StreamFields ==
  ASSUME TypeOK, NEW s \in Streams
  PROVE  /\ mutex[s] \in Loggers \cup {None}
         /\ buf[s] \in Seq(Byte) /\ file[s] \in Seq(Byte)
         /\ pos[s] \in 0 .. Capacity /\ pos[s] <= Len(buf[s])
         /\ written[s] \in Seq(Line) /\ flushed[s] \in Nat
BY DEF TypeOK

(* Flattened is Flat of the lines completed.                                *)
LEMMA FlattenedIs ==
  ASSUME NEW s \in Streams
  PROVE  Flattened(s) = Flat(written[s])
BY DEF Flattened, Flat

(* Only one logger is inside the sink of a stream.                          *)
LEMMA Sole ==
  ASSUME Owners, NEW s \in Streams, NEW l \in Loggers, NEW u \in Loggers, In(l, s), In(u, s)
  PROVE  u = l
BY DEF Owners

Act(l) == Write(l) \/ Flush(l) \/ Step(l)

Begins(l) == Write(l) \/ Flush(l)

(* The other loggers stand still while l takes a step.                      *)
LEMMA OthersStand ==
  ASSUME TypeOK, NEW l \in Loggers, Act(l)
  PROVE  \A u \in Loggers \ {l} :
           /\ pc'[u] = pc[u] /\ at'[u] = at[u] /\ found'[u] = found[u] /\ ncalls'[u] = ncalls[u]
           /\ op'[u] = op[u]
<1>1. CASE Write(l)
  BY <1>1 DEF Write, Begin, Goto, TypeOK
<1>2. CASE Flush(l)
  BY <1>2 DEF Flush, Begin, Goto, TypeOK
<1>3. CASE Lock(l)
  BY <1>3 DEF Lock, Goto, TypeOK
<1>4. CASE FindPosition(l)
  BY <1>4 DEF FindPosition, Goto, TypeOK
<1>5. CASE CopyLine(l)
  BY <1>5 DEF CopyLine, Goto, TypeOK
<1>6. CASE Advance(l)
  BY <1>6 DEF Advance, Goto, TypeOK
<1>7. CASE Drain(l)
  BY <1>7 DEF Drain, Goto, TypeOK
<1>8. CASE Reset(l)
  BY <1>8 DEF Reset, Goto, TypeOK
<1>9. CASE Unlock(l)
  BY <1>9 DEF Unlock, Goto, TypeOK
<1>10. QED
  BY <1>1, <1>2, <1>3, <1>4, <1>5, <1>6, <1>7, <1>8, <1>9 DEF Act, Step

(* A step that leaves the streams alone keeps the invariant if it keeps the *)
(* owners, and the parts of its own logger.                                 *)
LEMMA Quiet ==
  ASSUME IInv, TypeOK', Owners', NEW l \in Loggers, Act(l),
         UNCHANGED <<buf, pos, file, written, flushed>>, pc[l] # "reset", pc'[l] # "reset",
         Counted(l)', Found(l)', Copied(l)'
  PROVE  IInv'
<1>1. TypeOK
  BY DEF IInv
<1>2. ASSUME NEW u \in Loggers PROVE (Counted(u) /\ Found(u) /\ Copied(u))'
  <2>1. CASE u = l
    BY <2>1
  <2>2. CASE u # l
    <3>1. /\ pc'[u] = pc[u] /\ at'[u] = at[u] /\ found'[u] = found[u] /\ ncalls'[u] = ncalls[u]
          /\ buf' = buf /\ pos' = pos
      BY <1>1, <2>2, OthersStand
    <3>2. Counted(u) /\ Found(u) /\ Copied(u)
      BY DEF IInv
    <3>3. Here(u)' = Here(u) /\ LineOf(u)' = LineOf(u)
      BY <3>1 DEF Here, StreamAt, LineOf
    <3>4. Counted(u)' /\ Found(u)'
      BY <3>1, <3>2, <3>3 DEF Counted, Found
    <3>5. Copied(u)'
      BY <3>1, <3>2, <3>3 DEF Copied, Bytes
    <3>6. QED
      BY <3>4, <3>5
  <2>3. QED
    BY <2>1, <2>2
<1>3. ASSUME NEW s \in Streams PROVE (Kept(s) /\ Covered(s))'
  <2>1. Kept(s) /\ Covered(s)
    BY DEF IInv
  <2>2. \A u \in Loggers : (pc'[u] = "reset" /\ Here(u)' = s) <=> (pc[u] = "reset" /\ Here(u) = s)
    BY <1>1, OthersStand DEF Here, StreamAt
  <2>3. Draining(s)' <=> Draining(s)
    BY <2>2 DEF Draining
  <2>4. InFile(s)' = InFile(s) /\ Flattened(s)' = Flattened(s)
    BY DEF InFile, Flattened
  <2>5. Kept(s)'
    BY <2>1, <2>3, <2>4 DEF Kept
  <2>6. Covered(s)'
    BY <2>1 DEF Covered
  <2>7. QED
    BY <2>5, <2>6
<1>4. QED
  BY <1>2, <1>3 DEF IInv

(* A step inside the sink of a stream keeps the invariant if it leaves the  *)
(* other streams alone, and keeps the parts of its logger and its stream.   *)
LEMMA Local ==
  ASSUME IInv, TypeOK', NEW l \in Loggers, Act(l), NEW s \in Streams,
         In(l, s), In(l, s)', mutex' = mutex, at' = at, ncalls' = ncalls,
         \A r \in Streams \ {s} : /\ buf'[r] = buf[r] /\ pos'[r] = pos[r] /\ file'[r] = file[r]
                                  /\ written'[r] = written[r] /\ flushed'[r] = flushed[r],
         Found(l)', Copied(l)', Kept(s)', Covered(s)'
  PROVE  IInv'
<1>1. TypeOK /\ Owners
  BY DEF IInv
<1>2. \A u \in Loggers : Here(u)' = Here(u) /\ LineOf(u)' = LineOf(u)
  BY DEF Here, StreamAt, LineOf
<1>3. \A u \in Loggers \ {l} : pc'[u] = pc[u] /\ found'[u] = found[u]
  BY <1>1, OthersStand
<1>4. Owners'
  <2>1. ASSUME NEW u \in Loggers, NEW r \in Streams PROVE In(u, r)' <=> In(u, r)
    <3>1. CASE u = l
      BY <1>2, <3>1 DEF In
    <3>2. CASE u # l
      BY <1>2, <1>3, <3>2 DEF In
    <3>3. QED
      BY <3>1, <3>2
  <2>2. QED
    BY <1>1, <2>1 DEF Owners
<1>5. ASSUME NEW u \in Loggers PROVE (Counted(u) /\ Found(u) /\ Copied(u))'
  <2>1. CASE u = l
    <3>1. pc[l] # "idle"
      BY DEF In, Inside
    <3>2. Counted(l)
      BY DEF IInv
    <3>3. Counted(l)'
      BY <3>1, <3>2 DEF Counted
    <3>4. QED
      BY <2>1, <3>3
  <2>2. CASE u # l
    <3>1. Counted(u) /\ Found(u) /\ Copied(u)
      BY DEF IInv
    <3>2. Counted(u)'
      BY <1>3, <2>2, <3>1 DEF Counted
    <3>3. CASE pc[u] \notin Inside
      BY <1>3, <2>2, <3>2, <3>3 DEF Found, Copied, Inside
    <3>4. CASE pc[u] \in Inside
      <4>1. Here(u) \in Streams
        BY <1>1, HereIn
      <4>2. Here(u) # s
        BY <1>1, <2>2, <3>4, Sole DEF In
      <4>3. buf'[Here(u)] = buf[Here(u)] /\ pos'[Here(u)] = pos[Here(u)]
        BY <4>1, <4>2
      <4>4. Found(u)'
        BY <1>2, <1>3, <2>2, <3>1, <4>3 DEF Found
      <4>5. Copied(u)'
        <5>1. pc'[u] = pc[u] /\ found'[u] = found[u]
          BY <1>3, <2>2
        <5>2. Bytes(LineOf(u))' = Bytes(LineOf(u))
          BY <1>2 DEF Bytes
        <5>3. buf'[Here(u)'] = buf[Here(u)]
          BY <1>2, <4>3
        <5>4. QED
          BY <3>1, <5>1, <5>2, <5>3 DEF Copied
      <4>6. QED
        BY <3>2, <4>4, <4>5
    <3>5. QED
      BY <3>3, <3>4
  <2>3. QED
    BY <2>1, <2>2
<1>6. ASSUME NEW r \in Streams PROVE (Kept(r) /\ Covered(r))'
  <2>1. CASE r = s
    BY <2>1
  <2>2. CASE r # s
    <3>1. Kept(r) /\ Covered(r)
      BY DEF IInv
    <3>2. Here(l) = s /\ Here(l)' = s
      BY DEF In
    <3>3. \A u \in Loggers : (pc'[u] = "reset" /\ Here(u)' = r) <=> (pc[u] = "reset" /\ Here(u) = r)
      BY <1>2, <1>3, <2>2, <3>2
    <3>4. Draining(r)' <=> Draining(r)
      BY <3>3 DEF Draining
    <3>5. /\ buf'[r] = buf[r] /\ pos'[r] = pos[r] /\ file'[r] = file[r]
          /\ written'[r] = written[r] /\ flushed'[r] = flushed[r]
      BY <2>2
    <3>6. InFile(r)' = InFile(r) /\ Flattened(r)' = Flattened(r)
      BY <3>5 DEF InFile, Flattened
    <3>7. Kept(r)'
      BY <3>1, <3>4, <3>5, <3>6 DEF Kept
    <3>8. Covered(r)'
      BY <3>1, <3>5 DEF Covered
    <3>9. QED
      BY <3>7, <3>8
  <2>3. QED
    BY <2>1, <2>2
<1>7. QED
  BY <1>4, <1>5, <1>6 DEF IInv

(* A write or a flush begins.                                               *)
LEMMA BeginKept ==
  ASSUME IInv, NEW l \in Loggers, Begins(l)
  PROVE  IInv'
<1>1. TypeOK /\ Owners /\ Act(l)
  BY DEF IInv, Begins, Act
<1>2. PICK o \in {"write", "flush"} : Begin(l, o)
  BY DEF Begins, Write, Flush
<1>3. /\ pc[l] = "idle" /\ pc' = [pc EXCEPT ![l] = "lock"] /\ ncalls[l] < MaxCalls
      /\ ncalls' = [ncalls EXCEPT ![l] = @ + 1] /\ at' = [at EXCEPT ![l] = 1]
      /\ op' = [op EXCEPT ![l] = o] /\ UNCHANGED <<mutex, buf, pos, file, found, written, flushed>>
  BY <1>2 DEF Begin, Goto, streamVars
<1>4. /\ pc'[l] = "lock" /\ ncalls'[l] = ncalls[l] + 1
      /\ ncalls[l] \in Nat /\ ncalls[l] + 1 \in 1 .. MaxCalls
  <2>1. pc'[l] = "lock" /\ ncalls'[l] = ncalls[l] + 1
    BY <1>1, <1>3 DEF TypeOK
  <2>2. ncalls[l] \in 0 .. MaxCalls
    BY <1>1, LoggerFields
  <2>3. QED
    BY <1>3, <2>1, <2>2, Constants
<1>5. TypeOK'
  <2>1. ncalls' \in [Loggers -> 0 .. MaxCalls]
    <3>1. ncalls[l] + 1 \in 0 .. MaxCalls
      BY <1>4, Constants
    <3>2. QED
      BY <1>1, <1>3, <3>1 DEF TypeOK
  <2>2. at' \in [Loggers -> Streams]
    <3>1. 1 \in Streams
      BY Constants
    <3>2. QED
      BY <1>1, <1>3, <3>1 DEF TypeOK
  <2>3. /\ pc' \in [Loggers -> {"idle", "lock", "find", "copy", "advance", "drain", "reset", "unlock"}]
        /\ op' \in [Loggers -> {"none", "write", "flush"}]
    BY <1>1, <1>3 DEF TypeOK
  <2>4. QED
    BY <1>1, <1>3, <2>1, <2>2, <2>3 DEF TypeOK
<1>6. Owners'
  <2>1. ASSUME NEW u \in Loggers, NEW r \in Streams PROVE In(u, r)' <=> In(u, r)
    <3>1. CASE u = l
      BY <1>3, <1>4, <3>1 DEF In, Inside
    <3>2. CASE u # l
      BY <1>1, <3>2, OthersStand DEF In, Here, StreamAt
    <3>3. QED
      BY <3>1, <3>2
  <2>2. QED
    BY <1>1, <1>3, <2>1 DEF Owners
<1>7. Counted(l)' /\ Found(l)' /\ Copied(l)'
  <2>1. ncalls'[l] \in 1 .. MaxCalls
    BY <1>4
  <2>2. QED
    BY <1>4, <2>1 DEF Counted, Found, Copied
<1>8. QED
  BY <1>1, <1>3, <1>4, <1>5, <1>6, <1>7, Quiet

(* The mutex of the stream is taken.                                        *)
LEMMA LockKept ==
  ASSUME Shared, IInv, NEW l \in Loggers, Lock(l)
  PROVE  IInv'
<1>1. TypeOK /\ Owners /\ Act(l) /\ Here(l) \in Streams
  BY HereIn DEF IInv, Step, Act
<1>2. /\ pc[l] = "lock" /\ pc' = [pc EXCEPT ![l] = "find"]
      /\ mutex[Here(l)] = None /\ mutex' = [mutex EXCEPT ![Here(l)] = l]
      /\ UNCHANGED <<buf, pos, file, op, at, found, ncalls, written, flushed>>
  BY DEF Lock, Goto, streamVars
<1>3. /\ pc'[l] = "find" /\ mutex'[Here(l)] = l
      /\ \A r \in Streams \ {Here(l)} : mutex'[r] = mutex[r]
  BY <1>1, <1>2 DEF TypeOK
<1>4. TypeOK'
  <2>1. mutex' \in [Streams -> Loggers \cup {None}]
    BY <1>1, <1>2 DEF TypeOK
  <2>2. pc' \in [Loggers -> {"idle", "lock", "find", "copy", "advance", "drain", "reset", "unlock"}]
    BY <1>1, <1>2 DEF TypeOK
  <2>3. QED
    BY <1>1, <1>2, <2>1, <2>2 DEF TypeOK
<1>5. Owners'
  <2>1. \A u \in Loggers : Here(u)' = Here(u)
    BY <1>2 DEF Here, StreamAt
  <2>2. ASSUME NEW u \in Loggers, NEW r \in Streams PROVE mutex'[r] = u <=> In(u, r)'
    <3>1. mutex[r] = u <=> In(u, r)
      BY <1>1 DEF Owners
    <3>2. CASE u = l
      <4>1. ~In(u, r)
        BY <1>2, <3>2 DEF In, Inside
      <4>2. In(u, r)' <=> Here(l) = r
        BY <1>3, <2>1, <3>2 DEF In, Inside
      <4>3. QED
        BY <1>3, <3>1, <3>2, <4>1, <4>2
    <3>3. CASE u # l
      <4>1. In(u, r)' <=> In(u, r)
        BY <1>1, <2>1, <3>3, OthersStand DEF In
      <4>2. u # None
        BY Constants
      <4>3. QED
        BY <1>2, <1>3, <3>1, <3>3, <4>1, <4>2
    <3>4. QED
      BY <3>2, <3>3
  <2>3. QED
    BY <2>2 DEF Owners
<1>6. Counted(l)' /\ Found(l)' /\ Copied(l)'
  <2>1. Counted(l)
    BY DEF IInv
  <2>2. QED
    BY <1>2, <1>3, <2>1 DEF Counted, Found, Copied
<1>7. QED
  BY <1>1, <1>2, <1>3, <1>4, <1>5, <1>6, Quiet

(* The position of the stream is read.                                      *)
LEMMA FindKept ==
  ASSUME IInv, NEW l \in Loggers, FindPosition(l)
  PROVE  IInv'
<1>1. TypeOK /\ Owners /\ Act(l) /\ Here(l) \in Streams
  BY HereIn DEF IInv, Step, Act
<1>2. PICK p \in {"copy", "drain"} :
        /\ pc[l] = "find" /\ pc' = [pc EXCEPT ![l] = p]
        /\ found' = [found EXCEPT ![l] = pos[Here(l)]]
        /\ UNCHANGED <<mutex, buf, pos, file, op, at, ncalls, written, flushed>>
  BY DEF FindPosition, Goto, streamVars
<1>3. pc'[l] = p /\ found'[l] = pos[Here(l)] /\ \A u \in Loggers : Here(u)' = Here(u)
  BY <1>1, <1>2 DEF TypeOK, Here, StreamAt
<1>4. TypeOK'
  <2>1. found' \in [Loggers -> 0 .. Capacity]
    <3>1. pos[Here(l)] \in 0 .. Capacity
      BY <1>1, StreamFields
    <3>2. QED
      BY <1>1, <1>2, <3>1 DEF TypeOK
  <2>2. pc' \in [Loggers -> {"idle", "lock", "find", "copy", "advance", "drain", "reset", "unlock"}]
    BY <1>1, <1>2 DEF TypeOK
  <2>3. QED
    BY <1>1, <1>2, <2>1, <2>2 DEF TypeOK
<1>5. Owners'
  <2>1. ASSUME NEW u \in Loggers, NEW r \in Streams PROVE In(u, r)' <=> In(u, r)
    <3>1. CASE u = l
      BY <1>2, <1>3, <3>1 DEF In, Inside
    <3>2. CASE u # l
      BY <1>1, <1>3, <3>2, OthersStand DEF In
    <3>3. QED
      BY <3>1, <3>2
  <2>2. QED
    BY <1>1, <1>2, <2>1 DEF Owners
<1>6. Counted(l)' /\ Found(l)' /\ Copied(l)'
  <2>1. Counted(l)
    BY DEF IInv
  <2>2. QED
    BY <1>2, <1>3, <2>1 DEF Counted, Found, Copied
<1>7. QED
  BY <1>1, <1>2, <1>3, <1>4, <1>5, <1>6, Quiet

(* The mutex is let go, and the logger turns to its next sink.              *)
LEMMA UnlockKept ==
  ASSUME Shared, IInv, NEW l \in Loggers, Unlock(l)
  PROVE  IInv'
<1>1. TypeOK /\ Owners /\ Act(l) /\ Here(l) \in Streams
  BY HereIn DEF IInv, Step, Act
<1>2. PICK p \in {"lock", "idle"}, k \in Streams :
        /\ pc[l] = "unlock" /\ pc' = [pc EXCEPT ![l] = p] /\ at' = [at EXCEPT ![l] = k]
        /\ mutex' = [mutex EXCEPT ![Here(l)] = None]
        /\ UNCHANGED <<buf, pos, file, op, found, ncalls, written, flushed>>
  <2>1. /\ pc[l] = "unlock" /\ mutex' = [mutex EXCEPT ![Here(l)] = None]
        /\ UNCHANGED <<buf, pos, file, op, found, ncalls, written, flushed>>
    BY DEF Unlock, streamVars
  <2>2. at[l] \in 1 .. NStreams
    BY <1>1, LoggerFields
  <2>3. CASE at[l] < NStreams
    <3>1. at[l] + 1 \in Streams
      BY <2>2, <2>3, Constants
    <3>2. pc' = [pc EXCEPT ![l] = "lock"] /\ at' = [at EXCEPT ![l] = at[l] + 1]
      BY <2>3 DEF Unlock, Goto
    <3>3. QED
      BY <2>1, <3>1, <3>2
  <2>4. CASE ~(at[l] < NStreams)
    <3>1. 1 \in Streams
      BY Constants
    <3>2. pc' = [pc EXCEPT ![l] = "idle"] /\ at' = [at EXCEPT ![l] = 1]
      BY <2>4 DEF Unlock, Goto
    <3>3. QED
      BY <2>1, <3>1, <3>2
  <2>5. QED
    BY <2>3, <2>4
<1>3. /\ pc'[l] = p /\ mutex'[Here(l)] = None
      /\ \A r \in Streams \ {Here(l)} : mutex'[r] = mutex[r]
  BY <1>1, <1>2 DEF TypeOK
<1>4. TypeOK'
  <2>1. mutex' \in [Streams -> Loggers \cup {None}]
    BY <1>1, <1>2 DEF TypeOK
  <2>2. pc' \in [Loggers -> {"idle", "lock", "find", "copy", "advance", "drain", "reset", "unlock"}]
    BY <1>1, <1>2 DEF TypeOK
  <2>3. at' \in [Loggers -> Streams]
    BY <1>1, <1>2 DEF TypeOK
  <2>4. QED
    BY <1>1, <1>2, <2>1, <2>2, <2>3 DEF TypeOK
<1>5. Owners'
  <2>1. ASSUME NEW u \in Loggers, NEW r \in Streams PROVE mutex'[r] = u <=> In(u, r)'
    <3>1. (mutex[r] = u <=> In(u, r)) /\ u # None
      BY <1>1, Constants DEF Owners
    <3>2. In(l, Here(l))
      BY <1>2 DEF In, Inside
    <3>3. CASE u = l
      <4>1. ~In(u, r)'
        BY <1>2, <1>3, <3>3 DEF In, Inside
      <4>2. In(u, r) => r = Here(l)
        BY <3>3 DEF In
      <4>3. QED
        BY <1>3, <3>1, <4>1, <4>2
    <3>4. CASE u # l
      <4>1. In(u, r)' <=> In(u, r)
        BY <1>1, <3>4, OthersStand DEF In, Here, StreamAt
      <4>2. r = Here(l) => ~In(u, r)
        BY <1>1, <3>2, <3>4, Sole
      <4>3. QED
        BY <1>3, <3>1, <4>1, <4>2
    <3>5. QED
      BY <3>3, <3>4
  <2>2. QED
    BY <2>1 DEF Owners
<1>6. Counted(l)' /\ Found(l)' /\ Copied(l)'
  <2>1. Counted(l)
    BY DEF IInv
  <2>2. QED
    BY <1>2, <1>3, <2>1 DEF Counted, Found, Copied
<1>7. QED
  BY <1>1, <1>2, <1>3, <1>4, <1>5, <1>6, Quiet

(* While a logger that is not at reset is inside a sink, nobody drains it.  *)
LEMMA NotDraining ==
  ASSUME Owners, NEW s \in Streams, NEW l \in Loggers, In(l, s), pc[l] # "reset"
  PROVE  ~Draining(s)
<1> SUFFICES ASSUME Draining(s) PROVE FALSE
  OBVIOUS
<1>1. PICK u \in Loggers : pc[u] = "reset" /\ Here(u) = s
  BY DEF Draining
<1>2. u = l
  BY <1>1, Sole DEF In, Inside
<1>3. QED
  BY <1>1, <1>2

(* The position a logger read is that of the stream it is at.               *)
LEMMA FoundFacts ==
  ASSUME IInv, NEW l \in Loggers, pc[l] \in {"copy", "advance", "drain", "reset"}
  PROVE  LET s == Here(l)
             n == found[l]
         IN  /\ s \in Streams /\ n \in Nat /\ n \in 0 .. Capacity /\ n = pos[s]
             /\ buf[s] \in Seq(Byte) /\ file[s] \in Seq(Byte)
             /\ n <= Len(buf[s]) /\ Len(buf[s]) \in Nat
             /\ Kept(s) /\ Covered(s) /\ In(l, s)
             /\ LineOf(l) \in Line
             /\ Bytes(LineOf(l)) \in Seq(Byte) /\ Len(Bytes(LineOf(l))) = LineLen
<1>1. TypeOK /\ Here(l) \in Streams
  BY HereIn DEF IInv
<1>2. Found(l) /\ Counted(l) /\ Kept(Here(l)) /\ Covered(Here(l))
  BY <1>1 DEF IInv
<1>3. found[l] \in Nat /\ found[l] \in 0 .. Capacity /\ found[l] = pos[Here(l)]
  <2>1. found[l] = pos[Here(l)]
    BY <1>2 DEF Found
  <2>2. found[l] \in 0 .. Capacity
    BY <1>1, LoggerFields
  <2>3. QED
    BY <2>1, <2>2, Constants
<1>4. /\ buf[Here(l)] \in Seq(Byte) /\ file[Here(l)] \in Seq(Byte)
      /\ pos[Here(l)] <= Len(buf[Here(l)]) /\ Len(buf[Here(l)]) \in Nat
  BY <1>1, StreamFields, LenProperties
<1>5. LineOf(l) \in Line
  <2>1. ncalls[l] \in 1 .. MaxCalls
    BY <1>2 DEF Counted
  <2>2. QED
    BY <2>1 DEF LineOf, Line
<1>6. In(l, Here(l))
  BY DEF In, Inside
<1>7. QED
  BY <1>1, <1>2, <1>3, <1>4, <1>5, <1>6, BytesAre

(* A line is copied, and the position stays, unless the buffer is full.     *)
LEMMA CopyKept ==
  ASSUME IInv, NEW l \in Loggers, CopyLine(l)
  PROVE  IInv'
<1> DEFINE s == Here(l)
           n == found[l]
           y == Bytes(LineOf(l))
<1>1. TypeOK /\ Owners /\ Act(l) /\ s \in Streams
  BY HereIn DEF IInv, Step, Act
<1>2. /\ pc[l] = "copy" /\ pc' = [pc EXCEPT ![l] = "advance"]
      /\ mutex' = mutex /\ op' = op /\ at' = at /\ ncalls' = ncalls /\ written' = written
      /\ flushed' = flushed
  BY DEF CopyLine, Goto
<1>3. pc'[l] = "advance" /\ s' = s /\ y' = y
  <2>1. pc'[l] = "advance"
    BY <1>1, <1>2 DEF TypeOK
  <2>2. s' = s /\ LineOf(l)' = LineOf(l)
    BY <1>2 DEF Here, StreamAt, LineOf
  <2>3. QED
    BY <2>1, <2>2 DEF Bytes
<1>4. In(l, s) /\ In(l, s)' /\ ~Draining(s)
  <2>1. In(l, s) /\ In(l, s)'
    BY <1>2, <1>3 DEF In, Inside
  <2>2. QED
    BY <1>1, <1>2, <2>1, NotDraining
<1>5. Draining(s)' <=> FALSE
  <2>1. ASSUME NEW u \in Loggers PROVE ~(pc'[u] = "reset" /\ Here(u)' = s)
    <3>1. CASE u = l
      BY <1>3, <3>1
    <3>2. CASE u # l
      <4>1. pc'[u] = pc[u] /\ Here(u)' = Here(u)
        BY <1>1, <3>2, OthersStand DEF Here, StreamAt
      <4>2. QED
        BY <1>4, <4>1 DEF Draining
    <3>3. QED
      BY <3>1, <3>2
  <2>2. QED
    BY <1>3, <2>1 DEF Draining
<1>6. /\ buf[s] \in Seq(Byte) /\ file[s] \in Seq(Byte) /\ n \in Nat /\ n = pos[s]
      /\ n \in 0 .. Capacity /\ n <= Len(buf[s]) /\ Len(buf[s]) \in Nat
  BY <1>2, FoundFacts
<1>7. y \in Seq(Byte) /\ Len(y) = LineLen
  BY <1>2, FoundFacts
<1>8. InFile(s) = Flattened(s) /\ Flattened(s)' = Flattened(s)
  <2>1. Kept(s)
    BY <1>1 DEF IInv
  <2>2. QED
    BY <1>2, <1>3, <1>4, <2>1 DEF Kept, Flattened
<1>9. Covered(s)
  BY <1>1 DEF IInv
<1>10. CASE n + LineLen <= Capacity
  <2> DEFINE o == Overwritten(buf[s], n, y)
  <2>1. buf' = [buf EXCEPT ![s] = o] /\ file' = file /\ pos' = pos /\ found' = found
    BY <1>10 DEF CopyLine
  <2>2. /\ o \in Seq(Byte) /\ Len(o) \in Nat /\ n + LineLen <= Len(o)
        /\ \A i \in 1 .. n : o[i] = buf[s][i]
        /\ \A i \in 1 .. LineLen : o[n + i] = y[i]
    <3> DEFINE b == buf[s]
    <3>1. b \in Seq(Byte) /\ n \in Nat /\ n <= Len(b) /\ y \in Seq(Byte) /\ Len(y) = LineLen
      BY <1>6, <1>7
    <3> HIDE DEF b, n, y, s
    <3>2. LET q == Overwritten(b, n, y)
          IN  /\ q \in Seq(Byte) /\ Len(q) \in Nat /\ n + Len(y) <= Len(q)
              /\ \A i \in 1 .. n : q[i] = b[i]
              /\ \A i \in 1 .. Len(y) : q[n + i] = y[i]
      BY <3>1, OverwrittenIs
    <3>3. QED
      BY <3>1, <3>2 DEF b
  <2> HIDE DEF o, n, y
  <2>3. buf'[s] = o /\ \A r \in Streams \ {s} : buf'[r] = buf[r]
    BY <1>1, <2>1 DEF TypeOK
  <2>4. TypeOK'
    <3>1. buf' \in [Streams -> Seq(Byte)]
      BY <1>1, <2>1, <2>2 DEF TypeOK
    <3>2. \A r \in Streams : pos'[r] <= Len(buf'[r])
      <4>1. pos'[s] <= Len(buf'[s])
        BY <1>6, <2>1, <2>2, <2>3, Constants
      <4>2. QED
        BY <1>1, <2>1, <2>3, <4>1 DEF TypeOK
    <3>3. pc' \in [Loggers -> {"idle", "lock", "find", "copy", "advance", "drain", "reset", "unlock"}]
      BY <1>1, <1>2 DEF TypeOK
    <3>4. QED
      BY <1>1, <1>2, <2>1, <3>1, <3>2, <3>3 DEF TypeOK
  <2>5. Found(l)'
    BY <1>3, <1>6, <2>1 DEF Found, n
  <2>6. Copied(l)'
    <3>1. found'[l] = n /\ Bytes(LineOf(l))' = y
      BY <1>3, <2>1 DEF n, y
    <3>2. QED
      BY <1>3, <1>10, <2>2, <2>3, <3>1 DEF Copied
  <2>7. InFile(s)' = InFile(s)
    <3>1. SubSeq(o, 1, n) = SubSeq(buf[s], 1, n)
      <4>1. n <= Len(o)
        BY <1>6, <2>2, Constants
      <4>2. /\ SubSeq(o, 1, n) \in Seq(Byte) /\ Len(SubSeq(o, 1, n)) = n
            /\ \A i \in 1 .. n : SubSeq(o, 1, n)[i] = o[i]
        BY <1>6, <2>2, <4>1, FirstAre
      <4>3. /\ SubSeq(buf[s], 1, n) \in Seq(Byte) /\ Len(SubSeq(buf[s], 1, n)) = n
            /\ \A i \in 1 .. n : SubSeq(buf[s], 1, n)[i] = buf[s][i]
        BY <1>6, FirstAre
      <4>4. \A i \in 1 .. n : SubSeq(o, 1, n)[i] = SubSeq(buf[s], 1, n)[i]
        BY <2>2, <4>2, <4>3
      <4>5. QED
        BY <4>2, <4>3, <4>4, SeqEqual
    <3>2. InFile(s)' = file'[s] \o SubSeq(buf'[s], 1, pos'[s])
      BY <1>3 DEF InFile
    <3>3. QED
      BY <1>6, <2>1, <2>3, <3>1, <3>2 DEF InFile
  <2>8. Kept(s)' /\ Covered(s)'
    <3>1. Kept(s)'
      BY <1>3, <1>5, <1>8, <2>7 DEF Kept
    <3>2. Covered(s)'
      BY <1>2, <1>3, <1>9, <2>1 DEF Covered
    <3>3. QED
      BY <3>1, <3>2
  <2>9. \A r \in Streams \ {s} : /\ buf'[r] = buf[r] /\ pos'[r] = pos[r] /\ file'[r] = file[r]
                                 /\ written'[r] = written[r] /\ flushed'[r] = flushed[r]
    BY <1>2, <2>1, <2>3
  <2> HIDE DEF s
  <2>10. QED
    BY <1>1, <1>2, <1>3, <1>4, <2>4, <2>5, <2>6, <2>8, <2>9, Local
<1>11. CASE ~(n + LineLen <= Capacity)
  <2> DEFINE f == file[s] \o SubSeq(buf[s], 1, n)
  <2>1. /\ file' = [file EXCEPT ![s] = f] /\ buf' = [buf EXCEPT ![s] = y]
        /\ pos' = [pos EXCEPT ![s] = 0] /\ found' = [found EXCEPT ![l] = 0]
    BY <1>11 DEF CopyLine
  <2>2. f = InFile(s)
    BY <1>6 DEF InFile
  <2>3. f \in Seq(Byte) /\ Len(f) = Len(file[s]) + n /\ Len(file[s]) \in Nat
    <3> DEFINE g == file[s]
               b == buf[s]
    <3>1. g \in Seq(Byte) /\ b \in Seq(Byte) /\ n \in Nat /\ n <= Len(b)
      BY <1>6
    <3> HIDE DEF g, b, n
    <3>2. g \o SubSeq(b, 1, n) \in Seq(Byte) /\ Len(g \o SubSeq(b, 1, n)) = Len(g) + n /\ Len(g) \in Nat
      BY <3>1, WrittenOut
    <3>3. QED
      BY <3>2 DEF g, b
  <2> HIDE DEF f, n, y
  <2>4. /\ buf'[s] = y /\ file'[s] = f /\ pos'[s] = 0 /\ found'[l] = 0
        /\ \A r \in Streams \ {s} : buf'[r] = buf[r] /\ pos'[r] = pos[r] /\ file'[r] = file[r]
    BY <1>1, <2>1 DEF TypeOK
  <2>5. TypeOK'
    <3>1. buf' \in [Streams -> Seq(Byte)] /\ file' \in [Streams -> Seq(Byte)]
      BY <1>1, <1>7, <2>1, <2>3 DEF TypeOK
    <3>2. 0 \in 0 .. Capacity /\ 0 <= LineLen
      BY Constants
    <3>3. pos' \in [Streams -> 0 .. Capacity] /\ found' \in [Loggers -> 0 .. Capacity]
      BY <1>1, <2>1, <3>2 DEF TypeOK
    <3>4. \A r \in Streams : pos'[r] <= Len(buf'[r])
      <4>1. pos'[s] <= Len(buf'[s])
        BY <1>7, <2>4, <3>2
      <4>2. QED
        BY <1>1, <2>4, <4>1 DEF TypeOK
    <3>5. pc' \in [Loggers -> {"idle", "lock", "find", "copy", "advance", "drain", "reset", "unlock"}]
      BY <1>1, <1>2 DEF TypeOK
    <3>6. QED
      BY <1>1, <1>2, <3>1, <3>3, <3>4, <3>5 DEF TypeOK
  <2>6. Found(l)'
    BY <1>3, <2>4 DEF Found
  <2>7. Copied(l)'
    <3>1. Bytes(LineOf(l))' = y
      BY <1>3 DEF y
    <3>2. 0 + LineLen <= Capacity /\ 0 + LineLen <= LineLen /\ \A i \in 1 .. LineLen : 0 + i = i
      BY Constants
    <3>3. QED
      BY <1>3, <1>7, <2>4, <3>1, <3>2 DEF Copied
  <2>8. InFile(s)' = f
    <3>1. SubSeq(y, 1, 0) = <<>>
      BY SubSeqEmpty
    <3>2. InFile(s)' = file'[s] \o SubSeq(buf'[s], 1, pos'[s])
      BY <1>3 DEF InFile
    <3>3. f \o <<>> = f
      BY <2>3, ConcatEmptySeq
    <3>4. QED
      BY <2>4, <3>1, <3>2, <3>3
  <2>9. Kept(s)'
    BY <1>3, <1>5, <1>8, <2>2, <2>8 DEF Kept
  <2>10. Covered(s)'
    <3> DEFINE x == flushed[s] * LineLen
    <3>1. x <= Len(file[s]) /\ x \in Nat
      <4>1. flushed[s] \in Nat
        BY <1>1, StreamFields
      <4>2. QED
        BY <1>9, <4>1, Constants DEF Covered
    <3> HIDE DEF x
    <3>2. x <= Len(f)
      BY <1>6, <2>3, <3>1
    <3>3. QED
      BY <1>2, <1>3, <2>4, <3>2 DEF Covered, x
  <2>11. \A r \in Streams \ {s} : /\ buf'[r] = buf[r] /\ pos'[r] = pos[r] /\ file'[r] = file[r]
                                  /\ written'[r] = written[r] /\ flushed'[r] = flushed[r]
    BY <1>2, <2>4
  <2> HIDE DEF s
  <2>12. QED
    BY <1>1, <1>2, <1>3, <1>4, <2>5, <2>6, <2>7, <2>9, <2>10, <2>11, Local
<1>12. QED
  BY <1>10, <1>11

(* What was copied joins the lines: the position moves past it.             *)
LEMMA AdvanceKept ==
  ASSUME IInv, NEW l \in Loggers, Advance(l)
  PROVE  IInv'
<1> DEFINE s == Here(l)
           n == found[l]
           b == buf[s]
           y == Bytes(LineOf(l))
           w == written[s]
<1>1. TypeOK /\ Owners /\ Act(l) /\ s \in Streams
  BY HereIn DEF IInv, Step, Act
<1>2. /\ pc[l] = "advance" /\ pc' = [pc EXCEPT ![l] = "unlock"]
      /\ pos' = [pos EXCEPT ![s] = n + LineLen]
      /\ written' = [written EXCEPT ![s] = Append(w, LineOf(l))]
      /\ mutex' = mutex /\ buf' = buf /\ file' = file /\ op' = op /\ at' = at /\ found' = found
      /\ ncalls' = ncalls /\ flushed' = flushed
  BY DEF Advance, Goto
<1>3. /\ pc'[l] = "unlock" /\ s' = s /\ pos'[s] = n + LineLen /\ written'[s] = Append(w, LineOf(l))
      /\ \A r \in Streams \ {s} : pos'[r] = pos[r] /\ written'[r] = written[r]
  <2>1. s' = s
    BY <1>2 DEF Here, StreamAt
  <2> HIDE DEF s, n, w
  <2>2. QED
    BY <1>1, <1>2, <2>1 DEF TypeOK
<1>4. /\ b \in Seq(Byte) /\ file[s] \in Seq(Byte) /\ n \in Nat /\ n = pos[s]
      /\ Kept(s) /\ Covered(s) /\ In(l, s) /\ LineOf(l) \in Line
      /\ y \in Seq(Byte) /\ Len(y) = LineLen /\ Len(b) \in Nat
  BY <1>2, FoundFacts
<1>5. n + LineLen <= Capacity /\ n + LineLen <= Len(b) /\ \A i \in 1 .. LineLen : b[n + i] = y[i]
  <2>1. Copied(l)
    BY DEF IInv
  <2>2. QED
    BY <1>2, <2>1 DEF Copied
<1>6. w \in Seq(Line)
  BY <1>1, StreamFields
<1>7. In(l, s)' /\ ~Draining(s)
  <2>1. In(l, s)'
    BY <1>3 DEF In, Inside
  <2>2. QED
    BY <1>1, <1>2, <1>4, <2>1, NotDraining
<1>8. ~Draining(s)'
  <2>1. ASSUME NEW u \in Loggers PROVE ~(pc'[u] = "reset" /\ Here(u)' = s)
    <3>1. CASE u = l
      BY <1>3, <3>1
    <3>2. CASE u # l
      <4>1. pc'[u] = pc[u] /\ Here(u)' = Here(u)
        BY <1>1, <3>2, OthersStand DEF Here, StreamAt
      <4>2. QED
        BY <1>7, <4>1 DEF Draining
    <3>3. QED
      BY <3>1, <3>2
  <2>2. QED
    BY <1>3, <2>1 DEF Draining
<1>9. TypeOK'
  <2> HIDE DEF s, n, y, w
  <2>1. pos' \in [Streams -> 0 .. Capacity]
    <3>1. n + LineLen \in 0 .. Capacity
      BY <1>4, <1>5, Constants
    <3>2. QED
      BY <1>1, <1>2, <3>1 DEF TypeOK
  <2>2. written' \in [Streams -> Seq(Line)]
    <3>1. Append(w, LineOf(l)) \in Seq(Line)
      BY <1>4, <1>6, AppendProperties
    <3>2. QED
      BY <1>1, <1>2, <3>1 DEF TypeOK
  <2>3. \A r \in Streams : pos'[r] <= Len(buf'[r])
    <3>1. pos'[s] <= Len(buf'[s])
      BY <1>2, <1>3, <1>5
    <3>2. QED
      BY <1>1, <1>2, <1>3, <3>1 DEF TypeOK
  <2>4. pc' \in [Loggers -> {"idle", "lock", "find", "copy", "advance", "drain", "reset", "unlock"}]
    BY <1>1, <1>2 DEF TypeOK
  <2>5. QED
    BY <1>1, <1>2, <2>1, <2>2, <2>3, <2>4 DEF TypeOK
<1>10. Found(l)' /\ Copied(l)'
  BY <1>3 DEF Found, Copied
<1>11. SubSeq(b, 1, n + LineLen) = SubSeq(b, 1, n) \o y
  <2> DEFINE m == n + LineLen
             h == SubSeq(b, 1, n)
             g == SubSeq(b, 1, m)
             c == h \o y
  <2>1. m \in Nat /\ m <= Len(b) /\ n <= m /\ n <= Len(b)
    BY <1>4, <1>5, Constants
  <2> HIDE DEF b, y, m, n
  <2>2. h \in Seq(Byte) /\ Len(h) = n /\ \A i \in 1 .. n : h[i] = b[i]
    BY <1>4, <2>1, FirstAre
  <2>3. g \in Seq(Byte) /\ Len(g) = m /\ \A i \in 1 .. m : g[i] = b[i]
    BY <1>4, <2>1, FirstAre
  <2> HIDE DEF h, g
  <2>4. /\ c \in Seq(Byte) /\ Len(c) = Len(h) + Len(y)
        /\ \A i \in 1 .. Len(h) + Len(y) : c[i] = IF i <= Len(h) THEN h[i] ELSE y[i - Len(h)]
    BY <1>4, <2>2, ConcatProperties
  <2> HIDE DEF c
  <2>5. Len(h) + Len(y) = m
    BY <1>4, <2>2 DEF m
  <2>6. ASSUME NEW i \in 1 .. m PROVE g[i] = c[i]
    <3>1. CASE i <= n
      <4>1. i \in 1 .. n
        BY <1>4, <2>1, <3>1
      <4>2. QED
        BY <2>2, <2>3, <2>4, <2>5, <3>1, <4>1
    <3>2. CASE ~(i <= n)
      <4> DEFINE k == i - n
      <4>1. k \in 1 .. LineLen /\ n + k = i
        BY <1>4, <2>1, <3>2, Constants DEF m
      <4>2. c[i] = y[k]
        BY <2>2, <2>4, <2>5, <3>2
      <4> HIDE DEF k
      <4>3. y[k] = b[i]
        BY <1>5, <4>1
      <4>4. QED
        BY <2>3, <4>2, <4>3
    <3>3. QED
      BY <3>1, <3>2
  <2>7. g = c
    BY <2>3, <2>4, <2>5, <2>6, SeqEqual
  <2>8. QED
    BY <2>7 DEF g, c, h, m
<1>12. Kept(s)'
  <2> DEFINE f == file[s]
             h == SubSeq(b, 1, n)
  <2>1. h \in Seq(Byte)
    BY <1>4, <1>5, FirstAre, Constants
  <2>2. f \o h = Flat(w)
    BY <1>1, <1>4, <1>7, FlattenedIs DEF Kept, InFile
  <2>3. InFile(s)' = f \o (h \o y)
    <3>1. InFile(s)' = file'[s] \o SubSeq(buf'[s], 1, pos'[s])
      BY <1>3 DEF InFile
    <3> HIDE DEF s, n
    <3>2. QED
      BY <1>2, <1>3, <1>11, <3>1 DEF n
  <2>4. f \o (h \o y) = (f \o h) \o y
    <3> HIDE DEF h, b, n, y, s
    <3>1. f \in Seq(Byte) /\ h \in Seq(Byte) /\ y \in Seq(Byte)
      BY <1>4, <2>1
    <3> HIDE DEF f
    <3>2. QED
      BY <3>1, ConcatAssociative
  <2>5. Flat(w) \o y = Flat(Append(w, LineOf(l)))
    BY <1>4, <1>6, FlatAppend
  <2>6. Flattened(s)' = Flat(Append(w, LineOf(l)))
    BY <1>3 DEF Flattened, Flat
  <2> HIDE DEF f, h, b, n, y, w, s
  <2>7. InFile(s)' = Flattened(s)'
    BY <2>2, <2>3, <2>4, <2>5, <2>6
  <2>8. QED
    BY <1>3, <1>8, <2>7 DEF Kept
<1>13. Covered(s)'
  BY <1>2, <1>3, <1>4 DEF Covered
<1>14. \A r \in Streams \ {s} : /\ buf'[r] = buf[r] /\ pos'[r] = pos[r] /\ file'[r] = file[r]
                                /\ written'[r] = written[r] /\ flushed'[r] = flushed[r]
  BY <1>2, <1>3
<1> HIDE DEF s
<1>15. QED
  BY <1>1, <1>2, <1>3, <1>4, <1>7, <1>9, <1>10, <1>12, <1>13, <1>14, Local

(* A flush writes the buffer out.                                           *)
LEMMA DrainKept ==
  ASSUME IInv, NEW l \in Loggers, Drain(l)
  PROVE  IInv'
<1> DEFINE s == Here(l)
           n == found[l]
           f == file[s] \o SubSeq(buf[s], 1, n)
<1>1. TypeOK /\ Owners /\ Act(l) /\ s \in Streams
  BY HereIn DEF IInv, Step, Act
<1>2. /\ pc[l] = "drain" /\ pc' = [pc EXCEPT ![l] = "reset"]
      /\ file' = [file EXCEPT ![s] = f]
      /\ mutex' = mutex /\ buf' = buf /\ pos' = pos /\ op' = op /\ at' = at /\ found' = found
      /\ ncalls' = ncalls /\ written' = written /\ flushed' = flushed
  BY DEF Drain, Goto
<1>3. /\ pc'[l] = "reset" /\ s' = s /\ file'[s] = f
      /\ \A r \in Streams \ {s} : file'[r] = file[r]
  <2>1. s' = s
    BY <1>2 DEF Here, StreamAt
  <2> HIDE DEF s, f
  <2>2. QED
    BY <1>1, <1>2, <2>1 DEF TypeOK
<1>4. /\ buf[s] \in Seq(Byte) /\ file[s] \in Seq(Byte) /\ n \in Nat /\ n = pos[s]
      /\ n <= Len(buf[s]) /\ Kept(s) /\ Covered(s) /\ In(l, s)
  BY <1>2, FoundFacts
<1>5. f \in Seq(Byte) /\ Len(f) = Len(file[s]) + n /\ Len(file[s]) \in Nat
  <2> DEFINE g == file[s]
             b == buf[s]
  <2>1. g \in Seq(Byte) /\ b \in Seq(Byte) /\ n \in Nat /\ n <= Len(b)
    BY <1>4
  <2> HIDE DEF g, b, n
  <2>2. g \o SubSeq(b, 1, n) \in Seq(Byte) /\ Len(g \o SubSeq(b, 1, n)) = Len(g) + n /\ Len(g) \in Nat
    BY <2>1, WrittenOut
  <2>3. QED
    BY <2>2 DEF g, b
<1>6. In(l, s)' /\ ~Draining(s) /\ Draining(s)'
  <2>1. In(l, s)'
    BY <1>3 DEF In, Inside
  <2>2. Draining(s)'
    BY <1>3 DEF Draining
  <2>3. QED
    BY <1>1, <1>2, <1>4, <2>1, <2>2, NotDraining
<1>7. TypeOK'
  <2> HIDE DEF s, n, f
  <2>1. file' \in [Streams -> Seq(Byte)]
    BY <1>1, <1>2, <1>5 DEF TypeOK
  <2>2. pc' \in [Loggers -> {"idle", "lock", "find", "copy", "advance", "drain", "reset", "unlock"}]
    BY <1>1, <1>2 DEF TypeOK
  <2>3. QED
    BY <1>1, <1>2, <2>1, <2>2 DEF TypeOK
<1>8. Found(l)' /\ Copied(l)'
  BY <1>2, <1>3, <1>4 DEF Found, Copied
<1>9. Kept(s)'
  <2>1. f = Flattened(s)
    BY <1>4, <1>6 DEF Kept, InFile
  <2>2. Flattened(s)' = Flattened(s)
    BY <1>2, <1>3 DEF Flattened
  <2> HIDE DEF s, f
  <2>3. QED
    BY <1>3, <1>6, <2>1, <2>2 DEF Kept
<1>10. Covered(s)'
  <2> DEFINE x == flushed[s] * LineLen
  <2>1. x <= Len(file[s]) /\ x \in Nat
    <3>1. flushed[s] \in Nat
      BY <1>1, StreamFields
    <3>2. QED
      BY <1>4, <3>1, Constants DEF Covered
  <2> HIDE DEF x, f
  <2>2. x <= Len(f)
    BY <1>4, <1>5, <2>1
  <2>3. QED
    BY <1>2, <1>3, <2>2 DEF Covered, x
<1>11. \A r \in Streams \ {s} : /\ buf'[r] = buf[r] /\ pos'[r] = pos[r] /\ file'[r] = file[r]
                                /\ written'[r] = written[r] /\ flushed'[r] = flushed[r]
  BY <1>2, <1>3
<1> HIDE DEF s
<1>12. QED
  BY <1>1, <1>2, <1>3, <1>4, <1>6, <1>7, <1>8, <1>9, <1>10, <1>11, Local

(* The buffer that was written out is empty again, and every line completed *)
(* is covered.                                                              *)
LEMMA ResetKept ==
  ASSUME IInv, NEW l \in Loggers, Reset(l)
  PROVE  IInv'
<1> DEFINE s == Here(l)
<1>1. TypeOK /\ Owners /\ Act(l) /\ s \in Streams
  BY HereIn DEF IInv, Step, Act
<1>2. /\ pc[l] = "reset" /\ pc' = [pc EXCEPT ![l] = "unlock"]
      /\ pos' = [pos EXCEPT ![s] = 0] /\ flushed' = [flushed EXCEPT ![s] = Len(written[s])]
      /\ mutex' = mutex /\ buf' = buf /\ file' = file /\ op' = op /\ at' = at /\ found' = found
      /\ ncalls' = ncalls /\ written' = written
  BY DEF Reset, Goto
<1>3. /\ pc'[l] = "unlock" /\ s' = s /\ pos'[s] = 0 /\ flushed'[s] = Len(written[s])
      /\ \A r \in Streams \ {s} : pos'[r] = pos[r] /\ flushed'[r] = flushed[r]
  <2>1. s' = s
    BY <1>2 DEF Here, StreamAt
  <2> HIDE DEF s
  <2>2. QED
    BY <1>1, <1>2, <2>1 DEF TypeOK
<1>4. buf[s] \in Seq(Byte) /\ file[s] \in Seq(Byte) /\ Kept(s) /\ In(l, s)
  BY <1>2, FoundFacts
<1>5. written[s] \in Seq(Line) /\ Len(written[s]) \in Nat
  BY <1>1, StreamFields, LenProperties
<1>6. In(l, s)' /\ Draining(s)
  BY <1>2, <1>3 DEF In, Inside, Draining
<1>7. ~Draining(s)'
  <2>1. ASSUME NEW u \in Loggers PROVE ~(pc'[u] = "reset" /\ Here(u)' = s)
    <3>1. CASE u = l
      BY <1>3, <3>1
    <3>2. CASE u # l
      <4>1. pc'[u] = pc[u] /\ Here(u)' = Here(u)
        BY <1>1, <3>2, OthersStand DEF Here, StreamAt
      <4>2. ~In(u, s)
        BY <1>1, <1>4, <3>2, Sole
      <4>3. QED
        BY <4>1, <4>2 DEF In, Inside
    <3>3. QED
      BY <3>1, <3>2
  <2>2. QED
    BY <1>3, <2>1 DEF Draining
<1>8. TypeOK'
  <2> HIDE DEF s
  <2>1. 0 \in 0 .. Capacity
    BY Constants
  <2>2. pos' \in [Streams -> 0 .. Capacity] /\ flushed' \in [Streams -> Nat]
    BY <1>1, <1>2, <1>5, <2>1 DEF TypeOK
  <2>3. \A r \in Streams : pos'[r] <= Len(buf'[r])
    <3>1. pos'[s] <= Len(buf'[s])
      BY <1>2, <1>3, <1>4, LenProperties
    <3>2. QED
      BY <1>1, <1>2, <1>3, <3>1 DEF TypeOK
  <2>4. pc' \in [Loggers -> {"idle", "lock", "find", "copy", "advance", "drain", "reset", "unlock"}]
    BY <1>1, <1>2 DEF TypeOK
  <2>5. QED
    BY <1>1, <1>2, <2>2, <2>3, <2>4 DEF TypeOK
<1>9. Found(l)' /\ Copied(l)'
  BY <1>3 DEF Found, Copied
<1>10. file[s] = Flattened(s)
  BY <1>4, <1>6 DEF Kept
<1>11. Kept(s)'
  <2>1. InFile(s)' = file'[s] \o SubSeq(buf'[s], 1, pos'[s])
    BY <1>3 DEF InFile
  <2>2. SubSeq(buf'[s], 1, 0) = <<>>
    BY SubSeqEmpty
  <2>3. file[s] \o <<>> = file[s]
    BY <1>4, ConcatEmptySeq
  <2>4. InFile(s)' = file[s]
    BY <1>2, <1>3, <2>1, <2>2, <2>3
  <2>5. Flattened(s)' = Flattened(s)
    BY <1>2, <1>3 DEF Flattened
  <2> HIDE DEF s
  <2>6. QED
    BY <1>3, <1>7, <1>10, <2>4, <2>5 DEF Kept
<1>12. Covered(s)'
  <2>1. Len(file[s]) = Len(written[s]) * LineLen /\ Len(written[s]) * LineLen \in Nat
    BY <1>1, <1>5, <1>10, FlattenedIs, FlatIs
  <2> DEFINE x == Len(written[s]) * LineLen
  <2>2. flushed'[s] * LineLen = x
    BY <1>3
  <2>3. x \in Nat /\ Len(file[s]) = x
    BY <2>1
  <2> HIDE DEF x
  <2>4. QED
    BY <1>2, <1>3, <2>2, <2>3 DEF Covered
<1>13. \A r \in Streams \ {s} : /\ buf'[r] = buf[r] /\ pos'[r] = pos[r] /\ file'[r] = file[r]
                                /\ written'[r] = written[r] /\ flushed'[r] = flushed[r]
  BY <1>2, <1>3
<1> HIDE DEF s
<1>14. QED
  BY <1>1, <1>2, <1>3, <1>4, <1>6, <1>8, <1>9, <1>11, <1>12, <1>13, Local

-----------------------------------------------------------------------------
(* Nothing was written yet.                                                 *)
LEMMA InitInv == Init => IInv
<1> SUFFICES ASSUME Init PROVE IInv
  OBVIOUS
<1>1. 1 \in Streams /\ 0 \in 0 .. Capacity /\ 0 \in 0 .. MaxCalls
  BY Constants
<1>2. /\ mutex \in [Streams -> Loggers \cup {None}]
      /\ buf = [s \in Streams |-> <<>>] /\ file = [s \in Streams |-> <<>>]
      /\ pos \in [Streams -> 0 .. Capacity] /\ flushed \in [Streams -> Nat]
      /\ pc \in [Loggers -> {"idle", "lock", "find", "copy", "advance", "drain", "reset", "unlock"}]
      /\ op \in [Loggers -> {"none", "write", "flush"}]
      /\ at \in [Loggers -> Streams] /\ found \in [Loggers -> 0 .. Capacity]
      /\ ncalls \in [Loggers -> 0 .. MaxCalls]
      /\ written = [s \in Streams |-> <<>>]
  BY <1>1 DEF Init
<1>3. /\ \A s \in Streams : /\ mutex[s] = None /\ buf[s] = <<>> /\ file[s] = <<>> /\ pos[s] = 0
                            /\ written[s] = <<>> /\ flushed[s] = 0
      /\ \A l \in Loggers : pc[l] = "idle"
  BY DEF Init
<1>4. /\ buf \in [Streams -> Seq(Byte)] /\ file \in [Streams -> Seq(Byte)]
      /\ written \in [Streams -> Seq(Line)]
  <2>1. <<>> \in Seq(Byte) /\ <<>> \in Seq(Line)
    BY EmptySeq
  <2>2. QED
    BY <1>2, <2>1
<1>5. TypeOK
  <2>1. \A s \in Streams : pos[s] <= Len(buf[s])
    BY <1>3, EmptySeq
  <2>2. QED
    BY <1>2, <1>4, <2>1 DEF TypeOK
<1>6. Owners
  BY <1>3, Constants DEF Owners, In, Inside
<1>7. \A l \in Loggers : Counted(l) /\ Found(l) /\ Copied(l)
  BY <1>3 DEF Counted, Found, Copied
<1>8. ASSUME NEW s \in Streams PROVE Kept(s) /\ Covered(s)
  <2>1. Flattened(s) = <<>>
    <3>1. <<>> \in Seq(Line) /\ Len(<<>>) = 0
      BY EmptySeq
    <3>2. Flat(<<>>) \in Seq(Byte) /\ Len(Flat(<<>>)) = Len(<<>>) * LineLen
      BY <3>1, FlatIs
    <3>3. Len(<<>>) * LineLen = 0
      BY <3>1, Constants
    <3>4. Flat(<<>>) = <<>>
      BY <3>2, <3>3, EmptySeq
    <3>5. QED
      BY <1>3, <3>4, FlattenedIs
  <2>2. InFile(s) = <<>>
    <3>1. SubSeq(buf[s], 1, 0) = <<>>
      BY SubSeqEmpty
    <3>2. <<>> \o <<>> = <<>>
      OBVIOUS
    <3>3. QED
      BY <1>3, <3>1, <3>2 DEF InFile
  <2>3. ~Draining(s)
    BY <1>3 DEF Draining
  <2>4. Kept(s)
    BY <2>1, <2>2, <2>3 DEF Kept
  <2>5. Covered(s)
    <3>1. 0 * LineLen = 0 /\ Len(<<>>) = 0
      BY Constants, EmptySeq
    <3>2. QED
      BY <1>3, <3>1 DEF Covered
  <2>6. QED
    BY <2>4, <2>5
<1>9. QED
  BY <1>5, <1>6, <1>7, <1>8 DEF IInv

(* Every step keeps the invariant.                                          *)
LEMMA NextInv ==
  ASSUME Shared, IInv, [Next]_vars
  PROVE  IInv'
<1>1. CASE UNCHANGED vars
  <2>1. /\ mutex' = mutex /\ buf' = buf /\ pos' = pos /\ file' = file /\ pc' = pc /\ op' = op
        /\ at' = at /\ found' = found /\ ncalls' = ncalls /\ written' = written
        /\ flushed' = flushed
    BY <1>1 DEF vars, streamVars
  <2>2. TypeOK' /\ Owners'
    BY <2>1 DEF IInv, TypeOK, Owners, In, Here, StreamAt
  <2>3. ASSUME NEW l \in Loggers PROVE (Counted(l) /\ Found(l) /\ Copied(l))'
    <3>1. Counted(l) /\ Found(l) /\ Copied(l)
      BY DEF IInv
    <3>2. Here(l)' = Here(l) /\ Bytes(LineOf(l))' = Bytes(LineOf(l))
      BY <2>1 DEF Here, StreamAt, Bytes, LineOf
    <3>3. Counted(l)' /\ Found(l)'
      BY <2>1, <3>1, <3>2 DEF Counted, Found
    <3>4. Copied(l)'
      BY <2>1, <3>1, <3>2 DEF Copied
    <3>5. QED
      BY <3>3, <3>4
  <2>4. ASSUME NEW s \in Streams PROVE (Kept(s) /\ Covered(s))'
    <3>1. Kept(s) /\ Covered(s)
      BY DEF IInv
    <3>2. (Draining(s)' <=> Draining(s)) /\ InFile(s)' = InFile(s) /\ Flattened(s)' = Flattened(s)
      BY <2>1 DEF Draining, Here, StreamAt, InFile, Flattened
    <3>3. Kept(s)'
      BY <2>1, <3>1, <3>2 DEF Kept
    <3>4. Covered(s)'
      BY <2>1, <3>1 DEF Covered
    <3>5. QED
      BY <3>3, <3>4
  <2>5. QED
    BY <2>2, <2>3, <2>4 DEF IInv
<1>2. CASE Next
  <2>1. PICK l \in Loggers : Begins(l) \/ Step(l)
    BY <1>2 DEF Next, Begins
  <2>2. QED
    BY <2>1, BeginKept, LockKept, FindKept, CopyKept, AdvanceKept, DrainKept, ResetKept, UnlockKept
       DEF Step
<1>3. QED
  BY <1>1, <1>2

-----------------------------------------------------------------------------
(* The invariant holds for any loggers that share the mutex of each stream, *)
(* whatever the order of their sinks and however full the buffers are.      *)
THEOREM Inductive == ASSUME Shared PROVE Spec => []IInv
<1>1. IInv /\ [Next]_vars => IInv'
  BY NextInv
<1>2. QED
  BY InitInv, <1>1, PTL DEF Spec

(* Every variable keeps its type: among others, the position of a stream    *)
(* stays within its buffer, whichever logger moves it.                      *)
THEOREM TypeCorrect == ASSUME Shared PROVE Spec => []TypeOK
<1>1. IInv => TypeOK
  BY DEF IInv
<1>2. QED
  BY Inductive, <1>1, PTL

(* While no logger is at a stream, its file and its buffer hold exactly the *)
(* lines completed, whole and in order: copies of one shared_sink neither   *)
(* overwrite, tear, repeat nor lose a line of each other.                   *)
THEOREM LinesIntactCorrect == ASSUME Shared PROVE Spec => []LinesIntact
<1>1. IInv => LinesIntact
  <2> SUFFICES ASSUME IInv, NEW s \in Streams, ~Busy(s) PROVE InFile(s) = Flattened(s)
    BY DEF LinesIntact, InFile
  <2>1. ~Draining(s)
    BY DEF Busy, Draining
  <2>2. Kept(s)
    BY DEF IInv
  <2>3. QED
    BY <2>1, <2>2 DEF Kept
<1>2. QED
  BY Inductive, <1>1, PTL

(* What a flush that returned covered is in the file, whoever wrote since.  *)
THEOREM FlushedOutCorrect == ASSUME Shared PROVE Spec => []FlushedOut
<1>1. IInv => FlushedOut
  BY DEF IInv, FlushedOut, Covered
<1>2. QED
  BY Inductive, <1>1, PTL

=============================================================================

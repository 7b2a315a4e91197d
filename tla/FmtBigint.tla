----------------------------- MODULE FmtBigint ------------------------------
(***************************************************************************)
(* bigint of the bundled fmt library, with which format_dragon computes:   *)
(* big digits ("bigits"), the lowest first, times a power of the base. The *)
(* operators keep the carries and borrows of the code; the base is a       *)
(* constant, so that numbers of a model have several bigits.               *)
(***************************************************************************)
EXTENDS Integers, Sequences, SequencesExt

CONSTANT BigitBits   \* bigit_bits (32 in the code)

ASSUME BigintAssumption == BigitBits \in Nat /\ BigitBits >= 4

Base == 2^BigitBits
max_of(a, b) == IF a >= b THEN a ELSE b
min_of(a, b) == IF a <= b THEN a ELSE b

Bigint == [bigits : Seq(0 .. Base - 1), exp_ : Nat]
num_bigits(b) == Len(b.bigits) + b.exp_
get_bigit(b, i) == IF i >= b.exp_ /\ i < num_bigits(b) THEN b.bigits[i - b.exp_ + 1] ELSE 0

bigits_of[n \in Nat] == <<n % Base>> \o (IF n < Base THEN <<>> ELSE bigits_of[n \div Base])
assign(n) == [bigits |-> bigits_of[n], exp_ |-> 0]

(* Zeroes at the top go, all but the last bigit. *)
remove_leading_zeros(s) ==
  SubSeq(s, 1, CHOOSE n \in 1 .. Len(s) : /\ n = 1 \/ s[n] # 0
                                          /\ \A i \in n + 1 .. Len(s) : s[i] = 0)

(* One pass over the bigits with a carry: Step gives the bigit and the      *)
(* carry from the place, the bigit there and the carry before it.           *)
Pass(s, Step(_, _, _)) ==
  FoldLeft(LAMBDA m, i : LET r == Step(i, s[i], m.carry)
                         IN  [bigits |-> Append(m.bigits, r.bigit), carry |-> r.carry],
           [bigits |-> <<>>, carry |-> 0], [i \in DOMAIN s |-> i])

(* subtract_aligned, for other.exp_ >= b.exp_ and b >= other.               *)
subtract_aligned(b, other) ==
  LET subtract_bigits(i, bigit, borrow) ==
        LET result == bigit - get_bigit(other, i - 1 + b.exp_) - borrow
        IN  [bigit |-> result % Base, carry |-> IF result < 0 THEN 1 ELSE 0]
  IN  [b EXCEPT !.bigits = remove_leading_zeros(Pass(b.bigits, subtract_bigits).bigits)]

Carried(r) == IF r.carry # 0 THEN Append(r.bigits, r.carry) ELSE r.bigits

(* multiply(uint32_t). Mutation: the last carry is lost.                    *)
low_and_carry(n) == [bigit |-> n % Base, carry |-> n \div Base]
multiply_uncarried(b, value) ==
  [b EXCEPT !.bigits = Pass(@, LAMBDA i, bigit, carry : low_and_carry(bigit * value + carry)).bigits]
multiply(b, value) ==
  [b EXCEPT !.bigits = Carried(Pass(@, LAMBDA i, bigit, carry : low_and_carry(bigit * value + carry)))]

(* multiply(UInt) in two halves of half_bits; what is carried may be larger *)
(* than a bigit.                                                            *)
multiply_wide(b, value, half_bits) ==
  LET lower == value % 2^half_bits
      upper == value \div 2^half_bits
      shift == half_bits - BigitBits
      r == Pass(b.bigits, LAMBDA i, bigit, carry :
             LET result == lower * bigit + (carry % Base)
             IN  [bigit |-> result % Base,
                  carry |-> upper * bigit * 2^shift + (result \div Base) + (carry \div Base)])
  IN  [b EXCEPT !.bigits = r.bigits \o (IF r.carry = 0 THEN <<>> ELSE bigits_of[r.carry])]

(* operator<<=: whole bigits into the exponent, the rest through them.      *)
shift_left(b, n) ==
  LET t == n % BigitBits
  IN  [bigits |-> IF t = 0 THEN b.bigits
                  ELSE Carried(Pass(b.bigits, LAMBDA i, bigit, carry :
                         [bigit |-> ((bigit * 2^t) % Base) + carry,
                          carry |-> bigit \div 2^(BigitBits - t)])),
       exp_ |-> b.exp_ + (n \div BigitBits)]

(* 1, 0 or -1. Bigits are compared from the top; a number with more of them *)
(* below is larger.                                                         *)
compare(b1, b2) ==
  LET n1 == Len(b1.bigits)
      n2 == Len(b2.bigits)
      differ == {d \in 0 .. min_of(n1, n2) - 1 : b1.bigits[n1 - d] # b2.bigits[n2 - d]}
      first == CHOOSE d \in differ : \A e \in differ : d <= e
  IN  CASE num_bigits(b1) # num_bigits(b2) -> IF num_bigits(b1) > num_bigits(b2) THEN 1 ELSE -1
        [] num_bigits(b1) = num_bigits(b2) /\ differ # {} ->
             IF b1.bigits[n1 - first] > b2.bigits[n2 - first] THEN 1 ELSE -1
        [] OTHER -> IF n1 > n2 THEN 1 ELSE IF n1 < n2 THEN -1 ELSE 0

(* compare(lhs1 + lhs2, rhs) without the sum: from the top, by how much the *)
(* left side is behind so far.                                              *)
add_compare(lhs1, lhs2, rhs) ==
  LET max_lhs == max_of(num_bigits(lhs1), num_bigits(lhs2))
      min_exp == min_of(min_of(lhs1.exp_, lhs2.exp_), rhs.exp_)
      step(m, d) ==
        LET i == num_bigits(rhs) - d
            sum == get_bigit(lhs1, i) + get_bigit(lhs2, i)
            target == get_bigit(rhs, i) + m.borrow
        IN  CASE m.result # 0 -> m
              [] m.result = 0 /\ sum > target -> [borrow |-> 0, result |-> 1]
              [] m.result = 0 /\ target - sum > 1 -> [borrow |-> 0, result |-> -1]
              [] OTHER -> [borrow |-> (target - sum) * Base, result |-> 0]
      end == FoldLeft(step, [borrow |-> 0, result |-> 0],
                      [d \in 1 .. max_of(num_bigits(rhs) - min_exp, 0) |-> d])
  IN  CASE max_lhs + 1 < num_bigits(rhs) -> -1
        [] max_lhs > num_bigits(rhs) -> 1
        [] OTHER -> IF end.result # 0 THEN end.result ELSE IF end.borrow # 0 THEN -1 ELSE 0

(* The cross products of each place, then the carry.                        *)
square(b) ==
  LET n == Len(b.bigits)
      cross(k) == FoldLeft(+, 0, [i \in 1 .. n |-> IF k - i + 1 \in 1 .. n
                                                   THEN b.bigits[i] * b.bigits[k - i + 1] ELSE 0])
      r == Pass([k \in 1 .. 2 * n |-> 0], LAMBDA k, bigit, carry : low_and_carry(cross(k) + carry))
  IN  [bigits |-> remove_leading_zeros(r.bigits), exp_ |-> 2 * b.exp_]

(* pow(10, exp): 5 by repeated squaring, then a shift. *)
pow5[exp \in Nat \ {0}] ==
  IF exp = 1 THEN assign(5)
  ELSE IF exp % 2 = 0 THEN square(pow5[exp \div 2])
  ELSE multiply(square(pow5[exp \div 2]), 5)
assign_pow10(exp) == IF exp = 0 THEN assign(1) ELSE shift_left(pow5[exp], exp)

(* align: zeroes below until the exponent is not larger than other's.       *)
align_to(b, other) ==
  LET exp_difference == b.exp_ - other.exp_
  IN  IF exp_difference <= 0 THEN b
      ELSE [bigits |-> [i \in 1 .. exp_difference |-> 0] \o b.bigits, exp_ |-> other.exp_]

Quotients == [quotient : Nat, remainder : Bigint]
(* The divisor is subtracted until the remainder is less: a digit, here.    *)
divmod_assign(b, divisor) ==
  LET divided[r \in Quotients] ==
        IF compare(r.remainder, divisor) < 0 THEN r
        ELSE divided[[quotient |-> r.quotient + 1,
                      remainder |-> subtract_aligned(r.remainder, divisor)]]
      whole == [quotient |-> 0, remainder |-> b]
  IN  IF compare(b, divisor) < 0 THEN whole
      ELSE divided[[whole EXCEPT !.remainder = align_to(b, divisor)]]

=============================================================================

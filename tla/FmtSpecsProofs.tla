--------------------------- MODULE FmtSpecsProofs ---------------------------
(***************************************************************************)
(* Facts about module FmtSpecs that the proofs of the parser need: the     *)
(* fields of the word of basic_specs do not overlap, setting one keeps the *)
(* others, and specifiers that are set field by field stay in range. They  *)
(* rest on the lemmas on numbers that come first.                          *)
(***************************************************************************)
EXTENDS FmtSpecs, FiniteSets, TLAPS, WellFoundedInduction, FiniteSetTheorems

(* A set of numbers that is not empty has a least one.                      *)
LEMMA LeastNatural ==
  ASSUME NEW S \in SUBSET Nat, S # {}
  PROVE  \E m \in S : \A k \in S : m <= k
<1> DEFINE R == {q \in Nat \X Nat : q[1] < q[2]}
<1>1. IsWellFoundedOn(R, Nat)
  BY NatLessThanWellFounded DEF OpToRel
<1>2. PICK m \in S : \A k \in S : ~(<<k, m>> \in R)
  <2> HIDE DEF R
  <2> QED BY <1>1, WFMin
<1>3. \A k \in S : m <= k
  <2> TAKE k \in S
  <2>1. k \in Nat /\ m \in Nat
    OBVIOUS
  <2>2. ~(k < m)
    BY <1>2, <2>1
  <2> QED BY <2>1, <2>2
<1> QED BY <1>3

(* And a set of integers with a bound.                                      *)
LEMMA Least ==
  ASSUME NEW a \in Int, NEW S, \A k \in S : k \in Int /\ k >= a, S # {}
  PROVE  \E m \in S : \A k \in S : m <= k
<1> DEFINE T == {k - a : k \in S}
<1>1. T \in SUBSET Nat /\ T # {}
  OBVIOUS
<1>2. PICK t \in T : \A u \in T : t <= u
  BY <1>1, LeastNatural
<1>3. PICK m \in S : t = m - a
  OBVIOUS
<1>4. \A k \in S : m <= k
  <2> TAKE k \in S
  <2>1. k - a \in T
    OBVIOUS
  <2>2. t <= k - a
    BY <1>2, <2>1
  <2> QED BY <2>2, <1>3
<1> QED BY <1>4

(* Induction, for a set of numbers.                                         *)
LEMMA Induction ==
  ASSUME NEW S, 0 \in S, \A n \in Nat : n \in S => n + 1 \in S
  PROVE  \A n \in Nat : n \in S
<1> SUFFICES ASSUME NEW n \in Nat, n \notin S PROVE FALSE
  OBVIOUS
<1> DEFINE T == {k \in Nat : k \notin S}
<1>1. PICK m \in T : \A k \in T : m <= k
  <2>1. T \in SUBSET Nat /\ T # {}
    OBVIOUS
  <2> HIDE DEF T
  <2> QED BY <2>1, LeastNatural
<1>2. m # 0
  OBVIOUS
<1>3. m - 1 \in Nat /\ m - 1 \in S
  BY <1>1, <1>2
<1> QED BY <1>3

(* The powers of two grow.                                                  *)
LEMMA PowerOfTwo ==
  ASSUME NEW n \in Nat
  PROVE  2^n \in Nat /\ 2^n >= 1 /\ 2^n <= 2^(n + 1)
<1>1. /\ IsFiniteSet(1 .. n) /\ Cardinality(1 .. n) = n
      /\ IsFiniteSet(1 .. n + 1) /\ Cardinality(1 .. n + 1) = n + 1
  BY FS_Interval
<1>2. /\ IsFiniteSet(SUBSET (1 .. n)) /\ Cardinality(SUBSET (1 .. n)) = 2^n
      /\ IsFiniteSet(SUBSET (1 .. n + 1)) /\ Cardinality(SUBSET (1 .. n + 1)) = 2^(n + 1)
  BY <1>1, FS_SUBSET
<1>3. SUBSET (1 .. n) \subseteq SUBSET (1 .. n + 1)
  <2>1. 1 .. n \subseteq 1 .. n + 1
    OBVIOUS
  <2> QED BY <2>1
<1>4. Cardinality(SUBSET (1 .. n)) <= Cardinality(SUBSET (1 .. n + 1))
  BY <1>2, <1>3, FS_Subset
<1>5. Cardinality(SUBSET (1 .. n)) \in Nat /\ Cardinality(SUBSET (1 .. n)) # 0
  <2>1. {} \in SUBSET (1 .. n)
    OBVIOUS
  <2> QED BY <1>2, <2>1, FS_CardinalityType, FS_EmptySet
<1> QED BY <1>2, <1>4, <1>5

(* The largest int, and the word it lies in.                                *)
LEMMA IntMaxFacts == IntMax \in Nat /\ IntMax + 1 \in Nat /\ IntMax < 2^IntBits /\ 2^IntBits \in Nat
<1>1. IntBits \in Nat /\ IntBits >= 4 /\ IntBits - 1 \in Nat /\ IntBits - 1 + 1 = IntBits
  BY SpecsAssumption
<1>2. 2^(IntBits - 1) \in Nat /\ 2^(IntBits - 1) >= 1 /\ 2^(IntBits - 1) <= 2^IntBits /\ 2^IntBits \in Nat
  <2>1. 2^(IntBits - 1) \in Nat /\ 2^(IntBits - 1) >= 1 /\ 2^(IntBits - 1) <= 2^((IntBits - 1) + 1)
    BY <1>1, PowerOfTwo
  <2>2. 2^IntBits \in Nat
    BY <1>1, PowerOfTwo
  <2> QED BY <1>1, <2>1, <2>2
<1>3. IntMax = 2^(IntBits - 1) - 1
  BY DEF IntMax
<1> QED BY <1>2, <1>3

(* The numbers of the types.                                                *)
LEMMA TypeNumbers == \A i \in 1 .. 15 : type_number(type[i]) = i /\ type[i] # "none_type"
<1>1. DOMAIN type = 1 .. 15
  BY DEF type
<1>2. \A i, j \in 1 .. 15 : type[i] = type[j] => i = j
  BY DEF type
<1>3. \A i \in 1 .. 15 : type[i] # "none_type"
  BY DEF type
<1> TAKE i \in 1 .. 15
<1>4. (CHOOSE j \in DOMAIN type : type[j] = type[i]) = i
  <2> HIDE DEF type
  <2> QED BY <1>1, <1>2
<1> QED BY <1>3, <1>4 DEF type_number

(* The field type in numbers.                                               *)
LEMMA TypeField ==
  ASSUME NEW data
  PROVE  get_field(data, type_field) = (data \div 1) % 8
<1>1. 2^type_field.shift = 1 /\ 2^type_field.bits = 8
  BY SMT DEF type_field
<1>2. get_field(data, type_field) = (data \div (2^type_field.shift)) % (2^type_field.bits)
  BY Zenon DEF get_field
<1> QED BY <1>1, <1>2, SMT

(* The field align in numbers.                                              *)
LEMMA AlignField ==
  ASSUME NEW data
  PROVE  get_field(data, align_field) = (data \div 8) % 8
<1>1. 2^align_field.shift = 8 /\ 2^align_field.bits = 8
  BY SMT DEF align_field
<1>2. get_field(data, align_field) = (data \div (2^align_field.shift)) % (2^align_field.bits)
  BY Zenon DEF get_field
<1> QED BY <1>1, <1>2, SMT

(* The field width in numbers.                                              *)
LEMMA WidthField ==
  ASSUME NEW data
  PROVE  get_field(data, width_field) = (data \div 64) % 4
<1>1. 2^width_field.shift = 64 /\ 2^width_field.bits = 4
  BY SMT DEF width_field
<1>2. get_field(data, width_field) = (data \div (2^width_field.shift)) % (2^width_field.bits)
  BY Zenon DEF get_field
<1> QED BY <1>1, <1>2, SMT

(* The field precision in numbers.                                          *)
LEMMA PrecisionField ==
  ASSUME NEW data
  PROVE  get_field(data, precision_field) = (data \div 256) % 4
<1>1. 2^precision_field.shift = 256 /\ 2^precision_field.bits = 4
  BY SMT DEF precision_field
<1>2. get_field(data, precision_field) = (data \div (2^precision_field.shift)) % (2^precision_field.bits)
  BY Zenon DEF get_field
<1> QED BY <1>1, <1>2, SMT

(* The field sign in numbers.                                               *)
LEMMA SignField ==
  ASSUME NEW data
  PROVE  get_field(data, sign_field) = (data \div 1024) % 4
<1>1. 2^sign_field.shift = 1024 /\ 2^sign_field.bits = 4
  BY SMT DEF sign_field
<1>2. get_field(data, sign_field) = (data \div (2^sign_field.shift)) % (2^sign_field.bits)
  BY Zenon DEF get_field
<1> QED BY <1>1, <1>2, SMT

(* The field uppercase in numbers.                                          *)
LEMMA UppercaseField ==
  ASSUME NEW data
  PROVE  get_field(data, uppercase_field) = (data \div 4096) % 2
<1>1. 2^uppercase_field.shift = 4096 /\ 2^uppercase_field.bits = 2
  BY SMT DEF uppercase_field
<1>2. get_field(data, uppercase_field) = (data \div (2^uppercase_field.shift)) % (2^uppercase_field.bits)
  BY Zenon DEF get_field
<1> QED BY <1>1, <1>2, SMT

(* The field alternate in numbers.                                          *)
LEMMA AlternateField ==
  ASSUME NEW data
  PROVE  get_field(data, alternate_field) = (data \div 8192) % 2
<1>1. 2^alternate_field.shift = 8192 /\ 2^alternate_field.bits = 2
  BY SMT DEF alternate_field
<1>2. get_field(data, alternate_field) = (data \div (2^alternate_field.shift)) % (2^alternate_field.bits)
  BY Zenon DEF get_field
<1> QED BY <1>1, <1>2, SMT

(* The field localized in numbers.                                          *)
LEMMA LocalizedField ==
  ASSUME NEW data
  PROVE  get_field(data, localized_field) = (data \div 16384) % 2
<1>1. 2^localized_field.shift = 16384 /\ 2^localized_field.bits = 2
  BY SMT DEF localized_field
<1>2. get_field(data, localized_field) = (data \div (2^localized_field.shift)) % (2^localized_field.bits)
  BY Zenon DEF get_field
<1> QED BY <1>1, <1>2, SMT

(* The field fill_size in numbers.                                          *)
LEMMA FillSizeField ==
  ASSUME NEW data
  PROVE  get_field(data, fill_size_field) = (data \div 32768) % 8
<1>1. 2^fill_size_field.shift = 32768 /\ 2^fill_size_field.bits = 8
  BY SMT DEF fill_size_field
<1>2. get_field(data, fill_size_field) = (data \div (2^fill_size_field.shift)) % (2^fill_size_field.bits)
  BY Zenon DEF get_field
<1> QED BY <1>1, <1>2, SMT

(* Setting the field type: the other fields keep their values.              *)
LEMMA SetType ==
  ASSUME NEW data \in Nat, data < 262144, NEW v \in Nat, v < 8,
         NEW w, w = set_field(data, type_field, v)
  PROVE  /\ w \in Nat /\ w < 262144 /\ get_field(w, type_field) = v
         /\ get_field(w, align_field) = get_field(data, align_field)
         /\ get_field(w, width_field) = get_field(data, width_field)
         /\ get_field(w, precision_field) = get_field(data, precision_field)
         /\ get_field(w, fill_size_field) = get_field(data, fill_size_field)
<1>1. w = data + (v - ((data \div 1) % 8)) * 1
  <2>1. 2^type_field.shift = 1 /\ get_field(data, type_field) = (data \div 1) % 8
    BY TypeField, SMT DEF type_field
  <2>2. w = data + (v - get_field(data, type_field)) * (2^type_field.shift)
    BY SMT DEF set_field
  <2>3. PICK k : k = 2^type_field.shift
    OBVIOUS
  <2>4. w = data + (v - get_field(data, type_field)) * k
    BY <2>2, <2>3
  <2>5. k = 1
    BY <2>1, <2>3
  <2> QED BY <2>1, <2>4, <2>5, SMT
<1>2. w \in Nat /\ w < 262144
  BY <1>1, SMT
<1>3. (w \div 1) % 8 = v
  BY <1>1, SMT
<1>4. get_field(w, type_field) = v
  <2>1. get_field(w, type_field) = (w \div 1) % 8
    BY TypeField, SMT
  <2> QED BY <2>1, <1>3, SMT
<1>5. get_field(w, align_field) = get_field(data, align_field)
  <2>1. (w \div 8) % 8 = (data \div 8) % 8
    BY <1>1, SMT
  <2>2. get_field(w, align_field) = (w \div 8) % 8 /\ get_field(data, align_field) = (data \div 8) % 8
    BY AlignField, SMT
  <2> QED BY <2>1, <2>2, SMT
<1>6. get_field(w, width_field) = get_field(data, width_field)
  <2>1. (w \div 64) % 4 = (data \div 64) % 4
    BY <1>1, SMT
  <2>2. get_field(w, width_field) = (w \div 64) % 4 /\ get_field(data, width_field) = (data \div 64) % 4
    BY WidthField, SMT
  <2> QED BY <2>1, <2>2, SMT
<1>7. get_field(w, precision_field) = get_field(data, precision_field)
  <2>1. (w \div 256) % 4 = (data \div 256) % 4
    BY <1>1, SMT
  <2>2. get_field(w, precision_field) = (w \div 256) % 4 /\ get_field(data, precision_field) = (data \div 256) % 4
    BY PrecisionField, SMT
  <2> QED BY <2>1, <2>2, SMT
<1>8. get_field(w, fill_size_field) = get_field(data, fill_size_field)
  <2>1. (w \div 32768) % 8 = (data \div 32768) % 8
    BY <1>1, SMT
  <2>2. get_field(w, fill_size_field) = (w \div 32768) % 8 /\ get_field(data, fill_size_field) = (data \div 32768) % 8
    BY FillSizeField, SMT
  <2> QED BY <2>1, <2>2, SMT
<1> QED BY <1>2, <1>4, <1>5, <1>6, <1>7, <1>8, SMT

(* Setting the field align: the other fields keep their values.             *)
LEMMA SetAlign ==
  ASSUME NEW data \in Nat, data < 262144, NEW v \in Nat, v < 8,
         NEW w, w = set_field(data, align_field, v)
  PROVE  /\ w \in Nat /\ w < 262144 /\ get_field(w, align_field) = v
         /\ get_field(w, width_field) = get_field(data, width_field)
         /\ get_field(w, precision_field) = get_field(data, precision_field)
         /\ get_field(w, fill_size_field) = get_field(data, fill_size_field)
<1>1. w = data + (v - ((data \div 8) % 8)) * 8
  <2>1. 2^align_field.shift = 8 /\ get_field(data, align_field) = (data \div 8) % 8
    BY AlignField, SMT DEF align_field
  <2>2. w = data + (v - get_field(data, align_field)) * (2^align_field.shift)
    BY SMT DEF set_field
  <2>3. PICK k : k = 2^align_field.shift
    OBVIOUS
  <2>4. w = data + (v - get_field(data, align_field)) * k
    BY <2>2, <2>3
  <2>5. k = 8
    BY <2>1, <2>3
  <2> QED BY <2>1, <2>4, <2>5, SMT
<1>2. w \in Nat /\ w < 262144
  BY <1>1, SMT
<1>3. (w \div 8) % 8 = v
  BY <1>1, SMT
<1>4. get_field(w, align_field) = v
  <2>1. get_field(w, align_field) = (w \div 8) % 8
    BY AlignField, SMT
  <2> QED BY <2>1, <1>3, SMT
<1>5. get_field(w, width_field) = get_field(data, width_field)
  <2>1. (w \div 64) % 4 = (data \div 64) % 4
    BY <1>1, SMT
  <2>2. get_field(w, width_field) = (w \div 64) % 4 /\ get_field(data, width_field) = (data \div 64) % 4
    BY WidthField, SMT
  <2> QED BY <2>1, <2>2, SMT
<1>6. get_field(w, precision_field) = get_field(data, precision_field)
  <2>1. (w \div 256) % 4 = (data \div 256) % 4
    BY <1>1, SMT
  <2>2. get_field(w, precision_field) = (w \div 256) % 4 /\ get_field(data, precision_field) = (data \div 256) % 4
    BY PrecisionField, SMT
  <2> QED BY <2>1, <2>2, SMT
<1>7. get_field(w, fill_size_field) = get_field(data, fill_size_field)
  <2>1. (w \div 32768) % 8 = (data \div 32768) % 8
    BY <1>1, SMT
  <2>2. get_field(w, fill_size_field) = (w \div 32768) % 8 /\ get_field(data, fill_size_field) = (data \div 32768) % 8
    BY FillSizeField, SMT
  <2> QED BY <2>1, <2>2, SMT
<1> QED BY <1>2, <1>4, <1>5, <1>6, <1>7, SMT

(* Setting the field width: the other fields keep their values.             *)
LEMMA SetWidth ==
  ASSUME NEW data \in Nat, data < 262144, NEW v \in Nat, v < 4,
         NEW w, w = set_field(data, width_field, v)
  PROVE  /\ w \in Nat /\ w < 262144 /\ get_field(w, width_field) = v
         /\ get_field(w, align_field) = get_field(data, align_field)
         /\ get_field(w, precision_field) = get_field(data, precision_field)
         /\ get_field(w, fill_size_field) = get_field(data, fill_size_field)
<1>1. w = data + (v - ((data \div 64) % 4)) * 64
  <2>1. 2^width_field.shift = 64 /\ get_field(data, width_field) = (data \div 64) % 4
    BY WidthField, SMT DEF width_field
  <2>2. w = data + (v - get_field(data, width_field)) * (2^width_field.shift)
    BY SMT DEF set_field
  <2>3. PICK k : k = 2^width_field.shift
    OBVIOUS
  <2>4. w = data + (v - get_field(data, width_field)) * k
    BY <2>2, <2>3
  <2>5. k = 64
    BY <2>1, <2>3
  <2> QED BY <2>1, <2>4, <2>5, SMT
<1>2. w \in Nat /\ w < 262144
  BY <1>1, SMT
<1>3. (w \div 64) % 4 = v
  BY <1>1, SMT
<1>4. get_field(w, width_field) = v
  <2>1. get_field(w, width_field) = (w \div 64) % 4
    BY WidthField, SMT
  <2> QED BY <2>1, <1>3, SMT
<1>5. get_field(w, align_field) = get_field(data, align_field)
  <2>1. (w \div 8) % 8 = (data \div 8) % 8
    BY <1>1, SMT
  <2>2. get_field(w, align_field) = (w \div 8) % 8 /\ get_field(data, align_field) = (data \div 8) % 8
    BY AlignField, SMT
  <2> QED BY <2>1, <2>2, SMT
<1>6. get_field(w, precision_field) = get_field(data, precision_field)
  <2>1. (w \div 256) % 4 = (data \div 256) % 4
    BY <1>1, SMT
  <2>2. get_field(w, precision_field) = (w \div 256) % 4 /\ get_field(data, precision_field) = (data \div 256) % 4
    BY PrecisionField, SMT
  <2> QED BY <2>1, <2>2, SMT
<1>7. get_field(w, fill_size_field) = get_field(data, fill_size_field)
  <2>1. (w \div 32768) % 8 = (data \div 32768) % 8
    BY <1>1, SMT
  <2>2. get_field(w, fill_size_field) = (w \div 32768) % 8 /\ get_field(data, fill_size_field) = (data \div 32768) % 8
    BY FillSizeField, SMT
  <2> QED BY <2>1, <2>2, SMT
<1> QED BY <1>2, <1>4, <1>5, <1>6, <1>7, SMT

(* Setting the field precision: the other fields keep their values.         *)
LEMMA SetPrecision ==
  ASSUME NEW data \in Nat, data < 262144, NEW v \in Nat, v < 4,
         NEW w, w = set_field(data, precision_field, v)
  PROVE  /\ w \in Nat /\ w < 262144 /\ get_field(w, precision_field) = v
         /\ get_field(w, align_field) = get_field(data, align_field)
         /\ get_field(w, width_field) = get_field(data, width_field)
         /\ get_field(w, fill_size_field) = get_field(data, fill_size_field)
<1>1. w = data + (v - ((data \div 256) % 4)) * 256
  <2>1. 2^precision_field.shift = 256 /\ get_field(data, precision_field) = (data \div 256) % 4
    BY PrecisionField, SMT DEF precision_field
  <2>2. w = data + (v - get_field(data, precision_field)) * (2^precision_field.shift)
    BY SMT DEF set_field
  <2>3. PICK k : k = 2^precision_field.shift
    OBVIOUS
  <2>4. w = data + (v - get_field(data, precision_field)) * k
    BY <2>2, <2>3
  <2>5. k = 256
    BY <2>1, <2>3
  <2> QED BY <2>1, <2>4, <2>5, SMT
<1>2. w \in Nat /\ w < 262144
  BY <1>1, SMT
<1>3. (w \div 256) % 4 = v
  BY <1>1, SMT
<1>4. get_field(w, precision_field) = v
  <2>1. get_field(w, precision_field) = (w \div 256) % 4
    BY PrecisionField, SMT
  <2> QED BY <2>1, <1>3, SMT
<1>5. get_field(w, align_field) = get_field(data, align_field)
  <2>1. (w \div 8) % 8 = (data \div 8) % 8
    BY <1>1, SMT
  <2>2. get_field(w, align_field) = (w \div 8) % 8 /\ get_field(data, align_field) = (data \div 8) % 8
    BY AlignField, SMT
  <2> QED BY <2>1, <2>2, SMT
<1>6. get_field(w, width_field) = get_field(data, width_field)
  <2>1. (w \div 64) % 4 = (data \div 64) % 4
    BY <1>1, SMT
  <2>2. get_field(w, width_field) = (w \div 64) % 4 /\ get_field(data, width_field) = (data \div 64) % 4
    BY WidthField, SMT
  <2> QED BY <2>1, <2>2, SMT
<1>7. get_field(w, fill_size_field) = get_field(data, fill_size_field)
  <2>1. (w \div 32768) % 8 = (data \div 32768) % 8
    BY <1>1, SMT
  <2>2. get_field(w, fill_size_field) = (w \div 32768) % 8 /\ get_field(data, fill_size_field) = (data \div 32768) % 8
    BY FillSizeField, SMT
  <2> QED BY <2>1, <2>2, SMT
<1> QED BY <1>2, <1>4, <1>5, <1>6, <1>7, SMT

(* Setting the field sign: the other fields keep their values.              *)
LEMMA SetSign ==
  ASSUME NEW data \in Nat, data < 262144, NEW v \in Nat, v < 4,
         NEW w, w = set_field(data, sign_field, v)
  PROVE  /\ w \in Nat /\ w < 262144 /\ get_field(w, sign_field) = v
         /\ get_field(w, align_field) = get_field(data, align_field)
         /\ get_field(w, width_field) = get_field(data, width_field)
         /\ get_field(w, precision_field) = get_field(data, precision_field)
         /\ get_field(w, fill_size_field) = get_field(data, fill_size_field)
<1>1. w = data + (v - ((data \div 1024) % 4)) * 1024
  <2>1. 2^sign_field.shift = 1024 /\ get_field(data, sign_field) = (data \div 1024) % 4
    BY SignField, SMT DEF sign_field
  <2>2. w = data + (v - get_field(data, sign_field)) * (2^sign_field.shift)
    BY SMT DEF set_field
  <2>3. PICK k : k = 2^sign_field.shift
    OBVIOUS
  <2>4. w = data + (v - get_field(data, sign_field)) * k
    BY <2>2, <2>3
  <2>5. k = 1024
    BY <2>1, <2>3
  <2> QED BY <2>1, <2>4, <2>5, SMT
<1>2. w \in Nat /\ w < 262144
  BY <1>1, SMT
<1>3. (w \div 1024) % 4 = v
  BY <1>1, SMT
<1>4. get_field(w, sign_field) = v
  <2>1. get_field(w, sign_field) = (w \div 1024) % 4
    BY SignField, SMT
  <2> QED BY <2>1, <1>3, SMT
<1>5. get_field(w, align_field) = get_field(data, align_field)
  <2>1. (w \div 8) % 8 = (data \div 8) % 8
    BY <1>1, SMT
  <2>2. get_field(w, align_field) = (w \div 8) % 8 /\ get_field(data, align_field) = (data \div 8) % 8
    BY AlignField, SMT
  <2> QED BY <2>1, <2>2, SMT
<1>6. get_field(w, width_field) = get_field(data, width_field)
  <2>1. (w \div 64) % 4 = (data \div 64) % 4
    BY <1>1, SMT
  <2>2. get_field(w, width_field) = (w \div 64) % 4 /\ get_field(data, width_field) = (data \div 64) % 4
    BY WidthField, SMT
  <2> QED BY <2>1, <2>2, SMT
<1>7. get_field(w, precision_field) = get_field(data, precision_field)
  <2>1. (w \div 256) % 4 = (data \div 256) % 4
    BY <1>1, SMT
  <2>2. get_field(w, precision_field) = (w \div 256) % 4 /\ get_field(data, precision_field) = (data \div 256) % 4
    BY PrecisionField, SMT
  <2> QED BY <2>1, <2>2, SMT
<1>8. get_field(w, fill_size_field) = get_field(data, fill_size_field)
  <2>1. (w \div 32768) % 8 = (data \div 32768) % 8
    BY <1>1, SMT
  <2>2. get_field(w, fill_size_field) = (w \div 32768) % 8 /\ get_field(data, fill_size_field) = (data \div 32768) % 8
    BY FillSizeField, SMT
  <2> QED BY <2>1, <2>2, SMT
<1> QED BY <1>2, <1>4, <1>5, <1>6, <1>7, <1>8, SMT

(* Setting the field uppercase: the other fields keep their values.         *)
LEMMA SetUppercase ==
  ASSUME NEW data \in Nat, data < 262144, NEW v \in Nat, v < 2,
         NEW w, w = set_field(data, uppercase_field, v)
  PROVE  /\ w \in Nat /\ w < 262144 /\ get_field(w, uppercase_field) = v
         /\ get_field(w, align_field) = get_field(data, align_field)
         /\ get_field(w, width_field) = get_field(data, width_field)
         /\ get_field(w, precision_field) = get_field(data, precision_field)
         /\ get_field(w, fill_size_field) = get_field(data, fill_size_field)
<1>1. w = data + (v - ((data \div 4096) % 2)) * 4096
  <2>1. 2^uppercase_field.shift = 4096 /\ get_field(data, uppercase_field) = (data \div 4096) % 2
    BY UppercaseField, SMT DEF uppercase_field
  <2>2. w = data + (v - get_field(data, uppercase_field)) * (2^uppercase_field.shift)
    BY SMT DEF set_field
  <2>3. PICK k : k = 2^uppercase_field.shift
    OBVIOUS
  <2>4. w = data + (v - get_field(data, uppercase_field)) * k
    BY <2>2, <2>3
  <2>5. k = 4096
    BY <2>1, <2>3
  <2> QED BY <2>1, <2>4, <2>5, SMT
<1>2. w \in Nat /\ w < 262144
  BY <1>1, SMT
<1>3. (w \div 4096) % 2 = v
  BY <1>1, SMT
<1>4. get_field(w, uppercase_field) = v
  <2>1. get_field(w, uppercase_field) = (w \div 4096) % 2
    BY UppercaseField, SMT
  <2> QED BY <2>1, <1>3, SMT
<1>5. get_field(w, align_field) = get_field(data, align_field)
  <2>1. (w \div 8) % 8 = (data \div 8) % 8
    BY <1>1, SMT
  <2>2. get_field(w, align_field) = (w \div 8) % 8 /\ get_field(data, align_field) = (data \div 8) % 8
    BY AlignField, SMT
  <2> QED BY <2>1, <2>2, SMT
<1>6. get_field(w, width_field) = get_field(data, width_field)
  <2>1. (w \div 64) % 4 = (data \div 64) % 4
    BY <1>1, SMT
  <2>2. get_field(w, width_field) = (w \div 64) % 4 /\ get_field(data, width_field) = (data \div 64) % 4
    BY WidthField, SMT
  <2> QED BY <2>1, <2>2, SMT
<1>7. get_field(w, precision_field) = get_field(data, precision_field)
  <2>1. (w \div 256) % 4 = (data \div 256) % 4
    BY <1>1, SMT
  <2>2. get_field(w, precision_field) = (w \div 256) % 4 /\ get_field(data, precision_field) = (data \div 256) % 4
    BY PrecisionField, SMT
  <2> QED BY <2>1, <2>2, SMT
<1>8. get_field(w, fill_size_field) = get_field(data, fill_size_field)
  <2>1. (w \div 32768) % 8 = (data \div 32768) % 8
    BY <1>1, SMT
  <2>2. get_field(w, fill_size_field) = (w \div 32768) % 8 /\ get_field(data, fill_size_field) = (data \div 32768) % 8
    BY FillSizeField, SMT
  <2> QED BY <2>1, <2>2, SMT
<1> QED BY <1>2, <1>4, <1>5, <1>6, <1>7, <1>8, SMT

(* Setting the field alternate: the other fields keep their values.         *)
LEMMA SetAlternate ==
  ASSUME NEW data \in Nat, data < 262144, NEW v \in Nat, v < 2,
         NEW w, w = set_field(data, alternate_field, v)
  PROVE  /\ w \in Nat /\ w < 262144 /\ get_field(w, alternate_field) = v
         /\ get_field(w, align_field) = get_field(data, align_field)
         /\ get_field(w, width_field) = get_field(data, width_field)
         /\ get_field(w, precision_field) = get_field(data, precision_field)
         /\ get_field(w, fill_size_field) = get_field(data, fill_size_field)
<1>1. w = data + (v - ((data \div 8192) % 2)) * 8192
  <2>1. 2^alternate_field.shift = 8192 /\ get_field(data, alternate_field) = (data \div 8192) % 2
    BY AlternateField, SMT DEF alternate_field
  <2>2. w = data + (v - get_field(data, alternate_field)) * (2^alternate_field.shift)
    BY SMT DEF set_field
  <2>3. PICK k : k = 2^alternate_field.shift
    OBVIOUS
  <2>4. w = data + (v - get_field(data, alternate_field)) * k
    BY <2>2, <2>3
  <2>5. k = 8192
    BY <2>1, <2>3
  <2> QED BY <2>1, <2>4, <2>5, SMT
<1>2. w \in Nat /\ w < 262144
  BY <1>1, SMT
<1>3. (w \div 8192) % 2 = v
  BY <1>1, SMT
<1>4. get_field(w, alternate_field) = v
  <2>1. get_field(w, alternate_field) = (w \div 8192) % 2
    BY AlternateField, SMT
  <2> QED BY <2>1, <1>3, SMT
<1>5. get_field(w, align_field) = get_field(data, align_field)
  <2>1. (w \div 8) % 8 = (data \div 8) % 8
    BY <1>1, SMT
  <2>2. get_field(w, align_field) = (w \div 8) % 8 /\ get_field(data, align_field) = (data \div 8) % 8
    BY AlignField, SMT
  <2> QED BY <2>1, <2>2, SMT
<1>6. get_field(w, width_field) = get_field(data, width_field)
  <2>1. (w \div 64) % 4 = (data \div 64) % 4
    BY <1>1, SMT
  <2>2. get_field(w, width_field) = (w \div 64) % 4 /\ get_field(data, width_field) = (data \div 64) % 4
    BY WidthField, SMT
  <2> QED BY <2>1, <2>2, SMT
<1>7. get_field(w, precision_field) = get_field(data, precision_field)
  <2>1. (w \div 256) % 4 = (data \div 256) % 4
    BY <1>1, SMT
  <2>2. get_field(w, precision_field) = (w \div 256) % 4 /\ get_field(data, precision_field) = (data \div 256) % 4
    BY PrecisionField, SMT
  <2> QED BY <2>1, <2>2, SMT
<1>8. get_field(w, fill_size_field) = get_field(data, fill_size_field)
  <2>1. (w \div 32768) % 8 = (data \div 32768) % 8
    BY <1>1, SMT
  <2>2. get_field(w, fill_size_field) = (w \div 32768) % 8 /\ get_field(data, fill_size_field) = (data \div 32768) % 8
    BY FillSizeField, SMT
  <2> QED BY <2>1, <2>2, SMT
<1> QED BY <1>2, <1>4, <1>5, <1>6, <1>7, <1>8, SMT

(* Setting the field localized: the other fields keep their values.         *)
LEMMA SetLocalized ==
  ASSUME NEW data \in Nat, data < 262144, NEW v \in Nat, v < 2,
         NEW w, w = set_field(data, localized_field, v)
  PROVE  /\ w \in Nat /\ w < 262144 /\ get_field(w, localized_field) = v
         /\ get_field(w, align_field) = get_field(data, align_field)
         /\ get_field(w, width_field) = get_field(data, width_field)
         /\ get_field(w, precision_field) = get_field(data, precision_field)
         /\ get_field(w, fill_size_field) = get_field(data, fill_size_field)
<1>1. w = data + (v - ((data \div 16384) % 2)) * 16384
  <2>1. 2^localized_field.shift = 16384 /\ get_field(data, localized_field) = (data \div 16384) % 2
    BY LocalizedField, SMT DEF localized_field
  <2>2. w = data + (v - get_field(data, localized_field)) * (2^localized_field.shift)
    BY SMT DEF set_field
  <2>3. PICK k : k = 2^localized_field.shift
    OBVIOUS
  <2>4. w = data + (v - get_field(data, localized_field)) * k
    BY <2>2, <2>3
  <2>5. k = 16384
    BY <2>1, <2>3
  <2> QED BY <2>1, <2>4, <2>5, SMT
<1>2. w \in Nat /\ w < 262144
  BY <1>1, SMT
<1>3. (w \div 16384) % 2 = v
  BY <1>1, SMT
<1>4. get_field(w, localized_field) = v
  <2>1. get_field(w, localized_field) = (w \div 16384) % 2
    BY LocalizedField, SMT
  <2> QED BY <2>1, <1>3, SMT
<1>5. get_field(w, align_field) = get_field(data, align_field)
  <2>1. (w \div 8) % 8 = (data \div 8) % 8
    BY <1>1, SMT
  <2>2. get_field(w, align_field) = (w \div 8) % 8 /\ get_field(data, align_field) = (data \div 8) % 8
    BY AlignField, SMT
  <2> QED BY <2>1, <2>2, SMT
<1>6. get_field(w, width_field) = get_field(data, width_field)
  <2>1. (w \div 64) % 4 = (data \div 64) % 4
    BY <1>1, SMT
  <2>2. get_field(w, width_field) = (w \div 64) % 4 /\ get_field(data, width_field) = (data \div 64) % 4
    BY WidthField, SMT
  <2> QED BY <2>1, <2>2, SMT
<1>7. get_field(w, precision_field) = get_field(data, precision_field)
  <2>1. (w \div 256) % 4 = (data \div 256) % 4
    BY <1>1, SMT
  <2>2. get_field(w, precision_field) = (w \div 256) % 4 /\ get_field(data, precision_field) = (data \div 256) % 4
    BY PrecisionField, SMT
  <2> QED BY <2>1, <2>2, SMT
<1>8. get_field(w, fill_size_field) = get_field(data, fill_size_field)
  <2>1. (w \div 32768) % 8 = (data \div 32768) % 8
    BY <1>1, SMT
  <2>2. get_field(w, fill_size_field) = (w \div 32768) % 8 /\ get_field(data, fill_size_field) = (data \div 32768) % 8
    BY FillSizeField, SMT
  <2> QED BY <2>1, <2>2, SMT
<1> QED BY <1>2, <1>4, <1>5, <1>6, <1>7, <1>8, SMT

(* Setting the field fill_size: the other fields keep their values.         *)
LEMMA SetFillSize ==
  ASSUME NEW data \in Nat, data < 262144, NEW v \in Nat, v < 8,
         NEW w, w = set_field(data, fill_size_field, v)
  PROVE  /\ w \in Nat /\ w < 262144 /\ get_field(w, fill_size_field) = v
         /\ get_field(w, align_field) = get_field(data, align_field)
         /\ get_field(w, width_field) = get_field(data, width_field)
         /\ get_field(w, precision_field) = get_field(data, precision_field)
<1>1. w = data + (v - ((data \div 32768) % 8)) * 32768
  <2>1. 2^fill_size_field.shift = 32768 /\ get_field(data, fill_size_field) = (data \div 32768) % 8
    BY FillSizeField, SMT DEF fill_size_field
  <2>2. w = data + (v - get_field(data, fill_size_field)) * (2^fill_size_field.shift)
    BY SMT DEF set_field
  <2>3. PICK k : k = 2^fill_size_field.shift
    OBVIOUS
  <2>4. w = data + (v - get_field(data, fill_size_field)) * k
    BY <2>2, <2>3
  <2>5. k = 32768
    BY <2>1, <2>3
  <2> QED BY <2>1, <2>4, <2>5, SMT
<1>2. w \in Nat /\ w < 262144
  BY <1>1, SMT
<1>3. (w \div 32768) % 8 = v
  BY <1>1, SMT
<1>4. get_field(w, fill_size_field) = v
  <2>1. get_field(w, fill_size_field) = (w \div 32768) % 8
    BY FillSizeField, SMT
  <2> QED BY <2>1, <1>3, SMT
<1>5. get_field(w, align_field) = get_field(data, align_field)
  <2>1. (w \div 8) % 8 = (data \div 8) % 8
    BY <1>1, SMT
  <2>2. get_field(w, align_field) = (w \div 8) % 8 /\ get_field(data, align_field) = (data \div 8) % 8
    BY AlignField, SMT
  <2> QED BY <2>1, <2>2, SMT
<1>6. get_field(w, width_field) = get_field(data, width_field)
  <2>1. (w \div 64) % 4 = (data \div 64) % 4
    BY <1>1, SMT
  <2>2. get_field(w, width_field) = (w \div 64) % 4 /\ get_field(data, width_field) = (data \div 64) % 4
    BY WidthField, SMT
  <2> QED BY <2>1, <2>2, SMT
<1>7. get_field(w, precision_field) = get_field(data, precision_field)
  <2>1. (w \div 256) % 4 = (data \div 256) % 4
    BY <1>1, SMT
  <2>2. get_field(w, precision_field) = (w \div 256) % 4 /\ get_field(data, precision_field) = (data \div 256) % 4
    BY PrecisionField, SMT
  <2> QED BY <2>1, <2>2, SMT
<1> QED BY <1>2, <1>4, <1>5, <1>6, <1>7, SMT

-----------------------------------------------------------------------------
(* Specifiers that the parser can hold.                                     *)
Specs_ok(s) ==
  /\ {"data", "fill_data", "width", "precision", "width_ref", "precision_ref"} \subseteq DOMAIN s
  /\ s.data \in Nat /\ s.data < 262144
  /\ get(s, align_field) \in 0 .. 4 /\ get(s, fill_size_field) \in 1 .. 4
  /\ get(s, width_field) \in 0 .. 2 /\ get(s, precision_field) \in 0 .. 2
  /\ s.width \in 0 .. IntMax /\ s.precision \in -1 .. IntMax

(* Specifiers with the same width and precision.                            *)
Same_counts(s, t) ==
  /\ get(s, width_field) = get(t, width_field) /\ s.width_ref = t.width_ref
  /\ get(s, precision_field) = get(t, precision_field) /\ s.precision_ref = t.precision_ref

(* set and get, in terms of the word.                                       *)
LEMMA SetData ==
  ASSUME NEW s, Specs_ok(s), NEW f, NEW v
  PROVE  LET t == set(s, f, v)
         IN  /\ DOMAIN t = DOMAIN s /\ t.data = set_field(s.data, f, v)
             /\ t.width = s.width /\ t.precision = s.precision /\ t.fill_data = s.fill_data
             /\ t.width_ref = s.width_ref /\ t.precision_ref = s.precision_ref
             /\ \A g : get(t, g) = get_field(set_field(s.data, f, v), g)
BY DEF Specs_ok, set, get

(* Setting the field type of specifiers.                                    *)
LEMMA SpecsType ==
  ASSUME NEW s, Specs_ok(s), NEW v \in Nat, v < 8
  PROVE  Specs_ok(set(s, type_field, v)) /\ Same_counts(s, set(s, type_field, v))
<1> DEFINE t == set(s, type_field, v)
           w == set_field(s.data, type_field, v)
<1>1. s.data \in Nat /\ s.data < 262144
  BY DEF Specs_ok
<1>2. /\ w \in Nat /\ w < 262144
      /\ get_field(w, align_field) = get_field(s.data, align_field)
      /\ get_field(w, width_field) = get_field(s.data, width_field)
      /\ get_field(w, precision_field) = get_field(s.data, precision_field)
      /\ get_field(w, fill_size_field) = get_field(s.data, fill_size_field)
  <2> HIDE DEF w
  <2> QED BY <1>1, SetType DEF w
<1>3. /\ DOMAIN t = DOMAIN s /\ t.data = w /\ t.width = s.width /\ t.precision = s.precision
      /\ t.width_ref = s.width_ref /\ t.precision_ref = s.precision_ref
      /\ \A g : get(t, g) = get_field(w, g)
  BY SetData
<1>4. \A g : get(s, g) = get_field(s.data, g)
  BY DEF get
<1> HIDE DEF t, w
<1>5. Specs_ok(t)
  BY <1>2, <1>3, <1>4, SMT DEF Specs_ok
<1>6. Same_counts(s, t)
  BY <1>2, <1>3, <1>4 DEF Same_counts
<1> QED BY <1>5, <1>6 DEF t

(* Setting the field sign of specifiers.                                    *)
LEMMA SpecsSign ==
  ASSUME NEW s, Specs_ok(s), NEW v \in Nat, v < 4
  PROVE  Specs_ok(set(s, sign_field, v)) /\ Same_counts(s, set(s, sign_field, v))
<1> DEFINE t == set(s, sign_field, v)
           w == set_field(s.data, sign_field, v)
<1>1. s.data \in Nat /\ s.data < 262144
  BY DEF Specs_ok
<1>2. /\ w \in Nat /\ w < 262144
      /\ get_field(w, align_field) = get_field(s.data, align_field)
      /\ get_field(w, width_field) = get_field(s.data, width_field)
      /\ get_field(w, precision_field) = get_field(s.data, precision_field)
      /\ get_field(w, fill_size_field) = get_field(s.data, fill_size_field)
  <2> HIDE DEF w
  <2> QED BY <1>1, SetSign DEF w
<1>3. /\ DOMAIN t = DOMAIN s /\ t.data = w /\ t.width = s.width /\ t.precision = s.precision
      /\ t.width_ref = s.width_ref /\ t.precision_ref = s.precision_ref
      /\ \A g : get(t, g) = get_field(w, g)
  BY SetData
<1>4. \A g : get(s, g) = get_field(s.data, g)
  BY DEF get
<1> HIDE DEF t, w
<1>5. Specs_ok(t)
  BY <1>2, <1>3, <1>4, SMT DEF Specs_ok
<1>6. Same_counts(s, t)
  BY <1>2, <1>3, <1>4 DEF Same_counts
<1> QED BY <1>5, <1>6 DEF t

(* Setting the field uppercase of specifiers.                               *)
LEMMA SpecsUppercase ==
  ASSUME NEW s, Specs_ok(s), NEW v \in Nat, v < 2
  PROVE  Specs_ok(set(s, uppercase_field, v)) /\ Same_counts(s, set(s, uppercase_field, v))
<1> DEFINE t == set(s, uppercase_field, v)
           w == set_field(s.data, uppercase_field, v)
<1>1. s.data \in Nat /\ s.data < 262144
  BY DEF Specs_ok
<1>2. /\ w \in Nat /\ w < 262144
      /\ get_field(w, align_field) = get_field(s.data, align_field)
      /\ get_field(w, width_field) = get_field(s.data, width_field)
      /\ get_field(w, precision_field) = get_field(s.data, precision_field)
      /\ get_field(w, fill_size_field) = get_field(s.data, fill_size_field)
  <2> HIDE DEF w
  <2> QED BY <1>1, SetUppercase DEF w
<1>3. /\ DOMAIN t = DOMAIN s /\ t.data = w /\ t.width = s.width /\ t.precision = s.precision
      /\ t.width_ref = s.width_ref /\ t.precision_ref = s.precision_ref
      /\ \A g : get(t, g) = get_field(w, g)
  BY SetData
<1>4. \A g : get(s, g) = get_field(s.data, g)
  BY DEF get
<1> HIDE DEF t, w
<1>5. Specs_ok(t)
  BY <1>2, <1>3, <1>4, SMT DEF Specs_ok
<1>6. Same_counts(s, t)
  BY <1>2, <1>3, <1>4 DEF Same_counts
<1> QED BY <1>5, <1>6 DEF t

(* Setting the field alternate of specifiers.                               *)
LEMMA SpecsAlternate ==
  ASSUME NEW s, Specs_ok(s), NEW v \in Nat, v < 2
  PROVE  Specs_ok(set(s, alternate_field, v)) /\ Same_counts(s, set(s, alternate_field, v))
<1> DEFINE t == set(s, alternate_field, v)
           w == set_field(s.data, alternate_field, v)
<1>1. s.data \in Nat /\ s.data < 262144
  BY DEF Specs_ok
<1>2. /\ w \in Nat /\ w < 262144
      /\ get_field(w, align_field) = get_field(s.data, align_field)
      /\ get_field(w, width_field) = get_field(s.data, width_field)
      /\ get_field(w, precision_field) = get_field(s.data, precision_field)
      /\ get_field(w, fill_size_field) = get_field(s.data, fill_size_field)
  <2> HIDE DEF w
  <2> QED BY <1>1, SetAlternate DEF w
<1>3. /\ DOMAIN t = DOMAIN s /\ t.data = w /\ t.width = s.width /\ t.precision = s.precision
      /\ t.width_ref = s.width_ref /\ t.precision_ref = s.precision_ref
      /\ \A g : get(t, g) = get_field(w, g)
  BY SetData
<1>4. \A g : get(s, g) = get_field(s.data, g)
  BY DEF get
<1> HIDE DEF t, w
<1>5. Specs_ok(t)
  BY <1>2, <1>3, <1>4, SMT DEF Specs_ok
<1>6. Same_counts(s, t)
  BY <1>2, <1>3, <1>4 DEF Same_counts
<1> QED BY <1>5, <1>6 DEF t

(* Setting the field localized of specifiers.                               *)
LEMMA SpecsLocalized ==
  ASSUME NEW s, Specs_ok(s), NEW v \in Nat, v < 2
  PROVE  Specs_ok(set(s, localized_field, v)) /\ Same_counts(s, set(s, localized_field, v))
<1> DEFINE t == set(s, localized_field, v)
           w == set_field(s.data, localized_field, v)
<1>1. s.data \in Nat /\ s.data < 262144
  BY DEF Specs_ok
<1>2. /\ w \in Nat /\ w < 262144
      /\ get_field(w, align_field) = get_field(s.data, align_field)
      /\ get_field(w, width_field) = get_field(s.data, width_field)
      /\ get_field(w, precision_field) = get_field(s.data, precision_field)
      /\ get_field(w, fill_size_field) = get_field(s.data, fill_size_field)
  <2> HIDE DEF w
  <2> QED BY <1>1, SetLocalized DEF w
<1>3. /\ DOMAIN t = DOMAIN s /\ t.data = w /\ t.width = s.width /\ t.precision = s.precision
      /\ t.width_ref = s.width_ref /\ t.precision_ref = s.precision_ref
      /\ \A g : get(t, g) = get_field(w, g)
  BY SetData
<1>4. \A g : get(s, g) = get_field(s.data, g)
  BY DEF get
<1> HIDE DEF t, w
<1>5. Specs_ok(t)
  BY <1>2, <1>3, <1>4, SMT DEF Specs_ok
<1>6. Same_counts(s, t)
  BY <1>2, <1>3, <1>4 DEF Same_counts
<1> QED BY <1>5, <1>6 DEF t

(* Setting the field align of specifiers.                                   *)
LEMMA SpecsAlign ==
  ASSUME NEW s, Specs_ok(s), NEW v \in Nat, v < 5
  PROVE  Specs_ok(set(s, align_field, v)) /\ Same_counts(s, set(s, align_field, v))
<1> DEFINE t == set(s, align_field, v)
           w == set_field(s.data, align_field, v)
<1>1. s.data \in Nat /\ s.data < 262144
  BY DEF Specs_ok
<1>2. /\ w \in Nat /\ w < 262144 /\ get_field(w, align_field) = v
      /\ get_field(w, width_field) = get_field(s.data, width_field)
      /\ get_field(w, precision_field) = get_field(s.data, precision_field)
      /\ get_field(w, fill_size_field) = get_field(s.data, fill_size_field)
  <2> HIDE DEF w
  <2> QED BY <1>1, SetAlign DEF w
<1>3. /\ DOMAIN t = DOMAIN s /\ t.data = w /\ t.width = s.width /\ t.precision = s.precision
      /\ t.width_ref = s.width_ref /\ t.precision_ref = s.precision_ref
      /\ \A g : get(t, g) = get_field(w, g)
  BY SetData
<1>4. \A g : get(s, g) = get_field(s.data, g)
  BY DEF get
<1> HIDE DEF t, w
<1>5. Specs_ok(t)
  BY <1>2, <1>3, <1>4, SMT DEF Specs_ok
<1>6. Same_counts(s, t)
  BY <1>2, <1>3, <1>4 DEF Same_counts
<1> QED BY <1>5, <1>6 DEF t

Width_set(s, k, v, ref) == [set(s, width_field, k) EXCEPT !.width = v, !.width_ref = ref]

(* Setting the width of specifiers.                                         *)
LEMMA SpecsWidth ==
  ASSUME NEW s, Specs_ok(s), NEW k \in 0 .. 2, NEW v \in 0 .. IntMax, NEW ref
  PROVE  LET t == Width_set(s, k, v, ref)
         IN  /\ Specs_ok(t)
             /\ get(t, width_field) = k /\ t.width_ref = ref
             /\ get(t, precision_field) = get(s, precision_field) /\ t.precision_ref = s.precision_ref
<1> DEFINE t == Width_set(s, k, v, ref)
           u == set(s, width_field, k)
           w == set_field(s.data, width_field, k)
<1>1. s.data \in Nat /\ s.data < 262144 /\ k \in Nat /\ k < 4
  BY SMT DEF Specs_ok
<1>2. /\ w \in Nat /\ w < 262144 /\ get_field(w, width_field) = k
      /\ get_field(w, align_field) = get_field(s.data, align_field)
      /\ get_field(w, precision_field) = get_field(s.data, precision_field)
      /\ get_field(w, fill_size_field) = get_field(s.data, fill_size_field)
  <2> HIDE DEF w
  <2> QED BY <1>1, SetWidth DEF w
<1>3. /\ DOMAIN u = DOMAIN s /\ u.data = w /\ u.precision = s.precision /\ u.precision_ref = s.precision_ref
      /\ \A g : get(u, g) = get_field(w, g)
  BY SetData
<1> HIDE DEF u, w
<1>4. DOMAIN u = DOMAIN s /\ {"data", "fill_data", "width", "precision", "width_ref", "precision_ref"} \subseteq DOMAIN s
  BY <1>3 DEF Specs_ok
<1>5. t = [u EXCEPT !.width = v, !.width_ref = ref]
  BY DEF u, Width_set
<1> HIDE DEF t
<1>6. /\ DOMAIN t = DOMAIN s /\ t.data = w /\ t.precision = s.precision /\ t.precision_ref = s.precision_ref
      /\ t.width = v /\ t.width_ref = ref
  BY <1>3, <1>4, <1>5
<1>7. \A g : get(t, g) = get_field(w, g) /\ get(s, g) = get_field(s.data, g)
  BY <1>6 DEF get
<1>8. Specs_ok(t)
  BY <1>2, <1>6, <1>7, SMT DEF Specs_ok
<1> QED BY <1>2, <1>6, <1>7, <1>8 DEF t

Precision_set(s, k, v, ref) == [set(s, precision_field, k) EXCEPT !.precision = v, !.precision_ref = ref]

(* Setting the precision of specifiers.                                     *)
LEMMA SpecsPrecision ==
  ASSUME NEW s, Specs_ok(s), NEW k \in 0 .. 2, NEW v \in -1 .. IntMax, NEW ref
  PROVE  LET t == Precision_set(s, k, v, ref)
         IN  /\ Specs_ok(t)
             /\ get(t, precision_field) = k /\ t.precision_ref = ref
             /\ get(t, width_field) = get(s, width_field) /\ t.width_ref = s.width_ref
<1> DEFINE t == Precision_set(s, k, v, ref)
           u == set(s, precision_field, k)
           w == set_field(s.data, precision_field, k)
<1>1. s.data \in Nat /\ s.data < 262144 /\ k \in Nat /\ k < 4
  BY SMT DEF Specs_ok
<1>2. /\ w \in Nat /\ w < 262144 /\ get_field(w, precision_field) = k
      /\ get_field(w, align_field) = get_field(s.data, align_field)
      /\ get_field(w, width_field) = get_field(s.data, width_field)
      /\ get_field(w, fill_size_field) = get_field(s.data, fill_size_field)
  <2> HIDE DEF w
  <2> QED BY <1>1, SetPrecision DEF w
<1>3. /\ DOMAIN u = DOMAIN s /\ u.data = w /\ u.width = s.width /\ u.width_ref = s.width_ref
      /\ \A g : get(u, g) = get_field(w, g)
  BY SetData
<1> HIDE DEF u, w
<1>4. DOMAIN u = DOMAIN s /\ {"data", "fill_data", "width", "precision", "width_ref", "precision_ref"} \subseteq DOMAIN s
  BY <1>3 DEF Specs_ok
<1>5. t = [u EXCEPT !.precision = v, !.precision_ref = ref]
  BY DEF u, Precision_set
<1> HIDE DEF t
<1>6. /\ DOMAIN t = DOMAIN s /\ t.data = w /\ t.width = s.width /\ t.width_ref = s.width_ref
      /\ t.precision = v /\ t.precision_ref = ref
  BY <1>3, <1>4, <1>5
<1>7. \A g : get(t, g) = get_field(w, g) /\ get(s, g) = get_field(s.data, g)
  BY <1>6 DEF get
<1>8. Specs_ok(t)
  BY <1>2, <1>6, <1>7, SMT DEF Specs_ok
<1> QED BY <1>2, <1>6, <1>7, <1>8 DEF t

(* Setting the fill, of one code point.                                     *)
LEMMA SpecsFill ==
  ASSUME NEW s, Specs_ok(s), NEW fill_units, NEW n \in 1 .. 4, Len(fill_units) = n
  PROVE  Specs_ok(set_fill(s, fill_units)) /\ Same_counts(s, set_fill(s, fill_units))
<1> DEFINE u == set(s, fill_size_field, n)
           w == set_field(s.data, fill_size_field, n)
           data == [i \in DOMAIN u.fill_data |-> IF i <= n THEN fill_units[i]
                                                 ELSE IF n = 1 /\ i <= 3 THEN "NUL"
                                                 ELSE u.fill_data[i]]
           t == [u EXCEPT !.fill_data = data]
<1>0. set_fill(s, fill_units) = t
  BY DEF set_fill
<1>1. s.data \in Nat /\ s.data < 262144 /\ n \in Nat /\ n < 8 /\ n \in 1 .. 4
  BY SMT DEF Specs_ok
<1> HIDE DEF data
<1>2. /\ w \in Nat /\ w < 262144 /\ get_field(w, fill_size_field) = n
      /\ get_field(w, align_field) = get_field(s.data, align_field)
      /\ get_field(w, width_field) = get_field(s.data, width_field)
      /\ get_field(w, precision_field) = get_field(s.data, precision_field)
  <2> HIDE DEF w
  <2> QED BY ONLY <1>1, SetFillSize, SMT DEF w
<1>3. /\ DOMAIN u = DOMAIN s /\ u.data = w /\ u.width = s.width /\ u.width_ref = s.width_ref
      /\ u.precision = s.precision /\ u.precision_ref = s.precision_ref
  BY SetData
<1> HIDE DEF u, w
<1>4. {"data", "fill_data", "width", "precision", "width_ref", "precision_ref"} \subseteq DOMAIN s
  BY DEF Specs_ok
<1>5. /\ DOMAIN t = DOMAIN s /\ t.data = w /\ t.width = s.width /\ t.width_ref = s.width_ref
      /\ t.precision = s.precision /\ t.precision_ref = s.precision_ref
  BY <1>3, <1>4
<1> HIDE DEF t
<1>6. \A g : get(t, g) = get_field(w, g) /\ get(s, g) = get_field(s.data, g)
  BY <1>5 DEF get
<1>7. Specs_ok(t)
  BY <1>1, <1>2, <1>5, <1>6, SMT DEF Specs_ok
<1>8. Same_counts(s, t)
  BY <1>2, <1>5, <1>6 DEF Same_counts
<1> QED BY <1>0, <1>7, <1>8

(* The specifiers of a field before any is read.                            *)
LEMMA FirstSpecs ==
  /\ Specs_ok(format_specs)
  /\ get(format_specs, width_field) = 0 /\ get(format_specs, precision_field) = 0
<1> DEFINE w == set_field(0, fill_size_field, 1)
<1>1. w = 32768
  <2>1. 2^fill_size_field.shift = 32768 /\ get_field(0, fill_size_field) = (0 \div 32768) % 8
    BY FillSizeField, SMT DEF fill_size_field
  <2>2. w = 0 + (1 - get_field(0, fill_size_field)) * (2^fill_size_field.shift)
    BY SMT DEF set_field
  <2>3. PICK k : k = 2^fill_size_field.shift
    OBVIOUS
  <2>4. w = 0 + (1 - get_field(0, fill_size_field)) * k
    BY <2>2, <2>3
  <2>5. k = 32768
    BY <2>1, <2>3, SMT
  <2>6. get_field(0, fill_size_field) = 0
    BY <2>1, SMT
  <2> QED BY <2>4, <2>5, <2>6, SMT
<1> HIDE DEF w
<1>2. get_field(w, align_field) = 0 /\ get_field(w, fill_size_field) = 1
      /\ get_field(w, width_field) = 0 /\ get_field(w, precision_field) = 0
  <2>1. get_field(w, align_field) = (w \div 8) % 8
    BY AlignField
  <2>2. get_field(w, fill_size_field) = (w \div 32768) % 8
    BY FillSizeField, SMT
  <2>3. get_field(w, width_field) = (w \div 64) % 4
    BY WidthField
  <2>4. get_field(w, precision_field) = (w \div 256) % 4
    BY PrecisionField, SMT
  <2> QED BY <2>1, <2>2, <2>3, <2>4, <1>1, SMT
<1>3. /\ DOMAIN format_specs = {"data", "fill_data", "width", "precision", "width_ref", "precision_ref"}
      /\ format_specs.data = w /\ format_specs.width = 0 /\ format_specs.precision = -1
  BY DEF format_specs, w
<1>4. \A g : get(format_specs, g) = get_field(w, g)
  BY <1>3 DEF get
<1>5. 0 \in 0 .. IntMax /\ -1 \in -1 .. IntMax
  BY IntMaxFacts
<1>6. w \in Nat /\ w < 262144
  BY <1>1, SMT
<1> HIDE DEF w
<1> QED BY <1>2, <1>3, <1>4, <1>5, <1>6, SMT DEF Specs_ok

=============================================================================

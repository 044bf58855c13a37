--------------------------- MODULE TopKSparseProofs ---------------------------
(***************************************************************************)
(* Top-k compression for every number of elements, keep fraction and       *)
(* vector: nth_element's threshold exists, a payload fits its buffer and   *)
(* holds the largest values, and error feedback holds what rounds took up  *)
(* and did not deliver -- exactly when dense; packed, without ties and     *)
(* overflow, short of it by half a spacing for each value half precision   *)
(* rounded.  (With ties more is lost; see Conserved in TopKSparseProps.)   *)
(***************************************************************************)
EXTENDS TopKSparseProps, FiniteSetTheorems, WellFoundedInduction, TLAPS

USE TopKAssumption, HalfAssumption

(* The magnitudes of a vector, and the elements that reach or exceed one.  *)
Magnitudes(v) == {Abs(v[i]) : i \in Index}
AtLeast(v, t) == {i \in Index : Abs(v[i]) >= t}
Above(v, t) == {i \in Index : Abs(v[i]) > t}

-----------------------------------------------------------------------------
(* Sums and differences of vectors are vectors.                            *)
LEMMA VectorArithmetic ==
  ASSUME NEW v \in Vector, NEW w \in Vector
  PROVE  /\ Plus(v, w) \in Vector /\ Minus(v, w) \in Vector
         /\ \A i \in Index : Plus(v, w)[i] = v[i] + w[i]
         /\ \A i \in Index : Minus(v, w)[i] = v[i] - w[i]
  BY DEF Plus, Minus, Vector

(* Masking makes two vectors.                                              *)
LEMMA MaskType ==
  ASSUME NEW v \in Vector, NEW old
  PROVE  Mask(v, old) \in [delta : Vector, err : Vector]
  <1> DEFINE kept == Kept(v)
  <1>1. Mask(v, old) = [delta |-> [i \in Index |-> IF i \in kept THEN v[i] ELSE 0],
                        err   |-> [i \in Index |-> IF i \in kept THEN 0 ELSE v[i]]]
    BY DEF Mask
  <1> HIDE DEF kept
  <1> QED
    BY <1>1 DEF Vector

(* What a payload unpacks to is a vector.                                  *)
LEMMA UnpackType ==
  ASSUME NEW sent \in SUBSET Index, NEW p \in [sent -> Int]
  PROVE  Unpack(p) \in Vector
  BY DEF Unpack, Vector

(* Nothing is a payload, and nothing in flight is a round.                 *)
LEMMA Nothing ==
  /\ Zeros \in Vector
  /\ NoRound \in [delta : Vector, err : Vector]
  /\ NoPayload \in [{} -> Int]
  BY DEF Zeros, NoRound, NoPayload, Vector

(* Delivering a vector keeps the shape of the state.                       *)
LEMMA DeliverType ==
  ASSUME TypeOK, NEW delta \in Vector, NEW rounding \in [Index -> Nat],
         Deliver(delta, rounding)
  PROVE  TypeOK'
  <1>1. Minus(Plus(owed, inflight), delta) \in Vector
    BY VectorArithmetic DEF TypeOK
  <1>2. Plus(slack, rounding) \in [Index -> Nat]
    BY DEF TypeOK, Plus
  <1> QED
    BY <1>1, <1>2, Nothing DEF TypeOK, Deliver, RoundOver

-----------------------------------------------------------------------------
(* At least one element is kept, and at most all of them.                  *)
LEMMA KeepsSome == K \in 1 .. N
  <1> DEFINE k == (N * KeepNum) \div KeepDen
  <1>1. N * KeepNum \in Nat /\ N * KeepDen \in Nat /\ N * KeepNum <= N * KeepDen
    <2>1. PICK d \in Nat : KeepDen = KeepNum + d
      <3>1. KeepDen - KeepNum \in Nat /\ KeepDen = KeepNum + (KeepDen - KeepNum)
        OBVIOUS
      <3> QED
        BY <3>1
    <2>2. N * KeepDen = N * KeepNum + N * d /\ N * d >= 0
      BY <2>1
    <2>3. N * KeepNum \in Nat /\ N * KeepDen \in Nat /\ N * d \in Nat
      BY <2>1
    <2> QED
      BY <2>2, <2>3
  <1>2. k \in Nat /\ k <= N
    <2>1. \A a \in Nat : \A d \in Nat \ {0} :
            a \div d \in Nat /\ d * (a \div d) <= a
      OBVIOUS
    <2>2. k \in Nat /\ KeepDen * k <= N * KeepNum
      BY <1>1, <2>1
    <2>3. SUFFICES ASSUME k >= N + 1 PROVE FALSE
      BY <2>2
    <2>4. PICK d \in Nat : k = N + 1 + d
      <3>1. k - (N + 1) \in Nat /\ k = N + 1 + (k - (N + 1))
        BY <2>2, <2>3
      <3> QED
        BY <3>1
    <2>5. KeepDen * k = N * KeepDen + KeepDen + KeepDen * d
      BY <2>4
    <2>6. KeepDen * d \in Nat
      BY <2>4
    <2> HIDE DEF k
    <2> QED
      BY <1>1, <2>2, <2>5, <2>6
  <1> HIDE DEF k
  <1>3. K = IF k = 0 THEN 1 ELSE k
    BY DEF K, k
  <1> QED
    BY <1>2, <1>3

(* A set of natural numbers that is not empty has a least element.         *)
LEMMA LeastNat ==
  ASSUME NEW T \in SUBSET Nat, T # {}
  PROVE  \E n \in T : \A m \in T : n <= m
  <1>1. PICK top \in T : TRUE
    OBVIOUS
  <1> DEFINE upTo == {m \in T : m <= top}
             before(n) == {m \in T : m < n}
             family == {before(n) : n \in upTo}
  <1>2. IsFiniteSet(upTo)
    BY <1>1, FS_BoundedSetOfNaturals
  <1>3. FiniteSubsetsOf(upTo) = SUBSET upTo
    BY <1>2, FS_FiniteSubsetsOfFinite
  <1>4. IsWellFoundedOn(StrictSubsetOrdering(upTo), SUBSET upTo)
    BY <1>3, FS_StrictSubsetOrderingWellFounded
  <1>5. family \subseteq SUBSET upTo /\ family # {}
    <2>1. ASSUME NEW n \in upTo, NEW m \in before(n) PROVE m \in upTo
      <3>1. n \in Nat /\ m \in Nat /\ top \in Nat /\ m < n /\ n <= top /\ m \in T
        BY <1>1, <2>1
      <3> QED
        BY <3>1
    <2>2. \A n \in upTo : before(n) \in SUBSET upTo
      BY <2>1
    <2>3. top \in upTo
      BY <1>1
    <2> HIDE DEF before, upTo
    <2> QED
      BY <2>2, <2>3
  <1>6. PICK x \in family :
          \A y \in family : ~(<<y, x>> \in StrictSubsetOrdering(upTo))
    <2> HIDE DEF family, upTo
    <2> QED
      BY <1>4, <1>5, WFMin
  <1>7. PICK n \in upTo : x = before(n)
    OBVIOUS
  <1>8. ASSUME NEW m \in T, m < n PROVE FALSE
    <2>1. m \in upTo
      BY <1>1, <1>7, <1>8
    <2>2. before(m) \in family
      BY <2>1
    <2>3. before(m) \subseteq before(n) /\ before(m) # before(n)
      <3>1. m \in before(n) /\ m \notin before(m)
        BY <1>8
      <3>2. \A k \in before(m) : k < n
        BY <1>7, <1>8
      <3> QED
        BY <3>1, <3>2
    <2>4. <<before(m), x>> \in StrictSubsetOrdering(upTo)
      <3> HIDE DEF before, upTo
      <3>1. before(m) \in SUBSET upTo /\ x \in SUBSET upTo
        BY <1>5, <1>6, <2>2
      <3> QED
        BY <1>7, <2>3, <3>1 DEF StrictSubsetOrdering
    <2> QED
      BY <1>6, <2>2, <2>4
  <1> QED
    BY <1>7, <1>8


(* There is a widest spacing, so infinity is a magnitude.                  *)
LEMMA InfinityType ==
  /\ Coarsest \in Spacings /\ Coarsest \in Nat \ {0}
  /\ \A s \in Spacings : s <= Coarsest
  /\ Infinity = (MaxSig + 1) * Coarsest /\ Infinity \in Nat
  <1>1. Coarsest \in Spacings /\ \A s \in Spacings : s <= Coarsest
    BY DEF Coarsest
  <1>2. Coarsest \in Nat \ {0}
    BY <1>1
  <1> HIDE DEF Coarsest
  <1> QED
    BY <1>1, <1>2 DEF Infinity

(* Below infinity some spacing reaches, and the smallest is taken.         *)
LEMMA SpacingType ==
  ASSUME NEW a \in Nat, a < Infinity
  PROVE  Spacing(a) \in Nat \ {0}
  <1> DEFINE reaching == {s \in Spacings : a < (MaxSig + 1) * s}
  <1>1. Coarsest \in reaching /\ reaching \in SUBSET Nat
    BY InfinityType
  <1>2. \E s \in reaching : \A t \in reaching : s <= t
    <2> HIDE DEF reaching
    <2> QED
      BY <1>1, LeastNat
  <1>3. Spacing(a) \in reaching
    <2>1. Spacing(a) = CHOOSE s \in reaching : \A t \in reaching : s <= t
      BY DEF Spacing
    <2> HIDE DEF reaching
    <2> QED
      BY <1>2, <2>1
  <1> QED
    BY <1>3

(* Rounding moves a number by at most half the spacing, and not at all     *)
(* when the number is a multiple of it.                                    *)
LEMMA RoundEvenClose ==
  ASSUME NEW a \in Nat, NEW s \in Nat \ {0}
  PROVE  /\ RoundEven(a, s) \in Nat
         /\ 2 * Abs(a - RoundEven(a, s)) <= IF a % s = 0 THEN 0 ELSE s
  <1> DEFINE q == a \div s
             r == a % s
  <1>1. q \in Nat /\ r \in Nat /\ r < s /\ a = s * q + r
    OBVIOUS
  <1>2. s * q \in Nat /\ s * (q + 1) = s * q + s
    BY <1>1
  <1>3. RoundEven(a, s) \in {s * q, s * (q + 1)}
    BY DEF RoundEven
  <1>4. /\ RoundEven(a, s) = s * q => 2 * r <= s
        /\ RoundEven(a, s) = s * (q + 1) => 2 * r >= s
    <2>1. RoundEven(a, s) =
            IF 2 * r > s \/ (2 * r = s /\ q % 2 = 1) THEN s * (q + 1) ELSE s * q
      BY DEF RoundEven
    <2> HIDE DEF q, r
    <2> QED
      BY <1>1, <1>2, <2>1
  <1> DEFINE h == RoundEven(a, s)
  <1> SUFFICES h \in Nat /\ 2 * Abs(a - h) <= IF r = 0 THEN 0 ELSE s
    OBVIOUS
  <1>5. h \in {s * q, s * (q + 1)} /\ (h = s * q => 2 * r <= s)
        /\ (h = s * (q + 1) => 2 * r >= s)
    BY <1>3, <1>4
  <1> HIDE DEF q, r, h
  <1> DEFINE low == s * q
  <1>6. low \in Nat /\ s * (q + 1) = low + s /\ a = low + r
    BY <1>1, <1>2
  <1> HIDE DEF low
  <1>7. h \in {low, low + s} /\ (h = low => 2 * r <= s) /\ (h = low + s => 2 * r >= s)
    BY <1>5, <1>6 DEF low
  <1> QED
    BY <1>1, <1>6, <1>7 DEF Abs

(* f32_to_f16_compress: a value whose half is finite moves by no more than *)
(* half its slack.                                                         *)
LEMMA HalfClose ==
  ASSUME NEW x \in Int
  PROVE  /\ ToHalf(x) \in Int
         /\ Finite(ToHalf(x)) => Slack(x) \in Nat /\ 2 * Abs(x - ToHalf(x)) <= Slack(x)
  <1> DEFINE a == Abs(x)
             h == HalfMagnitude(a)
  <1>1. a \in Nat /\ Infinity \in Nat
    BY InfinityType DEF Abs
  <1>2. ToHalf(x) = IF x < 0 THEN -h ELSE h
    BY DEF ToHalf, Abs
  <1>3. CASE a >= Infinity
    <2>1. h = Infinity
      BY <1>3 DEF HalfMagnitude
    <2> HIDE DEF h, a
    <2>2. ToHalf(x) \in Int /\ Abs(ToHalf(x)) = Infinity
      BY <1>1, <1>2, <2>1 DEF Abs
    <2> QED
      BY <1>1, <2>2 DEF Finite
  <1>4. CASE a < Infinity
    <2> DEFINE s == Spacing(a)
    <2>1. s \in Nat \ {0}
      BY <1>1, <1>4, SpacingType
    <2>2. h = RoundEven(a, s)
      BY <1>1, <1>4 DEF HalfMagnitude
    <2>3. Slack(x) = IF a % s = 0 THEN 0 ELSE s
      BY DEF Slack
    <2> HIDE DEF a, s, h
    <2>4. h \in Nat /\ 2 * Abs(a - h) <= Slack(x) /\ Slack(x) \in Nat
      BY <1>1, <2>1, <2>2, <2>3, RoundEvenClose
    <2>5. a = IF x < 0 THEN -x ELSE x
      BY DEF a, Abs
    <2> QED
      BY <1>1, <1>2, <2>4, <2>5 DEF Abs
  <1> QED
    BY <1>1, <1>3, <1>4

(* A payload maps some of the indices to the values found there.           *)
LEMMA PackType ==
  ASSUME NEW v \in Vector
  PROVE  \E sent \in SUBSET Index : Pack(v) \in [sent -> Int]
  <1>1. PackedIndices(v) \in SUBSET Index
    BY DEF PackedIndices
  <1>2. Pack(v) \in [PackedIndices(v) -> Int]
    BY <1>1, HalfClose DEF Pack, Vector
  <1> QED
    BY <1>1, <1>2

(* The index set is finite, and so is every part of it.                    *)
LEMMA IndexFinite ==
  /\ IsFiniteSet(Index) /\ Cardinality(Index) = N
  /\ \A S \in SUBSET Index : IsFiniteSet(S) /\ Cardinality(S) \in 0 .. N
  <1>1. IsFiniteSet(Index) /\ Cardinality(Index) = N
    BY FS_Interval DEF Index
  <1> QED
    BY <1>1, FS_Subset, FS_CardinalityType

(* A larger set of indices has at least as many elements, and more if it   *)
(* is another one.                                                         *)
LEMMA Counting ==
  ASSUME NEW S \in SUBSET Index, NEW T \in SUBSET S
  PROVE  /\ Cardinality(T) <= Cardinality(S)
         /\ T # S => Cardinality(T) < Cardinality(S)
  BY IndexFinite, FS_Subset

(* Magnitudes are natural numbers.                                         *)
LEMMA MagnitudeType ==
  ASSUME NEW v \in Vector
  PROVE  /\ \A i \in Index : v[i] \in Int /\ Abs(v[i]) \in Nat
         /\ Magnitudes(v) \in SUBSET Nat /\ Magnitudes(v) # {}
  <1>1. \A i \in Index : v[i] \in Int /\ Abs(v[i]) \in Nat
    BY DEF Vector, Abs
  <1>2. 0 \in Index
    BY DEF Index
  <1> QED
    BY <1>1, <1>2 DEF Magnitudes

(* std::nth_element has an answer: some magnitude is reached by at least K *)
(* elements and exceeded by fewer.                                         *)
LEMMA ThresholdExists ==
  ASSUME NEW v \in Vector
  PROVE  \E t \in Magnitudes(v) :
           Cardinality(Above(v, t)) < K /\ Cardinality(AtLeast(v, t)) >= K
  <1> DEFINE good == {t \in Magnitudes(v) : Cardinality(AtLeast(v, t)) >= K}
             sizes == {Cardinality(AtLeast(v, t)) : t \in good}
  <1>0. /\ \A t : AtLeast(v, t) \in SUBSET Index /\ Above(v, t) \in SUBSET Index
        /\ \A t : Cardinality(AtLeast(v, t)) \in Nat /\ Cardinality(Above(v, t)) \in Nat
        /\ K \in 1 .. N
    <2>1. \A t : AtLeast(v, t) \in SUBSET Index /\ Above(v, t) \in SUBSET Index
      BY DEF AtLeast, Above
    <2> QED
      BY <2>1, IndexFinite, KeepsSome
  <1>1. good # {}
    <2>1. PICK t \in Magnitudes(v) : \A s \in Magnitudes(v) : t <= s
      BY MagnitudeType, LeastNat
    <2>2. AtLeast(v, t) = Index
      <3>1. \A i \in Index : Abs(v[i]) \in Magnitudes(v)
        BY DEF Magnitudes
      <3>2. \A i \in Index : Abs(v[i]) >= t
        BY <2>1, <3>1, MagnitudeType
      <3> QED
        BY <3>2 DEF AtLeast
    <2>3. Cardinality(AtLeast(v, t)) >= K
      BY <2>2, IndexFinite, <1>0
    <2> QED
      BY <2>3
  <1>2. PICK t \in good :
          \A s \in good : Cardinality(AtLeast(v, t)) <= Cardinality(AtLeast(v, s))
    <2>1. sizes \in SUBSET Nat /\ sizes # {}
      BY <1>0, <1>1
    <2>2. PICK n \in sizes : \A m \in sizes : n <= m
      <3> HIDE DEF sizes
      <3> QED
        BY <2>1, LeastNat
    <2> QED
      BY <2>2
  <1>3. \A s \in good : s <= t
    <2> SUFFICES ASSUME NEW s \in good, ~(s <= t) PROVE FALSE
      OBVIOUS
    <2>1. s \in Nat /\ t \in Nat /\ t < s
      BY <1>2, MagnitudeType
    <2>2. PICK i \in Index : Abs(v[i]) = t
      BY <1>2 DEF Magnitudes
    <2>3. AtLeast(v, s) \subseteq AtLeast(v, t)
      BY <2>1, MagnitudeType DEF AtLeast
    <2>4. i \in AtLeast(v, t) /\ i \notin AtLeast(v, s)
      BY <2>1, <2>2 DEF AtLeast
    <2>5. Cardinality(AtLeast(v, s)) < Cardinality(AtLeast(v, t))
      BY <1>0, <2>3, <2>4, Counting
    <2> QED
      BY <1>0, <1>2, <2>5
  <1>4. Cardinality(Above(v, t)) < K
    <2>1. CASE Above(v, t) = {}
      BY <1>0, <2>1, FS_EmptySet
    <2>2. CASE Above(v, t) # {}
      <3> DEFINE higher == {m \in Magnitudes(v) : m > t}
      <3>1. higher \in SUBSET Nat /\ higher # {}
        <4>1. PICK i \in Index : Abs(v[i]) > t
          BY <2>2 DEF Above
        <4> QED
          BY <4>1, MagnitudeType DEF Magnitudes
      <3>2. PICK s \in higher : \A m \in higher : s <= m
        <4> HIDE DEF higher
        <4> QED
          BY <3>1, LeastNat
      <3>3. s \in Magnitudes(v) /\ s > t /\ s \in Nat /\ t \in Nat
        BY <1>2, <3>2, MagnitudeType
      <3>4. \A i \in Index : Abs(v[i]) > t <=> Abs(v[i]) >= s
        <4> SUFFICES ASSUME NEW i \in Index
                     PROVE  Abs(v[i]) > t <=> Abs(v[i]) >= s
          OBVIOUS
        <4>1. Abs(v[i]) \in Magnitudes(v) /\ Abs(v[i]) \in Nat
          BY MagnitudeType DEF Magnitudes
        <4> QED
          BY <3>2, <3>3, <4>1
      <3>5. Above(v, t) = AtLeast(v, s)
        BY <3>4 DEF Above, AtLeast
      <3>6. s \notin good
        BY <1>3, <3>3
      <3> QED
        BY <1>0, <3>3, <3>5, <3>6
    <2> QED
      BY <2>1, <2>2
  <1> QED
    BY <1>2, <1>4

(* The threshold is such a magnitude, so at least K elements are kept.     *)
LEMMA ThresholdIs ==
  ASSUME NEW v \in Vector
  PROVE  /\ Threshold(v) \in Magnitudes(v) /\ Threshold(v) \in Nat
         /\ Cardinality(Above(v, Threshold(v))) < K
         /\ Kept(v) = AtLeast(v, Threshold(v))
         /\ Cardinality(Kept(v)) >= K
  <1>1. Threshold(v) =
          CHOOSE t \in Magnitudes(v) :
            Cardinality(Above(v, t)) < K /\ Cardinality(AtLeast(v, t)) >= K
    BY DEF Threshold, Magnitudes, Above, AtLeast
  <1>2. /\ Threshold(v) \in Magnitudes(v)
        /\ Cardinality(Above(v, Threshold(v))) < K
        /\ Cardinality(AtLeast(v, Threshold(v))) >= K
    BY <1>1, ThresholdExists
  <1>3. Kept(v) = AtLeast(v, Threshold(v))
    BY DEF Kept, AtLeast
  <1> QED
    BY <1>2, <1>3, MagnitudeType

(* tc_diloco_sparse_pack writes at most K entries.                         *)
LEMMA PacksAtMostK ==
  ASSUME NEW v
  PROVE  Cardinality(PackedIndices(v)) <= K
  <1> DEFINE candidates == {i \in Index : Abs(v[i]) >= PackThreshold(v)}
             before(i) == {j \in candidates : j < i}
             packed == {i \in candidates : Cardinality(before(i)) < K}
             gaps == {N - i : i \in packed}
  <1>1. PackedIndices(v) = packed
    BY DEF PackedIndices
  <1>2. packed \in SUBSET Index /\ K \in Nat
    BY KeepsSome
  <1>3. CASE packed = {}
    <2>1. PackedIndices(v) = {}
      BY <1>1, <1>3
    <2> QED
      BY <1>2, <2>1, FS_EmptySet
  <1>4. CASE packed # {}
    <2>1. gaps \in SUBSET Nat /\ gaps # {}
      <3> HIDE DEF packed
      <3>1. \A i \in packed : N - i \in Nat
        BY <1>2 DEF Index
      <3> QED
        BY <1>4, <3>1
    <2>2. PICK i \in packed : \A j \in packed : N - i <= N - j
      <3>1. PICK g \in gaps : \A h \in gaps : g <= h
        <4> HIDE DEF gaps
        <4> QED
          BY <2>1, LeastNat
      <3> HIDE DEF packed
      <3> QED
        BY <3>1
    <2>3. packed \ {i} \subseteq before(i)
      <3> SUFFICES ASSUME NEW j \in packed, j # i PROVE j \in before(i)
        OBVIOUS
      <3>1. j \in Int /\ i \in Int /\ N - i <= N - j
        BY <1>2, <2>2 DEF Index
      <3> QED
        BY <3>1
    <2>4. before(i) \in SUBSET Index /\ Cardinality(before(i)) < K
      BY <2>2
    <2> HIDE DEF packed, before
    <2>5. Cardinality(packed \ {i}) = Cardinality(packed) - 1
      BY <1>2, <2>2, IndexFinite, FS_RemoveElement
    <2>6. Cardinality(packed \ {i}) <= Cardinality(before(i))
      BY <2>3, <2>4, Counting
    <2>7. Cardinality(packed) \in Nat /\ Cardinality(before(i)) \in Nat
      BY <1>2, <2>4, IndexFinite
    <2> QED
      BY <1>1, <1>2, <2>4, <2>5, <2>6, <2>7
  <1> HIDE DEF packed
  <1> QED
    BY <1>3, <1>4

(* What masking sends and what it holds back.                              *)
LEMMA MaskParts ==
  ASSUME NEW v \in Vector, NEW old
  PROVE  /\ Mask(v, old).delta \in Vector /\ Mask(v, old).err \in Vector
         /\ \A i \in Kept(v) : Mask(v, old).delta[i] = v[i] /\ Mask(v, old).err[i] = 0
         /\ \A i \in Index \ Kept(v) :
              Mask(v, old).delta[i] = 0 /\ Mask(v, old).err[i] = v[i]
  <1> DEFINE kept == Kept(v)
  <1>1. Mask(v, old) = [delta |-> [i \in Index |-> IF i \in kept THEN v[i] ELSE 0],
                        err   |-> [i \in Index |-> IF i \in kept THEN 0 ELSE v[i]]]
    BY DEF Mask
  <1>2. kept \subseteq Index
    BY DEF Kept
  <1> HIDE DEF kept
  <1>3. /\ Mask(v, old).delta \in Vector /\ Mask(v, old).err \in Vector
        /\ \A i \in kept : Mask(v, old).delta[i] = v[i] /\ Mask(v, old).err[i] = 0
        /\ \A i \in Index \ kept :
             Mask(v, old).delta[i] = 0 /\ Mask(v, old).err[i] = v[i]
    BY <1>1, <1>2 DEF Vector
  <1> QED
    BY <1>3 DEF kept

(* The threshold found again in the masked delta is not below the one the  *)
(* mask was made with.                                                     *)
LEMMA ThresholdAgain ==
  ASSUME NEW v \in Vector, NEW old
  PROVE  Threshold(v) <= Threshold(Mask(v, old).delta)
  <1> DEFINE delta == Mask(v, old).delta
             s == Threshold(v)
             t == Threshold(delta)
  <1>1. delta \in Vector
    BY MaskParts
  <1>2. /\ s \in Nat /\ t \in Nat
        /\ Kept(v) = AtLeast(v, s) /\ Cardinality(Kept(v)) >= K
        /\ Cardinality(Above(delta, t)) < K
    BY <1>1, ThresholdIs
  <1>3. ASSUME t < s PROVE FALSE
    <2>1. \A i \in Kept(v) : i \in Index /\ Abs(delta[i]) >= s
      BY <1>2, MaskParts DEF AtLeast
    <2>2. \A i \in Kept(v) : i \in Above(delta, t)
      <3> SUFFICES ASSUME NEW i \in Kept(v) PROVE i \in Above(delta, t)
        OBVIOUS
      <3>1. i \in Index /\ Abs(delta[i]) >= s /\ Abs(delta[i]) \in Nat
        BY <1>1, <2>1, MagnitudeType
      <3> HIDE DEF delta, s, t
      <3> QED
        BY <1>2, <1>3, <3>1 DEF Above
    <2>3. Above(delta, t) \in SUBSET Index
      BY DEF Above
    <2> HIDE DEF delta, s, t
    <2>4. Cardinality(Kept(v)) <= Cardinality(Above(delta, t))
      BY <2>2, <2>3, Counting
    <2>5. K \in Nat /\ Cardinality(Kept(v)) \in Nat /\ Cardinality(Above(delta, t)) \in Nat
      <3>1. Kept(v) \in SUBSET Index
        BY DEF Kept
      <3> QED
        BY <2>3, <3>1, IndexFinite, KeepsSome
    <2> QED
      BY <1>2, <2>4, <2>5
  <1> HIDE DEF delta, s, t
  <1>4. s <= t
    BY <1>2, <1>3
  <1> QED
    BY <1>4 DEF delta, s, t

(* Every packed value is at least as large as every value held back.       *)
LEMMA PacksLargest ==
  ASSUME NEW v \in Vector, NEW old
  PROVE  LET round_ == Mask(v, old)
         IN  \A i \in PackedIndices(round_.delta) : \A j \in Index :
               /\ i \in Index
               /\ Abs(round_.delta[i]) >= Abs(round_.err[j])
  <1> DEFINE delta == Mask(v, old).delta
             held == Mask(v, old).err
  <1>1. delta \in Vector /\ held \in Vector
    BY MaskParts
  <1>2. SUFFICES ASSUME NEW i \in PackedIndices(delta), NEW j \in Index
                 PROVE  i \in Index /\ Abs(delta[i]) >= Abs(held[j])
    OBVIOUS
  <1>3. i \in Index /\ Abs(delta[i]) >= PackThreshold(delta)
    BY <1>2 DEF PackedIndices
  <1>4. Abs(delta[i]) \in Nat
    BY <1>1, <1>3, MagnitudeType
  <1>5. CASE j \in Kept(v)
    <2>1. Abs(held[j]) = 0
      BY <1>5, MaskParts DEF Abs
    <2> HIDE DEF delta, held
    <2> QED
      BY <1>3, <1>4, <2>1
  <1>6. CASE j \notin Kept(v)
    <2>1. held[j] = v[j]
      BY <1>6, MaskParts
    <2>2. /\ Threshold(v) \in Nat /\ Abs(v[j]) \in Nat
          /\ ~(Abs(v[j]) >= Threshold(v))
      BY <1>6, ThresholdIs, MagnitudeType DEF Kept
    <2>3. K < N
      <3>1. K \in 1 .. N /\ Kept(v) \in SUBSET Index /\ Kept(v) # Index
        BY <1>6, KeepsSome DEF Kept
      <3>2. Cardinality(Kept(v)) < N /\ Cardinality(Kept(v)) \in Nat
        BY <3>1, IndexFinite, Counting
      <3> QED
        BY <3>1, <3>2, ThresholdIs
    <2>4. PackThreshold(delta) = Threshold(delta)
      BY <2>3, KeepsSome DEF PackThreshold
    <2>5. Threshold(v) <= Threshold(delta) /\ Threshold(delta) \in Nat
      BY <1>1, ThresholdAgain, ThresholdIs
    <2> HIDE DEF delta, held
    <2> QED
      BY <1>3, <1>4, <2>1, <2>2, <2>4, <2>5
  <1> QED
    BY <1>5, <1>6

(* A delta in which K elements were kept is packed whole.                  *)
LEMMA PacksWhole ==
  ASSUME NEW v \in Vector, NEW old, Cardinality(Kept(v)) = K
  PROVE  \A i \in Index : \/ Mask(v, old).delta[i] = 0
                           \/ i \in PackedIndices(Mask(v, old).delta)
  <1> DEFINE delta == Mask(v, old).delta
             candidates == {i \in Index : Abs(delta[i]) >= PackThreshold(delta)}
             before(i) == {j \in candidates : j < i}
  <1>1. delta \in Vector
    BY MaskParts
  <1>2. PackedIndices(delta) = {i \in candidates : Cardinality(before(i)) < K}
    BY DEF PackedIndices
  <1>3. Kept(v) \in SUBSET Index /\ K \in 1 .. N /\ candidates \in SUBSET Index
    BY KeepsSome DEF Kept
  <1>4. ASSUME NEW i \in Index, delta[i] # 0
        PROVE  i \in candidates /\ Cardinality(before(i)) < K
    <2>1. i \in Kept(v)
      BY <1>4, MaskParts
    <2>2. CASE K >= N
      <3>1. PackThreshold(delta) = 0
        BY <2>2 DEF PackThreshold
      <3>2. i \in candidates
        <4>1. Abs(delta[i]) \in Nat
          BY <1>1, MagnitudeType
        <4> HIDE DEF delta
        <4> QED
          BY <3>1, <4>1
      <3>3. before(i) \in SUBSET Index /\ i \notin before(i)
        BY DEF Index
      <3> HIDE DEF before, candidates
      <3>4. Cardinality(before(i)) < N /\ Cardinality(before(i)) \in Nat
        BY <3>3, IndexFinite, Counting
      <3> QED
        BY <1>3, <2>2, <3>2, <3>4
    <2>3. CASE K < N
      <3> DEFINE s == Threshold(v)
                 t == Threshold(delta)
      <3>1. PackThreshold(delta) = t
        BY <1>3, <2>3 DEF PackThreshold
      <3>2. /\ s \in Nat /\ t \in Nat /\ s <= t
            /\ Kept(v) = AtLeast(v, s)
            /\ Kept(delta) = AtLeast(delta, t) /\ Cardinality(Kept(delta)) >= K
        BY <1>1, ThresholdIs, ThresholdAgain
      <3>3. candidates = Kept(delta)
        BY <3>1, <3>2 DEF AtLeast
      <3>4. t # 0
        <4> SUFFICES ASSUME t = 0 PROVE FALSE
          OBVIOUS
        <4>1. s = 0
          BY <3>2
        <4>2. \A j \in Index : Abs(v[j]) >= s
          BY <4>1, MagnitudeType
        <4>3. Kept(v) = Index
          BY <3>2, <4>2 DEF AtLeast
        <4> QED
          BY <1>3, <2>3, <4>3, IndexFinite
      <3>5. candidates \subseteq Kept(v)
        <4> SUFFICES ASSUME NEW j \in candidates, j \notin Kept(v) PROVE FALSE
          OBVIOUS
        <4>1. Abs(delta[j]) = 0
          BY MaskParts DEF Abs
        <4>2. Abs(delta[j]) >= t
          BY <3>1
        <4> HIDE DEF t, delta
        <4> QED
          BY <3>2, <3>4, <4>1, <4>2
      <3> HIDE DEF candidates, delta, s, t
      <3>6. candidates = Kept(v)
        <4>1. /\ Cardinality(candidates) >= K /\ Cardinality(Kept(v)) = K
              /\ Cardinality(candidates) \in Nat
          BY <1>3, <3>2, <3>3, IndexFinite
        <4> QED
          BY <1>3, <3>5, <4>1, Counting
      <3>7. before(i) \subseteq candidates /\ i \notin before(i)
        BY DEF Index
      <3>8. Cardinality(before(i)) < Cardinality(candidates)
        <4> HIDE DEF before
        <4> QED
          BY <1>3, <2>1, <3>6, <3>7, Counting
      <3> QED
        BY <2>1, <3>6, <3>8
    <2> QED
      BY <1>3, <2>2, <2>3
  <1>5. \A i \in Index : delta[i] = 0 \/ i \in PackedIndices(delta)
    BY <1>2, <1>4
  <1> QED
    BY <1>5

-----------------------------------------------------------------------------
(* What the rounding of a packed delta may cost is a natural number at     *)
(* every element.                                                          *)
LEMMA RoundingType ==
  ASSUME NEW delta \in Vector, NEW p, p = Pack(delta),
         \A i \in DOMAIN p : Finite(p[i])
  PROVE  [i \in Index |-> IF i \in DOMAIN p THEN Slack(delta[i]) ELSE 0] \in [Index -> Nat]
  <1>1. DOMAIN p \subseteq Index /\ \A i \in DOMAIN p : p[i] = ToHalf(delta[i])
    BY DEF Pack, PackedIndices
  <1>2. \A i \in DOMAIN p : delta[i] \in Int /\ Finite(ToHalf(delta[i]))
    BY <1>1 DEF Vector
  <1>3. \A i \in DOMAIN p : Slack(delta[i]) \in Nat
    BY <1>2, HalfClose
  <1> QED
    BY <1>3

(* Every action preserves the shape of the state.                          *)
LEMMA TypeStep == TypeOK /\ RoundMade /\ [Next]_vars => TypeOK'
  <1> SUFFICES ASSUME TypeOK, RoundMade, [Next]_vars PROVE TypeOK'
    OBVIOUS
  <1>1. CASE MaskDelta
    <2>1. PICK change \in [Index -> Values] :
            /\ round' = Mask(Plus(change, err), err)
            /\ inflight' = change
            /\ clean' \in BOOLEAN
      BY <1>1 DEF MaskDelta, TypeOK
    <2>2. change \in Vector
      BY <2>1 DEF Vector
    <2>3. Plus(change, err) \in Vector
      BY <2>2, VectorArithmetic DEF TypeOK
    <2> QED
      BY <1>1, <2>1, <2>2, <2>3, MaskParts, MaskType DEF TypeOK, MaskDelta
  <1>2. CASE PackPayload
    <2>1. round.delta \in Vector /\ payload' = Pack(round.delta) /\ phase' = "packed"
      BY <1>2 DEF TypeOK, PackPayload
    <2>2. \E sent \in SUBSET Index : payload' \in [sent -> Int]
      BY <2>1, PackType
    <2> QED
      BY <1>2, <2>1, <2>2 DEF TypeOK, PackPayload
  <1>3. CASE DeliverDense
    <2>1. Zeros \in [Index -> Nat]
      BY DEF Zeros
    <2> QED
      BY <1>3, <2>1, DeliverType DEF TypeOK, DeliverDense
  <1>4. CASE DeliverSparse
    <2> DEFINE rounding ==
          [i \in Index |-> IF i \in DOMAIN payload THEN Slack(round.delta[i]) ELSE 0]
    <2>1. round.delta \in Vector /\ payload = Pack(round.delta)
      BY <1>4 DEF TypeOK, RoundMade, DeliverSparse
    <2>2. rounding \in [Index -> Nat]
      BY <1>4, <2>1, RoundingType DEF DeliverSparse
    <2>3. Unpack(payload) \in Vector
      BY UnpackType DEF TypeOK
    <2>4. Deliver(Unpack(payload), rounding)
      BY <1>4 DEF DeliverSparse
    <2> HIDE DEF rounding
    <2> QED
      BY <2>2, <2>3, <2>4, DeliverType
  <1>5. CASE DeliverInfinite \/ RoundFails
    <2>1. \E sent \in SUBSET Index : NoPayload \in [sent -> Int]
      <3>1. {} \in SUBSET Index /\ NoPayload \in [{} -> Int]
        BY Nothing
      <3> QED
        BY <3>1, Zenon
    <2>2. /\ payload' = NoPayload /\ round' = NoRound /\ inflight' = Zeros
          /\ phase' \in {"idle", "infinite"} /\ err' \in {err, round.err}
          /\ UNCHANGED <<transport, rounds, clean, owed, slack>>
      BY <1>5 DEF DeliverInfinite, RoundFails, RoundOver
    <2>3. err' \in Vector
      BY <2>2 DEF TypeOK
    <2> QED
      BY <2>1, <2>2, <2>3, Nothing DEF TypeOK
  <1>6. CASE UNCHANGED vars
    BY <1>6 DEF TypeOK, vars
  <1> QED
    BY <1>1, <1>2, <1>3, <1>4, <1>5, <1>6 DEF Next

(* What a delivery adds to what is owed beyond the residual is the part of *)
(* the masked delta that did not arrive.                                   *)
LEMMA DeliverBalance ==
  ASSUME TypeOK, NEW delta \in Vector, NEW rounding, Deliver(delta, rounding),
         round = Mask(Plus(inflight, err), err)
  PROVE  \A i \in Index :
           owed'[i] - err'[i] = (owed[i] - err[i]) + (round.delta[i] - delta[i])
  <1> DEFINE v == Plus(inflight, err)
  <1>1. v \in Vector /\ \A i \in Index : v[i] = inflight[i] + err[i]
    BY VectorArithmetic DEF TypeOK
  <1>2. \A i \in Index : round.delta[i] + round.err[i] = v[i]
    <2> HIDE DEF v
    <2>1. round = Mask(v, err) /\ \A i \in Index : v[i] \in Int
      BY <1>1 DEF v, Vector
    <2> QED
      BY <1>1, <2>1, MaskParts
  <1>3. \A i \in Index : /\ inflight[i] \in Int /\ err[i] \in Int
                         /\ round.delta[i] \in Int /\ round.err[i] \in Int
                         /\ owed[i] \in Int /\ delta[i] \in Int
    BY DEF TypeOK, Vector
  <1>4. \A i \in Index :
          owed'[i] = (owed[i] + inflight[i]) - delta[i] /\ err'[i] = round.err[i]
    BY DEF Deliver, Minus, Plus
  <1> HIDE DEF v
  <1> QED
    BY <1>1, <1>2, <1>3, <1>4

(* Every action keeps the round under way made as the code makes it.       *)
LEMMA RoundMadeStep == TopKInv /\ [Next]_vars => RoundMade'
  <1> SUFFICES ASSUME TopKInv, [Next]_vars PROVE RoundMade'
    OBVIOUS
  <1>1. CASE MaskDelta
    <2>1. PICK change \in [Index -> Values] :
            /\ round' = Mask(Plus(change, err), err)
            /\ inflight' = change
            /\ clean' = (clean /\ Cardinality(Kept(Plus(change, err))) = K)
      BY <1>1 DEF MaskDelta
    <2>2. err' = err /\ phase' = "masked" /\ payload' = NoPayload
      BY <1>1 DEF MaskDelta, TopKInv, RoundMade
    <2> QED
      BY <2>1, <2>2 DEF RoundMade
  <1>2. CASE PackPayload
    BY <1>2 DEF PackPayload, TopKInv, RoundMade
  <1>3. CASE DeliverDense \/ DeliverSparse \/ RoundFails
    <2>1. phase' = "idle" /\ payload' = NoPayload
      BY <1>3 DEF DeliverDense, DeliverSparse, RoundFails, Deliver, RoundOver
    <2> QED
      BY <2>1 DEF RoundMade
  <1>4. CASE DeliverInfinite
    <2>1. phase' = "infinite" /\ payload' = NoPayload /\ transport' = "sparse"
      BY <1>4 DEF DeliverInfinite, RoundOver, TopKInv, RoundMade
    <2> QED
      BY <2>1 DEF RoundMade
  <1>5. CASE UNCHANGED vars
    BY <1>5 DEF vars, TopKInv, RoundMade
  <1> QED
    BY <1>1, <1>2, <1>3, <1>4, <1>5 DEF Next

(* The dense exchange delivers the whole masked delta, so the residual     *)
(* stays exactly what is owed.                                             *)
LEMMA DenseStep == TopKInv /\ [Next]_vars => ConservedDense'
  <1> SUFFICES ASSUME TopKInv, [Next]_vars, transport' = "dense" PROVE owed' = err'
    BY DEF ConservedDense, Conserved
  <1>1. transport = "dense"
    BY DEF Next, MaskDelta, PackPayload, DeliverDense, DeliverSparse,
           DeliverInfinite, Deliver, RoundFails, RoundOver, vars
  <1>2. TypeOK /\ RoundMade /\ owed = err
    BY <1>1 DEF TopKInv, ConservedDense, Conserved
  <1>3. CASE DeliverDense
    <2>1. /\ Deliver(round.delta, Zeros) /\ round.delta \in Vector
          /\ round = Mask(Plus(inflight, err), err)
      BY <1>2, <1>3 DEF DeliverDense, RoundMade, TypeOK
    <2>2. \A i \in Index : owed'[i] - err'[i] = (owed[i] - err[i]) + (round.delta[i] - round.delta[i])
      BY <1>2, <2>1, DeliverBalance
    <2>3. owed' \in Vector /\ err' \in Vector
      BY <1>2, <2>1, VectorArithmetic DEF TypeOK, Deliver
    <2>4. \A i \in Index : /\ owed[i] = err[i] /\ err[i] \in Int
                           /\ owed'[i] \in Int /\ err'[i] \in Int /\ round.delta[i] \in Int
      BY <1>2, <2>1, <2>3 DEF TypeOK, Vector
    <2>5. \A i \in Index : owed'[i] = err'[i]
      BY <2>2, <2>4
    <2> QED
      BY <2>3, <2>5 DEF Vector
  <1>4. CASE DeliverSparse \/ DeliverInfinite
    BY <1>1, <1>2, <1>4 DEF DeliverSparse, DeliverInfinite, RoundMade
  <1>5. CASE MaskDelta \/ PackPayload \/ RoundFails \/ UNCHANGED vars
    BY <1>2, <1>5 DEF MaskDelta, PackPayload, RoundFails, vars
  <1> QED
    BY <1>3, <1>4, <1>5 DEF Next

(* A payload that holds the whole masked delta loses of each element at    *)
(* most half its slack.                                                    *)
LEMMA PackedLoss ==
  ASSUME NEW v \in Vector, NEW old, Cardinality(Kept(v)) = K,
         NEW p, p = Pack(Mask(v, old).delta), \A i \in DOMAIN p : Finite(p[i])
  PROVE  LET delta == Mask(v, old).delta
         IN  /\ Unpack(p) \in Vector
             /\ \A i \in Index :
                  2 * Abs(delta[i] - Unpack(p)[i])
                    <= IF i \in DOMAIN p THEN Slack(delta[i]) ELSE 0
  <1> DEFINE delta == Mask(v, old).delta
  <1>1. delta \in Vector /\ \A i \in Index : delta[i] = 0 \/ i \in PackedIndices(delta)
    BY MaskParts, PacksWhole
  <1> HIDE DEF delta
  <1>2. /\ DOMAIN p = PackedIndices(delta) /\ DOMAIN p \subseteq Index
        /\ \A i \in DOMAIN p : p[i] = ToHalf(delta[i])
    BY DEF delta, Pack, PackedIndices
  <1>3. \A i \in Index : Unpack(p)[i] = IF i \in DOMAIN p THEN p[i] ELSE 0
    BY DEF Unpack
  <1>4. \A i \in Index : delta[i] \in Int /\ ToHalf(delta[i]) \in Int
    BY <1>1, HalfClose DEF Vector
  <1>5. Unpack(p) \in Vector
    BY <1>2, <1>3, <1>4 DEF Unpack, Vector
  <1>6. ASSUME NEW i \in Index
        PROVE  2 * Abs(delta[i] - Unpack(p)[i])
                 <= IF i \in DOMAIN p THEN Slack(delta[i]) ELSE 0
    <2>1. CASE i \in DOMAIN p
      BY <1>2, <1>3, <1>4, <2>1, HalfClose
    <2>2. CASE i \notin DOMAIN p
      <3>1. delta[i] = 0 /\ Unpack(p)[i] = 0
        BY <1>1, <1>2, <1>3, <2>2
      <3> QED
        BY <2>2, <3>1 DEF Abs
    <2> QED
      BY <2>1, <2>2
  <1> QED
    BY <1>5, <1>6 DEF delta

(* Magnitudes of sums: what two parts may be off adds up.                  *)
LEMMA Triangle ==
  ASSUME NEW a \in Int, NEW b \in Int, NEW m \in Nat, NEW n \in Nat,
         2 * Abs(a) <= m, 2 * Abs(b) <= n
  PROVE  2 * Abs(a + b) <= m + n
  BY DEF Abs

(* Every action leaves in the residual what is owed, up to rounding.       *)
LEMMA ToRoundingStep == TopKInv /\ [Next]_vars => ConservedToRounding'
  <1> SUFFICES ASSUME TopKInv, [Next]_vars, clean', phase' # "infinite"
               PROVE  \A i \in Index : 2 * Abs(owed'[i] - err'[i]) <= slack'[i]
    BY DEF ConservedToRounding
  <1>1. clean /\ phase # "infinite"
    <2>1. CASE MaskDelta
      <3>1. \E whole \in BOOLEAN : clean' = (clean /\ whole)
        BY <2>1, Zenon DEF MaskDelta
      <3> QED
        BY <2>1, <3>1 DEF MaskDelta
    <2>2. CASE ~MaskDelta
      BY <2>2 DEF Next, PackPayload, DeliverDense, DeliverSparse, DeliverInfinite,
                  Deliver, RoundFails, RoundOver, vars
    <2> QED
      BY <2>1, <2>2
  <1>2. /\ TypeOK /\ RoundMade
        /\ \A i \in Index : 2 * Abs(owed[i] - err[i]) <= slack[i]
    BY <1>1 DEF TopKInv, ConservedToRounding
  <1>3. ASSUME NEW delta \in Vector, NEW rounding \in [Index -> Nat],
               Deliver(delta, rounding), phase \in {"masked", "packed"},
               \A i \in Index : 2 * Abs(round.delta[i] - delta[i]) <= rounding[i]
        PROVE  \A i \in Index : 2 * Abs(owed'[i] - err'[i]) <= slack'[i]
    <2>1. round = Mask(Plus(inflight, err), err)
      BY <1>2, <1>3 DEF RoundMade
    <2>2. \A i \in Index :
            owed'[i] - err'[i] = (owed[i] - err[i]) + (round.delta[i] - delta[i])
      BY <1>2, <1>3, <2>1, DeliverBalance
    <2>3. \A i \in Index : slack'[i] = slack[i] + rounding[i]
      BY <1>3 DEF Deliver, Plus
    <2>4. \A i \in Index : /\ owed[i] - err[i] \in Int /\ round.delta[i] - delta[i] \in Int
                           /\ slack[i] \in Nat /\ rounding[i] \in Nat
      BY <1>2, <1>3 DEF TypeOK, Vector
    <2> SUFFICES ASSUME NEW i \in Index
                 PROVE  2 * Abs(owed'[i] - err'[i]) <= slack'[i]
      OBVIOUS
    <2>5. 2 * Abs((owed[i] - err[i]) + (round.delta[i] - delta[i])) <= slack[i] + rounding[i]
      BY <1>2, <1>3, <2>4, Triangle
    <2> QED
      BY <2>2, <2>3, <2>5
  <1>4. CASE DeliverDense
    <2>1. /\ Deliver(round.delta, Zeros) /\ round.delta \in Vector /\ phase = "masked"
          /\ Zeros \in [Index -> Nat] /\ \A i \in Index : Zeros[i] = 0
      BY <1>2, <1>4 DEF DeliverDense, TypeOK, Zeros
    <2>2. \A i \in Index : 2 * Abs(round.delta[i] - round.delta[i]) <= Zeros[i]
      BY <2>1 DEF Vector, Abs
    <2> QED
      BY <1>3, <2>1, <2>2
  <1>5. CASE DeliverSparse
    <2> DEFINE v == Plus(inflight, err)
               rounding ==
                 [i \in Index |-> IF i \in DOMAIN payload THEN Slack(round.delta[i]) ELSE 0]
    <2>1. /\ phase = "packed" /\ clean
          /\ round = Mask(v, err) /\ Cardinality(Kept(v)) = K
          /\ payload = Pack(round.delta) /\ \A i \in DOMAIN payload : Finite(payload[i])
          /\ round.delta \in Vector /\ Deliver(Unpack(payload), rounding)
      BY <1>1, <1>2, <1>5 DEF DeliverSparse, RoundMade, TypeOK
    <2>2. v \in Vector
      BY <1>2, VectorArithmetic DEF TypeOK
    <2>3. rounding \in [Index -> Nat]
      BY <2>1, RoundingType
    <2> HIDE DEF v
    <2>4. /\ Unpack(payload) \in Vector
          /\ \A i \in Index : 2 * Abs(round.delta[i] - Unpack(payload)[i]) <= rounding[i]
      BY <2>1, <2>2, PackedLoss
    <2> HIDE DEF rounding
    <2> QED
      BY <1>3, <2>1, <2>3, <2>4
  <1>6. CASE DeliverInfinite
    BY <1>6 DEF DeliverInfinite, RoundOver
  <1>7. CASE MaskDelta \/ PackPayload \/ RoundFails \/ UNCHANGED vars
    BY <1>2, <1>7 DEF MaskDelta, PackPayload, RoundFails, vars
  <1> QED
    BY <1>4, <1>5, <1>6, <1>7 DEF Next

(* Before the first round nothing is owed and nothing is in flight.        *)
LEMMA InitTopKInv == Init => TopKInv
  <1> SUFFICES ASSUME Init PROVE TopKInv
    OBVIOUS
  <1>1. \E sent \in SUBSET Index : payload \in [sent -> Int]
    <2>1. {} \in SUBSET Index /\ payload \in [{} -> Int]
      BY Nothing DEF Init
    <2> QED
      BY <2>1, Zenon
  <1>2. slack \in [Index -> Nat]
    BY DEF Init, Zeros
  <1>3. TypeOK
    BY <1>1, <1>2, Nothing DEF Init, TypeOK
  <1>4. \A i \in Index : 2 * Abs(owed[i] - err[i]) <= slack[i]
    BY DEF Init, Zeros, Abs
  <1> QED
    BY <1>3, <1>4
    DEF Init, TopKInv, RoundMade, ConservedDense, Conserved, ConservedToRounding

(* The invariant is inductive.                                             *)
THEOREM Invariance == Spec => []TopKInv
  <1>1. TopKInv /\ [Next]_vars => TopKInv'
    BY TypeStep, RoundMadeStep, DenseStep, ToRoundingStep DEF TopKInv
  <1> QED
    BY InitTopKInv, <1>1, PTL DEF Spec

(* compute_delta_topk and the packed exchange keep the state's shape.      *)
THEOREM TypeCorrect == Spec => []TypeOK
  <1>1. TopKInv => TypeOK
    BY DEF TopKInv
  <1> QED
    BY <1>1, Invariance, PTL

(* Error feedback retains exactly the residual, for every keep fraction,   *)
(* number of elements and values, as long as the delta travels dense.      *)
THEOREM DenseConserved == Spec => []ConservedDense
  <1>1. TopKInv => ConservedDense
    BY DEF TopKInv
  <1> QED
    BY <1>1, Invariance, PTL

(* For the packed delta, as long as in every round exactly K magnitudes    *)
(* reached the threshold and no value was beyond the halves: the second    *)
(* threshold, found in the masked delta, packs all of it, and rounding to  *)
(* half precision is all that is lost, half a spacing for each value sent. *)
THEOREM PackedConserved == Spec => []ConservedToRounding
  <1>1. TopKInv => ConservedToRounding
    BY DEF TopKInv
  <1> QED
    BY <1>1, Invariance, PTL

(* If moreover every value sent was a half, nothing is lost at all.        *)
THEOREM HalvesConserved ==
  Spec => [](clean /\ phase # "infinite" /\ slack = Zeros => Conserved)
  <1>1. ASSUME TopKInv, clean, phase # "infinite", slack = Zeros PROVE Conserved
    <2>1. TypeOK /\ \A i \in Index : 2 * Abs(owed[i] - err[i]) <= slack[i]
      BY <1>1 DEF TopKInv, ConservedToRounding
    <2>2. \A i \in Index : owed[i] \in Int /\ err[i] \in Int /\ slack[i] = 0
      BY <1>1, <2>1 DEF TypeOK, Vector, Zeros
    <2>3. \A i \in Index : owed[i] = err[i]
      BY <2>1, <2>2 DEF Abs
    <2> QED
      BY <2>1, <2>3 DEF TypeOK, Vector, Conserved
  <1> QED
    BY <1>1, Invariance, PTL

(* tc_diloco_sparse_pack never writes past the buffer of K entries, ties   *)
(* or not.                                                                 *)
THEOREM PayloadFitsBuffer == Spec => []PayloadFits
  <1>1. ASSUME TopKInv PROVE PayloadFits
    <2>1. CASE phase = "packed"
      <3>1. DOMAIN payload = PackedIndices(round.delta)
        BY <1>1, <2>1 DEF TopKInv, RoundMade, Pack
      <3> QED
        BY <3>1, PacksAtMostK DEF PayloadFits
    <2>2. CASE phase # "packed"
      <3>1. DOMAIN payload = {}
        BY <1>1, <2>2 DEF TopKInv, RoundMade, NoPayload
      <3>2. Cardinality(DOMAIN payload) = 0 /\ K \in Nat
        BY <3>1, FS_EmptySet, KeepsSome
      <3> QED
        BY <3>2 DEF PayloadFits
    <2> QED
      BY <2>1, <2>2
  <1> QED
    BY <1>1, Invariance, PTL

(* What is packed is never smaller than what is held back: looking for     *)
(* the threshold a second time, in the masked delta, cannot lower it.      *)
THEOREM DeliversLargest == Spec => []LargestDelivered
  <1>1. ASSUME TopKInv PROVE LargestDelivered
    <2> SUFFICES ASSUME phase = "packed"
                 PROVE  \A i \in DOMAIN payload : \A j \in Index :
                          Abs(round.delta[i]) >= Abs(round.err[j])
      BY DEF LargestDelivered
    <2>1. /\ Plus(inflight, err) \in Vector
          /\ round = Mask(Plus(inflight, err), err)
          /\ payload = Pack(round.delta)
      BY <1>1, VectorArithmetic DEF TopKInv, TypeOK, RoundMade
    <2>2. DOMAIN payload = PackedIndices(round.delta)
      BY <2>1 DEF Pack
    <2> QED
      BY <2>1, <2>2, PacksLargest
  <1> QED
    BY <1>1, Invariance, PTL
===============================================================================

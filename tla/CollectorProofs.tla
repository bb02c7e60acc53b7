---------------------------- MODULE CollectorProofs ---------------------------
(***************************************************************************)
(* The collector, the histogram and the summary for every plan, every      *)
(* magnitude and range of the histogram and every limit of the artifacts:  *)
(* the buckets tile the values, a counter is the number of the workers     *)
(* past the step that adds to it, and what main reads of them is exact but *)
(* for the workers that are late.                                          *)
(***************************************************************************)
EXTENDS Collector, FiniteSetTheorems, FunctionTheorems, SequenceTheorems, WellFoundedInduction, TLAPS

-----------------------------------------------------------------------------
(* Arithmetic.                                                             *)

\* A set of naturals has a least element.
LEMMA LeastNat ==
    ASSUME NEW T \in SUBSET Nat, T # {}
    PROVE  \E x \in T : \A y \in T : x <= y
<1>1. IsWellFoundedOn(OpToRel(<, Nat), Nat)
  BY NatLessThanWellFounded
<1>2. PICK x \in T : \A y \in T : ~(<<y, x>> \in OpToRel(<, Nat))
  BY <1>1, WFMin
<1>3. \A y \in T : ~(y < x)
  BY <1>2 DEF OpToRel
<1> QED
  BY <1>3

\* Multiplication is monotone.
LEMMA TimesMono ==
    ASSUME NEW a \in Nat, NEW b \in Nat, NEW c \in Nat, a <= b
    PROVE  a * c <= b * c /\ c * a <= c * b /\ a * c \in Nat
OBVIOUS

\* What a quotient is.
LEMMA Quotient ==
    ASSUME NEW v \in Nat, NEW p \in Nat \ {0}
    PROVE  v \div p \in Nat /\ (v \div p) * p <= v /\ v < (v \div p + 1) * p
OBVIOUS

\* And which quotient and remainder a number has.
LEMMA Divided ==
    ASSUME NEW q \in Nat, NEW r \in Nat, NEW p \in Nat \ {0}, r < p
    PROVE  (q * p + r) \div p = q /\ (q * p + r) % p = r
OBVIOUS

\* A power of two is the number of subsets.
LEMMA PowerIsNat ==
    ASSUME NEW n \in Nat
    PROVE  /\ IsFiniteSet(SUBSET (1 .. n)) /\ Cardinality(SUBSET (1 .. n)) = 2 ^ n
           /\ 2 ^ n \in Nat
<1>1. IsFiniteSet(1 .. n) /\ Cardinality(1 .. n) = n
  BY FS_Interval
<1>2. IsFiniteSet(SUBSET (1 .. n)) /\ Cardinality(SUBSET (1 .. n)) = 2 ^ n
  BY <1>1, FS_SUBSET
<1> QED
  BY <1>2, FS_CardinalityType

\* The empty set has one.
LEMMA PowerZero == 2 ^ 0 = 1
<1>1. SUBSET (1 .. 0) = {{}}
  OBVIOUS
<1> QED
  BY <1>1, PowerIsNat, FS_Singleton

\* Every further element doubles their number.
LEMMA PowerNext ==
    ASSUME NEW n \in Nat
    PROVE  2 ^ (n + 1) = 2 * 2 ^ n
<1> DEFINE A == SUBSET (1 .. n)
           B == {s \in SUBSET (1 .. n + 1) : n + 1 \in s}
           f == [s \in A |-> s \cup {n + 1}]
<1>1. /\ IsFiniteSet(A) /\ Cardinality(A) = 2 ^ n
      /\ IsFiniteSet(SUBSET (1 .. n + 1)) /\ Cardinality(SUBSET (1 .. n + 1)) = 2 ^ (n + 1)
  BY PowerIsNat
<1>2. 1 .. n + 1 = (1 .. n) \cup {n + 1} /\ n + 1 \notin 1 .. n
  OBVIOUS
<1>3. f \in [A -> B]
  BY <1>2
<1>4. \A a, b \in A : f[a] = f[b] => a = b
  BY <1>2
<1>5. \A t \in B : \E s \in A : f[s] = t
  <2>1. SUFFICES ASSUME NEW t \in B PROVE \E s \in A : f[s] = t
    OBVIOUS
  <2>2. t \ {n + 1} \in A /\ (t \ {n + 1}) \cup {n + 1} = t
    BY <1>2
  <2> QED
    BY <2>2
<1>6. ExistsBijection(A, B)
  <2>1. f \in Bijection(A, B)
    BY <1>3, <1>4, <1>5, Fun_IsBij
  <2> QED
    BY <2>1, Fun_ExistsBij
<1>7. IsFiniteSet(B) /\ Cardinality(B) = 2 ^ n
  BY <1>1, <1>6, FS_Bijection
<1>8. SUBSET (1 .. n + 1) = A \cup B
  BY <1>2
<1>9. A \cap B = {}
  BY <1>2
<1>10. Cardinality(A \cup B) = Cardinality(A) + Cardinality(B) - Cardinality(A \cap B)
  BY <1>1, <1>7, FS_Union
<1>11. Cardinality(A \cap B) = 0
  BY <1>9, FS_EmptySet
<1>12. 2 ^ n \in Nat
  BY PowerIsNat
<1> HIDE DEF A, B
<1>13. Cardinality(A \cup B) = 2 ^ (n + 1)
  BY <1>1, <1>8, Zenon
<1>14. Cardinality(A \cup B) = 2 ^ n + 2 ^ n
  BY <1>1, <1>7, <1>10, <1>11, <1>12
<1>15. 2 ^ n + 2 ^ n = 2 * 2 ^ n
  BY <1>12
<1> QED
  BY <1>13, <1>14, <1>15, Zenon

\* A power of two is above its exponent.
LEMMA PowerAbove ==
    ASSUME NEW n \in Nat
    PROVE  n < 2 ^ n /\ 2 ^ n \in Nat \ {0}
<1> DEFINE T == {k \in Nat : ~(k < 2 ^ k)}
<1>1. SUFFICES ASSUME T # {} PROVE FALSE
  <2>1. n \in Nat /\ 2 ^ n \in Nat
    BY PowerIsNat
  <2>2. n < 2 ^ n
    OBVIOUS
  <2> QED
    BY <2>1, <2>2
<1>2. PICK x \in T : \A y \in T : x <= y
  BY <1>1, LeastNat
<1>3. CASE x = 0
  BY <1>3, PowerZero
<1>4. CASE x # 0
  <2>1. x - 1 \in Nat /\ x - 1 \notin T
    BY <1>2, <1>4
  <2>2. 2 ^ x = 2 * 2 ^ (x - 1)
    BY <2>1, PowerNext, x = (x - 1) + 1
  <2> QED
    BY <1>2, <2>1, <2>2, PowerIsNat
<1> QED
  BY <1>3, <1>4

\* A sum in the exponent is a product.
LEMMA PowerSum ==
    ASSUME NEW a \in Nat, NEW b \in Nat
    PROVE  2 ^ (a + b) = 2 ^ a * 2 ^ b
<1> DEFINE T == {k \in Nat : 2 ^ (a + k) # 2 ^ a * 2 ^ k}
<1>1. SUFFICES ASSUME T # {} PROVE FALSE
  OBVIOUS
<1>2. PICK x \in T : \A y \in T : x <= y
  BY <1>1, LeastNat
<1>3. CASE x = 0
  BY <1>2, <1>3, PowerZero, PowerIsNat
<1>4. CASE x # 0
  <2>1. x - 1 \in Nat /\ x - 1 \notin T
    BY <1>2, <1>4
  <2>2. 2 ^ x = 2 * 2 ^ (x - 1)
    BY <2>1, PowerNext, x = (x - 1) + 1
  <2>3. 2 ^ (a + x) = 2 * 2 ^ (a + (x - 1))
    BY <2>1, PowerNext, a + x = (a + (x - 1)) + 1, a + (x - 1) \in Nat
  <2>4. 2 ^ (a + (x - 1)) = 2 ^ a * 2 ^ (x - 1)
    BY <2>1
  <2>5. 2 ^ a \in Nat /\ 2 ^ (x - 1) \in Nat
    BY <2>1, PowerIsNat
  <2> QED
    BY <1>2, <2>2, <2>3, <2>4, <2>5
<1> QED
  BY <1>3, <1>4

\* The powers of two ascend.
LEMMA PowerMono ==
    ASSUME NEW a \in Nat, NEW b \in Nat, a <= b
    PROVE  2 ^ a <= 2 ^ b
<1>1. b - a \in Nat /\ 2 ^ b = 2 ^ a * 2 ^ (b - a)
  BY PowerSum, b = a + (b - a)
<1>2. 2 ^ a \in Nat /\ 2 ^ (b - a) \in Nat /\ 1 <= 2 ^ (b - a)
  BY <1>1, PowerAbove, PowerIsNat
<1>3. 2 ^ a * 1 <= 2 ^ a * 2 ^ (b - a)
  BY <1>2, TimesMono
<1> QED
  BY <1>1, <1>2, <1>3

\* The range, strictly between two powers of two, is none.
LEMMA RangeNoPower ==
    ASSUME NEW m \in Nat
    PROVE  MaxTrackable # 2 ^ m
<1>1. PICK k \in 0 .. MaxTrackable : 2 ^ k < MaxTrackable /\ MaxTrackable < 2 ^ (k + 1)
  BY HistogramAssumption
<1>2. k \in Nat /\ k + 1 \in Nat /\ MaxTrackable \in Nat
  BY HistogramAssumption
<1>3. 2 ^ m \in Nat /\ 2 ^ k \in Nat /\ 2 ^ (k + 1) \in Nat
  BY <1>2, PowerIsNat
<1>4. CASE m <= k
  <2>1. 2 ^ m <= 2 ^ k
    BY <1>2, <1>4, PowerMono
  <2> QED
    BY <1>1, <1>2, <1>3, <2>1
<1>5. CASE k + 1 <= m
  <2>1. 2 ^ (k + 1) <= 2 ^ m
    BY <1>2, <1>5, PowerMono
  <2> QED
    BY <1>1, <1>2, <1>3, <2>1
<1> QED
  BY <1>2, <1>4, <1>5

-----------------------------------------------------------------------------
(* The layout of the histogram.                                            *)

\* Half the sub-buckets is a power of two as well.
LEMMA HalfCount ==
    /\ SubBucketHalfCount \in Nat \ {0} /\ SubBucketCount = 2 * SubBucketHalfCount
    /\ SubBucketHalfCount = 2 ^ (Magnitude - 1)
<1>1. Magnitude \in Nat \ {0} /\ Magnitude - 1 \in Nat
  BY HistogramAssumption
<1>2. 2 ^ Magnitude = 2 * 2 ^ (Magnitude - 1)
  BY <1>1, PowerNext, Magnitude = (Magnitude - 1) + 1
<1>3. 2 ^ (Magnitude - 1) \in Nat \ {0}
  BY <1>1, PowerAbove
<1> QED
  BY <1>2, <1>3 DEF SubBucketHalfCount, SubBucketCount

\* BitLen is what bits.Len64 computes: such a length exists.
LEMMA BitLength ==
    ASSUME NEW v \in Nat
    PROVE  /\ BitLen(v) \in Nat /\ v < 2 ^ BitLen(v)
           /\ BitLen(v) = 0 \/ v >= 2 ^ (BitLen(v) - 1)
<1> DEFINE T == {n \in Nat : v < 2 ^ n}
           P(n) == v < 2 ^ n /\ (n = 0 \/ v >= 2 ^ (n - 1))
<1>1. v \in T
  BY PowerAbove
<1>2. PICK x \in T : \A y \in T : x <= y
  BY <1>1, LeastNat
<1>3. x \in 0 .. v
  BY <1>1, <1>2
<1>4. x = 0 \/ v >= 2 ^ (x - 1)
  <2>1. SUFFICES ASSUME x # 0 PROVE v >= 2 ^ (x - 1)
    OBVIOUS
  <2>2. x - 1 \in Nat /\ x - 1 \notin T
    BY <1>2, <2>1
  <2>3. 2 ^ (x - 1) \in Nat
    BY <2>2, PowerIsNat
  <2> QED
    BY <2>2, <2>3
<1>5. P(x)
  BY <1>2, <1>4
<1>6. BitLen(v) \in 0 .. v /\ P(BitLen(v))
  <2> DEFINE c == CHOOSE n \in 0 .. v : P(n)
  <2>1. c \in 0 .. v /\ P(c)
    BY <1>3, <1>5, Zenon
  <2>2. BitLen(v) = c
    BY Zenon DEF BitLen
  <2> QED
    BY <2>1, <2>2, Zenon
<1> QED
  BY <1>6

\* A value is some sub-bucket s of its bucket b, in the upper half unless the
\* bucket is the first, and its index counts the halves before it.
LEMMA Located ==
    ASSUME NEW v \in Nat
    PROVE  LET b == BucketIndex(v)
               s == v \div 2 ^ b
           IN /\ b \in Nat /\ s \in Nat /\ s < 2 * SubBucketHalfCount
              /\ b = 0 \/ s >= SubBucketHalfCount
              /\ s * 2 ^ b <= v /\ v < (s + 1) * 2 ^ b
              /\ CountsIndex(v) = b * SubBucketHalfCount + s
<1> DEFINE b == BucketIndex(v)
           p == 2 ^ b
           s == v \div p
           H == SubBucketHalfCount
           n == BitLen(v)
<1>1. n \in Nat /\ v < 2 ^ n /\ (n = 0 \/ v >= 2 ^ (n - 1))
  BY BitLength
<1>2. Magnitude \in Nat \ {0} /\ b \in Nat
  BY <1>1, HistogramAssumption DEF BucketIndex
<1>3. p \in Nat \ {0}
  BY <1>2, PowerAbove
<1>4. s \in Nat /\ s * p <= v /\ v < (s + 1) * p
  BY <1>3, Quotient
<1>5. H \in Nat \ {0} /\ 2 * H = 2 ^ Magnitude /\ H = 2 ^ (Magnitude - 1)
  BY HalfCount DEF SubBucketCount
<1>6. CountsIndex(v) = (b + 1) * H + s - H
  BY DEF CountsIndex
<1>7. (b + 1) * H + s - H = b * H + s
  BY <1>2, <1>4, <1>5
<1>8. s < 2 * H /\ (b = 0 \/ s >= H)
  <2>1. CASE n > Magnitude
    <3>1. b = n - Magnitude
      BY <2>1 DEF BucketIndex
    <3>2. 2 ^ n = (2 * H) * p
      BY <1>2, <1>5, <3>1, <1>1, PowerSum, n = Magnitude + b
    <3>3. 2 ^ (n - 1) = H * p
      <4>1. Magnitude - 1 \in Nat /\ n - 1 = (Magnitude - 1) + b
        BY <1>1, <1>2, <3>1
      <4>2. 2 ^ ((Magnitude - 1) + b) = 2 ^ (Magnitude - 1) * 2 ^ b
        BY <1>2, <4>1, PowerSum
      <4> QED
        BY <1>5, <4>1, <4>2
    <3>4. v < (2 * H) * p /\ H * p <= v
      BY <1>1, <1>2, <2>1, <3>2, <3>3
    <3>5. s * p < (2 * H) * p /\ H * p < (s + 1) * p
      <4> HIDE DEF s, p, H
      <4>1. s * p \in Nat /\ (2 * H) * p \in Nat /\ H * p \in Nat /\ (s + 1) * p \in Nat
        BY <1>3, <1>4, <1>5
      <4> QED
        BY <1>4, <3>4, <4>1
    <3> HIDE DEF s, p, H
    <3>6. s < 2 * H
      <4>1. SUFFICES ASSUME 2 * H <= s PROVE FALSE
        BY <1>4, <1>5
      <4>2. (2 * H) * p <= s * p
        BY <1>3, <1>4, <1>5, <4>1, TimesMono
      <4> QED
        BY <1>3, <1>4, <1>5, <3>5, <4>2
    <3>7. H <= s
      <4>1. SUFFICES ASSUME s + 1 <= H PROVE FALSE
        BY <1>4, <1>5
      <4>2. (s + 1) * p <= H * p
        BY <1>3, <1>4, <1>5, <4>1, TimesMono
      <4> QED
        BY <1>3, <1>4, <1>5, <3>5, <4>2
    <3> QED
      BY <3>6, <3>7
  <2>2. CASE ~(n > Magnitude)
    <3>1. b = 0 /\ p = 1
      BY <2>2, PowerZero DEF BucketIndex
    <3>2. s = v
      BY <3>1, <1>4
    <3>3. 2 ^ n <= 2 ^ Magnitude
      BY <1>1, <1>2, <2>2, PowerMono
    <3> QED
      BY <1>1, <1>2, <1>5, <3>1, <3>2, <3>3, PowerIsNat
  <2> QED
    BY <2>1, <2>2
<1> QED
  BY <1>2, <1>4, <1>6, <1>7, <1>8

\* And the index names bucket and sub-bucket again.
LEMMA IndexNames ==
    ASSUME NEW b \in Nat, NEW s \in Nat, s < 2 * SubBucketHalfCount,
           b = 0 \/ s >= SubBucketHalfCount
    PROVE  LET i == b * SubBucketHalfCount + s
           IN /\ i \in Nat /\ ValueAt(i) = s * 2 ^ b
              /\ HighestEquivalent(i) = (s + 1) * 2 ^ b - 1
              /\ HighestEquivalent(i) - ValueAt(i) + 1 = 2 ^ b
<1> DEFINE H == SubBucketHalfCount
           i == b * H + s
           p == 2 ^ b
<1>1. H \in Nat \ {0} /\ p \in Nat \ {0}
  BY HalfCount, PowerAbove
<1>2. b * H \in Nat /\ i \in Nat
  BY <1>1
<1>3. BucketOf(i) = b /\ ValueAt(i) = s * p
  <2>1. CASE i < H
    <3>1. b = 0 /\ s = i
      <4>1. SUFFICES ASSUME b >= 1 PROVE FALSE
        BY <1>1
      <4>2. 1 * H <= b * H
        BY <1>1, <4>1, TimesMono
      <4> QED
        BY <1>1, <1>2, <2>1, <4>2
    <3>2. i % H = i
      BY <1>1, <1>2, <2>1
    <3> QED
      BY <1>1, <2>1, <3>1, <3>2, PowerZero DEF BucketOf, ValueAt
  <2>2. CASE ~(i < H)
    <3>1. s - H \in Nat /\ s - H < H
      BY <1>1, <1>2, <2>2
    <3>2. i = (b + 1) * H + (s - H)
      BY <1>1
    <3>3. i \div H = b + 1 /\ i % H = s - H
      <4> HIDE DEF H, i
      <4>1. b + 1 \in Nat
        OBVIOUS
      <4>2. ((b + 1) * H + (s - H)) \div H = b + 1 /\ ((b + 1) * H + (s - H)) % H = s - H
        BY <1>1, <3>1, <4>1, Divided
      <4> QED
        BY <3>2, <4>2, Zenon
    <3>4. BucketOf(i) = b
      BY <2>2, <3>3 DEF BucketOf
    <3>5. ValueAt(i) = ((i % H) + H) * 2 ^ BucketOf(i)
      BY <2>2 DEF ValueAt
    <3>6. (i % H) + H = s
      BY <1>1, <3>3
    <3> QED
      BY <3>4, <3>5, <3>6
  <2> QED
    BY <2>1, <2>2
<1>4. HighestEquivalent(i) = s * p + p - 1
  BY <1>3 DEF HighestEquivalent
<1>5. s * p \in Nat /\ (s + 1) * p = s * p + p
  BY <1>1
<1> HIDE DEF H, i, p
<1>6. HighestEquivalent(i) = (s + 1) * p - 1 /\ HighestEquivalent(i) - ValueAt(i) + 1 = p
  BY <1>1, <1>3, <1>4, <1>5
<1> QED
  BY <1>2, <1>3, <1>6 DEF H, i, p

\* NewHistogram's loop ends with counts that reach beyond the range.
LEMMA CountsReach ==
    /\ BucketCount \in Nat \ {0}
    /\ MaxTrackable < 2 ^ (Magnitude + (BucketCount - 1))
<1> DEFINE S == SubBucketCount
           P(n) == /\ S * 2 ^ (n - 1) >= MaxTrackable
                   /\ n = 1 \/ S * 2 ^ (n - 2) < MaxTrackable
           T == {n \in Nat : S * 2 ^ n >= MaxTrackable}
<1>1. Magnitude \in Nat /\ MaxTrackable \in Nat \ {0} /\ S \in Nat \ {0} /\ S = 2 ^ Magnitude
  BY HistogramAssumption, PowerAbove DEF SubBucketCount
<1> HIDE DEF S
<1>2. MaxTrackable - 1 \in T
  <2>1. MaxTrackable - 1 \in Nat /\ MaxTrackable <= 2 ^ (MaxTrackable - 1)
    BY <1>1, PowerAbove
  <2>2. 2 ^ (MaxTrackable - 1) \in Nat
    BY <2>1, PowerIsNat
  <2>3. 1 * 2 ^ (MaxTrackable - 1) <= S * 2 ^ (MaxTrackable - 1)
    BY <1>1, <2>2, TimesMono
  <2> QED
    BY <1>1, <2>1, <2>2, <2>3
<1>3. PICK x \in T : \A y \in T : x <= y
  BY <1>2, LeastNat
<1>4. x + 1 \in 1 .. MaxTrackable
  BY <1>1, <1>2, <1>3
<1>5. P(x + 1)
  <2>1. (x + 1) - 1 = x /\ (x + 1) - 2 = x - 1
    BY <1>3
  <2>2. x + 1 = 1 \/ S * 2 ^ (x - 1) < MaxTrackable
    <3>1. SUFFICES ASSUME x # 0 PROVE S * 2 ^ (x - 1) < MaxTrackable
      BY <1>3
    <3>2. x - 1 \in Nat /\ x - 1 \notin T
      BY <1>3, <3>1
    <3>3. 2 ^ (x - 1) \in Nat
      BY <3>2, PowerIsNat
    <3> QED
      BY <1>1, <3>2, <3>3
  <2> QED
    BY <1>3, <2>1, <2>2
<1>6. BucketCount \in 1 .. MaxTrackable /\ P(BucketCount)
  <2> DEFINE c == CHOOSE n \in 1 .. MaxTrackable : P(n)
  <2>1. c \in 1 .. MaxTrackable /\ P(c)
    BY <1>4, <1>5, Zenon
  <2>2. BucketCount = c
    BY Zenon DEF BucketCount, S
  <2> QED
    BY <2>1, <2>2, Zenon
<1> DEFINE m == Magnitude + (BucketCount - 1)
<1>7. m \in Nat /\ 2 ^ m = S * 2 ^ (BucketCount - 1)
  <2>1. BucketCount - 1 \in Nat
    BY <1>1, <1>6
  <2>2. 2 ^ m = 2 ^ Magnitude * 2 ^ (BucketCount - 1)
    BY <1>1, <2>1, PowerSum
  <2> QED
    BY <1>1, <2>1, <2>2
<1>8. MaxTrackable <= 2 ^ m
  BY <1>6, <1>7
<1>9. MaxTrackable # 2 ^ m
  BY <1>7, RangeNoPower
<1> QED
  BY <1>1, <1>6, <1>7, <1>8, <1>9, PowerIsNat

\* So the count of a trackable value is among them.
LEMMA IndexInCounts ==
    ASSUME NEW v \in Nat, v <= MaxTrackable
    PROVE  CountsIndex(v) \in Indices
<1> DEFINE b == BucketIndex(v)
           s == v \div 2 ^ b
           H == SubBucketHalfCount
           n == BitLen(v)
           B == BucketCount
<1>1. b \in Nat /\ s \in Nat /\ s < 2 * H /\ CountsIndex(v) = b * H + s
  BY Located
<1>2. H \in Nat \ {0} /\ Magnitude \in Nat \ {0} /\ MaxTrackable \in Nat
  BY HalfCount, HistogramAssumption
<1>3. B \in Nat \ {0} /\ MaxTrackable < 2 ^ (Magnitude + (B - 1)) /\ B - 1 \in Nat
  BY CountsReach
<1>4. b <= B - 1
  <2>1. SUFFICES ASSUME b > B - 1 PROVE FALSE
    BY <1>1, <1>3
  <2>2. n \in Nat /\ (n = 0 \/ v >= 2 ^ (n - 1))
    BY BitLength
  <2>3. n > Magnitude /\ b = n - Magnitude
    BY <1>1, <1>2, <1>3, <2>1, <2>2 DEF BucketIndex
  <2>4. Magnitude + (B - 1) \in Nat /\ n - 1 \in Nat /\ Magnitude + (B - 1) <= n - 1
    BY <1>1, <1>2, <1>3, <2>1, <2>2, <2>3
  <2>5. 2 ^ (Magnitude + (B - 1)) <= 2 ^ (n - 1)
    BY <2>4, PowerMono
  <2>6. 2 ^ (Magnitude + (B - 1)) \in Nat /\ 2 ^ (n - 1) \in Nat /\ v >= 2 ^ (n - 1)
    <3>1. 2 ^ (Magnitude + (B - 1)) \in Nat /\ 2 ^ (n - 1) \in Nat
      BY <2>4, PowerIsNat
    <3> QED
      BY <1>2, <2>2, <2>3, <3>1
  <2> QED
    BY <1>2, <1>3, <2>5, <2>6
<1> HIDE DEF b, s, H, B
<1>5. b * H <= (B - 1) * H /\ (B - 1) * H \in Nat /\ b * H \in Nat
  BY <1>1, <1>2, <1>3, <1>4, TimesMono
<1>6. (B + 1) * H = (B - 1) * H + 2 * H
  BY <1>2, <1>3
<1>7. b * H + s \in 0 .. (B + 1) * H - 1
  BY <1>1, <1>2, <1>3, <1>5, <1>6
<1> QED
  BY <1>1, <1>7 DEF Indices, B, H

\* The sub-bucket after the last of a bucket is the first of the next.
LEMMA Follows ==
    ASSUME NEW v \in Nat
    PROVE  ValueAt(CountsIndex(v) + 1) = HighestEquivalent(CountsIndex(v)) + 1
<1> DEFINE b == BucketIndex(v)
           s == v \div 2 ^ b
           H == SubBucketHalfCount
           i == CountsIndex(v)
<1>1. b \in Nat /\ s \in Nat /\ s < 2 * H /\ (b = 0 \/ s >= H) /\ i = b * H + s
  BY Located
<1>2. H \in Nat \ {0} /\ 2 ^ b \in Nat /\ b * H \in Nat
  <2>1. H \in Nat \ {0}
    BY HalfCount
  <2>2. 2 ^ b \in Nat
    BY <1>1, PowerIsNat
  <2> HIDE DEF b, H
  <2>3. b * H \in Nat
    BY <1>1, <2>1
  <2> QED
    BY <2>1, <2>2, <2>3
<1> HIDE DEF b, s, i
<1>3. HighestEquivalent(i) = (s + 1) * 2 ^ b - 1
  BY <1>1, IndexNames
<1>4. CASE s + 1 < 2 * H
  <2>1. i + 1 = b * H + (s + 1) /\ s + 1 \in Nat /\ (b = 0 \/ s + 1 >= H)
    BY <1>1, <1>2
  <2>2. ValueAt(i + 1) = (s + 1) * 2 ^ b
    BY <1>1, <1>4, <2>1, IndexNames
  <2> QED
    BY <1>1, <1>2, <1>3, <2>2 DEF i
<1>5. CASE s + 1 = 2 * H
  <2>1. i + 1 = (b + 1) * H + H
    BY <1>1, <1>2, <1>5
  <2>2. ValueAt(i + 1) = H * 2 ^ (b + 1)
    BY <1>1, <1>2, <2>1, b + 1 \in Nat, H < 2 * H, H >= H, IndexNames
  <2>3. 2 ^ (b + 1) = 2 * 2 ^ b
    BY <1>1, PowerNext
  <2>4. H * (2 * 2 ^ b) = (2 * H) * 2 ^ b
    BY <1>2
  <2> QED
    BY <1>1, <1>2, <1>3, <1>5, <2>2, <2>3, <2>4 DEF i
<1> QED
  BY <1>1, <1>2, <1>4, <1>5

\* Tiled holds of every value there is, not only of those the run examines.
LEMMA TiledEverywhere ==
    ASSUME NEW v \in Nat
    PROVE  LET i == CountsIndex(v)
               width == HighestEquivalent(i) - ValueAt(i) + 1
           IN /\ v <= MaxTrackable => i \in Indices
              /\ i \in Nat /\ ValueAt(i) <= v /\ v <= HighestEquivalent(i)
              /\ ValueAt(i + 1) = HighestEquivalent(i) + 1
              /\ width = 1 \/ width * SubBucketHalfCount <= v
<1> DEFINE b == BucketIndex(v)
           s == v \div 2 ^ b
           H == SubBucketHalfCount
           i == CountsIndex(v)
           p == 2 ^ b
<1>1. /\ b \in Nat /\ s \in Nat /\ s < 2 * H /\ (b = 0 \/ s >= H) /\ i = b * H + s
      /\ s * p <= v /\ v < (s + 1) * p
  BY Located
<1>2. H \in Nat \ {0} /\ p \in Nat \ {0}
  BY HalfCount, <1>1, PowerAbove
<1> HIDE DEF b, s, i
<1>3. /\ i \in Nat /\ ValueAt(i) = s * p /\ HighestEquivalent(i) = (s + 1) * p - 1
      /\ HighestEquivalent(i) - ValueAt(i) + 1 = p
  BY <1>1, IndexNames
<1>4. p = 1 \/ p * H <= v
  <2>1. CASE b = 0
    BY <2>1, PowerZero
  <2>2. CASE s >= H
    <3> HIDE DEF p
    <3>1. p * H <= p * s /\ p * s = s * p /\ s * p \in Nat /\ p * H \in Nat
      BY <1>1, <1>2, <2>2, TimesMono
    <3> QED
      BY <1>1, <3>1
  <2> QED
    BY <1>1, <2>1, <2>2
<1>5. v <= (s + 1) * p - 1
  <2>1. (s + 1) * p \in Nat
    BY <1>1, <1>2
  <2> QED
    BY <1>1, <2>1
<1>6. v <= MaxTrackable => i \in Indices
  BY IndexInCounts DEF i
<1>7. ValueAt(i + 1) = HighestEquivalent(i) + 1
  BY Follows DEF i
<1>8. ValueAt(i) <= v /\ v <= HighestEquivalent(i)
  BY <1>1, <1>3, <1>5
<1>9. LET width == HighestEquivalent(i) - ValueAt(i) + 1 IN width = 1 \/ width * H <= v
  BY <1>3, <1>4
<1> QED
  BY <1>3, <1>6, <1>7, <1>8, <1>9 DEF i, H

\* A larger value has no smaller index.
LEMMA IndexMono ==
    ASSUME NEW u \in Nat, NEW v \in Nat, u <= v
    PROVE  CountsIndex(u) <= CountsIndex(v)
<1> DEFINE b == BucketIndex(u)
           s == u \div 2 ^ b
           c == BucketIndex(v)
           t == v \div 2 ^ c
           H == SubBucketHalfCount
           p == 2 ^ b
<1>1. /\ b \in Nat /\ s \in Nat /\ s < 2 * H /\ (b = 0 \/ s >= H)
      /\ s * p <= u /\ CountsIndex(u) = b * H + s
  BY Located
<1>2. /\ c \in Nat /\ t \in Nat /\ t < 2 * H /\ (c = 0 \/ t >= H)
      /\ v < (t + 1) * 2 ^ c /\ CountsIndex(v) = c * H + t
  BY Located
<1>3. H \in Nat \ {0} /\ p \in Nat \ {0}
  BY HalfCount, <1>1, PowerAbove
<1> HIDE DEF b, s, c, t, H
<1>4. CASE b = c
  <2>1. s <= t
    <3>1. SUFFICES ASSUME t + 1 <= s PROVE FALSE
      BY <1>1, <1>2
    <3> HIDE DEF p
    <3>2. (t + 1) * p <= s * p /\ (t + 1) * p \in Nat /\ s * p \in Nat
      BY <1>1, <1>2, <1>3, <3>1, TimesMono
    <3>3. v < (t + 1) * p
      BY <1>2, <1>4 DEF p
    <3> QED
      BY <1>1, <3>2, <3>3
  <2>2. b * H \in Nat
    BY <1>1, <1>3
  <2> QED
    BY <1>1, <1>2, <1>4, <2>1, <2>2
<1>5. CASE b < c
  <2>1. (b + 1) * H <= c * H /\ (b + 1) * H \in Nat /\ c * H \in Nat
    BY <1>1, <1>2, <1>3, <1>5, b + 1 <= c, b + 1 \in Nat, TimesMono
  <2>2. t >= H
    BY <1>1, <1>2, <1>5
  <2>3. (b + 1) * H = b * H + H /\ b * H \in Nat
    BY <1>1, <1>3
  <2> QED
    BY <1>1, <1>2, <1>3, <2>1, <2>2, <2>3
<1>6. CASE b > c
  <2> HIDE DEF p
  <2>1. H * p <= s * p /\ H * p \in Nat /\ s * p \in Nat
    BY <1>1, <1>2, <1>3, <1>6, TimesMono
  <2>2. b - 1 \in Nat /\ c <= b - 1 /\ p = 2 * 2 ^ (b - 1)
    BY <1>1, <1>2, <1>6, PowerNext, b = (b - 1) + 1 DEF p
  <2>3. 2 ^ c <= 2 ^ (b - 1) /\ 2 ^ c \in Nat /\ 2 ^ (b - 1) \in Nat
    BY <1>2, <2>2, PowerMono, PowerIsNat
  <2>4. (t + 1) * 2 ^ c <= (2 * H) * 2 ^ c
    BY <1>2, <1>3, <2>3, t + 1 <= 2 * H, TimesMono
  <2>5. (2 * H) * 2 ^ c <= (2 * H) * 2 ^ (b - 1)
    BY <1>3, <2>3, TimesMono
  <2>6. (2 * H) * 2 ^ (b - 1) = H * p
    BY <1>3, <2>2, <2>3
  <2>7. (t + 1) * 2 ^ c \in Nat /\ (2 * H) * 2 ^ c \in Nat
    BY <1>2, <1>3, <2>3
  <2> QED
    BY <1>1, <1>2, <2>1, <2>4, <2>5, <2>6, <2>7
<1> QED
  BY <1>1, <1>2, <1>4, <1>5, <1>6

-----------------------------------------------------------------------------
(* The inductive invariant.                                                *)

\* How far a label is in Record: the atomic steps of one round, in order.
StepOf(l) ==
    IF l = "completed" THEN 1 ELSE IF l = "counts" THEN 2 ELSE IF l = "total" THEN 3
    ELSE IF l = "sum" THEN 4 ELSE IF l \in {"min", "swapMin"} THEN 5
    ELSE IF l \in {"max", "swapMax"} THEN 6 ELSE IF l = "outcome" THEN 7
    ELSE IF l = "split" THEN 8 ELSE IF l = "timeouts" THEN 9
    ELSE IF l \in {"second", "grow", "bucket", "done"} THEN 10 ELSE 0

\* The workers that record into a StageStats, and those past a step of it.
Of(n) == {w \in Workers : n \in {plan[w].stage, "overall"}}
Done(n, k) ==
    {w \in Workers : \/ n = plan[w].stage /\ (on[w] = 2 \/ StepOf(pc[w]) > k)
                     \/ n = "overall" /\ on[w] = 2 /\ StepOf(pc[w]) > k}

\* Where main and the workers are, and what follows.
Control ==
    /\ \A w \in Workers :
          /\ pc[w] = "idle" <=> w >= next
          /\ pc[w] \in {"idle", "artifact"} => on[w] = 1
          /\ pc[w] \in {"second", "grow", "bucket", "done"} => on[w] = 2
          /\ pc[w] = "timeouts" => plan[w].outcome = "timeout"
          /\ pc[w] = "artifact" => plan[w].outcome # "timeout"
    /\ pc[Main] \in SendLabels => on[Main] = 1 /\ late = {}
    /\ pc[Main] \in SendLabels \ {"send"} => next \in Workers
    /\ pc[Main] \in ReadLabels => on[Main] \in 1 .. Len(Names)
    /\ pc[Main] \notin SendLabels =>
          next = Len(plan) + 1 /\ \A w \in Workers \ late : pc[w] = "done"
    /\ pc[Main] # "walk" => walk = [idx |-> 0, cumulative |-> 0]

\* The counters are what the workers past each step make of them.
CountedAt(n) ==
    /\ stats[n].completed = Cardinality(Done(n, 1))
    /\ \A o \in Outcomes :
          stats[n].errors[o] = Cardinality({w \in Done(n, 7) : plan[w].outcome = o})
    /\ stats[n].success = Cardinality({w \in Done(n, 8) : Succeeded(w)})
    /\ stats[n].failure = Cardinality({w \in Done(n, 8) : ~Succeeded(w)})
    /\ stats[n].timeouts = Cardinality({w \in Done(n, 9) : plan[w].outcome = "timeout"})
Counted == \A n \in StatNames : CountedAt(n)

\* Main counts an attempt before its worker starts.
Sent ==
    \A n \in StatNames :
        stats[n].sent = Cardinality({w \in Of(n) : w < next \/ (w = next /\ pc[Main] # "send")})

\* A histogram holds the values of those past each step of its Record.
RecordedAt(n) ==
    /\ \A i \in Indices :
          hist[n].counts[i] = Cardinality({w \in Done(n, 2) : CountsIndex(Value(w)) = i})
    /\ hist[n].total = Cardinality(Done(n, 3))
    /\ hist[n].sum = Units(Done(n, 4))
Recorded == \A n \in StatNames : RecordedAt(n)

\* Minimum and maximum are values, bounds for those past them, and a worker
\* about to swap has found its value beyond the one it loaded.
ExtremesAt(n) ==
    /\ hist[n].min = MaxInt64 \/ \E w \in Of(n) : hist[n].min = Value(w)
    /\ hist[n].max = 0 \/ \E w \in Of(n) : hist[n].max = Value(w)
    /\ \A w \in Done(n, 5) : hist[n].min <= Value(w)
    /\ \A w \in Done(n, 6) : hist[n].max >= Value(w)
Extremes ==
    /\ \A n \in StatNames : ExtremesAt(n)
    /\ \A w \in Workers :
          /\ pc[w] = "swapMin" => Value(w) < seen[w]
          /\ pc[w] = "swapMax" => Value(w) > seen[w]

\* A number read while late workers record is that of a set of attempts, but
\* for those late.
Read(x, S) == x \in Cardinality(S \ late) .. Cardinality(S)

\* What main has read of the counters.
ReadSoFar ==
    LET W == Of(Reading)
        After(labels) == pc[Main] \in labels
    IN /\ After({"completed", "success", "failure", "timeouts", "total"}) =>
             report.sent = Cardinality(W)
       /\ After({"success", "failure", "timeouts", "total"}) => Read(report.completed, W)
       /\ After({"failure", "timeouts", "total"}) =>
             Read(report.success, {w \in W : Succeeded(w)})
       /\ After({"timeouts", "total"}) => Read(report.failure, {w \in W : ~Succeeded(w)})
       /\ After({"total"}) =>
             Read(report.timeouts, {w \in W : plan[w].outcome = "timeout"})
       /\ After({"entry"}) =>
             \A o \in Outcomes : Read(report.errors[o], {w \in W : plan[w].outcome = o})

\* Of the histogram, with nobody late.
ReadSettled ==
    late = {} =>
        LET h == hist[Reading]
        IN /\ pc[Main] \in {"min", "max", "sum", "walk", "errors"} =>
                 report.total = Cardinality(Of(Reading))
           /\ pc[Main] \in {"max", "sum", "walk"} => report.min = h.min
           /\ pc[Main] \in {"sum", "walk"} => report.max = h.max
           /\ pc[Main] = "walk" => report.sum = h.sum
           /\ pc[Main] = "errors" =>
                 \/ report.total = 0
                 \/ report.min = h.min /\ report.max = h.max /\ report.sum = h.sum

\* Attempts whose count is at an index that satisfies a bound.
Below(S, i) == {w \in S : CountsIndex(Value(w)) < i}
From(S, i) == {w \in S : CountsIndex(Value(w)) >= i}

\* A percentile found is the top of the bucket of a recorded value and, with
\* nobody late, of the first bucket whose cumulated count reaches it.
Found(k) ==
    \E w \in Of(Reading) :
        LET i == CountsIndex(Value(w))
        IN /\ report.percentiles[k] = HighestEquivalent(i)
           /\ late = {} =>
                 /\ Cardinality(Below(Of(Reading), i)) * 100 < Targets[k] * report.total
                 /\ Cardinality(Below(Of(Reading), i + 1)) * 100 >= Targets[k] * report.total

\* The walk: counts not visited yet make up for what the total lacks, and no
\* percentile left is reached.
Walked ==
    /\ pc[Main] \in {"min", "max", "sum", "walk"} =>
          /\ report.total > 0
          /\ walk.cumulative + Cardinality(From(Done(Reading, 2), walk.idx)) >= report.total
          /\ Len(report.percentiles) < Len(Targets)
          /\ \A k \in DOMAIN Targets :
                k > Len(report.percentiles) => walk.cumulative * 100 < Targets[k] * report.total
    /\ pc[Main] \in {"min", "max", "sum"} => report.percentiles = << >>
    /\ pc[Main] = "walk" /\ late = {} =>
          walk.cumulative = Cardinality(Below(Of(Reading), walk.idx))
    /\ pc[Main] = "errors" /\ report.total > 0 => Len(report.percentiles) = Len(Targets)
    /\ report.percentiles # << >> => pc[Main] \in {"walk", "errors"}
    /\ \A k \in DOMAIN report.percentiles : k \in DOMAIN Targets /\ Found(k)

\* The second an attempt is counted in, as an index of the series.
Slot(at) == IF at < 0 THEN 1 ELSE at + 1

\* Bucket k holds the attempts of second k - 1.
BucketAt(k) ==
    LET S == {w \in Workers : pc[w] = "done" /\ Slot(plan[w].doneAt) = k}
    IN /\ buckets[k].sent =
             Cardinality({w \in Workers : w < next /\ Slot(plan[w].sentAt) = k})
       /\ buckets[k].completed = Cardinality(S)
       /\ buckets[k].success = Cardinality({w \in S : Succeeded(w)})
       /\ buckets[k].failure = Cardinality({w \in S : ~Succeeded(w)})
       /\ buckets[k].timeouts = Cardinality({w \in S : plan[w].outcome = "timeout"})

\* The series: a pointer for every second, in order, whoever appended it.
Series ==
    /\ Len(seconds) = Len(buckets) /\ \A k \in DOMAIN seconds : seconds[k] = k
    /\ \A x \in {Main} \cup Workers :
          pc[x] = "bucket" => held[x] = SecondOf(x) + 1 /\ held[x] <= Len(buckets)
    /\ \A w \in Workers :
          /\ w < next => Slot(plan[w].sentAt) <= Len(buckets)
          /\ pc[w] = "done" => Slot(plan[w].doneAt) <= Len(buckets)
    /\ \A k \in DOMAIN buckets : BucketAt(k)

\* Every slot claimed is a worker's, and the first ones were given out.
Claims ==
    LET C == {w \in Workers : plan[w].outcome # "timeout" /\ pc[w] \notin {"idle", "artifact"}}
    IN /\ written = Cardinality(C) /\ files \subseteq C
       /\ Cardinality(files) = IF written < ArtifactLimit THEN written ELSE ArtifactLimit

Inv ==
    /\ TypeOK /\ Control /\ Counted /\ Sent /\ Recorded /\ Extremes
    /\ ReadSoFar /\ ReadSettled /\ Walked /\ Series /\ Claims

-----------------------------------------------------------------------------
(* Facts about the plan and the labels.                                    *)

\* The steps of the labels.
LEMMA Steps ==
    /\ StepOf("idle") = 0 /\ StepOf("artifact") = 0 /\ StepOf("completed") = 1
    /\ StepOf("counts") = 2 /\ StepOf("total") = 3 /\ StepOf("sum") = 4 /\ StepOf("min") = 5
    /\ StepOf("swapMin") = 5 /\ StepOf("max") = 6 /\ StepOf("swapMax") = 6
    /\ StepOf("outcome") = 7 /\ StepOf("split") = 8 /\ StepOf("timeouts") = 9
    /\ StepOf("second") = 10 /\ StepOf("grow") = 10 /\ StepOf("bucket") = 10
    /\ StepOf("done") = 10 /\ \A l : StepOf(l) \in 0 .. 10
BY DEF StepOf

\* The names of the statistics.
LEMMA NamesFacts ==
    /\ Len(Names) \in Nat \ {0} /\ \A k \in 1 .. Len(Names) : Names[k] \in StatNames
    /\ "overall" \in StatNames /\ {Stages[k] : k \in DOMAIN Stages} \subseteq StatNames
<1>1. Stages \in Seq(STRING)
  BY CollectorAssumption
<1>2. /\ Len(Names) = Len(Stages) + 1 /\ DOMAIN Names = 1 .. Len(Names) /\ Len(Stages) \in Nat
      /\ Names[Len(Stages) + 1] = "overall"
      /\ \A k \in 1 .. Len(Stages) : Names[k] = Stages[k]
  <2> DEFINE S == STRING \cup {"overall"}
  <2>1. "overall" \in S
    OBVIOUS
  <2>2. Len(Stages) \in Nat /\ Stages \in Seq(S)
    BY <1>1, SeqDef
  <2> HIDE DEF S
  <2> QED
    BY <2>1, <2>2, AppendProperties DEF Names
<1>3. DOMAIN Names = 1 .. Len(Stages) + 1 /\ DOMAIN Stages = 1 .. Len(Stages)
  BY <1>1, <1>2
<1>4. "overall" \in StatNames /\ \A k \in 1 .. Len(Names) : Names[k] \in StatNames
  BY <1>2, <1>3 DEF StatNames
<1>5. \A k \in DOMAIN Stages : Stages[k] \in StatNames
  BY <1>2, <1>3 DEF StatNames
<1> QED
  BY <1>2, <1>4, <1>5

\* The plan of a run: the workers, their attempts, the counts of their values.
LEMMA PlanFacts ==
    ASSUME plan \in Plans
    PROVE  /\ Workers = 1 .. Len(plan) /\ Len(plan) \in Nat /\ Main \notin Workers
           /\ IsFiniteSet(Workers)
           /\ \A w \in Workers :
                 /\ plan[w] \in Attempts /\ plan[w].stage \in StatNames
                 /\ plan[w].stage # "overall" /\ plan[w].outcome \in Outcomes
                 /\ plan[w].value \in Int /\ plan[w].sentAt \in Int /\ plan[w].doneAt \in Int
                 /\ Value(w) \in 0 .. MaxTrackable /\ CountsIndex(Value(w)) \in Indices
<1>1. plan \in Seq(Attempts)
  BY CollectorAssumption
<1>2. Workers = 1 .. Len(plan) /\ Len(plan) \in Nat /\ \A w \in Workers : plan[w] \in Attempts
  BY <1>1 DEF Workers
<1>3. IsFiniteSet(Workers) /\ Main \notin Workers
  BY <1>2, FS_Interval DEF Main
<1>4. ASSUME NEW w \in Workers
      PROVE /\ plan[w].stage \in StatNames
            /\ plan[w].stage # "overall" /\ plan[w].outcome \in Outcomes
            /\ plan[w].value \in Int /\ plan[w].sentAt \in Int /\ plan[w].doneAt \in Int
            /\ Value(w) \in 0 .. MaxTrackable /\ CountsIndex(Value(w)) \in Indices
  <2>1. /\ plan[w].stage \in {Stages[k] : k \in DOMAIN Stages} \ {"overall"}
        /\ plan[w].outcome \in Outcomes
        /\ plan[w].value \in Int /\ plan[w].sentAt \in Int /\ plan[w].doneAt \in Int
    BY <1>2 DEF Attempts
  <2>2. plan[w].stage \in StatNames /\ plan[w].stage # "overall"
    BY <2>1, NamesFacts
  <2>3. MaxTrackable \in Nat
    BY HistogramAssumption
  <2>4. Value(w) \in 0 .. MaxTrackable
    BY <2>1, <2>3 DEF Value, Clamp
  <2>5. CountsIndex(Value(w)) \in Indices
    BY <2>3, <2>4, IndexInCounts
  <2> QED
    BY <2>1, <2>2, <2>4, <2>5
<1> QED
  BY <1>2, <1>3, <1>4

\* The indices of counts begin at zero.
LEMMA IndicesFacts == Indices \subseteq Nat /\ 0 \in Indices
<1>1. BucketCount \in Nat \ {0} /\ SubBucketHalfCount \in Nat \ {0}
  BY CountsReach, HalfCount
<1>2. (BucketCount + 1) * SubBucketHalfCount \in Nat \ {0}
  BY <1>1
<1> QED
  BY <1>2 DEF Indices

\* The second an actor is about to record in is there to be recorded in.
LEMMA SecondFacts ==
    ASSUME TypeOK, Control
    PROVE  /\ pc[Main] \in SendLabels \ {"send"} =>
                 SecondOf(Main) \in Nat /\ SecondOf(Main) + 1 = Slot(plan[next].sentAt)
           /\ \A w \in Workers :
                 SecondOf(w) \in Nat /\ SecondOf(w) + 1 = Slot(plan[w].doneAt)
<1>1. /\ plan \in Plans
      /\ pc[Main] \in SendLabels \ {"send"} => next \in Workers
  BY DEF TypeOK, Control
<1>2. \A w \in Workers : plan[w].sentAt \in Int /\ plan[w].doneAt \in Int /\ w # Main
  BY <1>1, PlanFacts
<1> QED
  BY <1>1, <1>2 DEF SecondOf, Slot

\* What second does under the exclusive lock: the series reaches the second
\* afterwards, in order, whatever it was when the read lock was given up.
LEMMA Grown ==
    ASSUME TypeOK, Control, Series, NEW x \in {Main} \cup Workers, GrowSeries(x)
    PROVE  /\ seconds' \in Seq(Nat) /\ buckets' \in Seq(Bucket)
           /\ Len(seconds') = Len(buckets') /\ Len(buckets') >= Len(buckets)
           /\ Len(buckets') >= SecondOf(x) + 1
           /\ \A k \in 1 .. Len(seconds') : seconds'[k] = k
           /\ \A k \in 1 .. Len(buckets') :
                 buckets'[k] = IF k <= Len(buckets) THEN buckets[k] ELSE NewBucket
           /\ held' = [held EXCEPT ![x] = SecondOf(x) + 1]
<1> DEFINE m == SecondOf(x) + 1
           N == Len(buckets)
           missing == {k \in 1 .. SecondOf(x) + 1 : k > Len(seconds)}
           c == Cardinality(missing)
           fresh == [k \in 1 .. c |-> Len(buckets) + k]
           new == [k \in DOMAIN fresh |-> NewBucket]
<1> HIDE DEF m, N
<1>1. pc[x] = "grow"
  BY DEF GrowSeries
<1>2. m \in Nat \ {0}
  BY <1>1, SecondFacts DEF SendLabels, m
<1>3. /\ seconds \in Seq(Nat) /\ buckets \in Seq(Bucket) /\ Len(seconds) = N /\ N \in Nat
      /\ \A k \in 1 .. N : seconds[k] = k
  <2>1. seconds \in Seq(Nat) /\ buckets \in Seq(Bucket) /\ Len(seconds) = N
    BY DEF TypeOK, Series, N
  <2>2. DOMAIN seconds = 1 .. N /\ N \in Nat
    BY <2>1 DEF N
  <2> QED
    BY <2>1, <2>2 DEF Series, N
<1>4. c = (IF m > N THEN m - N ELSE 0) /\ c \in Nat
  <2>1. missing = N + 1 .. m
    BY <1>2, <1>3 DEF m
  <2>2. N + 1 \in Int /\ m \in Int /\ N \in Nat
    BY <1>2, <1>3
  <2>3. Cardinality(N + 1 .. m) = IF N + 1 > m THEN 0 ELSE m - (N + 1) + 1
    BY <2>2, FS_Interval
  <2> HIDE DEF missing
  <2> QED
    BY <2>1, <2>2, <2>3
<1>5. /\ seconds' = seconds \o fresh /\ buckets' = buckets \o new
      /\ held' = [held EXCEPT ![x] = (seconds \o fresh)[SecondOf(x) + 1]]
  BY DEF GrowSeries
<1>6. NewBucket \in Bucket
  BY DEF NewBucket, Bucket
<1> HIDE DEF missing, c
<1>7. /\ fresh \in Seq(Nat) /\ Len(fresh) = c /\ \A k \in 1 .. c : fresh[k] = N + k
  BY <1>3, <1>4 DEF N
<1>8. /\ new \in Seq(Bucket) /\ Len(new) = c /\ \A k \in 1 .. c : new[k] = NewBucket
  BY <1>4, <1>6
<1> HIDE DEF fresh, new
<1>9. /\ seconds' \in Seq(Nat) /\ Len(seconds') = N + c
      /\ \A k \in 1 .. N + c : seconds'[k] = IF k <= N THEN seconds[k] ELSE fresh[k - N]
  <2>1. Len(seconds) = N
    BY <1>3
  <2>2. /\ seconds \o fresh \in Seq(Nat) /\ Len(seconds \o fresh) = Len(seconds) + Len(fresh)
        /\ \A k \in 1 .. Len(seconds) + Len(fresh) :
              (seconds \o fresh)[k] = IF k <= Len(seconds) THEN seconds[k] ELSE fresh[k - Len(seconds)]
    <3>1. seconds \in Seq(Nat) /\ fresh \in Seq(Nat)
      BY <1>3, <1>7
    <3> QED
      BY <3>1, ConcatProperties, Zenon
  <2>3. Len(fresh) = c
    BY <1>7
  <2> QED
    BY <1>5, <2>1, <2>2, <2>3, Zenon
<1>10. /\ buckets' \in Seq(Bucket) /\ Len(buckets') = N + c
       /\ \A k \in 1 .. N + c : buckets'[k] = IF k <= N THEN buckets[k] ELSE new[k - N]
  <2>1. Len(buckets) = N
    BY DEF N
  <2>2. /\ buckets \o new \in Seq(Bucket) /\ Len(buckets \o new) = Len(buckets) + Len(new)
        /\ \A k \in 1 .. Len(buckets) + Len(new) :
              (buckets \o new)[k] = IF k <= Len(buckets) THEN buckets[k] ELSE new[k - Len(buckets)]
    <3>1. buckets \in Seq(Bucket) /\ new \in Seq(Bucket)
      BY <1>3, <1>8
    <3> QED
      BY <3>1, ConcatProperties, Zenon
  <2>3. Len(new) = c
    BY <1>8
  <2> QED
    BY <1>5, <2>1, <2>2, <2>3, Zenon
<1>11. \A k \in 1 .. N + c : k > N => k - N \in 1 .. c
  BY <1>3, <1>4
<1>12. ASSUME NEW k \in 1 .. N + c
       PROVE seconds'[k] = k /\ buckets'[k] = IF k <= N THEN buckets[k] ELSE NewBucket
  <2>1. CASE k <= N
    <3>1. k \in 1 .. N
      BY <1>3, <2>1
    <3> QED
      BY <1>3, <1>9, <1>10, <2>1, <3>1
  <2>2. CASE k > N
    <3>1. k - N \in 1 .. c /\ N + (k - N) = k /\ ~(k <= N)
      BY <1>3, <1>4, <1>11, <2>2
    <3>2. seconds'[k] = fresh[k - N] /\ fresh[k - N] = N + (k - N)
      BY <1>7, <1>9, <3>1
    <3>3. buckets'[k] = new[k - N] /\ new[k - N] = NewBucket
      BY <1>8, <1>10, <3>1
    <3> QED
      BY <3>1, <3>2, <3>3
  <2> QED
    BY <1>3, <1>4, <2>1, <2>2
<1>14. m \in 1 .. N + c /\ N + c >= N
  BY <1>2, <1>3, <1>4
<1>15. (seconds \o fresh)[m] = m
  BY <1>5, <1>12, <1>14
<1>16. held' = [held EXCEPT ![x] = m]
  BY <1>5, <1>15 DEF m
<1>17. /\ Len(seconds') = Len(buckets') /\ Len(buckets') >= N /\ Len(buckets') >= m
  BY <1>2, <1>3, <1>4, <1>9, <1>10, <1>14
<1>18. /\ \A k \in 1 .. Len(seconds') : seconds'[k] = k
       /\ \A k \in 1 .. Len(buckets') : buckets'[k] = IF k <= N THEN buckets[k] ELSE NewBucket
  BY <1>9, <1>10, <1>12
<1> QED
  BY <1>9, <1>10, <1>16, <1>17, <1>18 DEF m, N

-----------------------------------------------------------------------------
(* How far the workers are.                                                *)

\* A step of worker w takes it past the steps lo to hi of its StageStats.
Moves(w, lo, hi) ==
    /\ \A n \in StatNames, k \in 1 .. 9 :
          Done(n, k)' = IF n = Stat(w) /\ k \in lo .. hi THEN Done(n, k) \cup {w} ELSE Done(n, k)
    /\ \A k \in lo .. 9 : w \notin Done(Stat(w), k)

\* A worker goes on within a round.
LEMMA Onward ==
    ASSUME TypeOK, Control, NEW w \in Workers, NEW l, plan' = plan, on' = on,
           pc' = [pc EXCEPT ![w] = l], StepOf(l) >= StepOf(pc[w]), StepOf(pc[w]) # 10
    PROVE  Moves(w, StepOf(pc[w]), StepOf(l) - 1)
<1> DEFINE a == StepOf(pc[w])
           b == StepOf(l)
<1>1. /\ plan \in Plans /\ pc \in [{Main} \cup Workers -> SendLabels \cup ReadLabels \cup FileLabels]
      /\ \A u \in Workers : on[u] \in {1, 2}
  BY DEF TypeOK
<1>2. a \in 0 .. 10 /\ b \in 0 .. 10
  BY Steps
<1>3. plan[w].stage # "overall" /\ Workers' = Workers
  BY <1>1, PlanFacts DEF Workers
<1>4. \A u \in Workers : pc'[u] = IF u = w THEN l ELSE pc[u]
  BY <1>1
<1>5. ASSUME NEW n \in StatNames, NEW k \in 1 .. 9
      PROVE Done(n, k)' = IF n = Stat(w) /\ k \in a .. b - 1 THEN Done(n, k) \cup {w} ELSE Done(n, k)
  <2>1. Done(n, k)' = {u \in Workers : \/ n = plan[u].stage /\ (on[u] = 2 \/ StepOf(pc'[u]) > k)
                                       \/ n = "overall" /\ on[u] = 2 /\ StepOf(pc'[u]) > k}
    BY <1>3 DEF Done
  <2>2. Done(n, k) = {u \in Workers : \/ n = plan[u].stage /\ (on[u] = 2 \/ StepOf(pc[u]) > k)
                                      \/ n = "overall" /\ on[u] = 2 /\ StepOf(pc[u]) > k}
    BY DEF Done
  <2>3. \A u \in Workers : u # w => StepOf(pc'[u]) = StepOf(pc[u])
    BY <1>4
  <2>4. StepOf(pc'[w]) = b
    BY <1>4
  <2>5. \A u \in Workers : u # w => (u \in Done(n, k)' <=> u \in Done(n, k))
    BY <2>1, <2>2, <2>3
  <2>6. w \in Done(n, k)' <=> (n = plan[w].stage /\ (on[w] = 2 \/ b > k)) \/ (n = "overall" /\ on[w] = 2 /\ b > k)
    BY <2>1, <2>4
  <2>7. w \in Done(n, k) <=> (n = plan[w].stage /\ (on[w] = 2 \/ a > k)) \/ (n = "overall" /\ on[w] = 2 /\ a > k)
    BY <2>2
  <2>8. w \in Done(n, k)' <=> w \in Done(n, k) \/ (n = Stat(w) /\ k \in a .. b - 1)
    BY <1>1, <1>2, <1>3, <2>6, <2>7 DEF Stat
  <2>9. Done(n, k)' \subseteq Workers /\ Done(n, k) \subseteq Workers
    BY <2>1, <2>2
  <2> HIDE DEF a, b
  <2> QED
    BY <2>5, <2>8, <2>9
<1>6. \A k \in a .. 9 : w \notin Done(Stat(w), k)
  BY <1>1, <1>2, <1>3 DEF Done, Stat
<1> QED
  BY <1>5, <1>6 DEF Moves

\* It goes from the round for its stage to the one for the run, or to the series.
LEMMA Around ==
    ASSUME TypeOK, Control, NEW w \in Workers, plan' = plan, on' = [on EXCEPT ![w] = 2],
           pc' = [pc EXCEPT ![w] = IF on[w] = 1 THEN "completed" ELSE "second"],
           StepOf(pc[w]) \in 1 .. 9
    PROVE  Moves(w, StepOf(pc[w]), 9)
<1> DEFINE a == StepOf(pc[w])
<1>1. /\ plan \in Plans /\ pc \in [{Main} \cup Workers -> SendLabels \cup ReadLabels \cup FileLabels]
      /\ on \in [{Main} \cup Workers -> 1 .. Len(Names) + 1]
      /\ \A u \in Workers : on[u] \in {1, 2}
  BY DEF TypeOK
<1>2. a \in 1 .. 9 /\ StepOf("completed") = 1 /\ StepOf("second") = 10
  BY Steps
<1>3. plan[w].stage # "overall" /\ Workers' = Workers
  BY <1>1, PlanFacts DEF Workers
<1>4. \A u \in Workers : u # w => pc'[u] = pc[u] /\ on'[u] = on[u]
  BY <1>1
<1>5. on'[w] = 2 /\ pc'[w] = IF on[w] = 1 THEN "completed" ELSE "second"
  BY <1>1
<1>6. ASSUME NEW n \in StatNames, NEW k \in 1 .. 9
      PROVE Done(n, k)' = IF n = Stat(w) /\ k \in a .. 9 THEN Done(n, k) \cup {w} ELSE Done(n, k)
  <2>1. Done(n, k)' = {u \in Workers : \/ n = plan[u].stage /\ (on'[u] = 2 \/ StepOf(pc'[u]) > k)
                                       \/ n = "overall" /\ on'[u] = 2 /\ StepOf(pc'[u]) > k}
    BY <1>3 DEF Done
  <2>2. Done(n, k) = {u \in Workers : \/ n = plan[u].stage /\ (on[u] = 2 \/ StepOf(pc[u]) > k)
                                      \/ n = "overall" /\ on[u] = 2 /\ StepOf(pc[u]) > k}
    BY DEF Done
  <2>5. \A u \in Workers : u # w => (u \in Done(n, k)' <=> u \in Done(n, k))
    BY <1>4, <2>1, <2>2
  <2>6. w \in Done(n, k)' <=> n = plan[w].stage \/ (n = "overall" /\ on[w] # 1)
    BY <1>2, <1>5, <2>1
  <2>7. w \in Done(n, k) <=> (n = plan[w].stage /\ (on[w] = 2 \/ a > k)) \/ (n = "overall" /\ on[w] = 2 /\ a > k)
    BY <2>2
  <2>8. w \in Done(n, k)' <=> w \in Done(n, k) \/ (n = Stat(w) /\ k \in a .. 9)
    BY <1>1, <1>2, <1>3, <2>6, <2>7 DEF Stat
  <2>9. Done(n, k)' \subseteq Workers /\ Done(n, k) \subseteq Workers
    BY <2>1, <2>2
  <2> HIDE DEF a
  <2> QED
    BY <2>5, <2>8, <2>9
<1>7. \A k \in a .. 9 : w \notin Done(Stat(w), k)
  BY <1>1, <1>2, <1>3 DEF Done, Stat
<1> QED
  BY <1>6, <1>7 DEF Moves

-----------------------------------------------------------------------------
(* The types are kept.                                                     *)

\* The StageStats of a worker is one.
LEMMA StatFacts ==
    ASSUME TypeOK, NEW w \in Workers
    PROVE  Stat(w) \in StatNames /\ stats[Stat(w)] \in StageStats /\ hist[Stat(w)] \in HistogramState
<1>1. plan \in Plans /\ stats \in [StatNames -> StageStats] /\ hist \in [StatNames -> HistogramState]
  BY DEF TypeOK
<1>2. Stat(w) \in StatNames
  BY <1>1, PlanFacts, NamesFacts DEF Stat
<1> QED
  BY <1>1, <1>2

\* Someone moves on.
LEMMA LabelType ==
    ASSUME TypeOK, NEW x \in {Main} \cup Workers, NEW l, plan' = plan,
           pc' = [pc EXCEPT ![x] = l], x \in Workers => l \in FileLabels,
           x = Main => l \in SendLabels \cup ReadLabels \cup {"done"}
    PROVE  /\ pc' \in [({Main} \cup Workers)' -> SendLabels \cup ReadLabels \cup FileLabels]
           /\ pc'[Main] \in SendLabels \cup ReadLabels \cup {"done"}
           /\ \A w \in Workers' : pc'[w] \in FileLabels
           /\ \A y \in {Main} \cup Workers : pc'[y] = IF y = x THEN l ELSE pc[y]
<1>1. /\ pc \in [{Main} \cup Workers -> SendLabels \cup ReadLabels \cup FileLabels]
      /\ pc[Main] \in SendLabels \cup ReadLabels \cup {"done"}
      /\ \A w \in Workers : pc[w] \in FileLabels
      /\ Main \notin Workers /\ plan \in Plans
  BY PlanFacts DEF TypeOK
<1>2. Workers' = Workers /\ Main' = Main
  BY DEF Workers, Main
<1>3. l \in SendLabels \cup ReadLabels \cup FileLabels
  BY DEF FileLabels
<1>4. \A y \in {Main} \cup Workers : pc'[y] = IF y = x THEN l ELSE pc[y]
  BY <1>1
<1>5. pc' \in [{Main} \cup Workers -> SendLabels \cup ReadLabels \cup FileLabels]
  BY <1>1, <1>3
<1>6. pc'[Main] \in SendLabels \cup ReadLabels \cup {"done"}
  BY <1>1, <1>4
<1>7. \A w \in Workers : pc'[w] \in FileLabels
  BY <1>1, <1>4
<1> QED
  BY <1>2, <1>4, <1>5, <1>6, <1>7

\* A step on the counters keeps the types.
LEMMA StatType ==
    ASSUME TypeOK, NEW w \in Workers, NEW from, NEW to, NEW c \in StageStats,
           StatStep(w, from, to, c), to \in FileLabels \cup {"again"}
    PROVE  TypeOK'
<1>1. Stat(w) \in StatNames
  BY StatFacts
<1>2. stats' \in [StatNames -> StageStats]
  BY <1>1 DEF TypeOK, StatStep
<1> DEFINE l == IF to # "again" THEN to ELSE IF on[w] = 1 THEN "completed" ELSE "second"
<1>3. l \in FileLabels
  BY DEF FileLabels
<1>4. plan' = plan /\ pc' = [pc EXCEPT ![w] = l] /\ Workers' = Workers /\ Main \notin Workers
  BY PlanFacts DEF StatStep, Goto, TypeOK, Workers
<1> HIDE DEF l
<1>5. /\ pc' \in [({Main} \cup Workers)' -> SendLabels \cup ReadLabels \cup FileLabels]
      /\ pc'[Main] \in SendLabels \cup ReadLabels \cup {"done"}
      /\ \A u \in Workers' : pc'[u] \in FileLabels
  BY <1>3, <1>4, LabelType
<1>6. on' \in [{Main} \cup Workers -> 1 .. Len(Names) + 1] /\ \A u \in Workers : on'[u] \in {1, 2}
  <2>1. /\ on \in [{Main} \cup Workers -> 1 .. Len(Names) + 1] /\ \A u \in Workers : on[u] \in {1, 2}
        /\ on' = [on EXCEPT ![w] = 2] \/ on' = on
    BY DEF TypeOK, StatStep
  <2>2. 2 \in 1 .. Len(Names) + 1
    BY NamesFacts
  <2> QED
    BY <2>1, <2>2
<1>7. UNCHANGED <<plan, seen, held, hist, seconds, buckets, written, files, next, report, walk, late>>
  BY DEF StatStep
<1> QED
  BY <1>2, <1>4, <1>5, <1>6, <1>7 DEF TypeOK

\* And one on a histogram.
LEMMA HistType ==
    ASSUME TypeOK, NEW w \in Workers, NEW from, NEW to, NEW c \in HistogramState,
           HistStep(w, from, to, c), to \in FileLabels
    PROVE  TypeOK'
<1>1. Stat(w) \in StatNames
  BY StatFacts
<1>2. hist' \in [StatNames -> HistogramState]
  BY <1>1 DEF TypeOK, HistStep
<1>4. plan' = plan /\ pc' = [pc EXCEPT ![w] = to] /\ Workers' = Workers /\ Main \notin Workers
  BY PlanFacts DEF HistStep, Goto, TypeOK, Workers
<1>5. /\ pc' \in [({Main} \cup Workers)' -> SendLabels \cup ReadLabels \cup FileLabels]
      /\ pc'[Main] \in SendLabels \cup ReadLabels \cup {"done"}
      /\ \A u \in Workers' : pc'[u] \in FileLabels
  BY <1>4, LabelType
<1>7. UNCHANGED <<plan, on, seen, held, stats, seconds, buckets, written, files, next, report, walk, late>>
  BY DEF HistStep
<1> QED
  BY <1>2, <1>4, <1>5, <1>7 DEF TypeOK

\* A worker's steps keep the types.
LEMMA FileType ==
    ASSUME TypeOK, Control, Series, NEW w \in Workers, File(w)
    PROVE  TypeOK'
<1>1. /\ Stat(w) \in StatNames /\ stats[Stat(w)] \in StageStats
      /\ hist[Stat(w)] \in HistogramState /\ plan[w].outcome \in Outcomes
      /\ Value(w) \in Nat /\ CountsIndex(Value(w)) \in Indices /\ Main \notin Workers
  <2>1. plan \in Plans /\ MaxTrackable \in Nat
    BY HistogramAssumption DEF TypeOK
  <2>2. /\ plan[w].outcome \in Outcomes /\ Value(w) \in 0 .. MaxTrackable
        /\ CountsIndex(Value(w)) \in Indices /\ Main \notin Workers
    BY <2>1, PlanFacts
  <2> QED
    BY <2>1, <2>2, StatFacts
<1> DEFINE s == stats[Stat(w)]
           h == hist[Stat(w)]
<1>L. ASSUME NEW l \in FileLabels, plan' = plan, Goto(w, l)
      PROVE /\ pc' \in [({Main} \cup Workers)' -> SendLabels \cup ReadLabels \cup FileLabels]
            /\ pc'[Main] \in SendLabels \cup ReadLabels \cup {"done"}
            /\ \A u \in Workers' : pc'[u] \in FileLabels
            /\ Workers' = Workers
  <2>1. pc' = [pc EXCEPT ![w] = l]
    BY <1>L DEF Goto
  <2> QED
    BY <1>1, <1>L, <2>1, LabelType DEF Workers
<1>2. CASE ClaimArtifact(w)
  <2>1. Goto(w, "completed") /\ "completed" \in FileLabels /\ plan' = plan
    BY <1>2 DEF ClaimArtifact, FileLabels
  <2>2. /\ UNCHANGED <<plan, on, seen, held, stats, hist, seconds, buckets, next, report, walk, late>>
        /\ written' = written + 1 /\ files' \subseteq files \cup {w}
    BY <1>2 DEF ClaimArtifact
  <2>3. written' \in Nat /\ files' \subseteq Workers
    BY <2>2 DEF TypeOK
  <2> QED
    BY <1>L, <2>1, <2>2, <2>3 DEF TypeOK
<1>3. CASE AddCompleted(w)
  <2>1. [s EXCEPT !.completed = @ + 1] \in StageStats
    BY <1>1 DEF StageStats
  <2> QED
    BY <1>3, <2>1, StatType DEF AddCompleted, FileLabels
<1>4. CASE AddCount(w)
  <2> DEFINE over == IF plan[w].value > MaxTrackable THEN 1 ELSE 0
             c == [h EXCEPT !.counts[CountsIndex(Value(w))] = @ + 1, !.overflow = @ + over]
  <2>1. c \in HistogramState
    <3>1. over \in Nat
      OBVIOUS
    <3>2. h.counts \in [Indices -> Nat] /\ h.overflow \in Nat
      BY <1>1 DEF HistogramState
    <3>3. [h.counts EXCEPT ![CountsIndex(Value(w))] = @ + 1] \in [Indices -> Nat]
      BY <1>1, <3>2
    <3> HIDE DEF over
    <3> DEFINE q == [h.counts EXCEPT ![CountsIndex(Value(w))] = @ + 1]
               o == h.overflow + over
    <3>4. c = [h EXCEPT !.counts = q, !.overflow = o]
      BY <1>1 DEF HistogramState
    <3>5. q \in [Indices -> Nat] /\ o \in Nat
      BY <3>1, <3>2, <3>3
    <3> HIDE DEF q, o, c
    <3> QED
      BY <1>1, <3>4, <3>5 DEF HistogramState
  <2>2. [h EXCEPT !.total = @ + 1] \in HistogramState
    BY <1>1 DEF HistogramState
  <2>3. "total" \in FileLabels /\ "sum" \in FileLabels
    BY DEF FileLabels
  <2> QED
    BY <1>4, <2>1, <2>2, <2>3, HistType DEF AddCount
<1>5. CASE AddSum(w)
  <2>1. [h EXCEPT !.sum = @ + Value(w)] \in HistogramState
    BY <1>1 DEF HistogramState
  <2> QED
    BY <1>5, <2>1, HistType DEF AddSum, FileLabels
<1>6. CASE LoadMin(w)
  <2>1. h.min \in Nat /\ h.max \in Nat
    BY <1>1 DEF HistogramState
  <2>2. PICK l \in FileLabels : Goto(w, l)
    BY <1>6 DEF LoadMin, FileLabels
  <2>3. /\ UNCHANGED <<plan, on, held, stats, hist, seconds, buckets, written, files, next, report, walk, late>>
        /\ seen' = seen \/ seen' = [seen EXCEPT ![w] = h.min]
    BY <1>6 DEF LoadMin
  <2>4. seen' \in [Workers -> Nat]
    BY <2>1, <2>3 DEF TypeOK
  <2> QED
    BY <1>L, <2>2, <2>3, <2>4 DEF TypeOK
<1>7. CASE SwapMin(w)
  <2>1. [h EXCEPT !.min = Value(w)] \in HistogramState
    BY <1>1 DEF HistogramState
  <2>2. "min" \in FileLabels /\ "max" \in FileLabels
    BY DEF FileLabels
  <2> QED
    BY <1>1, <1>7, <2>1, <2>2, HistType DEF SwapMin
<1>8. CASE LoadMax(w)
  <2>1. h.min \in Nat /\ h.max \in Nat
    BY <1>1 DEF HistogramState
  <2>2. PICK l \in FileLabels : Goto(w, l)
    BY <1>8 DEF LoadMax, FileLabels
  <2>3. /\ UNCHANGED <<plan, on, held, stats, hist, seconds, buckets, written, files, next, report, walk, late>>
        /\ seen' = seen \/ seen' = [seen EXCEPT ![w] = h.max]
    BY <1>8 DEF LoadMax
  <2>4. seen' \in [Workers -> Nat]
    BY <2>1, <2>3 DEF TypeOK
  <2> QED
    BY <1>L, <2>2, <2>3, <2>4 DEF TypeOK
<1>9. CASE SwapMax(w)
  <2>1. [h EXCEPT !.max = Value(w)] \in HistogramState
    BY <1>1 DEF HistogramState
  <2>2. "outcome" \in FileLabels /\ "max" \in FileLabels
    BY DEF FileLabels
  <2> QED
    BY <1>1, <1>9, <2>1, <2>2, HistType DEF SwapMax
<1>10. CASE RecordOutcome(w)
  <2> DEFINE c == [s EXCEPT !.errors[plan[w].outcome] = @ + 1]
  <2>1. c \in StageStats
    <3>1. s.errors \in [Outcomes -> Nat]
      BY <1>1 DEF StageStats, Errors
    <3>2. [s.errors EXCEPT ![plan[w].outcome] = @ + 1] \in Errors
      BY <1>1, <3>1 DEF Errors
    <3>3. c = [s EXCEPT !.errors = [s.errors EXCEPT ![plan[w].outcome] = @ + 1]]
      BY <1>1 DEF StageStats
    <3> QED
      BY <1>1, <3>2, <3>3 DEF StageStats
  <2> QED
    BY <1>10, <2>1, StatType DEF RecordOutcome, FileLabels
<1>11. CASE AddSplit(w)
  <2>1. [s EXCEPT !.success = @ + 1] \in StageStats /\ [s EXCEPT !.failure = @ + 1] \in StageStats
    BY <1>1 DEF StageStats
  <2>2. "timeouts" \in FileLabels
    BY DEF FileLabels
  <2> QED
    BY <1>11, <2>1, <2>2, StatType DEF AddSplit
<1>12. CASE AddTimeout(w)
  <2>1. [s EXCEPT !.timeouts = @ + 1] \in StageStats
    BY <1>1 DEF StageStats
  <2> QED
    BY <1>12, <2>1, StatType DEF AddTimeout
<1>13. CASE FindSecond(w)
  <2>1. PICK l \in FileLabels : Goto(w, l)
    BY <1>13 DEF FindSecond, FileLabels
  <2>2. /\ UNCHANGED <<plan, on, seen, stats, hist, seconds, buckets, written, files, next, report, walk, late>>
        /\ held' \in [{Main} \cup Workers -> Nat]
    <3>1. SecondOf(w) \in Nat /\ seconds \in Seq(Nat) /\ held \in [{Main} \cup Workers -> Nat]
      BY SecondFacts DEF TypeOK
    <3>2. SecondOf(w) < Len(seconds) => seconds[SecondOf(w) + 1] \in Nat
      BY <3>1
    <3> QED
      BY <1>13, <3>1, <3>2 DEF FindSecond
  <2> QED
    BY <1>L, <2>1, <2>2 DEF TypeOK
<1>14. CASE GrowSeries(w)
  <2>1. Goto(w, "bucket") /\ "bucket" \in FileLabels
    BY <1>14 DEF GrowSeries, FileLabels
  <2>2. UNCHANGED <<plan, on, seen, stats, hist, written, files, next, report, walk, late>>
    BY <1>14 DEF GrowSeries
  <2>3. seconds' \in Seq(Nat) /\ buckets' \in Seq(Bucket) /\ held' = [held EXCEPT ![w] = SecondOf(w) + 1]
    BY <1>14, Grown
  <2>4. held' \in [{Main} \cup Workers -> Nat]
    <3>1. held \in [{Main} \cup Workers -> Nat]
      BY DEF TypeOK
    <3>2. SecondOf(w) + 1 \in Nat
      BY SecondFacts
    <3> QED
      BY <2>3, <3>1, <3>2
  <2> QED
    BY <1>L, <2>1, <2>2, <2>3, <2>4 DEF TypeOK
<1>15. CASE CountSecond(w)
  <2>1. Goto(w, "done") /\ "done" \in FileLabels
    BY <1>15 DEF CountSecond, FileLabels
  <2>2. UNCHANGED <<plan, on, seen, held, stats, hist, seconds, written, files, next, report, walk, late>>
    BY <1>15 DEF CountSecond
  <2>3. buckets' \in Seq(Bucket)
    <3> DEFINE One(test) == IF test THEN 1 ELSE 0
               e == [buckets[held[w]] EXCEPT !.completed = @ + 1,
                                             !.success = @ + One(Succeeded(w)),
                                             !.failure = @ + One(~Succeeded(w)),
                                             !.timeouts = @ + One(plan[w].outcome = "timeout")]
    <3>1. pc[w] = "bucket" /\ buckets' = [buckets EXCEPT ![held[w]] = e]
      BY <1>15 DEF CountSecond
    <3>2. held[w] = SecondOf(w) + 1 /\ held[w] <= Len(buckets)
      BY <3>1 DEF Series
    <3>3. buckets \in Seq(Bucket) /\ held[w] \in 1 .. Len(buckets)
      BY <3>2, SecondFacts DEF TypeOK
    <3>4. buckets[held[w]] \in Bucket
      BY <3>3
    <3>5. e \in Bucket
      <4> DEFINE a == One(Succeeded(w))
                 b == One(~Succeeded(w))
                 c == One(plan[w].outcome = "timeout")
      <4>1. a \in Nat /\ b \in Nat /\ c \in Nat
        OBVIOUS
      <4> HIDE DEF a, b, c
      <4> DEFINE d == buckets[held[w]]
      <4>2. d \in Bucket
        BY <3>4
      <4>3. e = [d EXCEPT !.completed = @ + 1, !.success = @ + a, !.failure = @ + b, !.timeouts = @ + c]
        BY DEF a, b, c
      <4> HIDE DEF d, e
      <4>4. /\ d.sent \in Nat /\ d.completed \in Nat /\ d.success \in Nat /\ d.failure \in Nat
            /\ d.timeouts \in Nat
        BY <4>2 DEF Bucket
      <4>5. e = [sent |-> d.sent, completed |-> d.completed + 1, success |-> d.success + a,
                 failure |-> d.failure + b, timeouts |-> d.timeouts + c]
        BY <4>2, <4>3 DEF Bucket
      <4> QED
        BY <4>1, <4>4, <4>5 DEF Bucket
    <3> HIDE DEF e
    <3> QED
      BY <3>1, <3>3, <3>5, ExceptSeq
  <2> QED
    BY <1>L, <2>1, <2>2, <2>3 DEF TypeOK
<1> QED
  BY <1>2, <1>3, <1>4, <1>5, <1>6, <1>7, <1>8, <1>9, <1>10, <1>11, <1>12, <1>13, <1>14, <1>15
  DEF File

\* The top of a bucket is a number.
LEMMA TopIsNat ==
    ASSUME NEW i \in Nat
    PROVE  HighestEquivalent(i) \in Nat
<1> DEFINE H == SubBucketHalfCount
           b == BucketOf(i)
<1>1. H \in Nat \ {0}
  BY HalfCount
<1>2. i % H \in Nat /\ b \in Nat
  <2>1. CASE i < H
    BY <1>1, <2>1 DEF BucketOf
  <2>2. CASE i >= H
    <3>1. i \div H \in Nat /\ i < (i \div H + 1) * H /\ i % H \in Nat
      BY <1>1, Quotient
    <3>2. i \div H >= 1
      BY <1>1, <2>2, <3>1
    <3> QED
      BY <1>1, <2>2, <3>1, <3>2 DEF BucketOf
  <2> QED
    BY <1>1, <2>1, <2>2
<1>3. 2 ^ b \in Nat \ {0}
  BY <1>2, PowerAbove
<1> DEFINE r == i % H
           p == 2 ^ b
<1>4. ValueAt(i) = IF i < H THEN r ELSE (r + H) * p
  BY DEF ValueAt
<1>5. r \in Nat /\ p \in Nat \ {0}
  BY <1>2, <1>3
<1> HIDE DEF r, p, H
<1>6. ValueAt(i) \in Nat
  BY <1>1, <1>4, <1>5
<1>7. HighestEquivalent(i) = ValueAt(i) + p - 1
  BY DEF HighestEquivalent, p
<1> QED
  BY <1>5, <1>6, <1>7

\* The percentiles.
LEMMA TargetFacts ==
    /\ Len(Targets) = 3 /\ DOMAIN Targets = 1 .. 3
    /\ Targets[1] = 50 /\ Targets[2] = 90 /\ Targets[3] = 99
    /\ \A k \in 1 .. 3 : Targets[k] \in 1 .. 99
BY DEF Targets

\* Q, the percentiles a bucket of c records reaches, are those past f up to m.
ReachesTo(Q, f, m, c, cum, total) ==
    /\ Q = f + 1 .. m /\ Cardinality(Q) = m - f /\ (m > f => c > 0)
    /\ \A k \in f + 1 .. m : cum * 100 >= Targets[k] * total
    /\ \A k \in m + 1 .. 3 : c = 0 \/ cum * 100 < Targets[k] * total

\* One bucket of the walk: the percentiles it reaches follow those found.
LEMMA WalkReaches ==
    ASSUME NEW f \in 0 .. 2, NEW c \in Nat, NEW cum \in Nat, NEW total \in Nat, NEW Q,
           Q = {k \in DOMAIN Targets : k > f /\ c > 0 /\ cum * 100 >= Targets[k] * total}
    PROVE  \E m \in f .. 3 : ReachesTo(Q, f, m, c, cum, total)
<1> DEFINE T(k) == c > 0 /\ cum * 100 >= Targets[k] * total
           R == {k \in 1 .. 3 : k > f /\ T(k)}
<1>1. (T(3) => T(2)) /\ (T(2) => T(1))
  BY TargetFacts
<1>2. \A k \in 1 .. 3 : T(k) \/ (c = 0 \/ cum * 100 < Targets[k] * total)
  BY TargetFacts
<1> DEFINE m == IF T(3) THEN 3 ELSE IF f < 2 /\ T(2) THEN 2 ELSE IF f < 1 /\ T(1) THEN 1 ELSE f
<1>3. m \in f .. 3 /\ \A k \in 1 .. 3 : k > f => (T(k) <=> k <= m)
  <2> HIDE DEF T
  <2>1. m \in f .. 3
    OBVIOUS
  <2>2. 1 > f => (T(1) <=> 1 <= m)
    BY <1>1
  <2>3. 2 > f => (T(2) <=> 2 <= m)
    BY <1>1
  <2>4. 3 > f => (T(3) <=> 3 <= m)
    BY <1>1
  <2>5. \A k \in 1 .. 3 : k = 1 \/ k = 2 \/ k = 3
    OBVIOUS
  <2> HIDE DEF m
  <2> QED
    BY <2>1, <2>2, <2>3, <2>4, <2>5
<1> HIDE DEF m, T
<1>4. R = f + 1 .. m
  BY <1>3
<1>5. Cardinality(f + 1 .. m) = m - f
  <2>1. f + 1 \in Int /\ m \in Int
    BY <1>3
  <2>2. Cardinality(f + 1 .. m) = IF f + 1 > m THEN 0 ELSE m - (f + 1) + 1
    BY <2>1, FS_Interval
  <2> QED
    BY <1>3, <2>2
<1>6. m > f => c > 0
  <2>1. SUFFICES ASSUME m > f PROVE c > 0
    OBVIOUS
  <2>2. T(m)
    BY <1>3, <2>1
  <2> QED
    BY <2>2 DEF T
<1>7. \A k \in f + 1 .. m : cum * 100 >= Targets[k] * total
  <2>1. \A k \in f + 1 .. m : T(k)
    BY <1>3
  <2> QED
    BY <2>1 DEF T
<1>8. \A k \in m + 1 .. 3 : c = 0 \/ cum * 100 < Targets[k] * total
  <2>1. \A k \in m + 1 .. 3 : k \in 1 .. 3 /\ ~T(k)
    BY <1>3
  <2> QED
    BY <1>2, <2>1
<1>9. R = Q
  BY TargetFacts DEF T
<1> HIDE DEF R
<1> QED
  BY <1>3, <1>4, <1>5, <1>6, <1>7, <1>8, <1>9 DEF ReachesTo

\* Which StageStats main reads.
LEMMA ReadingFacts ==
    ASSUME TypeOK, Control, pc[Main] \in ReadLabels
    PROVE  /\ Reading \in StatNames /\ Reading = Names[on[Main]]
           /\ stats[Reading] \in StageStats /\ hist[Reading] \in HistogramState
<1>1. on[Main] \in 1 .. Len(Names)
  BY DEF Control
<1>2. Reading = Names[on[Main]]
  BY <1>1, NamesFacts DEF Reading
<1> QED
  BY <1>1, <1>2, NamesFacts DEF TypeOK

\* WalkCounts, spelled out.
LEMMA WalkStep ==
    ASSUME TypeOK, Control, Walked, WalkCounts
    PROVE  LET c == hist[Reading].counts[walk.idx]
               cum == walk.cumulative + c
               f == Len(report.percentiles)
               top == HighestEquivalent(walk.idx)
           IN /\ c \in Nat /\ cum \in Nat /\ f \in 0 .. 2 /\ top \in Nat
              /\ \E m \in f .. 3, more \in Seq(Nat) :
                    /\ m > f => c > 0
                    /\ \A k \in f + 1 .. m : cum * 100 >= Targets[k] * report.total
                    /\ \A k \in m + 1 .. 3 : c = 0 \/ cum * 100 < Targets[k] * report.total
                    /\ Len(more) = m /\ \A k \in 1 .. f : more[k] = report.percentiles[k]
                    /\ \A k \in f + 1 .. m : more[k] = top
                    /\ \/ /\ m < 3 /\ walk.idx + 1 \in Indices
                          /\ walk' = [idx |-> walk.idx + 1, cumulative |-> cum]
                          /\ report' = [report EXCEPT !.percentiles = more] /\ pc' = pc
                       \/ /\ m = 3 \/ walk.idx + 1 \notin Indices
                          /\ walk' = [idx |-> 0, cumulative |-> 0]
                          /\ report' = [report EXCEPT !.percentiles =
                                            more \o [k \in 1 .. 3 - m |-> report.max]]
                          /\ pc' = [pc EXCEPT ![Main] = "errors"]
<1> DEFINE c == hist[Reading].counts[walk.idx]
           cum == walk.cumulative + c
           found == report.percentiles
           f == Len(found)
           top == HighestEquivalent(walk.idx)
           R == {k \in DOMAIN Targets : k > Len(found) /\ c > 0 /\ cum * 100 >= Targets[k] * report.total}
           add == [k \in 1 .. Cardinality(R) |-> top]
           more == found \o add
<1>1. pc[Main] = "walk" /\ pc[Main] \in ReadLabels
  BY DEF WalkCounts, ReadLabels
<1>2. /\ walk.idx \in Indices /\ walk.cumulative \in Nat /\ found \in Seq(Nat)
      /\ report.total \in Nat
  BY DEF TypeOK, Report
<1>3. c \in Nat /\ cum \in Nat
  <2>1. hist[Reading].counts \in [Indices -> Nat]
    BY <1>1, ReadingFacts DEF HistogramState
  <2> QED
    BY <1>2, <2>1
<1>4. f \in 0 .. 2
  <2>1. f \in Nat
    BY <1>2
  <2>2. f < Len(Targets) /\ Len(Targets) = 3
    BY <1>1, TargetFacts DEF Walked
  <2> HIDE DEF f
  <2>3. f < 3
    BY <2>2
  <2> QED
    BY <2>1, <2>3
<1>5. top \in Nat
  BY <1>2, IndicesFacts, TopIsNat
<1> HIDE DEF c, cum, f, top
<1>6. PICK m \in f .. 3 : /\ R = f + 1 .. m /\ Cardinality(R) = m - f /\ (m > f => c > 0)
                          /\ \A k \in f + 1 .. m : cum * 100 >= Targets[k] * report.total
                          /\ \A k \in m + 1 .. 3 : c = 0 \/ cum * 100 < Targets[k] * report.total
  <2>1. R = {k \in DOMAIN Targets : k > f /\ c > 0 /\ cum * 100 >= Targets[k] * report.total}
    BY DEF f
  <2> HIDE DEF R
  <2>2. report.total \in Nat
    BY <1>2
  <2>3. \E m \in f .. 3 : ReachesTo(R, f, m, c, cum, report.total)
    BY <1>3, <1>4, <2>1, <2>2, WalkReaches
  <2> QED
    BY <2>3, Zenon DEF ReachesTo
<1>7. m \in Nat /\ m - f \in Nat /\ Len(found) = f
  BY <1>4, <1>6 DEF f
<1>8. add \in Seq(Nat) /\ Len(add) = m - f /\ \A k \in 1 .. m - f : add[k] = top
  <2>1. add = [k \in 1 .. m - f |-> top]
    BY <1>6
  <2> DEFINE d == m - f
  <2>2. d \in Nat
    BY <1>7
  <2> HIDE DEF add, d
  <2>3. add = [k \in 1 .. d |-> top]
    BY <2>1 DEF d
  <2>4. add \in Seq(Nat) /\ Len(add) = d /\ \A k \in 1 .. d : add[k] = top
    BY <1>5, <2>2, <2>3
  <2> QED
    BY <2>4 DEF d
<1> HIDE DEF R, add
<1>9. /\ more \in Seq(Nat) /\ Len(more) = f + (m - f)
      /\ \A k \in 1 .. f + (m - f) : more[k] = IF k <= f THEN found[k] ELSE add[k - f]
  <2>1. found \in Seq(Nat) /\ add \in Seq(Nat)
    BY <1>2, <1>8
  <2>2. /\ more \in Seq(Nat) /\ Len(more) = Len(found) + Len(add)
        /\ \A k \in 1 .. Len(found) + Len(add) :
              more[k] = IF k <= Len(found) THEN found[k] ELSE add[k - Len(found)]
    BY <2>1, ConcatProperties, Zenon
  <2>3. Len(found) = f /\ Len(add) = m - f
    BY <1>7, <1>8
  <2> HIDE DEF more, found
  <2> QED
    BY <2>2, <2>3
<1>10. /\ Len(more) = m /\ \A k \in 1 .. f : more[k] = found[k]
       /\ \A k \in f + 1 .. m : more[k] = top
  <2>1. f + (m - f) = m
    BY <1>4, <1>7
  <2>2. \A k \in 1 .. f : k \in 1 .. m /\ k <= f
    BY <1>4, <1>6
  <2>3. \A k \in f + 1 .. m : k \in 1 .. m /\ ~(k <= f) /\ k - f \in 1 .. m - f
    BY <1>4, <1>6
  <2> HIDE DEF more, found
  <2> QED
    BY <1>8, <1>9, <2>1, <2>2, <2>3
<1>11. IF Len(more) < Len(Targets) /\ walk.idx + 1 \in Indices
       THEN /\ walk' = [idx |-> walk.idx + 1, cumulative |-> cum]
            /\ report' = [report EXCEPT !.percentiles = more] /\ UNCHANGED pc
       ELSE /\ walk' = [idx |-> 0, cumulative |-> 0]
            /\ report' = [report EXCEPT !.percentiles =
                             more \o [k \in 1 .. Len(Targets) - Len(more) |-> report.max]]
            /\ Goto(Main, "errors")
  BY Zenon DEF WalkCounts, c, cum, R, add, top
<1>12. Len(Targets) = 3
  BY TargetFacts
<1> HIDE DEF more
<1>13. \/ /\ m < 3 /\ walk.idx + 1 \in Indices
          /\ walk' = [idx |-> walk.idx + 1, cumulative |-> cum]
          /\ report' = [report EXCEPT !.percentiles = more] /\ pc' = pc
       \/ /\ m = 3 \/ walk.idx + 1 \notin Indices
          /\ walk' = [idx |-> 0, cumulative |-> 0]
          /\ report' = [report EXCEPT !.percentiles =
                            more \o [k \in 1 .. 3 - m |-> report.max]]
          /\ pc' = [pc EXCEPT ![Main] = "errors"]
  <2>1. Len(more) = m /\ m \in 0 .. 3
    BY <1>4, <1>6, <1>10
  <2>2. CASE m < 3 /\ walk.idx + 1 \in Indices
    BY <1>11, <1>12, <2>1, <2>2
  <2>3. CASE ~(m < 3 /\ walk.idx + 1 \in Indices)
    <3>1. m = 3 \/ walk.idx + 1 \notin Indices
      BY <2>1, <2>3
    <3>2. Len(Targets) - Len(more) = 3 - m /\ ~(Len(more) < Len(Targets) /\ walk.idx + 1 \in Indices)
      BY <1>12, <2>1, <2>3
    <3> QED
      BY <1>11, <3>1, <3>2 DEF Goto
  <2> QED
    BY <2>2, <2>3
<1> QED
  BY <1>3, <1>4, <1>5, <1>6, <1>9, <1>10, <1>13 DEF c, cum, f, top

\* The steps that are not a worker's.
MainNext ==
    Send \/ FindSecond(Main) \/ GrowSeries(Main) \/ Start \/ Drain \/ BuildSummary \/ UNCHANGED vars

\* Reading a field keeps the types.
LEMMA ReadFieldType ==
    ASSUME TypeOK, Control, ReadCounters
    PROVE  /\ report' \in Report /\ \E l \in ReadLabels : Goto(Main, l)
           /\ pc[Main] \in ReadLabels
           /\ UNCHANGED <<plan, on, seen, held, stats, hist, seconds, buckets, written, files, next,
                          walk, late>>
<1> DEFINE s == stats[Reading]
           h == hist[Reading]
<1>1. pc[Main] \in ReadLabels
  BY DEF ReadCounters, ReadField, ReadLabels
<1>2. s \in StageStats /\ h \in HistogramState
  BY <1>1, ReadingFacts
<1>3. /\ s.sent \in Nat /\ s.completed \in Nat /\ s.success \in Nat /\ s.failure \in Nat
      /\ s.timeouts \in Nat /\ s.errors \in Errors
      /\ h.total \in Nat /\ h.min \in Nat /\ h.max \in Nat /\ h.sum \in Nat
  BY <1>2 DEF StageStats, HistogramState
<1>4. report \in Report
  BY DEF TypeOK
<1>5. NoReport \in Report
  <2>1. << >> \in Seq(Nat)
    OBVIOUS
  <2>2. NoErrors \in Errors
    BY DEF NoErrors, Errors
  <2> QED
    BY <2>1, <2>2 DEF NoReport, Report
<1> HIDE DEF s, h
<1>6. ASSUME NEW r \in Report, NEW v \in Nat, NEW e \in Errors
      PROVE /\ [r EXCEPT !["sent"] = v] \in Report /\ [r EXCEPT !["completed"] = v] \in Report
            /\ [r EXCEPT !["success"] = v] \in Report /\ [r EXCEPT !["failure"] = v] \in Report
            /\ [r EXCEPT !["timeouts"] = v] \in Report /\ [r EXCEPT !["total"] = v] \in Report
            /\ [r EXCEPT !["min"] = v] \in Report /\ [r EXCEPT !["max"] = v] \in Report
            /\ [r EXCEPT !["sum"] = v] \in Report /\ [r EXCEPT !["errors"] = e] \in Report
  BY DEF Report
<1>7. report' \in Report
  <2>1. \/ ReadField("sent", "completed", s.sent)
        \/ ReadField("completed", "success", s.completed)
        \/ ReadField("success", "failure", s.success)
        \/ ReadField("failure", "timeouts", s.failure)
        \/ ReadField("timeouts", "total", s.timeouts)
        \/ ReadField("total", IF h.total = 0 THEN "errors" ELSE "min", h.total)
        \/ ReadField("min", "max", h.min)
        \/ ReadField("max", "sum", h.max)
        \/ ReadField("sum", "walk", h.sum)
        \/ ReadField("errors", "entry", s.errors)
    BY DEF ReadCounters, s, h
  <2>2. ASSUME NEW field, NEW to, NEW v, ReadField(field, to, v)
        PROVE \E r \in Report : report' = [r EXCEPT ![field] = v]
    BY <1>4, <1>5, <2>2 DEF ReadField
  <2>3. CASE ReadField("sent", "completed", s.sent)
    <3>1. PICK r \in Report : report' = [r EXCEPT !["sent"] = s.sent]
      BY <2>2, <2>3
    <3> QED
      BY <1>3, <1>6, <3>1
  <2>4. CASE ReadField("completed", "success", s.completed)
    <3>1. PICK r \in Report : report' = [r EXCEPT !["completed"] = s.completed]
      BY <2>2, <2>4
    <3> QED
      BY <1>3, <1>6, <3>1
  <2>5. CASE ReadField("success", "failure", s.success)
    <3>1. PICK r \in Report : report' = [r EXCEPT !["success"] = s.success]
      BY <2>2, <2>5
    <3> QED
      BY <1>3, <1>6, <3>1
  <2>6. CASE ReadField("failure", "timeouts", s.failure)
    <3>1. PICK r \in Report : report' = [r EXCEPT !["failure"] = s.failure]
      BY <2>2, <2>6
    <3> QED
      BY <1>3, <1>6, <3>1
  <2>7. CASE ReadField("timeouts", "total", s.timeouts)
    <3>1. PICK r \in Report : report' = [r EXCEPT !["timeouts"] = s.timeouts]
      BY <2>2, <2>7
    <3> QED
      BY <1>3, <1>6, <3>1
  <2>8. CASE ReadField("total", IF h.total = 0 THEN "errors" ELSE "min", h.total)
    <3>1. PICK r \in Report : report' = [r EXCEPT !["total"] = h.total]
      BY <2>2, <2>8
    <3> QED
      BY <1>3, <1>6, <3>1
  <2>9. CASE ReadField("min", "max", h.min)
    <3>1. PICK r \in Report : report' = [r EXCEPT !["min"] = h.min]
      BY <2>2, <2>9
    <3> QED
      BY <1>3, <1>6, <3>1
  <2>10. CASE ReadField("max", "sum", h.max)
    <3>1. PICK r \in Report : report' = [r EXCEPT !["max"] = h.max]
      BY <2>2, <2>10
    <3> QED
      BY <1>3, <1>6, <3>1
  <2>11. CASE ReadField("sum", "walk", h.sum)
    <3>1. PICK r \in Report : report' = [r EXCEPT !["sum"] = h.sum]
      BY <2>2, <2>11
    <3> QED
      BY <1>3, <1>6, <3>1
  <2>12. CASE ReadField("errors", "entry", s.errors)
    <3>1. PICK r \in Report : report' = [r EXCEPT !["errors"] = s.errors]
      BY <2>2, <2>12
    <3> QED
      BY <1>3, <1>6, <3>1
  <2> QED
    BY <2>1, <2>3, <2>4, <2>5, <2>6, <2>7, <2>8, <2>9, <2>10, <2>11, <2>12
<1>8. \E l \in ReadLabels : Goto(Main, l)
  BY DEF ReadCounters, ReadField, ReadLabels
<1>9. UNCHANGED <<plan, on, seen, held, stats, hist, seconds, buckets, written, files, next,
                  walk, late>>
  BY DEF ReadCounters, ReadField
<1> QED
  BY <1>1, <1>7, <1>8, <1>9

\* Main's steps keep the types.
LEMMA MainType ==
    ASSUME TypeOK, Control, Series, Walked, MainNext
    PROVE  TypeOK'
<1>1. Main \notin Workers /\ plan \in Plans /\ Workers = 1 .. Len(plan) /\ Len(plan) \in Nat
  BY PlanFacts DEF TypeOK
<1>L. ASSUME NEW l \in SendLabels \cup ReadLabels \cup {"done"}, plan' = plan, Goto(Main, l)
      PROVE /\ pc' \in [({Main} \cup Workers)' -> SendLabels \cup ReadLabels \cup FileLabels]
            /\ pc'[Main] \in SendLabels \cup ReadLabels \cup {"done"}
            /\ \A u \in Workers' : pc'[u] \in FileLabels
            /\ Workers' = Workers
  <2>1. pc' = [pc EXCEPT ![Main] = l]
    BY <1>L DEF Goto
  <2> QED
    BY <1>1, <1>L, <2>1, LabelType DEF Workers
<1>2. CASE Send
  <2>1. Goto(Main, "second") /\ "second" \in SendLabels
    BY <1>2 DEF Send, SendLabels
  <2>2. UNCHANGED <<plan, on, seen, held, hist, seconds, buckets, written, files, next, report, walk, late>>
    BY <1>2 DEF Send
  <2>3. stats' \in [StatNames -> StageStats]
    <3>1. stats \in [StatNames -> StageStats]
      BY DEF TypeOK
    <3>2. \A n \in StatNames : [stats[n] EXCEPT !.sent = @ + 1] \in StageStats
      BY <3>1 DEF StageStats
    <3>3. stats' = [n \in StatNames |-> IF n \in {plan[next].stage, "overall"}
                                        THEN [stats[n] EXCEPT !.sent = @ + 1] ELSE stats[n]]
      BY <1>2, <3>1 DEF Send
    <3> QED
      BY <3>1, <3>2, <3>3
  <2> QED
    BY <1>L, <2>1, <2>2, <2>3 DEF TypeOK
<1>3. CASE FindSecond(Main)
  <2>1. PICK l \in SendLabels : Goto(Main, l)
    BY <1>3 DEF FindSecond, SendLabels
  <2>2. /\ UNCHANGED <<plan, on, seen, stats, hist, seconds, buckets, written, files, next, report, walk, late>>
        /\ held' \in [{Main} \cup Workers -> Nat]
    <3>1. SecondOf(Main) \in Nat /\ seconds \in Seq(Nat) /\ held \in [{Main} \cup Workers -> Nat]
      BY <1>3, SecondFacts DEF TypeOK, FindSecond, SendLabels
    <3>2. SecondOf(Main) < Len(seconds) => seconds[SecondOf(Main) + 1] \in Nat
      BY <3>1
    <3> QED
      BY <1>3, <3>1, <3>2 DEF FindSecond
  <2> QED
    BY <1>L, <2>1, <2>2 DEF TypeOK
<1>4. CASE GrowSeries(Main)
  <2>1. Goto(Main, "bucket") /\ "bucket" \in SendLabels
    BY <1>4 DEF GrowSeries, SendLabels
  <2>2. UNCHANGED <<plan, on, seen, stats, hist, written, files, next, report, walk, late>>
    BY <1>4 DEF GrowSeries
  <2>3. /\ seconds' \in Seq(Nat) /\ buckets' \in Seq(Bucket)
        /\ held' = [held EXCEPT ![Main] = SecondOf(Main) + 1]
    BY <1>4, Grown
  <2>4. held' \in [{Main} \cup Workers -> Nat]
    <3>1. SecondOf(Main) \in Nat
      BY <1>4, SecondFacts DEF GrowSeries, SendLabels
    <3> QED
      BY <2>3, <3>1 DEF TypeOK
  <2> QED
    BY <1>L, <2>1, <2>2, <2>3, <2>4 DEF TypeOK
<1>5. CASE Start
  <2> DEFINE l == IF plan[next].outcome = "timeout" THEN "completed" ELSE "artifact"
  <2>1. /\ pc[Main] = "bucket" /\ next \in Workers /\ next \in Nat
        /\ held[Main] = SecondOf(Main) + 1 /\ held[Main] <= Len(buckets)
    BY <1>1, <1>5 DEF Start, Control, Series, SendLabels
  <2>2. /\ UNCHANGED <<plan, on, seen, held, stats, hist, seconds, written, files, report, walk, late>>
        /\ buckets' = [buckets EXCEPT ![held[Main]].sent = @ + 1]
        /\ next' = next + 1 /\ pc' = [pc EXCEPT ![Main] = "send", ![next] = l]
    BY <1>5 DEF Start
  <2>3. next' \in 1 .. Len(plan) + 1
    BY <1>1, <2>1, <2>2
  <2>4. buckets' \in Seq(Bucket)
    <3>1. buckets \in Seq(Bucket) /\ held[Main] \in 1 .. Len(buckets)
      BY <2>1, SecondFacts DEF TypeOK, SendLabels
    <3>2. buckets[held[Main]] \in Bucket
      BY <3>1
    <3> DEFINE e == [buckets[held[Main]] EXCEPT !.sent = @ + 1]
    <3>3. e \in Bucket /\ buckets' = [buckets EXCEPT ![held[Main]] = e]
      BY <2>2, <3>2 DEF Bucket
    <3> HIDE DEF e
    <3> QED
      BY <3>1, <3>3, ExceptSeq
  <2>5. l \in FileLabels /\ "send" \in SendLabels
    BY DEF FileLabels, SendLabels
  <2>6. /\ pc \in [{Main} \cup Workers -> SendLabels \cup ReadLabels \cup FileLabels]
        /\ \A w \in Workers : pc[w] \in FileLabels
    BY DEF TypeOK
  <2> HIDE DEF l
  <2>7. /\ pc' \in [{Main} \cup Workers -> SendLabels \cup ReadLabels \cup FileLabels]
        /\ pc'[Main] = "send" /\ \A w \in Workers : pc'[w] \in FileLabels
    BY <1>1, <2>1, <2>2, <2>5, <2>6
  <2>8. Workers' = Workers
    BY <2>2 DEF Workers
  <2> QED
    BY <2>2, <2>3, <2>4, <2>5, <2>7, <2>8 DEF TypeOK
<1>6. CASE Drain
  <2>1. Goto(Main, "sent") /\ "sent" \in ReadLabels
    BY <1>6 DEF Drain, ReadLabels
  <2>2. /\ UNCHANGED <<plan, on, seen, held, stats, hist, seconds, buckets, written, files, next, report, walk>>
        /\ late' \subseteq Workers
    BY <1>6 DEF Drain, Live
  <2> QED
    BY <1>L, <2>1, <2>2 DEF TypeOK
<1>7. CASE ReadCounters
  <2>1. /\ report' \in Report /\ \E l \in ReadLabels : Goto(Main, l)
        /\ UNCHANGED <<plan, on, seen, held, stats, hist, seconds, buckets, written, files, next,
                       walk, late>>
    BY <1>7, ReadFieldType
  <2> QED
    BY <1>L, <2>1 DEF TypeOK
<1>8. CASE WalkCounts
  <2> DEFINE c == hist[Reading].counts[walk.idx]
             cum == walk.cumulative + c
             f == Len(report.percentiles)
  <2>1. cum \in Nat /\ f \in 0 .. 2
    BY <1>8, WalkStep
  <2>2. PICK m \in f .. 3, more \in Seq(Nat) :
                    \/ /\ m < 3 /\ walk.idx + 1 \in Indices
                       /\ walk' = [idx |-> walk.idx + 1, cumulative |-> cum]
                       /\ report' = [report EXCEPT !.percentiles = more] /\ pc' = pc
                    \/ /\ m = 3 \/ walk.idx + 1 \notin Indices
                       /\ walk' = [idx |-> 0, cumulative |-> 0]
                       /\ report' = [report EXCEPT !.percentiles =
                                            more \o [k \in 1 .. 3 - m |-> report.max]]
                       /\ pc' = [pc EXCEPT ![Main] = "errors"]
    BY <1>8, WalkStep
  <2>3. UNCHANGED <<plan, on, seen, held, stats, hist, seconds, buckets, written, files, next, late>>
    BY <1>8 DEF WalkCounts
  <2> HIDE DEF cum, f
  <2>4. walk' \in [idx : Indices, cumulative : Nat]
    BY <2>1, <2>2, IndicesFacts
  <2>5. report \in Report /\ report.max \in Nat
    BY DEF TypeOK, Report
  <2>6. \A q \in Seq(Nat) : [report EXCEPT !.percentiles = q] \in Report
    BY <2>5 DEF Report
  <2>7. more \o [k \in 1 .. 3 - m |-> report.max] \in Seq(Nat)
    <3>1. 3 - m \in Nat
      BY <2>1
    <3> DEFINE d == 3 - m
               z == [k \in 1 .. d |-> report.max]
    <3>2. d \in Nat
      BY <3>1
    <3> HIDE DEF d
    <3>3. z \in Seq(Nat)
      BY <2>5, <3>2
    <3> HIDE DEF z
    <3>4. more \o z \in Seq(Nat)
      BY <3>3
    <3> QED
      BY <3>4 DEF z, d
  <2>8. report' \in Report
    BY <2>2, <2>6, <2>7
  <2>9. Goto(Main, "errors") \/ pc' = pc
    BY <2>2 DEF Goto
  <2>10. CASE Goto(Main, "errors")
    BY <1>L, <2>3, <2>4, <2>8, <2>10 DEF TypeOK, ReadLabels
  <2>11. CASE pc' = pc
    BY <2>3, <2>4, <2>8, <2>11 DEF TypeOK, Workers
  <2> QED
    BY <2>9, <2>10, <2>11
<1>9. CASE NextEntry
  <2>1. PICK l \in ReadLabels \cup {"done"} : Goto(Main, l)
    BY <1>9 DEF NextEntry, ReadLabels
  <2>2. UNCHANGED <<plan, seen, held, stats, hist, seconds, buckets, written, files, next, walk, late>>
    BY <1>9 DEF NextEntry
  <2>3. report' \in Report
    <3>1. << >> \in Seq(Nat) /\ NoErrors \in Errors
      BY DEF NoErrors, Errors
    <3>2. NoReport \in Report
      BY <3>1 DEF NoReport, Report
    <3> QED
      BY <1>9, <3>2 DEF NextEntry
  <2>4. on' = [on EXCEPT ![Main] = @ + 1] /\ on[Main] \in 1 .. Len(Names)
    BY <1>9 DEF NextEntry, Control, ReadLabels
  <2>5. on' \in [{Main} \cup Workers -> 1 .. Len(Names) + 1] /\ \A w \in Workers : on'[w] \in {1, 2}
    <3>1. /\ on \in [{Main} \cup Workers -> 1 .. Len(Names) + 1]
          /\ \A w \in Workers : on[w] \in {1, 2} /\ w # Main
      BY <1>1 DEF TypeOK
    <3>2. on[Main] + 1 \in 1 .. Len(Names) + 1
      BY <2>4, NamesFacts
    <3> QED
      BY <2>4, <3>1, <3>2
  <2> QED
    BY <1>L, <2>1, <2>2, <2>3, <2>5 DEF TypeOK
<1>10. CASE UNCHANGED vars
  BY <1>10 DEF TypeOK, vars, Workers
<1> QED
  BY <1>2, <1>3, <1>4, <1>5, <1>6, <1>7, <1>8, <1>9, <1>10 DEF MainNext, BuildSummary

-----------------------------------------------------------------------------
(* Who is where.                                                           *)

Series4 == {"second", "grow", "bucket", "done"}

\* What every step of a worker leaves alone, and where it takes it.
LEMMA WorkerFrame ==
    ASSUME TypeOK, Control, NEW w \in Workers, File(w)
    PROVE  /\ UNCHANGED <<plan, next, report, walk, late, Workers, Reading>>
           /\ pc[w] \notin {"idle", "done"} /\ pc'[w] \in FileLabels \ {"idle", "artifact"}
           /\ pc'[w] = "timeouts" => plan[w].outcome = "timeout"
           /\ on'[w] \in {1, 2} /\ (pc'[w] \in Series4 => on'[w] = 2)
           /\ \A x \in {Main} \cup Workers : x # w => pc'[x] = pc[x] /\ on'[x] = on[x]
           /\ pc'[Main] = pc[Main] /\ on'[Main] = on[Main]
<1>1. /\ plan \in Plans /\ pc \in [{Main} \cup Workers -> SendLabels \cup ReadLabels \cup FileLabels]
      /\ on \in [{Main} \cup Workers -> 1 .. Len(Names) + 1] /\ on[w] \in {1, 2}
      /\ Main \notin Workers
  BY PlanFacts DEF TypeOK
<1> DEFINE Lands(l) == /\ pc' = [pc EXCEPT ![w] = l] /\ l \in FileLabels \ {"idle", "artifact"}
                       /\ l = "timeouts" => plan[w].outcome = "timeout"
                       /\ on' = on \/ on' = [on EXCEPT ![w] = 2]
                       /\ l \in Series4 => on'[w] = 2
<1>2. /\ UNCHANGED <<plan, next, report, walk, late>> /\ pc[w] \notin {"idle", "done"}
      /\ \E l : Lands(l)
  <2>1. ASSUME NEW from, NEW to, NEW c, StatStep(w, from, to, c), from \notin {"idle", "done"},
               to \in (FileLabels \ (Series4 \cup {"idle", "artifact"})) \cup {"again"},
               to = "timeouts" => plan[w].outcome = "timeout"
        PROVE  /\ UNCHANGED <<plan, next, report, walk, late>> /\ pc[w] \notin {"idle", "done"}
               /\ \E l : Lands(l)
    <3> DEFINE l == IF to # "again" THEN to ELSE IF on[w] = 1 THEN "completed" ELSE "second"
    <3>1. pc' = [pc EXCEPT ![w] = l] /\ (on' = on \/ on' = [on EXCEPT ![w] = 2])
      BY <2>1 DEF StatStep, Goto
    <3>2. l \in FileLabels \ {"idle", "artifact"} /\ (l = "timeouts" => plan[w].outcome = "timeout")
      BY <2>1 DEF FileLabels
    <3>3. l \in Series4 => on'[w] = 2
      BY <1>1, <2>1 DEF StatStep, Series4
    <3>4. UNCHANGED <<plan, next, report, walk, late>> /\ pc[w] \notin {"idle", "done"}
      BY <2>1 DEF StatStep
    <3> HIDE DEF l
    <3> QED
      BY <3>1, <3>2, <3>3, <3>4
  <2>2. ASSUME NEW from, NEW to, NEW c, HistStep(w, from, to, c), from \notin {"idle", "done"},
               to \in FileLabels \ (Series4 \cup {"idle", "artifact", "timeouts"})
        PROVE  /\ UNCHANGED <<plan, next, report, walk, late>> /\ pc[w] \notin {"idle", "done"}
               /\ \E l : Lands(l)
    <3>1. pc' = [pc EXCEPT ![w] = to] /\ on' = on /\ UNCHANGED <<plan, next, report, walk, late>>
      BY <2>2 DEF HistStep, Goto
    <3>2. Lands(to)
      BY <2>2, <3>1
    <3>3. pc[w] \notin {"idle", "done"}
      BY <2>2 DEF HistStep
    <3> QED
      BY <3>1, <3>2, <3>3
  <2>3. ASSUME NEW l \in FileLabels \ {"idle", "artifact", "timeouts"}, Goto(w, l), on' = on,
               l \in Series4 => pc[w] \in Series4
        PROVE  \E k : Lands(k)
    <3>1. pc[w] \in Series4 => on[w] = 2
      BY DEF Control, Series4
    <3>2. Lands(l)
      BY <2>3, <3>1 DEF Goto
    <3> QED
      BY <3>2
  <2>4. CASE ClaimArtifact(w)
    <3>1. /\ UNCHANGED <<plan, on, next, report, walk, late>> /\ Goto(w, "completed")
          /\ pc[w] = "artifact"
      BY <2>4 DEF ClaimArtifact
    <3>2. "completed" \in FileLabels \ {"idle", "artifact", "timeouts"} /\ "completed" \notin Series4
      BY DEF FileLabels, Series4
    <3> QED
      BY <2>3, <3>1, <3>2
  <2>5. CASE AddCompleted(w)
    BY <2>1, <2>5 DEF AddCompleted, FileLabels, Series4
  <2>6. CASE AddCount(w)
    BY <2>2, <2>6 DEF AddCount, FileLabels, Series4
  <2>7. CASE AddSum(w)
    BY <2>2, <2>7 DEF AddSum, FileLabels, Series4
  <2>8. CASE LoadMin(w)
    <3>1. /\ UNCHANGED <<plan, on, next, report, walk, late>> /\ pc[w] = "min"
          /\ Goto(w, "max") \/ Goto(w, "swapMin")
      BY <2>8 DEF LoadMin
    <3>2. \A l \in {"max", "swapMin"} : l \in FileLabels \ {"idle", "artifact", "timeouts"} /\ l \notin Series4
      BY DEF FileLabels, Series4
    <3> QED
      BY <2>3, <3>1, <3>2
  <2>9. CASE SwapMin(w)
    BY <2>2, <2>9 DEF SwapMin, FileLabels, Series4
  <2>10. CASE LoadMax(w)
    <3>1. /\ UNCHANGED <<plan, on, next, report, walk, late>> /\ pc[w] = "max"
          /\ Goto(w, "outcome") \/ Goto(w, "swapMax")
      BY <2>10 DEF LoadMax
    <3>2. \A l \in {"outcome", "swapMax"} : l \in FileLabels \ {"idle", "artifact", "timeouts"} /\ l \notin Series4
      BY DEF FileLabels, Series4
    <3> QED
      BY <2>3, <3>1, <3>2
  <2>11. CASE SwapMax(w)
    BY <2>2, <2>11 DEF SwapMax, FileLabels, Series4
  <2>12. CASE RecordOutcome(w)
    BY <2>1, <2>12 DEF RecordOutcome, FileLabels, Series4
  <2>13. CASE AddSplit(w)
    BY <2>1, <2>13 DEF AddSplit, FileLabels, Series4
  <2>14. CASE AddTimeout(w)
    BY <2>1, <2>14 DEF AddTimeout, FileLabels, Series4
  <2>15. CASE FindSecond(w)
    <3>1. /\ UNCHANGED <<plan, on, next, report, walk, late>> /\ pc[w] = "second"
          /\ Goto(w, "bucket") \/ Goto(w, "grow")
      BY <2>15 DEF FindSecond
    <3>2. \A l \in {"bucket", "grow"} : l \in FileLabels \ {"idle", "artifact", "timeouts"}
      BY DEF FileLabels
    <3> QED
      BY <2>3, <3>1, <3>2 DEF Series4
  <2>16. CASE GrowSeries(w)
    <3>1. /\ UNCHANGED <<plan, on, next, report, walk, late>> /\ pc[w] = "grow" /\ Goto(w, "bucket")
      BY <2>16 DEF GrowSeries
    <3>2. "bucket" \in FileLabels \ {"idle", "artifact", "timeouts"}
      BY DEF FileLabels
    <3> QED
      BY <2>3, <3>1, <3>2 DEF Series4
  <2>17. CASE CountSecond(w)
    <3>1. /\ UNCHANGED <<plan, on, next, report, walk, late>> /\ pc[w] = "bucket" /\ Goto(w, "done")
      BY <2>17 DEF CountSecond
    <3>2. "done" \in FileLabels \ {"idle", "artifact", "timeouts"}
      BY DEF FileLabels
    <3> QED
      BY <2>3, <3>1, <3>2 DEF Series4
  <2> QED
    BY <2>4, <2>5, <2>6, <2>7, <2>8, <2>9, <2>10, <2>11, <2>12, <2>13, <2>14, <2>15, <2>16, <2>17
    DEF File
<1>3. PICK l : Lands(l)
  BY <1>2
<1>4. \A x \in {Main} \cup Workers : x # w => pc'[x] = pc[x] /\ on'[x] = on[x]
  BY <1>1, <1>3
<1>5. pc'[w] = l /\ on'[w] \in {1, 2}
  BY <1>1, <1>3
<1>6. pc'[Main] = pc[Main] /\ on'[Main] = on[Main]
  BY <1>1, <1>4
<1>7. UNCHANGED <<Workers, Reading>>
  BY <1>2, <1>6 DEF Workers, Reading
<1> QED
  BY <1>2, <1>3, <1>4, <1>5, <1>6, <1>7

\* What every step that is not a worker's leaves alone.
LEMMA MainFrame ==
    ASSUME TypeOK, Control, Walked, MainNext
    PROVE  /\ UNCHANGED <<plan, seen, hist, files, written, Workers>>
           /\ \A w \in Workers :
                 /\ on'[w] = on[w]
                 /\ \/ pc'[w] = pc[w]
                    \/ Start /\ w = next /\ pc[w] = "idle"
                       /\ pc'[w] = IF plan[w].outcome = "timeout" THEN "completed" ELSE "artifact"
<1>1. /\ plan \in Plans /\ pc \in [{Main} \cup Workers -> SendLabels \cup ReadLabels \cup FileLabels]
      /\ on \in [{Main} \cup Workers -> 1 .. Len(Names) + 1] /\ Main \notin Workers
  BY PlanFacts DEF TypeOK
<1>2. CASE Start
  <2>1. pc[Main] = "bucket" /\ next \in Workers
    BY <1>2 DEF Start, Control, SendLabels
  <2>2. pc[next] = "idle"
    <3>1. next >= next
      BY <2>1, <1>1, PlanFacts
    <3> QED
      BY <2>1, <3>1 DEF Control
  <2>3. /\ UNCHANGED <<plan, on, seen, hist, files, written>>
        /\ pc' = [pc EXCEPT ![Main] = "send",
                            ![next] = IF plan[next].outcome = "timeout" THEN "completed" ELSE "artifact"]
    BY <1>2 DEF Start
  <2> QED
    BY <1>1, <1>2, <2>1, <2>2, <2>3 DEF Workers
<1>3. CASE ~Start
  <2>1. /\ UNCHANGED <<plan, seen, hist, files, written>>
        /\ pc' = pc \/ \E l : pc' = [pc EXCEPT ![Main] = l]
        /\ on' = on \/ on' = [on EXCEPT ![Main] = @ + 1]
    <3>1. CASE Send
      BY <3>1 DEF Send, Goto
    <3>2. CASE FindSecond(Main)
      BY <3>2 DEF FindSecond, Goto
    <3>3. CASE GrowSeries(Main)
      BY <3>3 DEF GrowSeries, Goto
    <3>4. CASE Drain
      BY <3>4 DEF Drain, Goto
    <3>5. CASE ReadCounters
      <4>1. (\E l \in ReadLabels : Goto(Main, l)) /\ UNCHANGED <<plan, on, seen, hist, files, written>>
        BY <3>5, ReadFieldType
      <4> QED
        BY <4>1 DEF Goto
    <3>6. CASE WalkCounts
      <4>1. UNCHANGED <<plan, on, seen, hist, files, written>>
        BY <3>6 DEF WalkCounts
      <4>2. pc' = pc \/ pc' = [pc EXCEPT ![Main] = "errors"]
        BY <3>6, WalkStep
      <4> QED
        BY <4>1, <4>2
    <3>7. CASE NextEntry
      BY <3>7 DEF NextEntry, Goto
    <3>8. CASE UNCHANGED vars
      BY <3>8 DEF vars
    <3> QED
      BY <1>3, <3>1, <3>2, <3>3, <3>4, <3>5, <3>6, <3>7, <3>8 DEF MainNext, BuildSummary
  <2> QED
    BY <1>1, <2>1 DEF Workers
<1> QED
  BY <1>2, <1>3

\* A worker's step keeps the control.
LEMMA FileControl ==
    ASSUME TypeOK, Control, NEW w \in Workers, File(w)
    PROVE  Control'
<1>1. /\ UNCHANGED <<plan, next, report, walk, late, Workers, Reading>>
      /\ pc[w] \notin {"idle", "done"} /\ pc'[w] \in FileLabels \ {"idle", "artifact"}
      /\ pc'[w] = "timeouts" => plan[w].outcome = "timeout"
      /\ on'[w] \in {1, 2} /\ (pc'[w] \in Series4 => on'[w] = 2)
      /\ \A x \in {Main} \cup Workers : x # w => pc'[x] = pc[x] /\ on'[x] = on[x]
      /\ pc'[Main] = pc[Main] /\ on'[Main] = on[Main]
  BY WorkerFrame
<1>2. ~(w >= next)
  BY <1>1 DEF Control
<1>3. \A u \in Workers :
          /\ pc'[u] = "idle" <=> u >= next
          /\ pc'[u] \in {"idle", "artifact"} => on'[u] = 1
          /\ pc'[u] \in {"second", "grow", "bucket", "done"} => on'[u] = 2
          /\ pc'[u] = "timeouts" => plan[u].outcome = "timeout"
          /\ pc'[u] = "artifact" => plan[u].outcome # "timeout"
  <2>1. SUFFICES ASSUME NEW u \in Workers
                 PROVE  /\ pc'[u] = "idle" <=> u >= next
                        /\ pc'[u] \in {"idle", "artifact"} => on'[u] = 1
                        /\ pc'[u] \in {"second", "grow", "bucket", "done"} => on'[u] = 2
                        /\ pc'[u] = "timeouts" => plan[u].outcome = "timeout"
                        /\ pc'[u] = "artifact" => plan[u].outcome # "timeout"
    OBVIOUS
  <2>2. CASE u = w
    BY <1>1, <1>2, <2>2 DEF Series4
  <2>3. CASE u # w
    BY <1>1, <2>3 DEF Control
  <2> QED
    BY <2>2, <2>3
<1>4. pc[Main] \notin SendLabels => \A u \in Workers \ late : pc'[u] = "done"
  BY <1>1 DEF Control
<1> QED
  BY <1>1, <1>3, <1>4 DEF Control

\* And so does a step of main.
LEMMA MainControl ==
    ASSUME TypeOK, Control, Walked, MainNext
    PROVE  Control'
<1>1. /\ UNCHANGED <<plan, seen, hist, files, written, Workers>>
      /\ \A w \in Workers :
            /\ on'[w] = on[w]
            /\ \/ pc'[w] = pc[w]
               \/ Start /\ w = next /\ pc[w] = "idle"
                  /\ pc'[w] = IF plan[w].outcome = "timeout" THEN "completed" ELSE "artifact"
  BY MainFrame
<1>2. /\ plan \in Plans /\ pc \in [{Main} \cup Workers -> SendLabels \cup ReadLabels \cup FileLabels]
      /\ on \in [{Main} \cup Workers -> 1 .. Len(Names) + 1] /\ Main \notin Workers
      /\ pc[Main] \in SendLabels \cup ReadLabels \cup {"done"}
      /\ Workers = 1 .. Len(plan) /\ Len(plan) \in Nat /\ next \in 1 .. Len(plan) + 1
  BY PlanFacts DEF TypeOK
<1> DEFINE W(u) == /\ pc'[u] = "idle" <=> u >= next'
                   /\ pc'[u] \in {"idle", "artifact"} => on'[u] = 1
                   /\ pc'[u] \in {"second", "grow", "bucket", "done"} => on'[u] = 2
                   /\ pc'[u] = "timeouts" => plan[u].outcome = "timeout"
                   /\ pc'[u] = "artifact" => plan[u].outcome # "timeout"
<1>3. ASSUME ~Start, next' = next PROVE \A u \in Workers : W(u) /\ pc'[u] = pc[u]
  BY <1>1, <1>3 DEF Control
<1>4. ASSUME NEW l, pc' = [pc EXCEPT ![Main] = l] PROVE pc'[Main] = l
  BY <1>2, <1>4
<1>5. CASE Start
  <2>1. /\ pc[Main] = "bucket" /\ next \in Workers /\ next' = next + 1
        /\ UNCHANGED <<on, walk, late>>
        /\ pc' = [pc EXCEPT ![Main] = "send",
                            ![next] = IF plan[next].outcome = "timeout" THEN "completed" ELSE "artifact"]
    BY <1>5 DEF Start, Control, SendLabels
  <2>2. pc'[Main] = "send" /\ pc'[next] = IF plan[next].outcome = "timeout" THEN "completed" ELSE "artifact"
    BY <1>2, <2>1
  <2>3. \A u \in Workers : u # next => pc'[u] = pc[u]
    BY <1>1
  <2>4. pc[next] = "idle" /\ on[next] = 1
    BY <1>2, <2>1 DEF Control
  <2>5. \A u \in Workers : u # next => W(u)
    BY <1>1, <1>2, <2>1, <2>3 DEF Control
  <2>6. W(next)
    BY <1>1, <1>2, <2>1, <2>2, <2>4
  <2>7. late = {} /\ on[Main] = 1 /\ walk = [idx |-> 0, cumulative |-> 0]
    BY <2>1 DEF Control, SendLabels
  <2>8. "send" \in SendLabels /\ "send" \notin ReadLabels /\ "send" # "walk"
    BY DEF SendLabels, ReadLabels
  <2>9. \A u \in Workers : W(u)
    BY <2>5, <2>6
  <2>10. /\ pc'[Main] \in SendLabels /\ pc'[Main] \notin ReadLabels /\ pc'[Main] = "send"
         /\ on'[Main] = 1 /\ late' = {} /\ walk' = [idx |-> 0, cumulative |-> 0]
    BY <2>1, <2>2, <2>7, <2>8
  <2> QED
    BY <1>1, <2>9, <2>10 DEF Control
<1>6. CASE Send \/ FindSecond(Main) \/ GrowSeries(Main)
  <2>1. /\ pc[Main] \in SendLabels /\ pc[Main] # "walk" /\ UNCHANGED <<next, on, walk, late>> /\ ~Start
        /\ \E l \in SendLabels \ {"send"} : pc' = [pc EXCEPT ![Main] = l]
        /\ next \in Workers
    BY <1>6 DEF Send, FindSecond, GrowSeries, Start, Goto, SendLabels, Control
  <2>2. pc'[Main] \in SendLabels \ {"send"}
    BY <1>4, <2>1
  <2>3. late = {} /\ on[Main] = 1 /\ walk = [idx |-> 0, cumulative |-> 0]
    BY <2>1 DEF Control
  <2>4. pc'[Main] \notin ReadLabels /\ pc'[Main] # "walk"
    BY <2>2 DEF SendLabels, ReadLabels
  <2> QED
    BY <1>1, <1>3, <2>1, <2>2, <2>3, <2>4 DEF Control
<1>7. CASE Drain
  <2>1. /\ pc[Main] = "send" /\ next \notin Workers /\ UNCHANGED <<next, on, walk>> /\ ~Start
        /\ pc' = [pc EXCEPT ![Main] = "sent"] /\ late' = Live
    BY <1>7 DEF Drain, Start, Goto
  <2>2. pc'[Main] = "sent" /\ next = Len(plan) + 1
    BY <1>2, <1>4, <2>1
  <2>3. on[Main] = 1 /\ walk = [idx |-> 0, cumulative |-> 0]
    BY <2>1 DEF Control, SendLabels
  <2>4. \A u \in Workers \ late' : pc'[u] = "done"
    BY <1>3, <2>1 DEF Live
  <2>5. on[Main] \in 1 .. Len(Names) /\ "sent" \notin SendLabels
    BY <2>3, NamesFacts DEF SendLabels
  <2> QED
    BY <1>1, <1>3, <2>1, <2>2, <2>3, <2>4, <2>5 DEF Control
<1>8. CASE ReadCounters
  <2>1. /\ \E l \in ReadLabels : Goto(Main, l)
        /\ pc[Main] \in ReadLabels /\ UNCHANGED <<next, on, walk, late>>
    BY <1>8, ReadFieldType
  <2>2. ~Start /\ pc[Main] # "walk"
    BY <1>8, <2>1 DEF Start, ReadLabels, ReadCounters, ReadField
  <2>3. pc'[Main] \in ReadLabels
    BY <1>4, <2>1 DEF Goto
  <2>4. pc[Main] \notin SendLabels /\ pc'[Main] \notin SendLabels
    BY <2>1, <2>3 DEF SendLabels, ReadLabels
  <2> QED
    BY <1>1, <1>3, <2>1, <2>2, <2>3, <2>4 DEF Control
<1>9. CASE WalkCounts
  <2>1. pc[Main] = "walk" /\ UNCHANGED <<next, on, late>> /\ ~Start
    BY <1>9 DEF WalkCounts, Start
  <2>2. \/ pc' = pc
        \/ pc' = [pc EXCEPT ![Main] = "errors"] /\ walk' = [idx |-> 0, cumulative |-> 0]
    BY <1>9, WalkStep
  <2>3. pc'[Main] = "walk" \/ (pc'[Main] = "errors" /\ walk' = [idx |-> 0, cumulative |-> 0])
    BY <1>4, <2>1, <2>2
  <2>4. pc[Main] \notin SendLabels /\ pc'[Main] \notin SendLabels /\ pc[Main] \in ReadLabels
    BY <2>1, <2>3 DEF SendLabels, ReadLabels
  <2> QED
    BY <1>1, <1>3, <2>1, <2>3, <2>4 DEF Control
<1>10. CASE NextEntry
  <2>1. /\ pc[Main] = "entry" /\ UNCHANGED <<next, walk, late>> /\ ~Start
        /\ pc' = [pc EXCEPT ![Main] = IF on[Main] = Len(Names) THEN "done" ELSE "sent"]
        /\ on' = [on EXCEPT ![Main] = @ + 1] /\ on[Main] \in 1 .. Len(Names)
    BY <1>10 DEF NextEntry, Start, Goto, Control, ReadLabels
  <2>2. /\ pc'[Main] = IF on[Main] = Len(Names) THEN "done" ELSE "sent"
        /\ on'[Main] = on[Main] + 1
    BY <1>2, <1>4, <2>1
  <2>3. pc'[Main] \in ReadLabels => on'[Main] \in 1 .. Len(Names)
    BY <2>1, <2>2, NamesFacts DEF ReadLabels
  <2>4. pc[Main] \notin SendLabels /\ pc'[Main] \notin SendLabels /\ pc[Main] # "walk"
    BY <2>1, <2>2 DEF SendLabels
  <2> QED
    BY <1>1, <1>3, <2>1, <2>3, <2>4 DEF Control
<1>11. CASE UNCHANGED vars
  BY <1>11 DEF vars, Control, Workers
<1> QED
  BY <1>5, <1>6, <1>7, <1>8, <1>9, <1>10, <1>11 DEF MainNext, BuildSummary

\* Nobody is taken past a step.
Still == \A n \in StatNames, k \in 1 .. 9 : Done(n, k)' = Done(n, k)

\* Main takes nobody past a step.
LEMMA MainStill ==
    ASSUME TypeOK, Control, Walked, MainNext
    PROVE  Still
<1>1. /\ plan' = plan /\ Workers' = Workers
      /\ \A w \in Workers :
            /\ on'[w] = on[w]
            /\ pc'[w] = pc[w] \/ (pc[w] = "idle" /\ pc'[w] \in {"completed", "artifact"})
  BY MainFrame
<1>2. \A w \in Workers, k \in 1 .. 9 : StepOf(pc'[w]) > k <=> StepOf(pc[w]) > k
  BY <1>1, Steps
<1>3. ASSUME NEW n \in StatNames, NEW k \in 1 .. 9 PROVE Done(n, k)' = Done(n, k)
  <2>1. Done(n, k)' = {u \in Workers : \/ n = plan[u].stage /\ (on'[u] = 2 \/ StepOf(pc'[u]) > k)
                                       \/ n = "overall" /\ on'[u] = 2 /\ StepOf(pc'[u]) > k}
    BY <1>1 DEF Done
  <2> QED
    BY <1>1, <1>2, <2>1 DEF Done
<1> QED
  BY <1>3 DEF Still

\* A step on a histogram takes its worker past it.
LEMMA HistMoves ==
    ASSUME TypeOK, Control, NEW w \in Workers, NEW from, NEW to, NEW c,
           HistStep(w, from, to, c), StepOf(to) >= StepOf(from), StepOf(from) # 10
    PROVE  Moves(w, StepOf(from), StepOf(to) - 1) /\ pc[w] = from
<1>1. pc[w] = from /\ plan' = plan /\ on' = on /\ pc' = [pc EXCEPT ![w] = to]
  BY DEF HistStep, Goto
<1> QED
  BY <1>1, Onward

\* And so does one on the counters.
LEMMA StatMoves ==
    ASSUME TypeOK, Control, NEW w \in Workers, NEW from, NEW to, NEW c,
           StatStep(w, from, to, c), StepOf(from) \in 1 .. 9
    PROVE  /\ pc[w] = from
           /\ to # "again" /\ StepOf(to) >= StepOf(from) => Moves(w, StepOf(from), StepOf(to) - 1)
           /\ to = "again" => Moves(w, StepOf(from), 9)
<1>1. pc[w] = from /\ plan' = plan
  BY DEF StatStep
<1>2. ASSUME to # "again", StepOf(to) >= StepOf(from) PROVE Moves(w, StepOf(from), StepOf(to) - 1)
  <2>1. on' = on /\ pc' = [pc EXCEPT ![w] = to] /\ StepOf(from) # 10
    BY <1>2 DEF StatStep, Goto
  <2> QED
    BY <1>1, <1>2, <2>1, Onward
<1>3. ASSUME to = "again" PROVE Moves(w, StepOf(from), 9)
  <2>1. /\ on' = [on EXCEPT ![w] = 2]
        /\ pc' = [pc EXCEPT ![w] = IF on[w] = 1 THEN "completed" ELSE "second"]
    BY <1>3 DEF StatStep, Goto
  <2> QED
    BY <1>1, <2>1, Around
<1> QED
  BY <1>1, <1>2, <1>3

\* The series comes after the last step.
LEMMA SeriesStill ==
    ASSUME TypeOK, Control, NEW w \in Workers,
           FindSecond(w) \/ GrowSeries(w) \/ CountSecond(w)
    PROVE  Still
<1>1. /\ plan' = plan /\ on' = on /\ Workers' = Workers
      /\ \E l \in Series4 : pc' = [pc EXCEPT ![w] = l] /\ pc[w] \in Series4
  BY DEF FindSecond, GrowSeries, CountSecond, Goto, Series4, Workers
<1>2. pc \in [{Main} \cup Workers -> SendLabels \cup ReadLabels \cup FileLabels]
  BY DEF TypeOK
<1>3. \A u \in Workers : StepOf(pc'[u]) = StepOf(pc[u])
  BY <1>1, <1>2, Steps DEF Series4
<1>4. ASSUME NEW n \in StatNames, NEW k \in 1 .. 9 PROVE Done(n, k)' = Done(n, k)
  <2>1. Done(n, k)' = {u \in Workers : \/ n = plan[u].stage /\ (on[u] = 2 \/ StepOf(pc'[u]) > k)
                                       \/ n = "overall" /\ on[u] = 2 /\ StepOf(pc'[u]) > k}
    BY <1>1 DEF Done
  <2> QED
    BY <1>3, <2>1 DEF Done
<1> QED
  BY <1>4 DEF Still

-----------------------------------------------------------------------------
(* The counters.                                                           *)

\* One more element.
LEMMA OneMore ==
    ASSUME NEW T, NEW x, IsFiniteSet(T), x \notin T
    PROVE  Cardinality(T \cup {x}) = Cardinality(T) + 1 /\ Cardinality(T) \in Nat
BY FS_AddElement, FS_CardinalityType

\* The workers past a step are workers of the StageStats.
LEMMA DoneFacts ==
    ASSUME TypeOK, NEW n \in StatNames, NEW k \in 1 .. 9
    PROVE  /\ Done(n, k) \subseteq Of(n) /\ Of(n) \subseteq Workers /\ IsFiniteSet(Of(n))
           /\ \A T \in SUBSET Of(n) : IsFiniteSet(T) /\ Cardinality(T) \in Nat
<1>1. Done(n, k) \subseteq Of(n) /\ Of(n) \subseteq Workers
  BY DEF Done, Of
<1>2. IsFiniteSet(Workers)
  BY PlanFacts DEF TypeOK
<1>3. \A T \in SUBSET Of(n) : IsFiniteSet(T)
  BY <1>1, <1>2, FS_Subset
<1> QED
  BY <1>1, <1>3, FS_CardinalityType

\* Counters and workers unchanged.
LEMMA CountedSame ==
    ASSUME NEW n \in StatNames, CountedAt(n), plan' = plan,
           \A k \in {1, 7, 8, 9} : Done(n, k)' = Done(n, k),
           stats'[n].completed = stats[n].completed, stats'[n].errors = stats[n].errors,
           stats'[n].success = stats[n].success, stats'[n].failure = stats[n].failure,
           stats'[n].timeouts = stats[n].timeouts
    PROVE  CountedAt(n)'
<1>1. /\ Done(n, 1)' = Done(n, 1) /\ Done(n, 7)' = Done(n, 7)
      /\ Done(n, 8)' = Done(n, 8) /\ Done(n, 9)' = Done(n, 9)
  OBVIOUS
<1>2. \A w : Succeeded(w)' <=> Succeeded(w)
  BY DEF Succeeded
<1> QED
  BY <1>1, <1>2 DEF CountedAt

\* The steps of a worker that leave the counters alone.
LEMMA ElseMoves ==
    ASSUME TypeOK, Control, NEW w \in Workers,
           \/ ClaimArtifact(w) \/ AddCount(w) \/ AddSum(w) \/ LoadMin(w) \/ SwapMin(w)
           \/ LoadMax(w) \/ SwapMax(w) \/ FindSecond(w) \/ GrowSeries(w) \/ CountSecond(w)
    PROVE  /\ stats' = stats
           /\ ClaimArtifact(w) => Moves(w, 0, 0)
           /\ AddCount(w) => Moves(w, 2, 2) \/ Moves(w, 3, 3)
           /\ AddSum(w) => Moves(w, 4, 4)
           /\ LoadMin(w) \/ SwapMin(w) => Moves(w, 5, 5) \/ Moves(w, 5, 4)
           /\ LoadMax(w) \/ SwapMax(w) => Moves(w, 6, 6) \/ Moves(w, 6, 5)
           /\ FindSecond(w) \/ GrowSeries(w) \/ CountSecond(w) => Still
<1>1. stats' = stats
  BY DEF ClaimArtifact, AddCount, AddSum, LoadMin, SwapMin, LoadMax, SwapMax, FindSecond,
         GrowSeries, CountSecond, HistStep
<1>2. ASSUME ClaimArtifact(w) PROVE Moves(w, 0, 0)
  <2>1. pc[w] = "artifact" /\ plan' = plan /\ on' = on /\ pc' = [pc EXCEPT ![w] = "completed"]
    BY <1>2 DEF ClaimArtifact, Goto
  <2>2. Moves(w, StepOf("artifact"), StepOf("completed") - 1)
    <3>1. StepOf("completed") >= StepOf("artifact") /\ StepOf("artifact") # 10
      BY Steps
    <3> QED
      BY <2>1, <3>1, Onward
  <2> QED
    BY <2>2, Steps
<1>3. ASSUME AddCount(w) PROVE Moves(w, 2, 2) \/ Moves(w, 3, 3)
  <2>1. \E c : HistStep(w, "counts", "total", c) \/ HistStep(w, "total", "sum", c)
    BY <1>3 DEF AddCount
  <2>2. \/ Moves(w, StepOf("counts"), StepOf("total") - 1)
        \/ Moves(w, StepOf("total"), StepOf("sum") - 1)
    BY <2>1, Steps, HistMoves
  <2> QED
    BY <2>2, Steps
<1>4. ASSUME AddSum(w) PROVE Moves(w, 4, 4)
  <2>1. \E c : HistStep(w, "sum", "min", c)
    BY <1>4 DEF AddSum
  <2>2. Moves(w, StepOf("sum"), StepOf("min") - 1)
    BY <2>1, Steps, HistMoves
  <2> QED
    BY <2>2, Steps
<1>5. ASSUME LoadMin(w) PROVE Moves(w, 5, 5) \/ Moves(w, 5, 4)
  <2>1. /\ pc[w] = "min" /\ plan' = plan /\ on' = on
        /\ pc' = [pc EXCEPT ![w] = "max"] \/ pc' = [pc EXCEPT ![w] = "swapMin"]
    BY <1>5 DEF LoadMin, Goto
  <2>2. \/ Moves(w, StepOf("min"), StepOf("max") - 1)
        \/ Moves(w, StepOf("min"), StepOf("swapMin") - 1)
    BY <2>1, Steps, Onward
  <2> QED
    BY <2>2, Steps
<1>6. ASSUME SwapMin(w) PROVE Moves(w, 5, 5) \/ Moves(w, 5, 4)
  <2>1. \E c : HistStep(w, "swapMin", "max", c) \/ HistStep(w, "swapMin", "min", c)
    BY <1>6 DEF SwapMin
  <2>2. \/ Moves(w, StepOf("swapMin"), StepOf("max") - 1)
        \/ Moves(w, StepOf("swapMin"), StepOf("min") - 1)
    BY <2>1, Steps, HistMoves
  <2> QED
    BY <2>2, Steps
<1>7. ASSUME LoadMax(w) PROVE Moves(w, 6, 6) \/ Moves(w, 6, 5)
  <2>1. /\ pc[w] = "max" /\ plan' = plan /\ on' = on
        /\ pc' = [pc EXCEPT ![w] = "outcome"] \/ pc' = [pc EXCEPT ![w] = "swapMax"]
    BY <1>7 DEF LoadMax, Goto
  <2>2. \/ Moves(w, StepOf("max"), StepOf("outcome") - 1)
        \/ Moves(w, StepOf("max"), StepOf("swapMax") - 1)
    BY <2>1, Steps, Onward
  <2> QED
    BY <2>2, Steps
<1>8. ASSUME SwapMax(w) PROVE Moves(w, 6, 6) \/ Moves(w, 6, 5)
  <2>1. \E c : HistStep(w, "swapMax", "outcome", c) \/ HistStep(w, "swapMax", "max", c)
    BY <1>8 DEF SwapMax
  <2>2. \/ Moves(w, StepOf("swapMax"), StepOf("outcome") - 1)
        \/ Moves(w, StepOf("swapMax"), StepOf("max") - 1)
    BY <2>1, Steps, HistMoves
  <2> QED
    BY <2>2, Steps
<1> QED
  BY <1>1, <1>2, <1>3, <1>4, <1>5, <1>6, <1>7, <1>8, SeriesStill

\* The steps on the counters.
LEMMA StatSteps ==
    ASSUME TypeOK, Control, NEW w \in Workers
    PROVE  /\ AddCompleted(w) => Moves(w, 1, 1)
           /\ RecordOutcome(w) => Moves(w, 7, 7)
           /\ AddSplit(w) => IF plan[w].outcome = "timeout" THEN Moves(w, 8, 8) ELSE Moves(w, 8, 9)
           /\ AddTimeout(w) => Moves(w, 9, 9) /\ plan[w].outcome = "timeout"
<1>1. ASSUME AddCompleted(w) PROVE Moves(w, 1, 1)
  <2>1. \E c : StatStep(w, "completed", "counts", c)
    BY <1>1 DEF AddCompleted
  <2>2. Moves(w, StepOf("completed"), StepOf("counts") - 1)
    BY <2>1, Steps, StatMoves
  <2> QED
    BY <2>2, Steps
<1>2. ASSUME RecordOutcome(w) PROVE Moves(w, 7, 7)
  <2>1. \E c : StatStep(w, "outcome", "split", c)
    BY <1>2 DEF RecordOutcome
  <2>2. Moves(w, StepOf("outcome"), StepOf("split") - 1)
    BY <2>1, Steps, StatMoves
  <2> QED
    BY <2>2, Steps
<1>3. ASSUME AddSplit(w)
      PROVE IF plan[w].outcome = "timeout" THEN Moves(w, 8, 8) ELSE Moves(w, 8, 9)
  <2>1. \E c : IF plan[w].outcome = "timeout" THEN StatStep(w, "split", "timeouts", c)
               ELSE StatStep(w, "split", "again", c)
    BY <1>3 DEF AddSplit, Succeeded
  <2>2. IF plan[w].outcome = "timeout" THEN Moves(w, StepOf("split"), StepOf("timeouts") - 1)
        ELSE Moves(w, StepOf("split"), 9)
    BY <2>1, Steps, StatMoves
  <2> QED
    BY <2>2, Steps
<1>4. ASSUME AddTimeout(w) PROVE Moves(w, 9, 9) /\ plan[w].outcome = "timeout"
  <2>1. (\E c : StatStep(w, "timeouts", "again", c)) /\ pc[w] = "timeouts"
    BY <1>4 DEF AddTimeout, StatStep
  <2>2. Moves(w, StepOf("timeouts"), 9)
    BY <2>1, Steps, StatMoves
  <2> QED
    BY <2>1, <2>2, Steps DEF Control
<1> QED
  BY <1>1, <1>2, <1>3, <1>4

\* The counters stay what the workers make of them: steps other than on them.
LEMMA CountedElse ==
    ASSUME TypeOK, Control, Walked, Counted,
           MainNext \/ \E w \in Workers :
               \/ ClaimArtifact(w) \/ AddCount(w) \/ AddSum(w) \/ LoadMin(w) \/ SwapMin(w)
               \/ LoadMax(w) \/ SwapMax(w) \/ FindSecond(w) \/ GrowSeries(w) \/ CountSecond(w)
    PROVE  Counted'
<1>1. CASE MainNext
  <2>1. plan' = plan /\ Still
    BY <1>1, MainFrame, MainStill
  <2>2. stats' = stats \/ Send
    BY <1>1, ReadFieldType DEF MainNext, BuildSummary, FindSecond, GrowSeries, Start, Drain,
         WalkCounts, NextEntry, vars
  <2>3. \A n \in StatNames : /\ stats'[n].completed = stats[n].completed
                             /\ stats'[n].errors = stats[n].errors
                             /\ stats'[n].success = stats[n].success
                             /\ stats'[n].failure = stats[n].failure
                             /\ stats'[n].timeouts = stats[n].timeouts
    <3>1. CASE stats' = stats
      BY <3>1
    <3>2. CASE Send
      <4>1. stats \in [StatNames -> StageStats]
        BY DEF TypeOK
      <4>2. \A n \in StatNames : \/ stats'[n] = stats[n]
                                 \/ stats'[n] = [stats[n] EXCEPT !.sent = @ + 1]
        <5>1. stats' = [n \in StatNames |->
                          IF n \in {plan[next].stage, "overall"}
                          THEN [stats[n] EXCEPT !.sent = @ + 1] ELSE stats[n]]
          BY <3>2, <4>1 DEF Send
        <5> QED
          BY <5>1
      <4>3. ASSUME NEW s \in StageStats, NEW t, t = s \/ t = [s EXCEPT !.sent = @ + 1]
            PROVE /\ t.completed = s.completed /\ t.errors = s.errors /\ t.success = s.success
                  /\ t.failure = s.failure /\ t.timeouts = s.timeouts
        BY <4>3 DEF StageStats
      <4>4. \A n \in StatNames : stats[n] \in StageStats
        BY <4>1
      <4> QED
        BY <4>2, <4>3, <4>4
    <3> QED
      BY <2>2, <3>1, <3>2
  <2>4. \A n \in StatNames, k \in {1, 7, 8, 9} : Done(n, k)' = Done(n, k)
    BY <2>1 DEF Still
  <2> QED
    BY <2>1, <2>3, <2>4, CountedSame DEF Counted
<1>2. CASE \E w \in Workers :
               \/ ClaimArtifact(w) \/ AddCount(w) \/ AddSum(w) \/ LoadMin(w) \/ SwapMin(w)
               \/ LoadMax(w) \/ SwapMax(w) \/ FindSecond(w) \/ GrowSeries(w) \/ CountSecond(w)
  <2>1. PICK w \in Workers :
               \/ ClaimArtifact(w) \/ AddCount(w) \/ AddSum(w) \/ LoadMin(w) \/ SwapMin(w)
               \/ LoadMax(w) \/ SwapMax(w) \/ FindSecond(w) \/ GrowSeries(w) \/ CountSecond(w)
    BY <1>2
  <2>2. plan' = plan /\ stats' = stats
    BY <2>1, WorkerFrame, ElseMoves DEF File
  <2>3. \/ Still \/ Moves(w, 0, 0) \/ Moves(w, 2, 2) \/ Moves(w, 3, 3) \/ Moves(w, 4, 4)
        \/ Moves(w, 5, 5) \/ Moves(w, 5, 4) \/ Moves(w, 6, 6) \/ Moves(w, 6, 5)
    BY <2>1, ElseMoves
  <2>4. \A n \in StatNames, k \in {1, 7, 8, 9} : Done(n, k)' = Done(n, k)
    BY <2>3 DEF Still, Moves
  <2> QED
    BY <2>2, <2>4, CountedSame DEF Counted
<1> QED
  BY <1>1, <1>2

\* And the steps on them.
LEMMA CountedStep ==
    ASSUME TypeOK, Control, Counted, NEW w \in Workers,
           AddCompleted(w) \/ RecordOutcome(w) \/ AddSplit(w) \/ AddTimeout(w)
    PROVE  Counted'
<1>m. PICK m \in StatNames : m = Stat(w)
  BY StatFacts
<1> DEFINE s == stats[m]
<1>1. /\ m \in StatNames /\ s \in StageStats /\ stats \in [StatNames -> StageStats]
      /\ plan[w].outcome \in Outcomes /\ plan' = plan
  BY <1>m, StatFacts, PlanFacts, WorkerFrame DEF TypeOK, File
<1>2. PICK c : stats' = [stats EXCEPT ![m] = c]
  BY <1>m DEF AddCompleted, RecordOutcome, AddSplit, AddTimeout, StatStep
<1>3. \A n \in StatNames : stats'[n] = IF n = m THEN c ELSE stats[n]
  BY <1>1, <1>2
<1>4. /\ AddCompleted(w) => Moves(w, 1, 1)
      /\ RecordOutcome(w) => Moves(w, 7, 7)
      /\ AddSplit(w) => IF plan[w].outcome = "timeout" THEN Moves(w, 8, 8) ELSE Moves(w, 8, 9)
      /\ AddTimeout(w) => Moves(w, 9, 9) /\ plan[w].outcome = "timeout"
  BY StatSteps
<1>5. ASSUME NEW n \in StatNames, n # m PROVE CountedAt(n)'
  <2>1. \A k \in {1, 7, 8, 9} : Done(n, k)' = Done(n, k)
    BY <1>m, <1>4, <1>5 DEF Moves
  <2>2. stats'[n] = stats[n] /\ CountedAt(n)
    BY <1>3, <1>5 DEF Counted
  <2> QED
    BY <1>1, <2>1, <2>2, CountedSame
<1>6. CountedAt(m) /\ stats'[m] = c
  BY <1>1, <1>3 DEF Counted
<1>7. \A T \in SUBSET Of(m) : IsFiniteSet(T) /\ Cardinality(T) \in Nat
  BY <1>1, DoneFacts
<1>8. Done(m, 1) \subseteq Of(m) /\ Done(m, 7) \subseteq Of(m) /\ Done(m, 8) \subseteq Of(m) /\ Done(m, 9) \subseteq Of(m)
  BY <1>1, DoneFacts
<1>9. \A u : Succeeded(u)' <=> Succeeded(u)
  BY <1>1 DEF Succeeded
<1> HIDE DEF s
<1>10. ASSUME AddCompleted(w) PROVE CountedAt(m)'
  <2>1. stats' = [stats EXCEPT ![m] = [s EXCEPT !.completed = @ + 1]]
    BY <1>m, <1>10 DEF AddCompleted, StatStep, s
  <2>2. /\ stats'[m].completed = s.completed + 1 /\ stats'[m].errors = s.errors
        /\ stats'[m].success = s.success /\ stats'[m].failure = s.failure
        /\ stats'[m].timeouts = s.timeouts
    BY <1>1, <2>1 DEF StageStats
  <2>3. /\ Done(m, 1)' = Done(m, 1) \cup {w} /\ w \notin Done(m, 1)
        /\ Done(m, 7)' = Done(m, 7) /\ Done(m, 8)' = Done(m, 8) /\ Done(m, 9)' = Done(m, 9)
    BY <1>m, <1>1, <1>4, <1>10 DEF Moves
  <2>4. stats'[m].completed = Cardinality(Done(m, 1)')
    <3>1. Cardinality(Done(m, 1) \cup {w}) = Cardinality(Done(m, 1)) + 1
      BY <1>7, <1>8, <2>3, OneMore
    <3>2. s.completed = Cardinality(Done(m, 1))
      BY <1>6 DEF CountedAt, s
    <3> QED
      BY <2>2, <2>3, <3>1, <3>2
  <2>5. \A o \in Outcomes :
           stats'[m].errors[o] = Cardinality({u \in Done(m, 7)' : plan'[u].outcome = o})
    BY <1>1, <1>6, <1>9, <2>2, <2>3 DEF CountedAt, s
  <2>6. /\ stats'[m].success = Cardinality({u \in Done(m, 8)' : Succeeded(u)'})
        /\ stats'[m].failure = Cardinality({u \in Done(m, 8)' : ~Succeeded(u)'})
    BY <1>1, <1>6, <1>9, <2>2, <2>3 DEF CountedAt, s
  <2>7. stats'[m].timeouts = Cardinality({u \in Done(m, 9)' : plan'[u].outcome = "timeout"})
    BY <1>1, <1>6, <1>9, <2>2, <2>3 DEF CountedAt, s
  <2> QED
    BY <2>4, <2>5, <2>6, <2>7 DEF CountedAt
<1>11. ASSUME RecordOutcome(w) PROVE CountedAt(m)'
  <2>1. stats' = [stats EXCEPT ![m] = [s EXCEPT !.errors[plan[w].outcome] = @ + 1]]
    BY <1>m, <1>11 DEF RecordOutcome, StatStep, s
  <2>2. /\ stats'[m].completed = s.completed
        /\ stats'[m].success = s.success /\ stats'[m].failure = s.failure
        /\ stats'[m].timeouts = s.timeouts
        /\ stats'[m].errors = [s.errors EXCEPT ![plan[w].outcome] = @ + 1]
    BY <1>1, <2>1 DEF StageStats
  <2>3. /\ Done(m, 7)' = Done(m, 7) \cup {w} /\ w \notin Done(m, 7)
        /\ Done(m, 1)' = Done(m, 1) /\ Done(m, 8)' = Done(m, 8) /\ Done(m, 9)' = Done(m, 9)
    BY <1>m, <1>1, <1>4, <1>11 DEF Moves
  <2>4. ASSUME NEW o \in Outcomes
        PROVE stats'[m].errors[o] = Cardinality({u \in Done(m, 7)' : plan'[u].outcome = o})
    <3> DEFINE T == {u \in Done(m, 7) : plan[u].outcome = o}
    <3>1. s.errors[o] = Cardinality(T) /\ s.errors \in [Outcomes -> Nat]
      BY <1>1, <1>6 DEF CountedAt, s, StageStats, Errors
    <3>2. IsFiniteSet(T) /\ w \notin T
      BY <1>7, <1>8, <2>3
    <3>3. {u \in Done(m, 7)' : plan'[u].outcome = o} = IF o = plan[w].outcome THEN T \cup {w} ELSE T
      BY <1>1, <2>3
    <3>4. stats'[m].errors[o] = IF o = plan[w].outcome THEN s.errors[o] + 1 ELSE s.errors[o]
      BY <1>1, <2>2, <3>1
    <3> HIDE DEF T
    <3>5. Cardinality(T \cup {w}) = Cardinality(T) + 1
      BY <3>2, OneMore
    <3> QED
      BY <3>1, <3>3, <3>4, <3>5
  <2>5. stats'[m].completed = Cardinality(Done(m, 1)')
    BY <1>1, <1>6, <1>9, <2>2, <2>3 DEF CountedAt, s
  <2>6. /\ stats'[m].success = Cardinality({u \in Done(m, 8)' : Succeeded(u)'})
        /\ stats'[m].failure = Cardinality({u \in Done(m, 8)' : ~Succeeded(u)'})
    BY <1>1, <1>6, <1>9, <2>2, <2>3 DEF CountedAt, s
  <2>7. stats'[m].timeouts = Cardinality({u \in Done(m, 9)' : plan'[u].outcome = "timeout"})
    BY <1>1, <1>6, <1>9, <2>2, <2>3 DEF CountedAt, s
  <2> QED
    BY <2>4, <2>5, <2>6, <2>7 DEF CountedAt
<1>12. ASSUME AddSplit(w) PROVE CountedAt(m)'
  <2>1. stats' = [stats EXCEPT ![m] = IF Succeeded(w) THEN [s EXCEPT !.success = @ + 1]
                                       ELSE [s EXCEPT !.failure = @ + 1]]
    BY <1>m, <1>12 DEF AddSplit, StatStep, s
  <2>2. /\ stats'[m].completed = s.completed /\ stats'[m].errors = s.errors
        /\ stats'[m].timeouts = s.timeouts
        /\ stats'[m].success = (IF Succeeded(w) THEN s.success + 1 ELSE s.success)
        /\ stats'[m].failure = (IF Succeeded(w) THEN s.failure ELSE s.failure + 1)
    <3>1. /\ Succeeded(w) => stats'[m] = [s EXCEPT !.success = @ + 1]
          /\ ~Succeeded(w) => stats'[m] = [s EXCEPT !.failure = @ + 1]
      BY <1>1, <2>1
    <3> QED
      BY <1>1, <3>1 DEF StageStats
  <2>3. /\ Done(m, 8)' = Done(m, 8) \cup {w} /\ w \notin Done(m, 8)
        /\ Done(m, 1)' = Done(m, 1) /\ Done(m, 7)' = Done(m, 7)
        /\ Done(m, 9)' = IF plan[w].outcome = "timeout" THEN Done(m, 9) ELSE Done(m, 9) \cup {w}
    BY <1>m, <1>1, <1>4, <1>12 DEF Moves
  <2> DEFINE S == {u \in Done(m, 8) : Succeeded(u)}
             F == {u \in Done(m, 8) : ~Succeeded(u)}
  <2>4. /\ IsFiniteSet(S) /\ IsFiniteSet(F) /\ w \notin S /\ w \notin F
        /\ s.success = Cardinality(S) /\ s.failure = Cardinality(F)
    BY <1>6, <1>7, <1>8, <2>3 DEF CountedAt, s
  <2>5. /\ {u \in Done(m, 8)' : Succeeded(u)'} = IF Succeeded(w) THEN S \cup {w} ELSE S
        /\ {u \in Done(m, 8)' : ~Succeeded(u)'} = IF Succeeded(w) THEN F ELSE F \cup {w}
    BY <1>9, <2>3
  <2>6. {u \in Done(m, 9)' : plan'[u].outcome = "timeout"} = {u \in Done(m, 9) : plan[u].outcome = "timeout"}
    BY <1>1, <2>3
  <2> HIDE DEF S, F
  <2>7. Cardinality(S \cup {w}) = Cardinality(S) + 1 /\ Cardinality(F \cup {w}) = Cardinality(F) + 1
    BY <2>4, OneMore
  <2>8. /\ stats'[m].success = Cardinality({u \in Done(m, 8)' : Succeeded(u)'})
        /\ stats'[m].failure = Cardinality({u \in Done(m, 8)' : ~Succeeded(u)'})
    BY <2>2, <2>4, <2>5, <2>7
  <2>9. stats'[m].completed = Cardinality(Done(m, 1)')
    BY <1>1, <1>6, <1>9, <2>2, <2>3, <2>6 DEF CountedAt, s
  <2>10. \A o \in Outcomes :
           stats'[m].errors[o] = Cardinality({u \in Done(m, 7)' : plan'[u].outcome = o})
    BY <1>1, <1>6, <1>9, <2>2, <2>3, <2>6 DEF CountedAt, s
  <2>11. stats'[m].timeouts = Cardinality({u \in Done(m, 9)' : plan'[u].outcome = "timeout"})
    BY <1>1, <1>6, <1>9, <2>2, <2>3, <2>6 DEF CountedAt, s
  <2> QED
    BY <2>8, <2>9, <2>10, <2>11 DEF CountedAt
<1>13. ASSUME AddTimeout(w) PROVE CountedAt(m)'
  <2>1. stats' = [stats EXCEPT ![m] = [s EXCEPT !.timeouts = @ + 1]]
    BY <1>m, <1>13 DEF AddTimeout, StatStep, s
  <2>2. /\ stats'[m].completed = s.completed /\ stats'[m].errors = s.errors
        /\ stats'[m].success = s.success /\ stats'[m].failure = s.failure
        /\ stats'[m].timeouts = s.timeouts + 1
    BY <1>1, <2>1 DEF StageStats
  <2>3. /\ Done(m, 9)' = Done(m, 9) \cup {w} /\ w \notin Done(m, 9)
        /\ Done(m, 1)' = Done(m, 1) /\ Done(m, 7)' = Done(m, 7) /\ Done(m, 8)' = Done(m, 8)
    BY <1>m, <1>1, <1>4, <1>13 DEF Moves
  <2> DEFINE T == {u \in Done(m, 9) : plan[u].outcome = "timeout"}
  <2>4. IsFiniteSet(T) /\ w \notin T /\ s.timeouts = Cardinality(T)
    BY <1>6, <1>7, <1>8, <2>3 DEF CountedAt, s
  <2>5. {u \in Done(m, 9)' : plan'[u].outcome = "timeout"} = T \cup {w}
    BY <1>1, <1>4, <1>13, <2>3
  <2> HIDE DEF T
  <2>6. Cardinality(T \cup {w}) = Cardinality(T) + 1
    BY <2>4, OneMore
  <2>7. stats'[m].timeouts = Cardinality({u \in Done(m, 9)' : plan'[u].outcome = "timeout"})
    BY <2>2, <2>4, <2>5, <2>6
  <2>8. stats'[m].completed = Cardinality(Done(m, 1)')
    BY <1>1, <1>6, <1>9, <2>2, <2>3 DEF CountedAt, s
  <2>9. \A o \in Outcomes :
           stats'[m].errors[o] = Cardinality({u \in Done(m, 7)' : plan'[u].outcome = o})
    BY <1>1, <1>6, <1>9, <2>2, <2>3 DEF CountedAt, s
  <2>10. /\ stats'[m].success = Cardinality({u \in Done(m, 8)' : Succeeded(u)'})
        /\ stats'[m].failure = Cardinality({u \in Done(m, 8)' : ~Succeeded(u)'})
    BY <1>1, <1>6, <1>9, <2>2, <2>3 DEF CountedAt, s
  <2> QED
    BY <2>7, <2>8, <2>9, <2>10 DEF CountedAt
<1>14. CountedAt(m)'
  BY <1>10, <1>11, <1>12, <1>13
<1> QED
  BY <1>5, <1>14 DEF Counted

\* Main's count is ahead of the workers by the attempt it is sending.
LEMMA SentStep ==
    ASSUME TypeOK, Control, Walked, Sent, MainNext \/ \E w \in Workers : File(w)
    PROVE  Sent'
<1>1. /\ plan \in Plans /\ Workers = 1 .. Len(plan) /\ Len(plan) \in Nat
      /\ stats \in [StatNames -> StageStats] /\ next \in 1 .. Len(plan) + 1
      /\ \A w \in Workers : plan[w].stage # "overall"
      /\ pc \in [{Main} \cup Workers -> SendLabels \cup ReadLabels \cup FileLabels]
  BY PlanFacts DEF TypeOK
<1> DEFINE Ahead(n) == {w \in Of(n) : w < next \/ (w = next /\ pc[Main] # "send")}
<1>2. plan' = plan /\ \A n : Of(n)' = Of(n)
  <2>1. plan' = plan
    BY MainFrame, WorkerFrame
  <2> QED
    BY <2>1 DEF Of, Workers
<1>3. ASSUME \A n \in StatNames : stats'[n].sent = stats[n].sent,
             \A n \in StatNames : \A w \in Of(n) :
                 w < next' \/ (w = next' /\ pc'[Main] # "send") <=> w < next \/ (w = next /\ pc[Main] # "send")
      PROVE  Sent'
  <2>1. \A n \in StatNames :
           {w \in Of(n) : w < next' \/ (w = next' /\ pc'[Main] # "send")} = Ahead(n)
    BY <1>3
  <2> QED
    BY <1>2, <1>3, <2>1 DEF Sent
<1>4. CASE \E w \in Workers : File(w)
  <2>1. PICK w \in Workers : File(w)
    BY <1>4
  <2>2. next' = next /\ pc'[Main] = pc[Main]
    BY <2>1, WorkerFrame
  <2> DEFINE s == stats[Stat(w)]
  <2>4. s \in StageStats
    BY StatFacts
  <2>5. \A n \in StatNames : stats'[n].sent = stats[n].sent
    <3>1. stats' = stats \/ \E c : /\ stats' = [stats EXCEPT ![Stat(w)] = c] /\ c.sent = s.sent
      <4>1. CASE AddCompleted(w)
        <5>1. [s EXCEPT !.completed = @ + 1].sent = s.sent
          BY <2>4 DEF StageStats
        <5> QED
          BY <4>1, <5>1 DEF AddCompleted, StatStep
      <4>2. CASE RecordOutcome(w)
        <5>1. [s EXCEPT !.errors[plan[w].outcome] = @ + 1].sent = s.sent
          BY <2>4 DEF StageStats
        <5> QED
          BY <4>2, <5>1 DEF RecordOutcome, StatStep
      <4>3. CASE AddSplit(w)
        <5>1. [s EXCEPT !.success = @ + 1].sent = s.sent /\ [s EXCEPT !.failure = @ + 1].sent = s.sent
          BY <2>4 DEF StageStats
        <5> QED
          BY <4>3, <5>1 DEF AddSplit, StatStep
      <4>4. CASE AddTimeout(w)
        <5>1. [s EXCEPT !.timeouts = @ + 1].sent = s.sent
          BY <2>4 DEF StageStats
        <5> QED
          BY <4>4, <5>1 DEF AddTimeout, StatStep
      <4>5. CASE \/ ClaimArtifact(w) \/ AddCount(w) \/ AddSum(w) \/ LoadMin(w) \/ SwapMin(w)
                 \/ LoadMax(w) \/ SwapMax(w) \/ FindSecond(w) \/ GrowSeries(w) \/ CountSecond(w)
        BY <4>5, ElseMoves
      <4> QED
        BY <2>1, <4>1, <4>2, <4>3, <4>4, <4>5 DEF File
    <3> QED
      BY <1>1, <3>1, StatFacts
  <2> QED
    BY <1>3, <2>2, <2>5
<1>5. CASE Send
  <2>1. /\ pc[Main] = "send" /\ next \in Workers /\ next' = next /\ pc' = [pc EXCEPT ![Main] = "second"]
        /\ stats' = [n \in StatNames |-> IF n \in {plan[next].stage, "overall"}
                                         THEN [stats[n] EXCEPT !.sent = @ + 1] ELSE stats[n]]
    BY <1>1, <1>5 DEF Send, Goto
  <2>2. pc'[Main] = "second"
    BY <1>1, <2>1
  <2>3. ASSUME NEW n \in StatNames
        PROVE stats'[n].sent = Cardinality({w \in Of(n) : w < next' \/ (w = next' /\ pc'[Main] # "send")})
    <3> DEFINE T == {w \in Of(n) : w < next}
    <3>1. Ahead(n) = T
      BY <2>1
    <3>2. stats[n].sent = Cardinality(T)
      BY <3>1 DEF Sent
    <3>3. IsFiniteSet(T) /\ next \notin T
      BY <1>1, DoneFacts, 1 \in 1 .. 9
    <3>4. {w \in Of(n) : w < next' \/ (w = next' /\ pc'[Main] # "send")}
             = IF n \in {plan[next].stage, "overall"} THEN T \cup {next} ELSE T
      BY <2>1, <2>2 DEF Of
    <3>5. stats'[n].sent = IF n \in {plan[next].stage, "overall"} THEN stats[n].sent + 1 ELSE stats[n].sent
      BY <1>1, <2>1 DEF StageStats
    <3> HIDE DEF T
    <3>6. Cardinality(T \cup {next}) = Cardinality(T) + 1
      BY <3>3, OneMore
    <3> QED
      BY <3>2, <3>4, <3>5, <3>6
  <2> QED
    BY <1>2, <2>3 DEF Sent
<1>6. CASE Start
  <2>1. pc[Main] = "bucket" /\ next \in Workers /\ next' = next + 1 /\ stats' = stats
    BY <1>6 DEF Start, Control, SendLabels
  <2>2. pc'[Main] = "send"
    <3>1. \E l : pc' = [pc EXCEPT ![Main] = "send", ![next] = l]
      BY <1>6 DEF Start
    <3> QED
      BY <1>1, <2>1, <3>1 DEF Main
  <2>3. \A n \in StatNames : \A w \in Of(n) :
           w < next' \/ (w = next' /\ pc'[Main] # "send") <=> w < next \/ (w = next /\ pc[Main] # "send")
    BY <1>1, <2>1, <2>2 DEF Of
  <2> QED
    BY <1>3, <2>1, <2>3
<1>7. CASE FindSecond(Main) \/ GrowSeries(Main)
  <2>1. /\ pc[Main] \in {"second", "grow"} /\ next' = next /\ stats' = stats
        /\ \E l \in {"grow", "bucket"} : pc' = [pc EXCEPT ![Main] = l]
    BY <1>7 DEF FindSecond, GrowSeries, Goto
  <2>2. pc'[Main] \in {"grow", "bucket"}
    BY <1>1, <2>1
  <2> QED
    BY <1>3, <2>1, <2>2
<1>8. CASE Drain
  <2>1. next' = next /\ stats' = stats /\ next \notin Workers
    BY <1>8 DEF Drain
  <2>2. \A n \in StatNames : \A w \in Of(n) : w # next
    BY <2>1 DEF Of
  <2> QED
    BY <1>3, <2>1, <2>2
<1>9. CASE BuildSummary
  <2>1. next' = next /\ stats' = stats
    BY <1>9, ReadFieldType DEF BuildSummary, WalkCounts, NextEntry
  <2>2. pc[Main] \in ReadLabels
    BY <1>9, ReadFieldType DEF BuildSummary, WalkCounts, NextEntry, ReadLabels
  <2>3. next = Len(plan) + 1
    BY <2>2 DEF Control, SendLabels, ReadLabels
  <2>4. \A n \in StatNames : \A w \in Of(n) : w # next
    BY <1>1, <2>3 DEF Of
  <2> QED
    BY <1>3, <2>1, <2>4
<1>10. CASE UNCHANGED vars
  <2>1. next' = next /\ stats' = stats /\ pc' = pc
    BY <1>10 DEF vars
  <2> QED
    BY <1>3, <2>1
<1> QED
  BY <1>4, <1>5, <1>6, <1>7, <1>8, <1>9, <1>10 DEF MainNext

-----------------------------------------------------------------------------
(* The histograms.                                                         *)

\* A worker more adds its value to the sum.
LEMMA UnitsMore ==
    ASSUME plan \in Plans, NEW D \in SUBSET Workers, NEW w \in Workers, w \notin D
    PROVE  Units(D \cup {w}) = Units(D) + Value(w) /\ Units(D) \in Nat
<1> DEFINE M == 1 .. MaxTrackable
           A == {u \in D \X M : u[2] <= Value(u[1])}
           v == Value(w)
           B == {w} \X (1 .. v)
           C == {u \in (D \cup {w}) \X M : u[2] <= Value(u[1])}
<1>1. v \in 0 .. MaxTrackable /\ MaxTrackable \in Nat /\ IsFiniteSet(Workers)
  BY PlanFacts, HistogramAssumption
<1>2. IsFiniteSet(D) /\ IsFiniteSet(M) /\ IsFiniteSet({w}) /\ Cardinality({w}) = 1
  <2>1. IsFiniteSet(D)
    BY <1>1, FS_Subset
  <2>2. 1 \in Int /\ MaxTrackable \in Int
    BY <1>1
  <2>3. IsFiniteSet(1 .. MaxTrackable)
    BY <2>2, FS_Interval
  <2> QED
    BY <2>1, <2>3, FS_Singleton
<1>3. IsFiniteSet(1 .. v) /\ Cardinality(1 .. v) = v
  <2>1. v \in Nat
    BY <1>1
  <2> HIDE DEF v
  <2>2. IsFiniteSet(1 .. v) /\ Cardinality(1 .. v) = IF 1 > v THEN 0 ELSE v - 1 + 1
    BY <2>1, FS_Interval
  <2> QED
    BY <2>1, <2>2
<1>4. IsFiniteSet(A)
  <2>1. IsFiniteSet(D \X M)
    BY <1>2, FS_Product
  <2>2. A \subseteq D \X M
    OBVIOUS
  <2> HIDE DEF A, M
  <2> QED
    BY <2>1, <2>2, FS_Subset
<1>5. IsFiniteSet(B) /\ Cardinality(B) = v
  <2> HIDE DEF v
  <2>1. IsFiniteSet({w} \X (1 .. v)) /\ Cardinality({w} \X (1 .. v)) = Cardinality({w}) * Cardinality(1 .. v)
    BY <1>2, <1>3, FS_Product
  <2> QED
    BY <1>1, <1>2, <1>3, <2>1
<1>6. C = A \cup B
  <2>1. ASSUME NEW u \in C PROVE u \in A \cup B
    OBVIOUS
  <2>2. ASSUME NEW u \in A \cup B PROVE u \in C
    BY <1>1
  <2> QED
    BY <2>1, <2>2
<1>7. A \cap B = {}
  OBVIOUS
<1>8. Units(D \cup {w}) = Cardinality(C) /\ Units(D) = Cardinality(A)
  BY DEF Units
<1> HIDE DEF A, B, C, v
<1>9. Cardinality(A \cup B) = Cardinality(A) + Cardinality(B) - Cardinality(A \cap B)
  BY <1>4, <1>5, FS_Union
<1>10. Cardinality(A) \in Nat /\ Cardinality(A \cap B) = 0
  BY <1>4, <1>7, FS_CardinalityType, FS_EmptySet
<1>11. Cardinality(C) = Cardinality(A) + v
  BY <1>1, <1>5, <1>6, <1>9, <1>10
<1> QED
  BY <1>8, <1>10, <1>11 DEF v

\* Nothing of a histogram changes, nor who is past a step of it.
LEMMA RecordedSame ==
    ASSUME NEW n \in StatNames, RecordedAt(n), plan' = plan,
           \A k \in {2, 3, 4} : Done(n, k)' = Done(n, k),
           hist'[n].counts = hist[n].counts, hist'[n].total = hist[n].total,
           hist'[n].sum = hist[n].sum
    PROVE  RecordedAt(n)'
<1>1. Done(n, 2)' = Done(n, 2) /\ Done(n, 3)' = Done(n, 3) /\ Done(n, 4)' = Done(n, 4)
  OBVIOUS
<1>2. \A w : Value(w)' = Value(w)
  BY DEF Value
<1>3. Units(Done(n, 4))' = Units(Done(n, 4))
  BY <1>1, <1>2 DEF Units
<1> QED
  BY <1>1, <1>2, <1>3 DEF RecordedAt

\* Who writes to a histogram, and what.
LEMMA HistWrites ==
    ASSUME TypeOK, Control, NEW w \in Workers, File(w)
    PROVE  LET h == hist[Stat(w)]
           IN \/ hist' = hist /\ ~AddCount(w) /\ ~AddSum(w)
              \/ /\ pc[w] = "counts" /\ AddCount(w) /\ Moves(w, 2, 2)
                 /\ \E o : hist' = [hist EXCEPT ![Stat(w)] =
                                      [h EXCEPT !.counts[CountsIndex(Value(w))] = @ + 1,
                                                !.overflow = o]]
              \/ /\ pc[w] = "total" /\ AddCount(w) /\ Moves(w, 3, 3)
                 /\ hist' = [hist EXCEPT ![Stat(w)] = [h EXCEPT !.total = @ + 1]]
              \/ /\ AddSum(w) /\ Moves(w, 4, 4)
                 /\ hist' = [hist EXCEPT ![Stat(w)] = [h EXCEPT !.sum = @ + Value(w)]]
              \/ /\ SwapMin(w) /\ h.min = seen[w] /\ Moves(w, 5, 5) /\ pc[w] = "swapMin"
                 /\ hist' = [hist EXCEPT ![Stat(w)] = [h EXCEPT !.min = Value(w)]]
              \/ /\ SwapMax(w) /\ h.max = seen[w] /\ Moves(w, 6, 6) /\ pc[w] = "swapMax"
                 /\ hist' = [hist EXCEPT ![Stat(w)] = [h EXCEPT !.max = Value(w)]]
<1> DEFINE h == hist[Stat(w)]
<1>1. hist \in [StatNames -> HistogramState] /\ Stat(w) \in StatNames
  BY StatFacts DEF TypeOK
<1>2. [hist EXCEPT ![Stat(w)] = h] = hist
  BY <1>1
<1>3. CASE AddCount(w)
  <2>1. CASE HistStep(w, "counts", "total", [h EXCEPT !.counts[CountsIndex(Value(w))] = @ + 1,
                         !.overflow = @ + (IF plan[w].value > MaxTrackable THEN 1 ELSE 0)])
    <3>1. pc[w] = "counts" /\ Moves(w, StepOf("counts"), StepOf("total") - 1)
      BY <2>1, Steps, HistMoves
    <3>2. \E o : hist' = [hist EXCEPT ![Stat(w)] =
                            [h EXCEPT !.counts[CountsIndex(Value(w))] = @ + 1, !.overflow = o]]
      BY <2>1 DEF HistStep
    <3> HIDE DEF h
    <3>3. Moves(w, 2, 2)
      BY <3>1, Steps
    <3> QED
      BY <1>3, <3>1, <3>2, <3>3 DEF h
  <2>2. CASE HistStep(w, "total", "sum", [h EXCEPT !.total = @ + 1])
    <3>1. pc[w] = "total" /\ Moves(w, StepOf("total"), StepOf("sum") - 1)
      BY <2>2, Steps, HistMoves
    <3>2. hist' = [hist EXCEPT ![Stat(w)] = [h EXCEPT !.total = @ + 1]]
      BY <2>2 DEF HistStep
    <3>3. Moves(w, 3, 3)
      BY <3>1, Steps
    <3> QED
      BY <1>3, <3>1, <3>2, <3>3
  <2> QED
    BY <1>3, <2>1, <2>2 DEF AddCount
<1>4. CASE AddSum(w)
  BY <1>4, ElseMoves DEF AddSum, HistStep
<1>5. CASE SwapMin(w)
  <2>1. CASE h.min = seen[w]
    <3>1. HistStep(w, "swapMin", "max", [h EXCEPT !.min = Value(w)])
      BY <1>5, <2>1 DEF SwapMin
    <3>2. pc[w] = "swapMin" /\ Moves(w, StepOf("swapMin"), StepOf("max") - 1)
      BY <3>1, Steps, HistMoves
    <3>3. Moves(w, 5, 5)
      BY <3>2, Steps
    <3> QED
      BY <1>5, <2>1, <3>1, <3>2, <3>3 DEF HistStep
  <2>2. CASE h.min # seen[w]
    <3>1. hist' = [hist EXCEPT ![Stat(w)] = h] /\ pc[w] = "swapMin"
      BY <1>5, <2>2 DEF SwapMin, HistStep
    <3>2. ~AddCount(w) /\ ~AddSum(w)
      BY <3>1 DEF AddCount, AddSum, HistStep
    <3> QED
      BY <1>2, <3>1, <3>2
  <2> QED
    BY <2>1, <2>2
<1>6. CASE SwapMax(w)
  <2>1. CASE h.max = seen[w]
    <3>1. HistStep(w, "swapMax", "outcome", [h EXCEPT !.max = Value(w)])
      BY <1>6, <2>1 DEF SwapMax
    <3>2. pc[w] = "swapMax" /\ Moves(w, StepOf("swapMax"), StepOf("outcome") - 1)
      BY <3>1, Steps, HistMoves
    <3>3. Moves(w, 6, 6)
      BY <3>2, Steps
    <3> QED
      BY <1>6, <2>1, <3>1, <3>2, <3>3 DEF HistStep
  <2>2. CASE h.max # seen[w]
    <3>1. hist' = [hist EXCEPT ![Stat(w)] = h] /\ pc[w] = "swapMax"
      BY <1>6, <2>2 DEF SwapMax, HistStep
    <3>2. ~AddCount(w) /\ ~AddSum(w)
      BY <3>1 DEF AddCount, AddSum, HistStep
    <3> QED
      BY <1>2, <3>1, <3>2
  <2> QED
    BY <2>1, <2>2
<1>7. CASE ~AddCount(w) /\ ~AddSum(w) /\ ~SwapMin(w) /\ ~SwapMax(w)
  BY <1>7 DEF File, ClaimArtifact, AddCompleted, LoadMin, LoadMax, RecordOutcome, AddSplit,
              AddTimeout, FindSecond, GrowSeries, CountSecond, StatStep
<1> QED
  BY <1>3, <1>4, <1>5, <1>6, <1>7

\* A histogram stays what the workers past each step made of it.
LEMMA RecordedStep ==
    ASSUME TypeOK, Control, Walked, Recorded, MainNext \/ \E w \in Workers : File(w)
    PROVE  Recorded'
<1>1. CASE MainNext
  <2>1. plan' = plan /\ hist' = hist /\ Still
    BY <1>1, MainFrame, MainStill
  <2>2. \A n \in StatNames, k \in {2, 3, 4} : Done(n, k)' = Done(n, k)
    BY <2>1 DEF Still
  <2> QED
    BY <2>1, <2>2, RecordedSame DEF Recorded
<1>2. CASE \E w \in Workers : File(w)
  <2>1. PICK w \in Workers : File(w)
    BY <1>2
  <2>m. PICK m \in StatNames : m = Stat(w)
    BY StatFacts
  <2> DEFINE h == hist[m]
             j == CountsIndex(Value(w))
  <2>2. /\ plan' = plan /\ plan \in Plans /\ hist \in [StatNames -> HistogramState]
        /\ h \in HistogramState /\ j \in Indices /\ Value(w) \in 0 .. MaxTrackable
        /\ RecordedAt(m) /\ \A n \in StatNames : RecordedAt(n)
    BY <2>1, WorkerFrame, PlanFacts DEF TypeOK, Recorded
  <2>3. \/ hist' = hist /\ ~AddCount(w) /\ ~AddSum(w)
        \/ /\ AddCount(w) /\ Moves(w, 2, 2)
           /\ \E o : hist' = [hist EXCEPT ![m] = [h EXCEPT !.counts[j] = @ + 1, !.overflow = o]]
        \/ /\ AddCount(w) /\ Moves(w, 3, 3)
           /\ hist' = [hist EXCEPT ![m] = [h EXCEPT !.total = @ + 1]]
        \/ AddSum(w) /\ Moves(w, 4, 4) /\ hist' = [hist EXCEPT ![m] = [h EXCEPT !.sum = @ + Value(w)]]
        \/ Moves(w, 5, 5) /\ hist' = [hist EXCEPT ![m] = [h EXCEPT !.min = Value(w)]]
        \/ Moves(w, 6, 6) /\ hist' = [hist EXCEPT ![m] = [h EXCEPT !.max = Value(w)]]
    BY <2>1, <2>m, HistWrites
  <2>4. /\ \A T \in SUBSET Of(m) : IsFiniteSet(T) /\ Cardinality(T) \in Nat
        /\ Done(m, 2) \subseteq Of(m) /\ Done(m, 3) \subseteq Of(m) /\ Done(m, 4) \subseteq Of(m)
        /\ Of(m) \subseteq Workers
    BY DoneFacts
  <2>5. \A u : Value(u)' = Value(u)
    BY <2>2 DEF Value
  <2>6. ASSUME NEW lo, NEW hi, Moves(w, lo, hi), NEW n \in StatNames, n # m,
               NEW c, hist' = [hist EXCEPT ![m] = c]
        PROVE RecordedAt(n)'
    <3>1. \A k \in {2, 3, 4} : Done(n, k)' = Done(n, k)
      BY <2>m, <2>6 DEF Moves
    <3>2. hist'[n] = hist[n]
      BY <2>2, <2>6
    <3> QED
      BY <2>2, <3>1, <3>2, RecordedSame
  <2> HIDE DEF h, j
  <2>7. CASE hist' = hist /\ ~AddCount(w) /\ ~AddSum(w)
    <3>1. \A n \in StatNames, k \in {2, 3, 4} : Done(n, k)' = Done(n, k)
      <4>1. \/ Still \/ Moves(w, 0, 0) \/ Moves(w, 5, 5) \/ Moves(w, 5, 4) \/ Moves(w, 6, 6)
            \/ Moves(w, 6, 5) \/ Moves(w, 1, 1) \/ Moves(w, 7, 7) \/ Moves(w, 8, 8)
            \/ Moves(w, 8, 9) \/ Moves(w, 9, 9)
        BY <2>1, <2>7, ElseMoves, StatSteps DEF File
      <4> QED
        BY <4>1 DEF Still, Moves
    <3> QED
      BY <2>2, <2>7, <3>1, RecordedSame DEF Recorded
  <2>8. CASE /\ Moves(w, 2, 2)
             /\ \E o : hist' = [hist EXCEPT ![m] = [h EXCEPT !.counts[j] = @ + 1, !.overflow = o]]
    <3>1. PICK o : hist' = [hist EXCEPT ![m] = [h EXCEPT !.counts[j] = @ + 1, !.overflow = o]]
      BY <2>8
    <3>2. /\ hist'[m].counts = [h.counts EXCEPT ![j] = @ + 1]
          /\ hist'[m].total = h.total /\ hist'[m].sum = h.sum /\ h.counts \in [Indices -> Nat]
      BY <2>2, <3>1 DEF HistogramState
    <3>3. /\ Done(m, 2)' = Done(m, 2) \cup {w} /\ w \notin Done(m, 2)
          /\ Done(m, 3)' = Done(m, 3) /\ Done(m, 4)' = Done(m, 4)
      BY <2>m, <2>8 DEF Moves
    <3>4. ASSUME NEW i \in Indices
          PROVE hist'[m].counts[i] = Cardinality({u \in Done(m, 2)' : CountsIndex(Value(u)') = i})
      <4> DEFINE T == {u \in Done(m, 2) : CountsIndex(Value(u)) = i}
      <4>1. h.counts[i] = Cardinality(T) /\ IsFiniteSet(T) /\ w \notin T
        BY <2>2, <2>4, <3>3 DEF RecordedAt, h
      <4>2. {u \in Done(m, 2)' : CountsIndex(Value(u)') = i} = IF i = j THEN T \cup {w} ELSE T
        BY <2>5, <3>3 DEF j
      <4>3. hist'[m].counts[i] = IF i = j THEN h.counts[i] + 1 ELSE h.counts[i]
        BY <2>2, <3>2
      <4> HIDE DEF T
      <4>4. Cardinality(T \cup {w}) = Cardinality(T) + 1
        BY <4>1, OneMore
      <4> QED
        BY <4>1, <4>2, <4>3, <4>4
    <3>5. hist'[m].total = Cardinality(Done(m, 3)')
      BY <2>2, <3>2, <3>3 DEF RecordedAt, h
    <3>6. hist'[m].sum = Units(Done(m, 4))'
      <4>1. Units(Done(m, 4))' = Units(Done(m, 4))
        BY <2>5, <3>3 DEF Units
      <4> QED
        BY <2>2, <3>2, <4>1 DEF RecordedAt, h
    <3>7. RecordedAt(m)'
      BY <3>4, <3>5, <3>6 DEF RecordedAt
    <3> QED
      BY <2>6, <2>8, <3>1, <3>7 DEF Recorded
  <2>9. CASE Moves(w, 3, 3) /\ hist' = [hist EXCEPT ![m] = [h EXCEPT !.total = @ + 1]]
    <3>2. hist'[m].counts = h.counts /\ hist'[m].total = h.total + 1 /\ hist'[m].sum = h.sum
      BY <2>2, <2>9 DEF HistogramState
    <3>3. /\ Done(m, 3)' = Done(m, 3) \cup {w} /\ w \notin Done(m, 3)
          /\ Done(m, 2)' = Done(m, 2) /\ Done(m, 4)' = Done(m, 4)
      BY <2>m, <2>9 DEF Moves
    <3>4. \A i \in Indices :
             hist'[m].counts[i] = Cardinality({u \in Done(m, 2)' : CountsIndex(Value(u)') = i})
      BY <2>2, <2>5, <3>2, <3>3 DEF RecordedAt, h
    <3>5. hist'[m].total = Cardinality(Done(m, 3)')
      <4>1. Cardinality(Done(m, 3) \cup {w}) = Cardinality(Done(m, 3)) + 1
        BY <2>4, <3>3, OneMore
      <4>2. h.total = Cardinality(Done(m, 3))
        BY <2>2 DEF RecordedAt, h
      <4> QED
        BY <3>2, <3>3, <4>1, <4>2
    <3>6. hist'[m].sum = Units(Done(m, 4))'
      <4>1. Units(Done(m, 4))' = Units(Done(m, 4))
        BY <2>5, <3>3 DEF Units
      <4> QED
        BY <2>2, <3>2, <4>1 DEF RecordedAt, h
    <3>7. RecordedAt(m)'
      BY <3>4, <3>5, <3>6 DEF RecordedAt
    <3> QED
      BY <2>6, <2>9, <3>7 DEF Recorded
  <2>10. CASE Moves(w, 4, 4) /\ hist' = [hist EXCEPT ![m] = [h EXCEPT !.sum = @ + Value(w)]]
    <3>2. hist'[m].counts = h.counts /\ hist'[m].total = h.total /\ hist'[m].sum = h.sum + Value(w)
      BY <2>2, <2>10 DEF HistogramState
    <3>3. /\ Done(m, 4)' = Done(m, 4) \cup {w} /\ w \notin Done(m, 4)
          /\ Done(m, 2)' = Done(m, 2) /\ Done(m, 3)' = Done(m, 3)
      BY <2>m, <2>10 DEF Moves
    <3>4. \A i \in Indices :
             hist'[m].counts[i] = Cardinality({u \in Done(m, 2)' : CountsIndex(Value(u)') = i})
      BY <2>2, <2>5, <3>2, <3>3 DEF RecordedAt, h
    <3>5. hist'[m].total = Cardinality(Done(m, 3)')
      BY <2>2, <3>2, <3>3 DEF RecordedAt, h
    <3>6. hist'[m].sum = Units(Done(m, 4))'
      <4>1. Units(Done(m, 4))' = Units(Done(m, 4) \cup {w})
        BY <2>5, <3>3 DEF Units
      <4>2. Units(Done(m, 4) \cup {w}) = Units(Done(m, 4)) + Value(w)
        BY <2>2, <2>4, <3>3, UnitsMore
      <4>3. h.sum = Units(Done(m, 4))
        BY <2>2 DEF RecordedAt, h
      <4> QED
        BY <3>2, <4>1, <4>2, <4>3
    <3>7. RecordedAt(m)'
      BY <3>4, <3>5, <3>6 DEF RecordedAt
    <3> QED
      BY <2>6, <2>10, <3>7 DEF Recorded
  <2>11. CASE \/ Moves(w, 5, 5) /\ hist' = [hist EXCEPT ![m] = [h EXCEPT !.min = Value(w)]]
              \/ Moves(w, 6, 6) /\ hist' = [hist EXCEPT ![m] = [h EXCEPT !.max = Value(w)]]
    <3>1. hist'[m].counts = h.counts /\ hist'[m].total = h.total /\ hist'[m].sum = h.sum
      BY <2>2, <2>11 DEF HistogramState
    <3>2. \A k \in {2, 3, 4} : Done(m, k)' = Done(m, k)
      BY <2>m, <2>11 DEF Moves
    <3>3. RecordedAt(m)'
      BY <2>2, <3>1, <3>2, RecordedSame DEF h
    <3> QED
      BY <2>6, <2>11, <3>3 DEF Recorded
  <2> QED
    BY <2>3, <2>7, <2>8, <2>9, <2>10, <2>11
<1> QED
  BY <1>1, <1>2

-----------------------------------------------------------------------------
(* Minimum and maximum.                                                    *)

\* A worker lowers the minimum or leaves it, raises the maximum or leaves it,
\* and goes past either only when it bounds its value.
LEMMA Bounding ==
    ASSUME TypeOK, Control, Extremes, NEW w \in Workers, File(w),
           NEW m \in StatNames, m = Stat(w)
    PROVE  /\ \A n \in StatNames :
                 /\ \/ hist'[n].min = hist[n].min
                    \/ n = m /\ hist'[n].min = Value(w) /\ Value(w) < hist[n].min
                 /\ \/ hist'[n].max = hist[n].max
                    \/ n = m /\ hist'[n].max = Value(w) /\ Value(w) > hist[n].max
                 /\ \/ Done(n, 5)' = Done(n, 5)
                    \/ n = m /\ Done(n, 5)' = Done(n, 5) \cup {w} /\ hist'[n].min <= Value(w)
                 /\ \/ Done(n, 6)' = Done(n, 6)
                    \/ n = m /\ Done(n, 6)' = Done(n, 6) \cup {w} /\ hist'[n].max >= Value(w)
           /\ pc'[w] = "swapMin" => Value(w) < seen'[w]
           /\ pc'[w] = "swapMax" => Value(w) > seen'[w]
           /\ \A u \in Workers : u # w => seen'[u] = seen[u]
<1> DEFINE h == hist[m]
           v == Value(w)
<1>1. /\ hist \in [StatNames -> HistogramState] /\ seen \in [Workers -> Nat]
      /\ pc \in [{Main} \cup Workers -> SendLabels \cup ReadLabels \cup FileLabels]
      /\ v \in Nat /\ plan \in Plans
  <2>1. plan \in Plans /\ MaxTrackable \in Nat
    BY HistogramAssumption DEF TypeOK
  <2>2. v \in 0 .. MaxTrackable
    BY <2>1, PlanFacts
  <2> QED
    BY <2>1, <2>2 DEF TypeOK
<1>2. \A n \in StatNames : hist[n].min \in Nat /\ hist[n].max \in Nat
  BY <1>1 DEF HistogramState
<1>3. \A l : pc' = [pc EXCEPT ![w] = l] => pc'[w] = l
  BY <1>1
<1>4. /\ pc[w] = "swapMin" => v < seen[w]
      /\ pc[w] = "swapMax" => v > seen[w]
  BY DEF Extremes
<1> HIDE DEF v
<1>5. CASE LoadMin(w)
  <2>1. /\ pc[w] = "min" /\ hist' = hist /\ plan' = plan /\ on' = on
        /\ \A u \in Workers : u # w => seen'[u] = seen[u]
    BY <1>1, <1>5 DEF LoadMin
  <2>2. CASE v >= h.min
    <3>1. pc' = [pc EXCEPT ![w] = "max"]
      BY <1>5, <2>2 DEF LoadMin, Goto, v
    <3>2. Moves(w, 5, 5)
      <4>0. /\ plan' = plan /\ on' = on /\ pc' = [pc EXCEPT ![w] = "max"]
            /\ StepOf("max") >= StepOf(pc[w]) /\ StepOf(pc[w]) # 10
        BY <2>1, <3>1, Steps
      <4>1. Moves(w, StepOf(pc[w]), StepOf("max") - 1)
        BY <4>0, Onward
      <4> QED
        BY <2>1, <4>1, Steps
    <3>3. \A n \in StatNames : /\ Done(n, 6)' = Done(n, 6)
                               /\ Done(n, 5)' = IF n = m THEN Done(n, 5) \cup {w} ELSE Done(n, 5)
      BY <3>2 DEF Moves
    <3> QED
      BY <1>1, <1>2, <1>3, <2>1, <2>2, <3>1, <3>3 DEF v
  <2>3. CASE ~(v >= h.min)
    <3>1. pc' = [pc EXCEPT ![w] = "swapMin"] /\ seen' = [seen EXCEPT ![w] = h.min]
      BY <1>5, <2>3 DEF LoadMin, Goto, v
    <3>2. Moves(w, 5, 4)
      <4>0. /\ plan' = plan /\ on' = on /\ pc' = [pc EXCEPT ![w] = "swapMin"]
            /\ StepOf("swapMin") >= StepOf(pc[w]) /\ StepOf(pc[w]) # 10
        BY <2>1, <3>1, Steps
      <4>1. Moves(w, StepOf(pc[w]), StepOf("swapMin") - 1)
        BY <4>0, Onward
      <4> QED
        BY <2>1, <4>1, Steps
    <3>3. \A n \in StatNames : Done(n, 5)' = Done(n, 5) /\ Done(n, 6)' = Done(n, 6)
      BY <3>2 DEF Moves
    <3>4. seen'[w] = h.min /\ v < h.min
      BY <1>1, <1>2, <2>3, <3>1
    <3> QED
      BY <1>1, <1>3, <2>1, <3>1, <3>3, <3>4 DEF v
  <2> QED
    BY <2>2, <2>3
<1>6. CASE LoadMax(w)
  <2>1. /\ pc[w] = "max" /\ hist' = hist /\ plan' = plan /\ on' = on
        /\ \A u \in Workers : u # w => seen'[u] = seen[u]
    BY <1>1, <1>6 DEF LoadMax
  <2>2. CASE v <= h.max
    <3>1. pc' = [pc EXCEPT ![w] = "outcome"]
      BY <1>6, <2>2 DEF LoadMax, Goto, v
    <3>2. Moves(w, 6, 6)
      <4>0. /\ plan' = plan /\ on' = on /\ pc' = [pc EXCEPT ![w] = "outcome"]
            /\ StepOf("outcome") >= StepOf(pc[w]) /\ StepOf(pc[w]) # 10
        BY <2>1, <3>1, Steps
      <4>1. Moves(w, StepOf(pc[w]), StepOf("outcome") - 1)
        BY <4>0, Onward
      <4> QED
        BY <2>1, <4>1, Steps
    <3>3. \A n \in StatNames : /\ Done(n, 5)' = Done(n, 5)
                               /\ Done(n, 6)' = IF n = m THEN Done(n, 6) \cup {w} ELSE Done(n, 6)
      BY <3>2 DEF Moves
    <3> QED
      BY <1>1, <1>2, <1>3, <2>1, <2>2, <3>1, <3>3 DEF v
  <2>3. CASE ~(v <= h.max)
    <3>1. pc' = [pc EXCEPT ![w] = "swapMax"] /\ seen' = [seen EXCEPT ![w] = h.max]
      BY <1>6, <2>3 DEF LoadMax, Goto, v
    <3>2. Moves(w, 6, 5)
      <4>0. /\ plan' = plan /\ on' = on /\ pc' = [pc EXCEPT ![w] = "swapMax"]
            /\ StepOf("swapMax") >= StepOf(pc[w]) /\ StepOf(pc[w]) # 10
        BY <2>1, <3>1, Steps
      <4>1. Moves(w, StepOf(pc[w]), StepOf("swapMax") - 1)
        BY <4>0, Onward
      <4> QED
        BY <2>1, <4>1, Steps
    <3>3. \A n \in StatNames : Done(n, 5)' = Done(n, 5) /\ Done(n, 6)' = Done(n, 6)
      BY <3>2 DEF Moves
    <3>4. seen'[w] = h.max /\ v > h.max
      BY <1>1, <1>2, <2>3, <3>1
    <3> QED
      BY <1>1, <1>3, <2>1, <3>1, <3>3, <3>4 DEF v
  <2> QED
    BY <2>2, <2>3
<1>7. CASE SwapMin(w)
  <2>1. CASE h.min = seen[w]
    <3>1. HistStep(w, "swapMin", "max", [h EXCEPT !.min = v])
      BY <1>7, <2>1 DEF SwapMin, v
    <3>2. pc[w] = "swapMin" /\ Moves(w, 5, 5)
      BY <3>1, HistMoves, Steps
    <3>3. /\ hist' = [hist EXCEPT ![m] = [h EXCEPT !.min = v]] /\ seen' = seen
          /\ pc' = [pc EXCEPT ![w] = "max"]
      BY <3>1 DEF HistStep, Goto
    <3>4. /\ hist'[m].min = v /\ hist'[m].max = h.max
          /\ \A n \in StatNames : n # m => hist'[n] = hist[n]
      BY <1>1, <3>3 DEF HistogramState
    <3>5. \A n \in StatNames : /\ Done(n, 6)' = Done(n, 6)
                               /\ Done(n, 5)' = IF n = m THEN Done(n, 5) \cup {w} ELSE Done(n, 5)
      BY <3>2 DEF Moves
    <3>6. v < h.min /\ pc'[w] = "max"
      BY <1>3, <1>4, <2>1, <3>2, <3>3
    <3> QED
      BY <1>1, <3>3, <3>4, <3>5, <3>6 DEF v
  <2>2. CASE h.min # seen[w]
    <3>1. HistStep(w, "swapMin", "min", h)
      BY <1>7, <2>2 DEF SwapMin
    <3>2. Moves(w, 5, 4)
      BY <3>1, HistMoves, Steps
    <3>3. hist' = hist /\ seen' = seen /\ pc' = [pc EXCEPT ![w] = "min"]
      BY <1>1, <3>1 DEF HistStep, Goto
    <3>4. \A n \in StatNames : Done(n, 5)' = Done(n, 5) /\ Done(n, 6)' = Done(n, 6)
      BY <3>2 DEF Moves
    <3> QED
      BY <1>3, <3>3, <3>4
  <2> QED
    BY <2>1, <2>2
<1>8. CASE SwapMax(w)
  <2>1. CASE h.max = seen[w]
    <3>1. HistStep(w, "swapMax", "outcome", [h EXCEPT !.max = v])
      BY <1>8, <2>1 DEF SwapMax, v
    <3>2. pc[w] = "swapMax" /\ Moves(w, 6, 6)
      BY <3>1, HistMoves, Steps
    <3>3. /\ hist' = [hist EXCEPT ![m] = [h EXCEPT !.max = v]] /\ seen' = seen
          /\ pc' = [pc EXCEPT ![w] = "outcome"]
      BY <3>1 DEF HistStep, Goto
    <3>4. /\ hist'[m].max = v /\ hist'[m].min = h.min
          /\ \A n \in StatNames : n # m => hist'[n] = hist[n]
      BY <1>1, <3>3 DEF HistogramState
    <3>5. \A n \in StatNames : /\ Done(n, 5)' = Done(n, 5)
                               /\ Done(n, 6)' = IF n = m THEN Done(n, 6) \cup {w} ELSE Done(n, 6)
      BY <3>2 DEF Moves
    <3>6. v > h.max /\ pc'[w] = "outcome"
      BY <1>3, <1>4, <2>1, <3>2, <3>3
    <3> QED
      BY <1>1, <3>3, <3>4, <3>5, <3>6 DEF v
  <2>2. CASE h.max # seen[w]
    <3>1. HistStep(w, "swapMax", "max", h)
      BY <1>8, <2>2 DEF SwapMax
    <3>2. Moves(w, 6, 5)
      BY <3>1, HistMoves, Steps
    <3>3. hist' = hist /\ seen' = seen /\ pc' = [pc EXCEPT ![w] = "max"]
      BY <1>1, <3>1 DEF HistStep, Goto
    <3>4. \A n \in StatNames : Done(n, 5)' = Done(n, 5) /\ Done(n, 6)' = Done(n, 6)
      BY <3>2 DEF Moves
    <3> QED
      BY <1>3, <3>3, <3>4
  <2> QED
    BY <2>1, <2>2
<1>9. CASE AddCount(w) \/ AddSum(w)
  <2>1. \E c, l : /\ hist' = [hist EXCEPT ![m] = c] /\ c.min = h.min /\ c.max = h.max
                  /\ l \in {"total", "sum", "min"} /\ pc' = [pc EXCEPT ![w] = l] /\ seen' = seen
    <3>1. CASE AddSum(w)
      BY <1>1, <3>1 DEF AddSum, HistStep, Goto, HistogramState
    <3>2. CASE AddCount(w)
      <4>1. PICK o : \/ HistStep(w, "counts", "total", [h EXCEPT !.counts[CountsIndex(v)] = @ + 1,
                                                                !.overflow = @ + o])
                     \/ HistStep(w, "total", "sum", [h EXCEPT !.total = @ + 1])
        BY <3>2 DEF AddCount, v
      <4>2. h \in HistogramState
        BY <1>1
      <4> HIDE DEF h
      <4>3. \E c, l : /\ HistStep(w, pc[w], l, c) /\ c.min = h.min /\ c.max = h.max
                      /\ l \in {"total", "sum"}
        BY <4>1, <4>2 DEF HistogramState, HistStep
      <4> QED
        BY <4>3 DEF HistStep, Goto
    <3> QED
      BY <1>9, <3>1, <3>2
  <2>2. \A n \in StatNames : Done(n, 5)' = Done(n, 5) /\ Done(n, 6)' = Done(n, 6)
    <3>1. Moves(w, 2, 2) \/ Moves(w, 3, 3) \/ Moves(w, 4, 4)
      BY <1>9, ElseMoves
    <3> QED
      BY <3>1 DEF Moves
  <2>3. /\ pc'[w] \in {"total", "sum", "min"} /\ seen' = seen
        /\ \A n \in StatNames : hist'[n].min = hist[n].min /\ hist'[n].max = hist[n].max
    BY <1>1, <1>3, <2>1
  <2> QED
    BY <2>2, <2>3
<1>10. CASE \/ ClaimArtifact(w) \/ AddCompleted(w) \/ RecordOutcome(w) \/ AddSplit(w)
            \/ AddTimeout(w) \/ FindSecond(w) \/ GrowSeries(w) \/ CountSecond(w)
  <2>1. hist' = hist /\ seen' = seen
    BY <1>10 DEF ClaimArtifact, AddCompleted, RecordOutcome, AddSplit, AddTimeout, FindSecond,
                 GrowSeries, CountSecond, StatStep
  <2>2. \E l : l \notin {"swapMin", "swapMax"} /\ pc' = [pc EXCEPT ![w] = l]
    BY <1>10 DEF ClaimArtifact, AddCompleted, RecordOutcome, AddSplit, AddTimeout, FindSecond,
                 GrowSeries, CountSecond, StatStep, Goto
  <2>3. \A n \in StatNames : Done(n, 5)' = Done(n, 5) /\ Done(n, 6)' = Done(n, 6)
    <3>1. \/ Still \/ Moves(w, 0, 0) \/ Moves(w, 1, 1) \/ Moves(w, 7, 7) \/ Moves(w, 8, 8)
          \/ Moves(w, 8, 9) \/ Moves(w, 9, 9)
      BY <1>10, ElseMoves, StatSteps
    <3> QED
      BY <3>1 DEF Still, Moves
  <2> QED
    BY <1>3, <2>1, <2>2, <2>3
<1> QED
  BY <1>5, <1>6, <1>7, <1>8, <1>9, <1>10 DEF File

\* The compare and swap of two workers never loses the smaller or the larger of
\* their values.
LEMMA ExtremesStep ==
    ASSUME TypeOK, Control, Walked, Extremes, MainNext \/ \E w \in Workers : File(w)
    PROVE  Extremes'
<1>0. plan \in Plans /\ \A n \in StatNames : hist[n].min \in Nat /\ hist[n].max \in Nat
  BY DEF TypeOK, HistogramState
<1>1. plan' = plan /\ Workers' = Workers
  BY MainFrame, WorkerFrame
<1>2. (\A w : Value(w)' = Value(w)) /\ \A n : Of(n)' = Of(n)
  BY <1>1 DEF Value, Of
<1>v. \A w \in Workers : Value(w) \in Nat
  BY <1>0, PlanFacts, HistogramAssumption
<1>3. CASE MainNext
  <2>1. hist' = hist /\ seen' = seen /\ Still
    BY <1>3, MainFrame, MainStill
  <2>2. \A n \in StatNames : Done(n, 5)' = Done(n, 5) /\ Done(n, 6)' = Done(n, 6)
    BY <2>1 DEF Still
  <2>3. \A n \in StatNames : ExtremesAt(n)'
    <3>1. \A n \in StatNames : ExtremesAt(n)
      BY DEF Extremes
    <3> QED
      BY <1>2, <2>1, <2>2, <3>1 DEF ExtremesAt
  <2>4. \A w \in Workers : pc'[w] \in {"swapMin", "swapMax"} => pc'[w] = pc[w]
    BY <1>3, MainFrame
  <2> QED
    BY <1>1, <1>2, <2>1, <2>3, <2>4 DEF Extremes
<1>4. CASE \E w \in Workers : File(w)
  <2>1. PICK w \in Workers : File(w)
    BY <1>4
  <2>2. PICK m \in StatNames : m = Stat(w)
    BY StatFacts
  <2>3. /\ \A n \in StatNames :
              /\ \/ hist'[n].min = hist[n].min
                 \/ n = m /\ hist'[n].min = Value(w) /\ Value(w) < hist[n].min
              /\ \/ hist'[n].max = hist[n].max
                 \/ n = m /\ hist'[n].max = Value(w) /\ Value(w) > hist[n].max
              /\ \/ Done(n, 5)' = Done(n, 5)
                 \/ n = m /\ Done(n, 5)' = Done(n, 5) \cup {w} /\ hist'[n].min <= Value(w)
              /\ \/ Done(n, 6)' = Done(n, 6)
                 \/ n = m /\ Done(n, 6)' = Done(n, 6) \cup {w} /\ hist'[n].max >= Value(w)
        /\ pc'[w] = "swapMin" => Value(w) < seen'[w]
        /\ pc'[w] = "swapMax" => Value(w) > seen'[w]
        /\ \A u \in Workers : u # w => seen'[u] = seen[u]
    BY <2>1, <2>2, Bounding
  <2>4. w \in Of(m)
    BY <2>2 DEF Of, Stat
  <2>5. ASSUME NEW n \in StatNames PROVE ExtremesAt(n)'
    <3>1. /\ hist[n].min = MaxInt64 \/ \E u \in Of(n) : hist[n].min = Value(u)
          /\ hist[n].max = 0 \/ \E u \in Of(n) : hist[n].max = Value(u)
          /\ \A u \in Done(n, 5) : hist[n].min <= Value(u)
          /\ \A u \in Done(n, 6) : hist[n].max >= Value(u)
      BY DEF Extremes, ExtremesAt
    <3>2. /\ Done(n, 5) \subseteq Workers /\ Done(n, 6) \subseteq Workers
          /\ hist[n].min \in Nat /\ hist[n].max \in Nat /\ Value(w) \in Nat
      BY <1>0, <1>v DEF Done
    <3>3. hist'[n].min = MaxInt64 \/ \E u \in Of(n) : hist'[n].min = Value(u)
      BY <2>3, <2>4, <3>1
    <3>4. hist'[n].max = 0 \/ \E u \in Of(n) : hist'[n].max = Value(u)
      BY <2>3, <2>4, <3>1
    <3>5. \A u \in Done(n, 5)' : hist'[n].min <= Value(u)
      <4>1. \A u \in Done(n, 5) : hist'[n].min <= Value(u)
        BY <1>v, <2>3, <3>1, <3>2
      <4> QED
        BY <2>3, <4>1
    <3>6. \A u \in Done(n, 6)' : hist'[n].max >= Value(u)
      <4>1. \A u \in Done(n, 6) : hist'[n].max >= Value(u)
        BY <1>v, <2>3, <3>1, <3>2
      <4> QED
        BY <2>3, <4>1
    <3> QED
      BY <1>2, <3>3, <3>4, <3>5, <3>6 DEF ExtremesAt, MaxInt64
  <2>6. \A u \in Workers : u # w => pc'[u] = pc[u]
    BY <2>1, WorkerFrame
  <2>7. ASSUME NEW u \in Workers
        PROVE /\ pc'[u] = "swapMin" => Value(u) < seen'[u]
              /\ pc'[u] = "swapMax" => Value(u) > seen'[u]
    BY <2>3, <2>6 DEF Extremes
  <2> QED
    BY <1>1, <1>2, <2>5, <2>7 DEF Extremes
<1> QED
  BY <1>3, <1>4

-----------------------------------------------------------------------------
(* What main reads.                                                        *)

\* Once main has stopped sending, the workers past a step are all but late ones.
LEMMA Between ==
    ASSUME TypeOK, Control, pc[Main] \notin SendLabels, NEW n \in StatNames, NEW k \in 1 .. 9,
           NEW S \in SUBSET Of(n)
    PROVE  Read(Cardinality({w \in Done(n, k) : w \in S}), S)
<1> DEFINE D == {w \in Done(n, k) : w \in S}
<1>1. \A w \in Workers \ late : pc[w] = "done" /\ on[w] = 2
  BY DEF Control
<1>2. S \ late \subseteq D
  <2>1. ASSUME NEW w \in S \ late PROVE w \in Done(n, k)
    <3>1. w \in Workers /\ (n = plan[w].stage \/ n = "overall")
      BY DEF Of
    <3>2. on[w] = 2 /\ StepOf(pc[w]) > k
      BY <1>1, <3>1, Steps
    <3> QED
      BY <3>1, <3>2 DEF Done
  <2> QED
    BY <2>1
<1>3. D \subseteq S /\ IsFiniteSet(S) /\ IsFiniteSet(D)
  BY DoneFacts
<1> HIDE DEF D
<1>4. /\ Cardinality(S \ late) <= Cardinality(D) /\ Cardinality(D) <= Cardinality(S)
      /\ Cardinality(S \ late) \in Nat /\ Cardinality(D) \in Nat /\ Cardinality(S) \in Nat
  BY <1>2, <1>3, FS_Subset, FS_CardinalityType
<1>5. Read(Cardinality(D), S)
  BY <1>4 DEF Read
<1> QED
  BY <1>5 DEF D

\* stageSummary reads the fields in this order.
LEMMA Reads ==
    ASSUME TypeOK, Control, ReadCounters, NEW n \in StatNames, n = Reading
    PROVE  \/ /\ pc[Main] = "sent" /\ pc'[Main] = "completed"
              /\ report' = [NoReport EXCEPT !["sent"] = stats[n].sent]
           \/ /\ pc[Main] = "completed" /\ pc'[Main] = "success"
              /\ report' = [report EXCEPT !["completed"] = stats[n].completed]
           \/ /\ pc[Main] = "success" /\ pc'[Main] = "failure"
              /\ report' = [report EXCEPT !["success"] = stats[n].success]
           \/ /\ pc[Main] = "failure" /\ pc'[Main] = "timeouts"
              /\ report' = [report EXCEPT !["failure"] = stats[n].failure]
           \/ /\ pc[Main] = "timeouts" /\ pc'[Main] = "total"
              /\ report' = [report EXCEPT !["timeouts"] = stats[n].timeouts]
           \/ /\ pc[Main] = "total" /\ pc'[Main] = IF hist[n].total = 0 THEN "errors" ELSE "min"
              /\ report' = [NoReport EXCEPT !["total"] = hist[n].total]
           \/ /\ pc[Main] = "min" /\ pc'[Main] = "max"
              /\ report' = [report EXCEPT !["min"] = hist[n].min]
           \/ /\ pc[Main] = "max" /\ pc'[Main] = "sum"
              /\ report' = [report EXCEPT !["max"] = hist[n].max]
           \/ /\ pc[Main] = "sum" /\ pc'[Main] = "walk"
              /\ report' = [report EXCEPT !["sum"] = hist[n].sum]
           \/ /\ pc[Main] = "errors" /\ pc'[Main] = "entry"
              /\ report' = [NoReport EXCEPT !["errors"] = stats[n].errors]
<1>1. pc \in [{Main} \cup Workers -> SendLabels \cup ReadLabels \cup FileLabels]
  BY DEF TypeOK
<1>2. \A l : pc' = [pc EXCEPT ![Main] = l] => pc'[Main] = l
  BY <1>1
<1>3. ASSUME NEW field, NEW to, NEW value, ReadField(field, to, value)
      PROVE /\ pc[Main] = field /\ pc'[Main] = to
            /\ report' = [(IF field \in {"sent", "total", "errors"} THEN NoReport ELSE report)
                             EXCEPT ![field] = value]
  BY <1>2, <1>3 DEF ReadField, Goto
<1>4. \/ ReadField("sent", "completed", stats[n].sent)
      \/ ReadField("completed", "success", stats[n].completed)
      \/ ReadField("success", "failure", stats[n].success)
      \/ ReadField("failure", "timeouts", stats[n].failure)
      \/ ReadField("timeouts", "total", stats[n].timeouts)
      \/ ReadField("total", IF hist[n].total = 0 THEN "errors" ELSE "min", hist[n].total)
      \/ ReadField("min", "max", hist[n].min)
      \/ ReadField("max", "sum", hist[n].max)
      \/ ReadField("sum", "walk", hist[n].sum)
      \/ ReadField("errors", "entry", stats[n].errors)
  BY DEF ReadCounters
<1> QED
  BY <1>3, <1>4

\* Main is at one of the labels where the report is not looked at.
Unread == SendLabels \cup {"sent", "done"}

\* What main does other than reading a field or walking the counts.
LEMMA MainElse ==
    ASSUME TypeOK, Control, MainNext, ~ReadCounters, ~WalkCounts
    PROVE  \/ pc'[Main] \in Unread /\ report' \in {report, NoReport} /\ walk' = walk
              /\ pc[Main] \in SendLabels \cup {"entry"}
              /\ (pc[Main] \in SendLabels => report' = report)
              /\ (pc[Main] = "entry" => report' = NoReport)
           \/ UNCHANGED vars
<1>1. pc \in [{Main} \cup Workers -> SendLabels \cup ReadLabels \cup FileLabels]
      /\ plan \in Plans
  BY DEF TypeOK
<1>2. \A l : pc' = [pc EXCEPT ![Main] = l] => pc'[Main] = l
  BY <1>1
<1>3. ASSUME Start PROVE pc'[Main] = "send"
  <2>1. next \in Workers /\ Main \notin Workers
    BY <1>1, <1>3, PlanFacts DEF Start, Control, SendLabels
  <2> QED
    BY <1>1, <1>3, <2>1 DEF Start
<1>4. ASSUME Send \/ FindSecond(Main) \/ GrowSeries(Main) \/ Drain
      PROVE pc'[Main] \in Unread /\ report' = report /\ walk' = walk /\ pc[Main] \in SendLabels
  BY <1>2, <1>4 DEF Send, FindSecond, GrowSeries, Drain, Goto, Unread, SendLabels
<1>5. ASSUME NextEntry
      PROVE pc'[Main] \in Unread /\ report' = NoReport /\ walk' = walk /\ pc[Main] = "entry"
  BY <1>2, <1>5 DEF NextEntry, Goto, Unread
<1>6. "entry" \notin SendLabels
  BY DEF SendLabels
<1> QED
  BY <1>3, <1>4, <1>5, <1>6 DEF MainNext, BuildSummary, Start, Unread, SendLabels

\* The counters of a StageStats when main has stopped sending.
LEMMA Readable ==
    ASSUME TypeOK, Control, Counted, Sent, pc[Main] \notin SendLabels, NEW n \in StatNames
    PROVE  /\ stats[n].sent = Cardinality(Of(n)) /\ Read(stats[n].completed, Of(n))
           /\ Read(stats[n].success, {w \in Of(n) : Succeeded(w)})
           /\ Read(stats[n].failure, {w \in Of(n) : ~Succeeded(w)})
           /\ Read(stats[n].timeouts, {w \in Of(n) : plan[w].outcome = "timeout"})
           /\ \A o \in Outcomes :
                 Read(stats[n].errors[o], {w \in Of(n) : plan[w].outcome = o})
<1>1. \A k \in 1 .. 9 : Done(n, k) \subseteq Of(n)
  BY DoneFacts
<1>2. CountedAt(n)
  BY DEF Counted
<1>3. stats[n].sent = Cardinality(Of(n))
  <2>1. next = Len(plan) + 1 /\ Workers = 1 .. Len(plan) /\ Len(plan) \in Nat
    BY PlanFacts DEF Control, TypeOK
  <2>2. {w \in Of(n) : w < next \/ (w = next /\ pc[Main] # "send")} = Of(n)
    BY <2>1 DEF Of
  <2> QED
    BY <2>2 DEF Sent
<1>4. Read(stats[n].completed, Of(n))
  <2>1. {w \in Done(n, 1) : w \in Of(n)} = Done(n, 1)
    BY <1>1
  <2>2. Read(Cardinality({w \in Done(n, 1) : w \in Of(n)}), Of(n))
    BY Between
  <2> QED
    BY <1>2, <2>1, <2>2 DEF CountedAt
<1>5. Read(stats[n].success, {w \in Of(n) : Succeeded(w)})
  <2> DEFINE S == {w \in Of(n) : Succeeded(w)}
  <2>1. {w \in Done(n, 8) : w \in S} = {w \in Done(n, 8) : Succeeded(w)} /\ S \subseteq Of(n)
    BY <1>1
  <2> HIDE DEF S
  <2>2. Read(Cardinality({w \in Done(n, 8) : w \in S}), S)
    BY <2>1, Between
  <2> QED
    BY <1>2, <2>1, <2>2 DEF CountedAt, S
<1>6. Read(stats[n].failure, {w \in Of(n) : ~Succeeded(w)})
  <2> DEFINE S == {w \in Of(n) : ~Succeeded(w)}
  <2>1. {w \in Done(n, 8) : w \in S} = {w \in Done(n, 8) : ~Succeeded(w)} /\ S \subseteq Of(n)
    BY <1>1
  <2> HIDE DEF S
  <2>2. Read(Cardinality({w \in Done(n, 8) : w \in S}), S)
    BY <2>1, Between
  <2> QED
    BY <1>2, <2>1, <2>2 DEF CountedAt, S
<1>7. Read(stats[n].timeouts, {w \in Of(n) : plan[w].outcome = "timeout"})
  <2> DEFINE S == {w \in Of(n) : plan[w].outcome = "timeout"}
  <2>1. {w \in Done(n, 9) : w \in S} = {w \in Done(n, 9) : plan[w].outcome = "timeout"}
        /\ S \subseteq Of(n)
    BY <1>1
  <2> HIDE DEF S
  <2>2. Read(Cardinality({w \in Done(n, 9) : w \in S}), S)
    BY <2>1, Between
  <2> QED
    BY <1>2, <2>1, <2>2 DEF CountedAt, S
<1>8. ASSUME NEW o \in Outcomes
      PROVE Read(stats[n].errors[o], {w \in Of(n) : plan[w].outcome = o})
  <2> DEFINE S == {w \in Of(n) : plan[w].outcome = o}
  <2>1. {w \in Done(n, 7) : w \in S} = {w \in Done(n, 7) : plan[w].outcome = o}
        /\ S \subseteq Of(n)
    BY <1>1
  <2> HIDE DEF S
  <2>2. Read(Cardinality({w \in Done(n, 7) : w \in S}), S)
    BY <2>1, Between
  <2> QED
    BY <1>2, <2>1, <2>2 DEF CountedAt, S
<1> QED
  BY <1>3, <1>4, <1>5, <1>6, <1>7, <1>8

\* What main has read of the counters stays within the late workers of the plan.
LEMMA ReadSoFarStep ==
    ASSUME TypeOK, Control, Counted, Sent, Walked, ReadSoFar,
           MainNext \/ \E w \in Workers : File(w)
    PROVE  ReadSoFar'
<1>1. CASE \E w \in Workers : File(w)
  <2>1. /\ plan' = plan /\ report' = report /\ late' = late /\ Workers' = Workers
        /\ Reading' = Reading /\ pc'[Main] = pc[Main]
    BY <1>1, WorkerFrame
  <2> QED
    BY <2>1 DEF ReadSoFar, Read, Of, Succeeded
<1>2. CASE ReadCounters
  <2>1. /\ pc[Main] \in ReadLabels /\ report \in Report
        /\ plan' = plan /\ on' = on /\ late' = late
    BY <1>2, ReadFieldType DEF TypeOK
  <2>2. PICK n \in StatNames : n = Reading
    BY <2>1, ReadingFacts
  <2>3. Reading' = n /\ Workers' = Workers
    BY <2>1, <2>2 DEF Reading, Workers
  <2> DEFINE W == Of(n)
             After(labels) == pc'[Main] \in labels
             New == /\ After({"completed", "success", "failure", "timeouts", "total"}) =>
                          report'.sent = Cardinality(W)
                    /\ After({"success", "failure", "timeouts", "total"}) =>
                          Read(report'.completed, W)
                    /\ After({"failure", "timeouts", "total"}) =>
                          Read(report'.success, {w \in W : Succeeded(w)})
                    /\ After({"timeouts", "total"}) =>
                          Read(report'.failure, {w \in W : ~Succeeded(w)})
                    /\ After({"total"}) =>
                          Read(report'.timeouts, {w \in W : plan[w].outcome = "timeout"})
                    /\ After({"entry"}) =>
                          \A o \in Outcomes :
                              Read(report'.errors[o], {w \in W : plan[w].outcome = o})
  <2>5. New => ReadSoFar'
    BY <2>1, <2>3 DEF ReadSoFar, Read, Of, Succeeded
  <2>6. pc[Main] \notin SendLabels
    BY <2>1 DEF ReadLabels, SendLabels
  <2>7. /\ stats[n].sent = Cardinality(W) /\ Read(stats[n].completed, W)
        /\ Read(stats[n].success, {w \in W : Succeeded(w)})
        /\ Read(stats[n].failure, {w \in W : ~Succeeded(w)})
        /\ Read(stats[n].timeouts, {w \in W : plan[w].outcome = "timeout"})
        /\ \A o \in Outcomes : Read(stats[n].errors[o], {w \in W : plan[w].outcome = o})
    BY <2>6, Readable
  <2>8. /\ pc[Main] \in {"completed", "success", "failure", "timeouts", "total"} =>
              report.sent = Cardinality(W)
        /\ pc[Main] \in {"success", "failure", "timeouts", "total"} => Read(report.completed, W)
        /\ pc[Main] \in {"failure", "timeouts", "total"} =>
              Read(report.success, {w \in W : Succeeded(w)})
        /\ pc[Main] \in {"timeouts", "total"} => Read(report.failure, {w \in W : ~Succeeded(w)})
    BY <2>2 DEF ReadSoFar
  <2> HIDE DEF W
  <2>9. \/ /\ pc[Main] = "sent" /\ pc'[Main] = "completed" /\ report'.sent = stats[n].sent
        \/ /\ pc[Main] = "completed" /\ pc'[Main] = "success"
           /\ report'.completed = stats[n].completed /\ report'.sent = report.sent
        \/ /\ pc[Main] = "success" /\ pc'[Main] = "failure" /\ report'.success = stats[n].success
           /\ report'.completed = report.completed /\ report'.sent = report.sent
        \/ /\ pc[Main] = "failure" /\ pc'[Main] = "timeouts" /\ report'.failure = stats[n].failure
           /\ report'.completed = report.completed /\ report'.sent = report.sent
           /\ report'.success = report.success
        \/ /\ pc[Main] = "timeouts" /\ pc'[Main] = "total" /\ report'.timeouts = stats[n].timeouts
           /\ report'.completed = report.completed /\ report'.sent = report.sent
           /\ report'.success = report.success /\ report'.failure = report.failure
        \/ pc[Main] = "errors" /\ pc'[Main] = "entry" /\ report'.errors = stats[n].errors
        \/ pc'[Main] \in {"min", "max", "sum", "walk", "errors"}
    BY <1>2, <2>1, <2>2, Reads DEF Report, NoReport
  <2>10. New
    BY <2>7, <2>8, <2>9
  <2> QED
    BY <2>5, <2>10
<1>3. CASE WalkCounts
  <2>1. pc'[Main] \in {"walk", "errors"}
    BY <1>3, WalkStep DEF TypeOK, WalkCounts
  <2> QED
    BY <2>1 DEF ReadSoFar
<1>4. CASE UNCHANGED vars
  BY <1>4 DEF ReadSoFar, vars, Reading, Of, Read, Succeeded, Workers
<1>5. CASE pc'[Main] \in Unread
  BY <1>5 DEF ReadSoFar, Unread, SendLabels
<1> QED
  BY <1>1, <1>2, <1>3, <1>4, <1>5, MainElse

\* With nobody late, every worker is past every step once main has stopped
\* sending, and none takes another.
LEMMA Settled ==
    ASSUME TypeOK, Control, pc[Main] \notin SendLabels, late = {}
    PROVE  /\ \A n \in StatNames, k \in 1 .. 9 : Done(n, k) = Of(n)
           /\ \A w \in Workers : ~File(w)
<1>1. \A w \in Workers : pc[w] = "done" /\ on[w] = 2
  BY DEF Control
<1>2. ASSUME NEW n \in StatNames, NEW k \in 1 .. 9 PROVE Done(n, k) = Of(n)
  <2>1. \A w \in Workers : StepOf(pc[w]) > k
    BY <1>1, Steps
  <2> QED
    BY <1>1, <2>1 DEF Done, Of
<1>3. \A w \in Workers : ~File(w)
  BY <1>1, WorkerFrame
<1> QED
  BY <1>2, <1>3

\* With nobody late, main reads what the histogram holds.
LEMMA ReadSettledStep ==
    ASSUME TypeOK, Control, Recorded, Walked, ReadSettled,
           MainNext \/ \E w \in Workers : File(w)
    PROVE  ReadSettled'
<1>1. CASE \E w \in Workers : File(w)
  <2>1. pc'[Main] = pc[Main] /\ late' = late
    BY <1>1, WorkerFrame
  <2>2. CASE pc[Main] \in SendLabels
    BY <2>1, <2>2 DEF ReadSettled, SendLabels
  <2>3. CASE pc[Main] \notin SendLabels
    <3>1. late # {}
      BY <1>1, <2>3, Settled
    <3> QED
      BY <2>1, <3>1 DEF ReadSettled
  <2> QED
    BY <2>2, <2>3
<1>2. CASE ReadCounters \/ WalkCounts
  <2>1. /\ pc[Main] \in ReadLabels /\ report \in Report
        /\ plan' = plan /\ on' = on /\ late' = late /\ hist' = hist
    BY <1>2, ReadFieldType DEF TypeOK, WalkCounts, ReadLabels
  <2>2. PICK n \in StatNames : n = Reading
    BY <2>1, ReadingFacts
  <2>3. Reading' = n /\ Of(n)' = Of(n)
    BY <2>1, <2>2 DEF Reading, Workers, Of
  <2>4. pc[Main] \notin SendLabels
    BY <2>1 DEF ReadLabels, SendLabels
  <2>5. SUFFICES ASSUME late = {} PROVE ReadSettled'
    BY <2>1 DEF ReadSettled
  <2> DEFINE c == Cardinality(Of(n))
             h == hist[n]
             New == /\ pc'[Main] \in {"min", "max", "sum", "walk", "errors"} => report'.total = c
                    /\ pc'[Main] \in {"max", "sum", "walk"} => report'.min = h.min
                    /\ pc'[Main] \in {"sum", "walk"} => report'.max = h.max
                    /\ pc'[Main] = "walk" => report'.sum = h.sum
                    /\ pc'[Main] = "errors" =>
                          \/ report'.total = 0
                          \/ report'.min = h.min /\ report'.max = h.max /\ report'.sum = h.sum
  <2>6. New => ReadSettled'
    BY <2>1, <2>3 DEF ReadSettled
  <2>7. h.total = c
    <3>1. Done(n, 3) = Of(n)
      BY <2>4, <2>5, Settled
    <3> QED
      BY <3>1 DEF Recorded, RecordedAt
  <2>8. /\ pc[Main] \in {"min", "max", "sum", "walk", "errors"} => report.total = c
        /\ pc[Main] \in {"max", "sum", "walk"} => report.min = h.min
        /\ pc[Main] \in {"sum", "walk"} => report.max = h.max
        /\ pc[Main] = "walk" => report.sum = h.sum
    BY <2>2, <2>5 DEF ReadSettled
  <2> HIDE DEF c, h
  <2>9. CASE ReadCounters
    <3>1. \/ /\ pc'[Main] \in {"errors", "min"} /\ report'.total = h.total
             /\ pc'[Main] = "errors" => h.total = 0
          \/ /\ pc[Main] = "min" /\ pc'[Main] = "max" /\ report'.min = h.min
             /\ report'.total = report.total
          \/ /\ pc[Main] = "max" /\ pc'[Main] = "sum" /\ report'.max = h.max
             /\ report'.total = report.total /\ report'.min = report.min
          \/ /\ pc[Main] = "sum" /\ pc'[Main] = "walk" /\ report'.sum = h.sum
             /\ report'.total = report.total /\ report'.min = report.min
             /\ report'.max = report.max
          \/ pc'[Main] \in {"completed", "success", "failure", "timeouts", "total", "entry"}
      BY <2>1, <2>2, <2>9, Reads DEF Report, NoReport, h
    <3>2. New
      BY <2>7, <2>8, <3>1
    <3> QED
      BY <2>6, <3>2
  <2>10. CASE WalkCounts
    <3>1. /\ pc[Main] = "walk" /\ pc'[Main] \in {"walk", "errors"}
          /\ \E p : report' = [report EXCEPT !.percentiles = p]
      BY <2>10, WalkStep DEF TypeOK, WalkCounts
    <3>2. /\ report'.total = report.total /\ report'.min = report.min
          /\ report'.max = report.max /\ report'.sum = report.sum
      BY <2>1, <3>1 DEF Report
    <3>3. New
      BY <2>8, <3>1, <3>2
    <3> QED
      BY <2>6, <3>3
  <2> QED
    BY <1>2, <2>9, <2>10
<1>4. CASE UNCHANGED vars
  BY <1>4 DEF ReadSettled, vars, Reading, Of, Workers
<1>5. CASE pc'[Main] \in Unread
  BY <1>5 DEF ReadSettled, Unread, SendLabels
<1> QED
  BY <1>1, <1>2, <1>4, <1>5, MainElse

-----------------------------------------------------------------------------
(* The walk over the counts.                                               *)

\* Two sets without a common element.
LEMMA Disjoint ==
    ASSUME NEW A, NEW B, IsFiniteSet(A), IsFiniteSet(B), A \cap B = {}
    PROVE  /\ Cardinality(A \cup B) = Cardinality(A) + Cardinality(B)
           /\ Cardinality(A) \in Nat /\ Cardinality(B) \in Nat
<1>1. Cardinality(A \cup B) = Cardinality(A) + Cardinality(B) - Cardinality(A \cap B)
  BY FS_Union
<1>2. Cardinality(A) \in Nat /\ Cardinality(B) \in Nat /\ Cardinality(A \cap B) = 0
  BY FS_CardinalityType, FS_EmptySet
<1> QED
  BY <1>1, <1>2

\* One bucket moves from the counts ahead to those behind.
LEMMA Split ==
    ASSUME TypeOK, NEW n \in StatNames, NEW S \in SUBSET Of(n), NEW i \in Nat
    PROVE  LET C == {w \in S : CountsIndex(Value(w)) = i}
           IN /\ Cardinality(From(S, i)) = Cardinality(C) + Cardinality(From(S, i + 1))
              /\ Cardinality(Below(S, i + 1)) = Cardinality(Below(S, i)) + Cardinality(C)
              /\ IsFiniteSet(C) /\ Cardinality(C) \in Nat
              /\ Cardinality(From(S, i)) \in Nat /\ Cardinality(From(S, i + 1)) \in Nat
              /\ Cardinality(Below(S, i)) \in Nat
<1> DEFINE C == {w \in S : CountsIndex(Value(w)) = i}
           F == From(S, i)
           G == From(S, i + 1)
           B == Below(S, i)
           D == Below(S, i + 1)
<1>1. \A w \in S : CountsIndex(Value(w)) \in Nat
  <2>1. plan \in Plans
    BY DEF TypeOK
  <2> QED
    BY <2>1, PlanFacts, IndicesFacts DEF Of
<1>2. F = C \cup G /\ C \cap G = {} /\ D = B \cup C /\ B \cap C = {}
  BY <1>1 DEF From, Below
<1>3. IsFiniteSet(S) /\ C \subseteq S /\ G \subseteq S /\ B \subseteq S /\ F \subseteq S
  BY DoneFacts DEF From, Below
<1> HIDE DEF C, F, G, B, D
<1>4. IsFiniteSet(C) /\ IsFiniteSet(G) /\ IsFiniteSet(B) /\ IsFiniteSet(F)
  BY <1>3, FS_Subset
<1>5. Cardinality(C \cup G) = Cardinality(C) + Cardinality(G)
  BY <1>2, <1>4, Disjoint
<1>6. Cardinality(B \cup C) = Cardinality(B) + Cardinality(C)
  BY <1>2, <1>4, Disjoint
<1>7. /\ Cardinality(C) \in Nat /\ Cardinality(G) \in Nat /\ Cardinality(B) \in Nat
      /\ Cardinality(F) \in Nat
  BY <1>4, FS_CardinalityType
<1> QED
  BY <1>2, <1>4, <1>5, <1>6, <1>7 DEF C, F, G, B, D

\* Nobody goes back in a record.
LEMMA Monotone ==
    ASSUME TypeOK, Control, NEW w \in Workers, File(w), NEW n \in StatNames, NEW k \in 1 .. 9
    PROVE  Done(n, k) \subseteq Done(n, k)'
<1>1. Still \/ \E lo, hi : Moves(w, lo, hi)
  BY ElseMoves, StatSteps DEF File
<1> QED
  BY <1>1 DEF Still, Moves

\* A percentile stays found as long as it and the total stay.
LEMMA FoundSame ==
    ASSUME NEW k, Found(k), plan' = plan, late' = late, Reading' = Reading,
           report'.total = report.total, report'.percentiles[k] = report.percentiles[k]
    PROVE  Found(k)'
<1>1. Workers' = Workers
  BY DEF Workers
<1> QED
  BY <1>1 DEF Found, Below, Of, Value

\* The walk goes on as long as nobody steps back.
LEMMA WalkedKept ==
    ASSUME TypeOK, Control, Walked, plan' = plan, late' = late, walk' = walk,
           NEW n \in StatNames, n = Reading, Reading' = n,
           report'.total = report.total, report'.percentiles = report.percentiles,
           Done(n, 2) \subseteq Done(n, 2)', Done(n, 2)' \subseteq Of(n),
           \/ pc'[Main] = pc[Main]
           \/ pc[Main] = "min" /\ pc'[Main] = "max"
           \/ pc[Main] = "max" /\ pc'[Main] = "sum"
           \/ pc[Main] = "sum" /\ pc'[Main] = "walk"
    PROVE  Walked'
<1>1. \A w : Value(w)' = Value(w)
  BY DEF Value
<1>2. Of(n)' = Of(n) /\ Workers' = Workers
  BY DEF Of, Workers
<1> DEFINE S == Done(n, 2)
           T == Done(n, 2)'
           i == walk.idx
<1>3. /\ From(Done(Reading, 2), walk.idx)' = From(T, i)
      /\ Below(Of(Reading), walk.idx)' = Below(Of(n), i)
  BY <1>1, <1>2 DEF From, Below
<1>4. /\ Cardinality(From(T, i)) \in Nat /\ Cardinality(From(S, i)) \in Nat
      /\ Cardinality(From(T, i)) >= Cardinality(From(S, i))
  <2>1. From(S, i) \subseteq From(T, i) /\ From(T, i) \subseteq Of(n) /\ IsFiniteSet(Of(n))
    BY DoneFacts DEF From
  <2> QED
    BY <2>1, FS_Subset, FS_CardinalityType
<1>5. /\ walk.cumulative \in Nat /\ report.total \in Nat
  BY DEF TypeOK, Report
<1> HIDE DEF S, T, i
<1>6. pc'[Main] \in {"min", "max", "sum", "walk"} =>
          /\ report'.total > 0
          /\ walk'.cumulative + Cardinality(From(T, i)) >= report'.total
          /\ Len(report'.percentiles) < Len(Targets)
          /\ \A k \in DOMAIN Targets :
                k > Len(report'.percentiles) => walk'.cumulative * 100 < Targets[k] * report'.total
  <2>1. pc'[Main] \in {"min", "max", "sum", "walk"} =>
          /\ report.total > 0
          /\ walk.cumulative + Cardinality(From(S, i)) >= report.total
          /\ Len(report.percentiles) < Len(Targets)
          /\ \A k \in DOMAIN Targets :
                k > Len(report.percentiles) => walk.cumulative * 100 < Targets[k] * report.total
    BY DEF Walked, S, i
  <2>2. walk.cumulative + Cardinality(From(S, i)) >= report.total =>
           walk.cumulative + Cardinality(From(T, i)) >= report.total
    BY <1>4, <1>5
  <2> QED
    BY <2>1, <2>2
<1>7. pc'[Main] \in {"min", "max", "sum"} => report'.percentiles = << >>
  BY DEF Walked
<1>8. pc'[Main] = "walk" /\ late' = {} => walk'.cumulative = Cardinality(Below(Of(n), i))
  <2>1. CASE pc[Main] = "walk"
    BY <2>1 DEF Walked, i
  <2>2. CASE pc[Main] = "sum"
    <3>1. i = 0 /\ walk.cumulative = 0
      BY <2>2 DEF Control, i
    <3>2. plan \in Plans
      BY DEF TypeOK
    <3>3. \A w \in Of(n) : CountsIndex(Value(w)) \in Nat
      BY <3>2, PlanFacts, IndicesFacts DEF Of
    <3>4. Below(Of(n), i) = {}
      BY <3>1, <3>3 DEF Below
    <3> QED
      BY <3>1, <3>4, FS_EmptySet
  <2> QED
    BY <2>1, <2>2
<1>9. /\ pc'[Main] = "errors" /\ report'.total > 0 => Len(report'.percentiles) = Len(Targets)
      /\ report'.percentiles # << >> => pc'[Main] \in {"walk", "errors"}
  BY DEF Walked
<1>10. \A k \in DOMAIN report'.percentiles : k \in DOMAIN Targets /\ Found(k)'
  BY FoundSame DEF Walked
<1> QED
  BY <1>3, <1>6, <1>7, <1>8, <1>9, <1>10 DEF Walked

\* No percentile is reported: nothing is left to show but where main is.
LEMMA WalkedEmpty ==
    ASSUME report'.percentiles = << >>, pc'[Main] \notin {"min", "max", "sum", "walk"},
           pc'[Main] = "errors" => report'.total = 0
    PROVE  Walked'
<1>1. DOMAIN report'.percentiles = {}
  OBVIOUS
<1> QED
  BY <1>1 DEF Walked

\* A bucket of the walk: whatever percentile it reaches is that of a value in it,
\* and the last bucket reaches them all, since a value is counted before the
\* total the walk aims at.
LEMMA WalkedWalk ==
    ASSUME TypeOK, Control, Recorded, Walked, WalkCounts
    PROVE  Walked'
<1>1. /\ pc[Main] = "walk" /\ pc[Main] \in ReadLabels /\ pc[Main] \notin SendLabels
      /\ plan' = plan /\ on' = on /\ late' = late /\ stats' = stats
  BY DEF WalkCounts, ReadLabels, SendLabels
<1>2. PICK n \in StatNames : n = Reading
  BY <1>1, ReadingFacts
<1>3. Reading' = n /\ Workers' = Workers /\ Of(n)' = Of(n) /\ \A w : Value(w)' = Value(w)
  BY <1>1, <1>2 DEF Reading, Workers, Of, Value
<1>4. Done(n, 2)' = Done(n, 2)
  <2>1. MainNext
    BY DEF MainNext, BuildSummary
  <2> QED
    BY <2>1, MainStill DEF Still
<1> DEFINE S == Done(n, 2)
           i == walk.idx
           C == {w \in S : CountsIndex(Value(w)) = i}
           c == hist[n].counts[i]
           old == walk.cumulative
           cum == old + c
           f == Len(report.percentiles)
           top == HighestEquivalent(i)
           total == report.total
<1>5. /\ i \in Indices /\ i \in Nat /\ old \in Nat /\ total \in Nat /\ report \in Report
      /\ report.percentiles \in Seq(Nat) /\ plan \in Plans
      /\ pc \in [{Main} \cup Workers -> SendLabels \cup ReadLabels \cup FileLabels]
  BY IndicesFacts DEF TypeOK, Report
<1>6. c = Cardinality(C)
  BY <1>5 DEF Recorded, RecordedAt
<1>7. /\ Cardinality(From(S, i)) = Cardinality(C) + Cardinality(From(S, i + 1))
      /\ Cardinality(C) \in Nat /\ IsFiniteSet(C) /\ Cardinality(From(S, i + 1)) \in Nat
      /\ S \subseteq Of(n)
  <2>1. S \subseteq Of(n)
    BY DoneFacts
  <2> HIDE DEF S, i
  <2>2. S \in SUBSET Of(n)
    BY <2>1
  <2> QED
    BY <1>5, <2>1, <2>2, Split
<1>8. /\ total > 0 /\ old + Cardinality(From(S, i)) >= total
      /\ \A k \in 1 .. 3 : k > f => old * 100 < Targets[k] * total
      /\ \A k \in DOMAIN report.percentiles : k \in 1 .. 3 /\ Found(k)
  BY <1>1, <1>2, TargetFacts DEF Walked
<1>9. PICK m \in f .. 3, more \in Seq(Nat) :
          /\ m > f => c > 0
          /\ \A k \in f + 1 .. m : cum * 100 >= Targets[k] * total
          /\ \A k \in m + 1 .. 3 : c = 0 \/ cum * 100 < Targets[k] * total
          /\ Len(more) = m /\ \A k \in 1 .. f : more[k] = report.percentiles[k]
          /\ \A k \in f + 1 .. m : more[k] = top
          /\ \/ /\ m < 3 /\ walk.idx + 1 \in Indices
                /\ walk' = [idx |-> walk.idx + 1, cumulative |-> cum]
                /\ report' = [report EXCEPT !.percentiles = more] /\ pc' = pc
             \/ /\ m = 3 \/ walk.idx + 1 \notin Indices
                /\ walk' = [idx |-> 0, cumulative |-> 0]
                /\ report' = [report EXCEPT !.percentiles =
                                  more \o [k \in 1 .. 3 - m |-> report.max]]
                /\ pc' = [pc EXCEPT ![Main] = "errors"]
  BY <1>2, WalkStep
<1>10. f \in 0 .. 2 /\ c \in Nat /\ cum \in Nat /\ top \in Nat
  BY <1>2, WalkStep
<1> HIDE DEF S, i, C, c, old, cum, f, top, total
<1>11. cum + Cardinality(From(S, i + 1)) >= total
  BY <1>5, <1>6, <1>7, <1>8 DEF cum
<1>12. \A k \in m + 1 .. 3 : cum * 100 < Targets[k] * total
  <2>1. ASSUME NEW k \in m + 1 .. 3 PROVE cum * 100 < Targets[k] * total
    <3>1. k \in 1 .. 3 /\ k > f
      BY <1>10
    <3>2. old * 100 < Targets[k] * total
      BY <1>8, <3>1
    <3>3. c = 0 => cum = old
      BY <1>5, <1>10 DEF cum
    <3> QED
      BY <1>9, <3>2, <3>3
  <2> QED
    BY <2>1
<1>13. i + 1 \notin Indices => m = 3
  <2>1. SUFFICES ASSUME i + 1 \notin Indices, m # 3 PROVE FALSE
    OBVIOUS
  <2>2. From(S, i + 1) = {}
    <3>1. \A w \in S : CountsIndex(Value(w)) \in Indices
      BY <1>5, <1>7, PlanFacts DEF Of
    <3>2. PICK N \in Int : Indices = 0 .. N
      <4>1. BucketCount \in Nat /\ SubBucketHalfCount \in Nat
        BY CountsReach, HalfCount
      <4>2. (BucketCount + 1) * SubBucketHalfCount - 1 \in Int
        BY <4>1
      <4> QED
        BY <4>2 DEF Indices
    <3> QED
      BY <1>5, <2>1, <3>1, <3>2 DEF From
  <2>3. Cardinality(From(S, i + 1)) = 0
    BY <2>2, FS_EmptySet
  <2>4. cum >= total
    BY <1>5, <1>10, <1>11, <2>3
  <2>5. 3 \in m + 1 .. 3 /\ Targets[3] = 99
    BY <1>10, <2>1, TargetFacts
  <2>6. cum * 100 < 99 * total
    BY <1>12, <2>5
  <2> QED
    BY <1>5, <1>8, <1>10, <2>4, <2>6
<1>14. late = {} =>
          /\ old = Cardinality(Below(Of(n), i)) /\ cum = Cardinality(Below(Of(n), i + 1))
  <2>1. SUFFICES ASSUME late = {}
                 PROVE old = Cardinality(Below(Of(n), i)) /\ cum = Cardinality(Below(Of(n), i + 1))
    OBVIOUS
  <2>2. S = Of(n)
    BY <1>1, <2>1, Settled DEF S
  <2>3. old = Cardinality(Below(Of(n), i))
    BY <1>1, <1>2, <2>1 DEF Walked, i, old
  <2>4. Cardinality(Below(S, i + 1)) = Cardinality(Below(S, i)) + Cardinality(C)
    BY <1>5, <1>7, Split DEF C
  <2> QED
    BY <1>6, <2>2, <2>3, <2>4 DEF cum
<1>15. /\ report'.percentiles = more /\ report'.total = total
       /\ DOMAIN report'.percentiles = 1 .. m /\ Len(report'.percentiles) = m
  <2>1. report'.percentiles = more /\ report'.total = total
    <3>1. CASE report' = [report EXCEPT !.percentiles = more]
      BY <1>5, <3>1 DEF Report, total
    <3>2. CASE m = 3 /\ report' = [report EXCEPT !.percentiles =
                                      more \o [k \in 1 .. 3 - m |-> report.max]]
      <4>1. [k \in 1 .. 3 - m |-> report.max] = << >>
        BY <3>2
      <4>2. more \o << >> = more
        BY <1>9
      <4> QED
        BY <1>5, <3>2, <4>1, <4>2 DEF Report, total
    <3> QED
      BY <1>9, <1>13, <3>1, <3>2 DEF i
  <2> QED
    BY <1>9, <2>1
<1>16. ASSUME NEW k \in 1 .. m PROVE k \in DOMAIN Targets /\ Found(k)'
  <2>1. k \in 1 .. 3 /\ DOMAIN Targets = 1 .. 3
    BY <1>10, TargetFacts
  <2>2. CASE k <= f
    <3>1. k \in DOMAIN report.percentiles /\ k \in 1 .. f
      BY <1>5, <1>10, <2>2 DEF f
    <3> QED
      BY <1>1, <1>2, <1>3, <1>8, <1>9, <1>15, <2>1, <3>1, FoundSame DEF total
  <2>3. CASE k > f
    <3>1. k \in f + 1 .. m /\ c > 0
      BY <1>9, <1>10, <2>3
    <3>2. PICK w \in C : TRUE
      BY <1>6, <1>7, <1>10, <3>1, FS_EmptySet
    <3>3. w \in Of(n) /\ CountsIndex(Value(w)) = i
      BY <1>7, <3>2 DEF C
    <3>4. report'.percentiles[k] = HighestEquivalent(i)
      BY <1>9, <1>15, <3>1 DEF top
    <3>5. late = {} => /\ Cardinality(Below(Of(n), i)) * 100 < Targets[k] * total
                       /\ Cardinality(Below(Of(n), i + 1)) * 100 >= Targets[k] * total
      BY <1>8, <1>9, <1>14, <2>1, <2>3, <3>1
    <3> DEFINE P(u) == LET q == CountsIndex(Value(u))
                       IN /\ report'.percentiles[k] = HighestEquivalent(q)
                          /\ late' = {} =>
                               /\ Cardinality(Below(Of(n), q)) * 100 < Targets[k] * report'.total
                               /\ Cardinality(Below(Of(n), q + 1)) * 100 >= Targets[k] * report'.total
    <3>6. P(w)
      BY <1>1, <1>15, <3>3, <3>4, <3>5
    <3>7. \E u \in Of(n) : P(u)
      BY <3>3, <3>6
    <3> QED
      BY <1>3, <2>1, <3>7 DEF Found, Below
  <2> QED
    BY <1>10, <2>2, <2>3
<1>17. CASE /\ m < 3 /\ walk.idx + 1 \in Indices
            /\ walk' = [idx |-> walk.idx + 1, cumulative |-> cum] /\ pc' = pc
  <2>1. walk'.idx = i + 1 /\ walk'.cumulative = cum /\ pc'[Main] = "walk"
    BY <1>1, <1>17 DEF i
  <2>2. /\ From(Done(Reading, 2), walk.idx)' = From(S, i + 1)
        /\ Below(Of(Reading), walk.idx)' = Below(Of(n), i + 1)
    BY <1>3, <1>4, <2>1 DEF From, Below, S
  <2>3. \A k \in DOMAIN Targets : k > m => k \in m + 1 .. 3
    BY <1>10, TargetFacts
  <2> QED
    BY <1>1, <1>8, <1>11, <1>12, <1>14, <1>15, <1>16, <1>17, <2>1, <2>2, <2>3, TargetFacts DEF Walked
<1>18. CASE /\ m = 3 \/ walk.idx + 1 \notin Indices
            /\ pc' = [pc EXCEPT ![Main] = "errors"]
  <2>1. m = 3 /\ pc'[Main] = "errors"
    BY <1>5, <1>13, <1>18 DEF i
  <2> QED
    BY <1>15, <1>16, <2>1, TargetFacts DEF Walked
<1> QED
  BY <1>9, <1>17, <1>18

\* A value is counted before the total is, so the counts make up the total.
LEMMA CountedFirst ==
    ASSUME TypeOK, Control, Recorded, NEW n \in StatNames
    PROVE  Cardinality(From(Done(n, 2), 0)) >= hist[n].total
<1>1. plan \in Plans /\ \A w \in Workers : on[w] \in {1, 2}
  BY DEF TypeOK
<1>2. Done(n, 3) \subseteq Done(n, 2)
  <2>1. \A w \in Workers : StepOf(pc[w]) \in 0 .. 10
    BY Steps
  <2> QED
    BY <2>1 DEF Done
<1>3. \A w \in Done(n, 2) : CountsIndex(Value(w)) \in Nat
  BY <1>1, PlanFacts, IndicesFacts DEF Done
<1>4. From(Done(n, 2), 0) = Done(n, 2)
  BY <1>3 DEF From
<1>5. IsFiniteSet(Done(n, 2))
  BY DoneFacts
<1>6. Cardinality(Done(n, 3)) <= Cardinality(Done(n, 2))
  BY <1>2, <1>5, FS_Subset
<1>7. /\ hist[n].total = Cardinality(Done(n, 3))
      /\ Cardinality(Done(n, 2)) \in Nat /\ Cardinality(Done(n, 3)) \in Nat
  BY DoneFacts DEF Recorded, RecordedAt
<1> QED
  BY <1>4, <1>6, <1>7

\* The walk, whoever takes a step.
LEMMA WalkedStep ==
    ASSUME TypeOK, Control, Recorded, Walked, MainNext \/ \E w \in Workers : File(w)
    PROVE  Walked'
<1>1. PICK n \in StatNames : n = Reading
  <2>1. on[Main] \in 1 .. Len(Names) + 1 /\ Len(Names) \in Nat
    BY NamesFacts DEF TypeOK
  <2> QED
    BY <2>1, NamesFacts DEF Reading
<1>2. ASSUME plan' = plan PROVE Done(n, 2)' \subseteq Of(n)
  BY <1>2 DEF Done, Of, Workers
<1>3. CASE \E w \in Workers : File(w)
  <2>1. /\ plan' = plan /\ report' = report /\ late' = late /\ walk' = walk
        /\ Reading' = n /\ pc'[Main] = pc[Main]
    BY <1>1, <1>3, WorkerFrame
  <2>2. Done(n, 2) \subseteq Done(n, 2)'
    BY <1>3, Monotone
  <2> QED
    BY <1>1, <1>2, <2>1, <2>2, WalkedKept
<1>4. CASE ReadCounters
  <2>1. /\ plan' = plan /\ late' = late /\ walk' = walk /\ on' = on /\ stats' = stats
        /\ report \in Report
    BY <1>4, ReadFieldType DEF TypeOK
  <2>2. Reading' = n
    BY <1>1, <2>1 DEF Reading
  <2>3. Done(n, 2) \subseteq Done(n, 2)'
    <3>1. MainNext
      BY <1>4 DEF MainNext, BuildSummary
    <3> QED
      BY <3>1, MainStill DEF Still
  <2>4. CASE pc[Main] \in {"min", "max", "sum"}
    <3>1. /\ report'.total = report.total /\ report'.percentiles = report.percentiles
          /\ \/ pc[Main] = "min" /\ pc'[Main] = "max"
             \/ pc[Main] = "max" /\ pc'[Main] = "sum"
             \/ pc[Main] = "sum" /\ pc'[Main] = "walk"
      BY <1>1, <1>4, <2>1, <2>4, Reads DEF Report
    <3> QED
      BY <1>1, <1>2, <2>1, <2>2, <2>3, <3>1, WalkedKept
  <2>5. CASE pc[Main] = "total"
    <3>1. /\ report'.total = hist[n].total /\ report'.percentiles = << >>
          /\ pc'[Main] = IF hist[n].total = 0 THEN "errors" ELSE "min"
      BY <1>1, <1>4, <2>5, Reads DEF NoReport
    <3>2. CASE hist[n].total = 0
      BY <3>1, <3>2, WalkedEmpty
    <3>3. CASE hist[n].total # 0
      <4>1. hist[n].total \in Nat
        BY DEF TypeOK, HistogramState
      <4>2. walk'.idx = 0 /\ walk'.cumulative = 0
        BY <2>1, <2>5 DEF Control
      <4>3. Cardinality(From(Done(n, 2), 0)) >= hist[n].total
            /\ Cardinality(From(Done(n, 2), 0)) \in Nat
        <5>1. From(Done(n, 2), 0) \subseteq Of(n)
          BY DoneFacts DEF From
        <5>2. Cardinality(From(Done(n, 2), 0)) \in Nat
          BY <5>1, DoneFacts
        <5> QED
          BY <5>2, CountedFirst
      <4>4. From(Done(Reading, 2), walk.idx)' = From(Done(n, 2), 0)
        <5>1. Done(n, 2)' = Done(n, 2)
          <6>1. MainNext
            BY <1>4 DEF MainNext, BuildSummary
          <6> QED
            BY <6>1, MainStill DEF Still
        <5> QED
          BY <2>1, <2>2, <4>2, <5>1 DEF From, Value
      <4>5. \A k \in DOMAIN Targets : 0 * 100 < Targets[k] * hist[n].total
        <5>1. ASSUME NEW k \in DOMAIN Targets PROVE 0 < Targets[k] * hist[n].total
          <6>1. Targets[k] \in 1 .. 99 /\ hist[n].total \in Nat \ {0}
            BY <3>3, <4>1, TargetFacts
          <6> QED
            BY <6>1
        <5> QED
          BY <5>1
      <4>6. DOMAIN report'.percentiles = {} /\ Len(report'.percentiles) = 0 /\ pc'[Main] = "min"
        BY <3>1, <3>3
      <4>7. hist[n].total > 0 /\ 0 + Cardinality(From(Done(n, 2), 0)) >= hist[n].total
        BY <3>3, <4>1, <4>3
      <4> QED
        BY <3>1, <4>2, <4>4, <4>5, <4>6, <4>7, TargetFacts DEF Walked
    <3> QED
      BY <3>2, <3>3
  <2>6. CASE pc[Main] \notin {"total", "min", "max", "sum"}
    <3>1. /\ \/ report'.percentiles = << >>
             \/ report'.percentiles = report.percentiles /\ pc[Main] \notin {"walk", "errors"}
          /\ pc'[Main] \in {"completed", "success", "failure", "timeouts", "total", "entry"}
      BY <1>1, <1>4, <2>1, <2>6, Reads DEF Report, NoReport
    <3>2. report'.percentiles = << >>
      BY <3>1 DEF Walked
    <3> QED
      BY <3>1, <3>2, WalkedEmpty
  <2> QED
    BY <2>4, <2>5, <2>6
<1>5. CASE WalkCounts
  BY <1>5, WalkedWalk
<1>6. CASE UNCHANGED vars
  <2>1. /\ plan' = plan /\ late' = late /\ walk' = walk /\ Reading' = n /\ pc' = pc
        /\ report' = report
    BY <1>1, <1>6 DEF vars, Reading
  <2>2. Done(n, 2)' = Done(n, 2)
    BY <1>6 DEF vars, Done, Workers
  <2> QED
    BY <1>1, <1>2, <2>1, <2>2, WalkedKept
<1>7. CASE /\ pc'[Main] \in Unread /\ report' \in {report, NoReport}
           /\ pc[Main] \in SendLabels \cup {"entry"}
  <2>1. report.percentiles = << >>
    BY <1>7 DEF Walked, SendLabels
  <2>2. NoReport.percentiles = << >>
    BY DEF NoReport
  <2>3. report'.percentiles = << >>
    BY <1>7, <2>1, <2>2
  <2> QED
    BY <1>7, <2>3, WalkedEmpty DEF Unread, SendLabels
<1> QED
  BY <1>3, <1>4, <1>5, <1>6, <1>7, MainElse

-----------------------------------------------------------------------------
(* The series.                                                             *)

\* A worker is counted in one second.
LEMMA SlotFacts ==
    ASSUME TypeOK, NEW w \in Workers
    PROVE  Slot(plan[w].sentAt) \in Nat \ {0} /\ Slot(plan[w].doneAt) \in Nat \ {0}
<1>1. plan[w].sentAt \in Int /\ plan[w].doneAt \in Int
  BY PlanFacts DEF TypeOK
<1> QED
  BY <1>1 DEF Slot

\* A bucket stays right when it and those counted in it stay.
LEMMA BucketSame ==
    ASSUME NEW k, BucketAt(k), plan' = plan, buckets'[k] = buckets[k],
           \A w \in Workers : pc'[w] = "done" <=> pc[w] = "done",
           \A w \in Workers : w < next' <=> w < next
    PROVE  BucketAt(k)'
<1> DEFINE S == {w \in Workers : pc[w] = "done" /\ Slot(plan[w].doneAt) = k}
           T == {w \in Workers : w < next /\ Slot(plan[w].sentAt) = k}
<1>1. Workers' = Workers
  BY DEF Workers
<1>2. /\ {w \in Workers' : pc'[w] = "done" /\ Slot(plan'[w].doneAt) = k} = S
      /\ {w \in Workers' : w < next' /\ Slot(plan'[w].sentAt) = k} = T
  BY <1>1
<1> HIDE DEF S, T
<1>3. /\ {w \in S : Succeeded(w)'} = {w \in S : Succeeded(w)}
      /\ {w \in S : ~Succeeded(w)'} = {w \in S : ~Succeeded(w)}
      /\ {w \in S : plan'[w].outcome = "timeout"} = {w \in S : plan[w].outcome = "timeout"}
  BY DEF Succeeded
<1>4. /\ buckets[k].sent = Cardinality(T) /\ buckets[k].completed = Cardinality(S)
      /\ buckets[k].success = Cardinality({w \in S : Succeeded(w)})
      /\ buckets[k].failure = Cardinality({w \in S : ~Succeeded(w)})
      /\ buckets[k].timeouts = Cardinality({w \in S : plan[w].outcome = "timeout"})
  BY DEF BucketAt, S, T
<1> QED
  BY <1>2, <1>3, <1>4 DEF BucketAt

\* Nothing is counted; an actor may have found its bucket.
LEMMA SeriesKept ==
    ASSUME TypeOK, Control, Series, plan' = plan, next' = next, seconds' = seconds,
           buckets' = buckets, \A w \in Workers : pc'[w] = "done" <=> pc[w] = "done",
           \A x \in {Main} \cup Workers :
               pc'[x] = "bucket" => \/ pc[x] = "bucket" /\ held'[x] = held[x]
                                    \/ held'[x] = SecondOf(x) + 1 /\ held'[x] <= Len(buckets)
    PROVE  Series'
<1>1. Workers' = Workers /\ \A x : SecondOf(x)' = SecondOf(x)
  BY DEF Workers, SecondOf
<1>2. \A k \in DOMAIN buckets : BucketAt(k)'
  BY BucketSame DEF Series
<1>3. \A x \in {Main} \cup Workers :
          pc'[x] = "bucket" => held'[x] = SecondOf(x) + 1 /\ held'[x] <= Len(buckets)
  BY DEF Series
<1>4. \A w \in Workers :
          /\ w < next => Slot(plan[w].sentAt) <= Len(buckets)
          /\ pc'[w] = "done" => Slot(plan[w].doneAt) <= Len(buckets)
  BY DEF Series
<1>5. Len(seconds) = Len(buckets) /\ \A k \in DOMAIN seconds : seconds[k] = k
  BY DEF Series
<1> QED
  BY <1>1, <1>2, <1>3, <1>4, <1>5 DEF Series

\* The bucket found under the read lock is that of the second.
LEMMA SeriesFind ==
    ASSUME TypeOK, Control, Series, NEW x \in {Main} \cup Workers, FindSecond(x)
    PROVE  Series'
<1>1. /\ pc[x] = "second" /\ plan' = plan /\ next' = next /\ seconds' = seconds
      /\ buckets' = buckets
  BY DEF FindSecond
<1>2. /\ pc \in [{Main} \cup Workers -> SendLabels \cup ReadLabels \cup FileLabels]
      /\ held \in [{Main} \cup Workers -> Nat] /\ seconds \in Seq(Nat)
  BY DEF TypeOK
<1>3. SecondOf(x) \in Nat
  BY <1>1, SecondFacts DEF SendLabels
<1>4. \/ /\ SecondOf(x) < Len(seconds) /\ pc' = [pc EXCEPT ![x] = "bucket"]
         /\ held' = [held EXCEPT ![x] = seconds[SecondOf(x) + 1]]
      \/ held' = held /\ pc' = [pc EXCEPT ![x] = "grow"]
  BY DEF FindSecond, Goto
<1>5. \A w \in Workers : pc'[w] = "done" <=> pc[w] = "done"
  BY <1>1, <1>2, <1>4
<1>6. SecondOf(x) < Len(seconds) =>
          /\ seconds[SecondOf(x) + 1] = SecondOf(x) + 1 /\ SecondOf(x) + 1 <= Len(buckets)
  BY <1>2, <1>3 DEF Series
<1>7. ASSUME NEW y \in {Main} \cup Workers, pc'[y] = "bucket"
      PROVE \/ pc[y] = "bucket" /\ held'[y] = held[y]
            \/ held'[y] = SecondOf(y) + 1 /\ held'[y] <= Len(buckets)
  BY <1>2, <1>4, <1>6, <1>7
<1> QED
  BY <1>1, <1>5, <1>7, SeriesKept

\* Buckets appended under the exclusive lock hold nobody's attempt yet.
LEMMA SeriesGrow ==
    ASSUME TypeOK, Control, Series, NEW x \in {Main} \cup Workers, GrowSeries(x)
    PROVE  Series'
<1>1. pc[x] = "grow" /\ plan' = plan /\ next' = next /\ pc' = [pc EXCEPT ![x] = "bucket"]
  BY DEF GrowSeries, Goto
<1>2. /\ pc \in [{Main} \cup Workers -> SendLabels \cup ReadLabels \cup FileLabels]
      /\ held \in [{Main} \cup Workers -> Nat] /\ buckets \in Seq(Bucket) /\ Len(buckets) \in Nat
  BY DEF TypeOK
<1>3. /\ seconds' \in Seq(Nat) /\ buckets' \in Seq(Bucket)
      /\ Len(seconds') = Len(buckets') /\ Len(buckets') >= Len(buckets)
      /\ Len(buckets') >= SecondOf(x) + 1
      /\ \A k \in 1 .. Len(seconds') : seconds'[k] = k
      /\ \A k \in 1 .. Len(buckets') :
            buckets'[k] = IF k <= Len(buckets) THEN buckets[k] ELSE NewBucket
      /\ held' = [held EXCEPT ![x] = SecondOf(x) + 1]
  BY Grown
<1>4. /\ Workers' = Workers /\ (\A y : SecondOf(y)' = SecondOf(y))
      /\ DOMAIN seconds' = 1 .. Len(seconds') /\ DOMAIN buckets' = 1 .. Len(buckets')
      /\ DOMAIN buckets = 1 .. Len(buckets) /\ Len(buckets') \in Nat
  BY <1>1, <1>2, <1>3 DEF Workers, SecondOf
<1>5. \A w \in Workers : pc'[w] = "done" <=> pc[w] = "done"
  BY <1>1, <1>2
<1>6. ASSUME NEW k \in 1 .. Len(buckets') PROVE BucketAt(k)'
  <2>1. CASE k <= Len(buckets)
    <3>1. k \in DOMAIN buckets /\ buckets'[k] = buckets[k]
      BY <1>2, <1>3, <1>4, <2>1
    <3> QED
      BY <1>1, <1>5, <3>1, BucketSame DEF Series
  <2>2. CASE ~(k <= Len(buckets))
    <3> DEFINE S == {w \in Workers' : pc'[w] = "done" /\ Slot(plan'[w].doneAt) = k}
    <3>1. \A w \in Workers :
             /\ w < next => Slot(plan[w].sentAt) # k
             /\ pc[w] = "done" => Slot(plan[w].doneAt) # k
      <4>1. ASSUME NEW w \in Workers
            PROVE /\ w < next => Slot(plan[w].sentAt) # k
                  /\ pc[w] = "done" => Slot(plan[w].doneAt) # k
        <5>1. /\ w < next => Slot(plan[w].sentAt) <= Len(buckets)
              /\ pc[w] = "done" => Slot(plan[w].doneAt) <= Len(buckets)
          BY DEF Series
        <5> QED
          BY <2>2, <5>1
      <4> QED
        BY <4>1
    <3>2. S = {} /\ {w \in Workers' : w < next' /\ Slot(plan'[w].sentAt) = k} = {}
      BY <1>1, <1>4, <1>5, <3>1
    <3>3. buckets'[k] = NewBucket
      BY <1>3, <2>2
    <3> HIDE DEF S
    <3>4. /\ {w \in S : Succeeded(w)'} = {} /\ {w \in S : ~Succeeded(w)'} = {}
          /\ {w \in S : plan'[w].outcome = "timeout"} = {}
      BY <3>2
    <3>5. /\ NewBucket.sent = 0 /\ NewBucket.completed = 0 /\ NewBucket.success = 0
          /\ NewBucket.failure = 0 /\ NewBucket.timeouts = 0
      BY DEF NewBucket
    <3>6. Cardinality({}) = 0
      BY FS_EmptySet
    <3> QED
      BY <3>2, <3>3, <3>4, <3>5, <3>6 DEF BucketAt, S
  <2> QED
    BY <2>1, <2>2
<1>7. ASSUME NEW y \in {Main} \cup Workers, pc'[y] = "bucket"
      PROVE held'[y] = SecondOf(y) + 1 /\ held'[y] <= Len(buckets')
  <2>1. CASE y = x
    BY <1>2, <1>3, <2>1
  <2>2. CASE y # x
    <3>1. pc[y] = "bucket" /\ held'[y] = held[y]
      BY <1>1, <1>2, <1>3, <1>7, <2>2
    <3>2. held[y] = SecondOf(y) + 1 /\ held[y] <= Len(buckets) /\ held[y] \in Nat
      BY <1>2, <3>1 DEF Series
    <3> QED
      BY <1>2, <1>3, <1>4, <3>1, <3>2
  <2> QED
    BY <2>1, <2>2
<1>8. ASSUME NEW w \in Workers
      PROVE /\ w < next => Slot(plan[w].sentAt) <= Len(buckets')
            /\ pc'[w] = "done" => Slot(plan[w].doneAt) <= Len(buckets')
  <2>1. /\ w < next => Slot(plan[w].sentAt) <= Len(buckets)
        /\ pc'[w] = "done" => Slot(plan[w].doneAt) <= Len(buckets)
    BY <1>5 DEF Series
  <2>2. Slot(plan[w].sentAt) \in Nat /\ Slot(plan[w].doneAt) \in Nat
    BY SlotFacts
  <2> QED
    BY <1>2, <1>3, <1>4, <2>1, <2>2
<1> QED
  BY <1>1, <1>3, <1>4, <1>6, <1>7, <1>8 DEF Series

\* RecordSent counts an attempt in the second main found, and in no other.
LEMMA SeriesStart ==
    ASSUME TypeOK, Control, Walked, Series, Start
    PROVE  Series'
<1>1. /\ pc[Main] = "bucket" /\ plan' = plan /\ next' = next + 1 /\ seconds' = seconds
      /\ held' = held /\ buckets' = [buckets EXCEPT ![held[Main]].sent = @ + 1]
  BY DEF Start
<1>2. next \in Workers /\ Main \notin Workers /\ Workers = 1 .. Len(plan) /\ Len(plan) \in Nat
      /\ IsFiniteSet(Workers)
  BY <1>1, PlanFacts DEF Control, SendLabels, TypeOK
<1>3. held[Main] = Slot(plan[next].sentAt) /\ held[Main] <= Len(buckets)
  BY <1>1, SecondFacts DEF Series, SendLabels
<1>4. buckets \in Seq(Bucket) /\ Len(buckets) \in Nat /\ DOMAIN buckets = 1 .. Len(buckets)
  BY DEF TypeOK
<1>5. held[Main] \in 1 .. Len(buckets)
  BY <1>2, <1>3, <1>4, SlotFacts
<1>6. PICK j \in 1 .. Len(buckets) : j = held[Main]
  BY <1>5
<1>7. buckets[j] \in Bucket /\ buckets' = [buckets EXCEPT ![j] = [buckets[j] EXCEPT !.sent = @ + 1]]
  BY <1>1, <1>4, <1>6
<1>8. /\ DOMAIN buckets' = 1 .. Len(buckets) /\ Len(buckets') = Len(buckets)
      /\ \A k \in 1 .. Len(buckets) : k # j => buckets'[k] = buckets[k]
      /\ buckets'[j].sent = buckets[j].sent + 1 /\ buckets'[j].completed = buckets[j].completed
      /\ buckets'[j].success = buckets[j].success /\ buckets'[j].failure = buckets[j].failure
      /\ buckets'[j].timeouts = buckets[j].timeouts
  <2> DEFINE e == [buckets[j] EXCEPT !.sent = @ + 1]
  <2>1. /\ e.sent = buckets[j].sent + 1 /\ e.completed = buckets[j].completed
        /\ e.success = buckets[j].success /\ e.failure = buckets[j].failure
        /\ e.timeouts = buckets[j].timeouts /\ e \in Bucket
    BY <1>7 DEF Bucket
  <2>2. buckets' = [buckets EXCEPT ![j] = e]
    BY <1>7
  <2> HIDE DEF e
  <2>3. buckets'[j] = e /\ \A k \in 1 .. Len(buckets) : k # j => buckets'[k] = buckets[k]
    BY <1>4, <2>2
  <2>4. DOMAIN buckets' = 1 .. Len(buckets) /\ Len(buckets') = Len(buckets)
    BY <1>4, <2>1, <2>2, ExceptSeq
  <2> QED
    BY <2>1, <2>3, <2>4
<1>9. /\ Workers' = Workers /\ \A w \in Workers : SecondOf(w)' = SecondOf(w)
  BY <1>1, <1>2 DEF Workers, SecondOf
<1>10. /\ \A w \in Workers : /\ pc'[w] = "done" <=> pc[w] = "done"
                             /\ pc'[w] = "bucket" => pc[w] = "bucket"
       /\ pc'[Main] = "send"
  <2>1. MainNext
    BY DEF MainNext
  <2>2. \A w \in Workers :
           \/ pc'[w] = pc[w]
           \/ pc[w] = "idle" /\ pc'[w] \in {"completed", "artifact"}
    BY <2>1, MainFrame
  <2>3. pc'[Main] = "send"
    <3>1. pc \in [{Main} \cup Workers -> SendLabels \cup ReadLabels \cup FileLabels]
      BY DEF TypeOK
    <3> QED
      BY <1>2, <3>1 DEF Start
  <2> QED
    BY <2>2, <2>3
<1>11. \A w \in Workers : w < next' <=> w < next \/ w = next
  BY <1>1, <1>2
<1>12. ASSUME NEW k \in 1 .. Len(buckets) PROVE BucketAt(k)'
  <2> DEFINE S == {w \in Workers : pc[w] = "done" /\ Slot(plan[w].doneAt) = k}
             T == {w \in Workers : w < next /\ Slot(plan[w].sentAt) = k}
             T1 == {w \in Workers' : w < next' /\ Slot(plan'[w].sentAt) = k}
  <2>1. {w \in Workers' : pc'[w] = "done" /\ Slot(plan'[w].doneAt) = k} = S
    BY <1>1, <1>9, <1>10
  <2>2. T1 = IF k = j THEN T \cup {next} ELSE T
    BY <1>1, <1>2, <1>3, <1>6, <1>9, <1>11
  <2>3. /\ buckets[k].sent = Cardinality(T) /\ buckets[k].completed = Cardinality(S)
        /\ buckets[k].success = Cardinality({w \in S : Succeeded(w)})
        /\ buckets[k].failure = Cardinality({w \in S : ~Succeeded(w)})
        /\ buckets[k].timeouts = Cardinality({w \in S : plan[w].outcome = "timeout"})
    BY <1>4 DEF Series, BucketAt
  <2>4. IsFiniteSet(T) /\ next \notin T
    <3>1. T \subseteq Workers
      OBVIOUS
    <3>2. next \notin T
      BY <1>2
    <3> HIDE DEF T
    <3> QED
      BY <1>2, <3>1, <3>2, FS_Subset
  <2> HIDE DEF S, T, T1
  <2>5. Cardinality(T \cup {next}) = Cardinality(T) + 1
    BY <2>4, OneMore
  <2>6. buckets'[k].sent = Cardinality(T1)
    BY <1>8, <2>2, <2>3, <2>5
  <2>7. /\ {w \in S : Succeeded(w)'} = {w \in S : Succeeded(w)}
        /\ {w \in S : ~Succeeded(w)'} = {w \in S : ~Succeeded(w)}
        /\ {w \in S : plan'[w].outcome = "timeout"} = {w \in S : plan[w].outcome = "timeout"}
    BY <1>1 DEF Succeeded
  <2>8. /\ buckets'[k].completed = buckets[k].completed /\ buckets'[k].success = buckets[k].success
        /\ buckets'[k].failure = buckets[k].failure /\ buckets'[k].timeouts = buckets[k].timeouts
    BY <1>8
  <2> QED
    BY <2>1, <2>3, <2>6, <2>7, <2>8 DEF BucketAt, T1
<1>13. \A x \in {Main} \cup Workers :
          pc'[x] = "bucket" => held'[x] = SecondOf(x)' + 1 /\ held'[x] <= Len(buckets')
  BY <1>1, <1>8, <1>9, <1>10 DEF Series
<1>14. ASSUME NEW w \in Workers
       PROVE /\ w < next' => Slot(plan[w].sentAt) <= Len(buckets')
             /\ pc'[w] = "done" => Slot(plan[w].doneAt) <= Len(buckets')
  BY <1>3, <1>8, <1>10, <1>11 DEF Series
<1>15. Len(seconds') = Len(buckets') /\ \A k \in DOMAIN seconds' : seconds'[k] = k
  BY <1>1, <1>8 DEF Series
<1> QED
  BY <1>1, <1>8, <1>9, <1>12, <1>13, <1>14, <1>15 DEF Series

\* A worker counts its attempt in the second it found.
LEMMA SeriesCount ==
    ASSUME TypeOK, Control, Series, NEW w \in Workers, CountSecond(w)
    PROVE  Series'
<1>1. /\ pc[w] = "bucket" /\ plan' = plan /\ next' = next /\ seconds' = seconds
      /\ held' = held /\ pc' = [pc EXCEPT ![w] = "done"]
  BY DEF CountSecond, Goto
<1>2. /\ pc \in [{Main} \cup Workers -> SendLabels \cup ReadLabels \cup FileLabels]
      /\ IsFiniteSet(Workers) /\ Main \notin Workers
  BY PlanFacts DEF TypeOK
<1>3. held[w] = Slot(plan[w].doneAt) /\ held[w] <= Len(buckets)
  BY <1>1, SecondFacts DEF Series
<1>4. buckets \in Seq(Bucket) /\ Len(buckets) \in Nat /\ DOMAIN buckets = 1 .. Len(buckets)
  BY DEF TypeOK
<1>5. held[w] \in 1 .. Len(buckets)
  BY <1>3, <1>4, SlotFacts
<1>6. PICK j \in 1 .. Len(buckets) : j = held[w]
  BY <1>5
<1> DEFINE One(test) == IF test THEN 1 ELSE 0
           a == One(Succeeded(w))
           b == One(~Succeeded(w))
           c == One(plan[w].outcome = "timeout")
           d == buckets[j]
           e == [d EXCEPT !.completed = @ + 1, !.success = @ + a, !.failure = @ + b,
                          !.timeouts = @ + c]
<1>7. buckets' = [buckets EXCEPT ![j] = e]
  BY <1>6 DEF CountSecond
<1>8. /\ DOMAIN buckets' = 1 .. Len(buckets) /\ Len(buckets') = Len(buckets)
      /\ \A k \in 1 .. Len(buckets) : k # j => buckets'[k] = buckets[k]
      /\ buckets'[j].sent = d.sent /\ buckets'[j].completed = d.completed + 1
      /\ buckets'[j].success = d.success + a /\ buckets'[j].failure = d.failure + b
      /\ buckets'[j].timeouts = d.timeouts + c
  <2>1. d \in Bucket /\ a \in Nat /\ b \in Nat /\ c \in Nat
    BY <1>4
  <2>e. e = [d EXCEPT !.completed = @ + 1, !.success = @ + a, !.failure = @ + b,
                     !.timeouts = @ + c]
    OBVIOUS
  <2> HIDE DEF a, b, c, d, e
  <2>2. /\ d.sent \in Nat /\ d.completed \in Nat /\ d.success \in Nat /\ d.failure \in Nat
        /\ d.timeouts \in Nat
    BY <2>1 DEF Bucket
  <2>3. e = [sent |-> d.sent, completed |-> d.completed + 1, success |-> d.success + a,
             failure |-> d.failure + b, timeouts |-> d.timeouts + c]
    BY <2>1, <2>e DEF Bucket
  <2>4. e \in Bucket
    BY <2>1, <2>2, <2>3 DEF Bucket
  <2>5. buckets'[j] = e /\ \A k \in 1 .. Len(buckets) : k # j => buckets'[k] = buckets[k]
    BY <1>4, <1>7
  <2>6. DOMAIN buckets' = 1 .. Len(buckets) /\ Len(buckets') = Len(buckets)
    BY <1>4, <1>7, <2>4, ExceptSeq
  <2> QED
    BY <2>3, <2>5, <2>6
<1>9. /\ Workers' = Workers /\ \A x : SecondOf(x)' = SecondOf(x)
  BY <1>1 DEF Workers, SecondOf
<1>10. \A x \in {Main} \cup Workers : pc'[x] = IF x = w THEN "done" ELSE pc[x]
  BY <1>1, <1>2
<1>11. ASSUME NEW k \in 1 .. Len(buckets), k # j PROVE BucketAt(k)'
  <2> DEFINE S == {u \in Workers : pc[u] = "done" /\ Slot(plan[u].doneAt) = k}
             T == {u \in Workers : u < next /\ Slot(plan[u].sentAt) = k}
  <2>1. /\ {u \in Workers' : pc'[u] = "done" /\ Slot(plan'[u].doneAt) = k} = S
        /\ {u \in Workers' : u < next' /\ Slot(plan'[u].sentAt) = k} = T
    BY <1>1, <1>3, <1>6, <1>9, <1>10, <1>11
  <2>2. buckets'[k] = buckets[k]
    BY <1>8, <1>11
  <2>3. /\ buckets[k].sent = Cardinality(T) /\ buckets[k].completed = Cardinality(S)
        /\ buckets[k].success = Cardinality({u \in S : Succeeded(u)})
        /\ buckets[k].failure = Cardinality({u \in S : ~Succeeded(u)})
        /\ buckets[k].timeouts = Cardinality({u \in S : plan[u].outcome = "timeout"})
    BY <1>4 DEF Series, BucketAt
  <2> HIDE DEF S, T
  <2>4. /\ {u \in S : Succeeded(u)'} = {u \in S : Succeeded(u)}
        /\ {u \in S : ~Succeeded(u)'} = {u \in S : ~Succeeded(u)}
        /\ {u \in S : plan'[u].outcome = "timeout"} = {u \in S : plan[u].outcome = "timeout"}
    BY <1>1 DEF Succeeded
  <2> QED
    BY <2>1, <2>2, <2>3, <2>4 DEF BucketAt
<1>12. BucketAt(j)'
  <2> DEFINE S == {u \in Workers : pc[u] = "done" /\ Slot(plan[u].doneAt) = j}
             T == {u \in Workers : u < next /\ Slot(plan[u].sentAt) = j}
             S1 == {u \in Workers' : pc'[u] = "done" /\ Slot(plan'[u].doneAt) = j}
             P == {u \in S : Succeeded(u)}
             Q == {u \in S : ~Succeeded(u)}
             R == {u \in S : plan[u].outcome = "timeout"}
             P1 == {u \in S1 : Succeeded(u)'}
             Q1 == {u \in S1 : ~Succeeded(u)'}
             R1 == {u \in S1 : plan'[u].outcome = "timeout"}
  <2>1. S1 = S \cup {w} /\ {u \in Workers' : u < next' /\ Slot(plan'[u].sentAt) = j} = T
    BY <1>1, <1>3, <1>6, <1>9, <1>10
  <2>2. /\ d.sent = Cardinality(T) /\ d.completed = Cardinality(S)
        /\ d.success = Cardinality(P) /\ d.failure = Cardinality(Q)
        /\ d.timeouts = Cardinality(R)
    BY <1>4 DEF Series, BucketAt
  <2>3. w \notin S
    BY <1>1
  <2>4. S \subseteq Workers /\ P \subseteq Workers /\ Q \subseteq Workers /\ R \subseteq Workers
        /\ w \notin P /\ w \notin Q /\ w \notin R
    BY <2>3
  <2>5. /\ P1 = IF Succeeded(w) THEN P \cup {w} ELSE P
        /\ Q1 = IF ~Succeeded(w) THEN Q \cup {w} ELSE Q
        /\ R1 =
              IF plan[w].outcome = "timeout" THEN R \cup {w} ELSE R
    <3> HIDE DEF S1, S
    <3> QED
      BY <1>1, <2>1 DEF Succeeded
  <2> HIDE DEF S, T, S1, P, Q, R, P1, Q1, R1, d
  <2>6. /\ Cardinality(S \cup {w}) = Cardinality(S) + 1 /\ Cardinality(P \cup {w}) = Cardinality(P) + 1
        /\ Cardinality(Q \cup {w}) = Cardinality(Q) + 1 /\ Cardinality(R \cup {w}) = Cardinality(R) + 1
        /\ Cardinality(P) \in Nat /\ Cardinality(Q) \in Nat /\ Cardinality(R) \in Nat
    <3>1. IsFiniteSet(S) /\ IsFiniteSet(P) /\ IsFiniteSet(Q) /\ IsFiniteSet(R)
      BY <1>2, <2>4, FS_Subset
    <3> QED
      BY <2>3, <2>4, <3>1, OneMore
  <2>7. /\ buckets'[j].success = Cardinality(P1)
        /\ buckets'[j].failure = Cardinality(Q1)
    <3>1. CASE Succeeded(w)
      <4>1. a = 1 /\ b = 0
        BY <3>1
      <4>2. /\ P1 = P \cup {w}
            /\ Q1 = Q
        BY <2>5, <3>1
      <4> HIDE DEF a, b
      <4> QED
        BY <1>8, <2>2, <2>6, <4>1, <4>2
    <3>2. CASE ~Succeeded(w)
      <4>1. a = 0 /\ b = 1
        BY <3>2
      <4>2. /\ P1 = P
            /\ Q1 = Q \cup {w}
        BY <2>5, <3>2
      <4> HIDE DEF a, b
      <4> QED
        BY <1>8, <2>2, <2>6, <4>1, <4>2
    <3> QED
      BY <3>1, <3>2
  <2>9. buckets'[j].timeouts = Cardinality(R1)
    <3>1. CASE plan[w].outcome = "timeout"
      <4>1. c = 1 /\ R1 = R \cup {w}
        BY <2>5, <3>1
      <4> HIDE DEF c
      <4> QED
        BY <1>8, <2>2, <2>6, <4>1
    <3>2. CASE plan[w].outcome # "timeout"
      <4>1. c = 0 /\ R1 = R
        BY <2>5, <3>2
      <4> HIDE DEF c
      <4> QED
        BY <1>8, <2>2, <2>6, <4>1
    <3> QED
      BY <3>1, <3>2
  <2>10. /\ buckets'[j].completed = Cardinality(S1)
         /\ buckets'[j].sent =
               Cardinality({u \in Workers' : u < next' /\ Slot(plan'[u].sentAt) = j})
    BY <1>8, <2>1, <2>2, <2>6
  <2> QED
    BY <2>7, <2>9, <2>10 DEF BucketAt, S1, P1, Q1, R1
<1>13. \A x \in {Main} \cup Workers :
          pc'[x] = "bucket" => held'[x] = SecondOf(x)' + 1 /\ held'[x] <= Len(buckets')
  BY <1>1, <1>8, <1>9, <1>10 DEF Series
<1>14. ASSUME NEW u \in Workers
       PROVE /\ u < next' => Slot(plan[u].sentAt) <= Len(buckets')
             /\ pc'[u] = "done" => Slot(plan[u].doneAt) <= Len(buckets')
  BY <1>1, <1>3, <1>8, <1>10 DEF Series
<1>15. Len(seconds') = Len(buckets') /\ \A k \in DOMAIN seconds' : seconds'[k] = k
  BY <1>1, <1>8 DEF Series
<1> QED
  BY <1>1, <1>8, <1>9, <1>11, <1>12, <1>13, <1>14, <1>15 DEF Series

\* The series, whoever takes a step.
LEMMA SeriesStep ==
    ASSUME TypeOK, Control, Walked, Series, MainNext \/ \E w \in Workers : File(w)
    PROVE  Series'
<1>1. pc \in [{Main} \cup Workers -> SendLabels \cup ReadLabels \cup FileLabels]
  BY DEF TypeOK
<1>2. CASE FindSecond(Main) \/ GrowSeries(Main)
  BY <1>2, SeriesFind, SeriesGrow
<1>3. CASE Start
  BY <1>3, SeriesStart
<1>4. CASE Send \/ Drain \/ BuildSummary
  <2>1. UNCHANGED <<plan, next, seconds, buckets, held>>
    BY <1>4, ReadFieldType DEF Send, Drain, BuildSummary, WalkCounts, NextEntry
  <2>2. \E l : l # "bucket" /\ (pc' = [pc EXCEPT ![Main] = l] \/ pc' = pc)
    <3>1. CASE ReadCounters
      BY <3>1, ReadFieldType DEF Goto, ReadLabels
    <3>2. CASE WalkCounts
      <4>1. pc' = pc \/ pc' = [pc EXCEPT ![Main] = "errors"]
        BY <3>2 DEF WalkCounts, Goto
      <4> QED
        BY <4>1
    <3> QED
      BY <1>4, <3>1, <3>2 DEF Send, Drain, BuildSummary, NextEntry, Goto
  <2>3. /\ \A w \in Workers : pc'[w] = pc[w]
        /\ pc'[Main] = "bucket" => pc[Main] = "bucket"
    <3>1. Main \notin Workers
      BY PlanFacts DEF TypeOK
    <3> QED
      BY <1>1, <2>2, <3>1
  <2> QED
    BY <2>1, <2>3, SeriesKept
<1>5. CASE UNCHANGED vars
  <2>1. UNCHANGED <<plan, next, seconds, buckets, held, pc>>
    BY <1>5 DEF vars
  <2> QED
    BY <2>1, SeriesKept
<1>6. CASE \E w \in Workers : File(w)
  <2>1. PICK w \in Workers : File(w)
    BY <1>6
  <2>2. CASE FindSecond(w) \/ GrowSeries(w) \/ CountSecond(w)
    BY <2>2, SeriesFind, SeriesGrow, SeriesCount
  <2>3. CASE ~(FindSecond(w) \/ GrowSeries(w) \/ CountSecond(w))
    <3>1. /\ UNCHANGED <<plan, next, seconds, buckets, held>>
          /\ \E l : l \notin {"bucket", "done"} /\ pc' = [pc EXCEPT ![w] = l]
      <4>1. CASE \/ ClaimArtifact(w) \/ LoadMin(w) \/ LoadMax(w)
        BY <4>1 DEF ClaimArtifact, LoadMin, LoadMax, Goto
      <4>2. CASE AddCount(w) \/ AddSum(w) \/ SwapMin(w) \/ SwapMax(w)
        <5>1. \E from, to, c : HistStep(w, from, to, c) /\ to \notin {"bucket", "done"}
          BY <4>2 DEF AddCount, AddSum, SwapMin, SwapMax
        <5> QED
          BY <5>1 DEF HistStep, Goto
      <4>3. CASE AddCompleted(w) \/ RecordOutcome(w) \/ AddSplit(w) \/ AddTimeout(w)
        <5>1. \E from, to, c : StatStep(w, from, to, c) /\ to \notin {"bucket", "done"}
          BY <4>3 DEF AddCompleted, RecordOutcome, AddSplit, AddTimeout
        <5> QED
          BY <5>1 DEF StatStep, Goto
      <4> QED
        BY <2>1, <2>3, <4>1, <4>2, <4>3 DEF File
    <3>2. pc[w] # "done"
      BY <2>1, WorkerFrame
    <3>3. /\ \A u \in Workers : pc'[u] = "done" <=> pc[u] = "done"
          /\ \A x \in {Main} \cup Workers : pc'[x] = "bucket" => pc[x] = "bucket"
      BY <1>1, <3>1, <3>2
    <3> QED
      BY <3>1, <3>3, SeriesKept
  <2> QED
    BY <2>2, <2>3
<1> QED
  BY <1>2, <1>3, <1>4, <1>5, <1>6 DEF MainNext

-----------------------------------------------------------------------------
(* The artifacts.                                                          *)

\* A slot is claimed by adding, and nobody claims twice.
LEMMA ClaimsStep ==
    ASSUME TypeOK, Control, Walked, Claims, MainNext \/ \E w \in Workers : File(w)
    PROVE  Claims'
<1> DEFINE C == {w \in Workers : plan[w].outcome # "timeout" /\ pc[w] \notin {"idle", "artifact"}}
           C1 == {w \in Workers' : plan'[w].outcome # "timeout" /\ pc'[w] \notin {"idle", "artifact"}}
<1>1. /\ written = Cardinality(C) /\ files \subseteq C
      /\ Cardinality(files) = IF written < ArtifactLimit THEN written ELSE ArtifactLimit
  BY DEF Claims
<1>2. /\ written' = Cardinality(C1) /\ files' \subseteq C1
      /\ Cardinality(files') = (IF written' < ArtifactLimit THEN written' ELSE ArtifactLimit)
      => Claims'
  BY DEF Claims
<1>3. CASE MainNext
  <2>1. plan' = plan /\ Workers' = Workers /\ files' = files /\ written' = written
    BY <1>3, MainFrame
  <2>2. \A w \in Workers :
           \/ pc'[w] = pc[w]
           \/ pc[w] = "idle" /\ pc'[w] = IF plan[w].outcome = "timeout" THEN "completed" ELSE "artifact"
    BY <1>3, MainFrame
  <2>3. C1 = C
    BY <2>1, <2>2
  <2> QED
    BY <1>1, <1>2, <2>1, <2>3
<1>4. CASE \E w \in Workers : File(w)
  <2>1. PICK w \in Workers : File(w)
    BY <1>4
  <2>2. /\ plan' = plan /\ Workers' = Workers /\ pc'[w] \notin {"idle", "artifact"} /\ pc[w] # "idle"
        /\ \A u \in Workers : u # w => pc'[u] = pc[u]
    BY <2>1, WorkerFrame
  <2>3. CASE ClaimArtifact(w)
    <3>1. /\ pc[w] = "artifact" /\ written' = written + 1 /\ plan[w].outcome # "timeout"
          /\ files' = IF written + 1 > ArtifactLimit THEN files ELSE files \cup {w}
      BY <2>3 DEF ClaimArtifact, Control
    <3>2. C1 = C \cup {w} /\ w \notin C /\ C \subseteq Workers
      BY <2>2, <3>1
    <3>3. IsFiniteSet(Workers) /\ ArtifactLimit \in Nat /\ written \in Nat
      BY PlanFacts, CollectorAssumption DEF TypeOK
    <3> HIDE DEF C, C1
    <3>4. IsFiniteSet(C) /\ IsFiniteSet(files) /\ w \notin files
      BY <1>1, <3>2, <3>3, FS_Subset
    <3>5. /\ Cardinality(C \cup {w}) = Cardinality(C) + 1
          /\ Cardinality(files \cup {w}) = Cardinality(files) + 1
      BY <3>2, <3>4, OneMore
    <3>6. written' = Cardinality(C1) /\ files' \subseteq C1
      BY <1>1, <3>1, <3>2, <3>5
    <3>7. Cardinality(files') = IF written' < ArtifactLimit THEN written' ELSE ArtifactLimit
      BY <1>1, <3>1, <3>3, <3>5
    <3> QED
      BY <1>2, <3>6, <3>7
  <2>4. CASE ~ClaimArtifact(w)
    <3>1. pc[w] # "artifact" /\ written' = written /\ files' = files
      BY <2>1, <2>4 DEF File, AddCompleted, AddCount, AddSum, LoadMin, SwapMin, LoadMax, SwapMax,
                        RecordOutcome, AddSplit, AddTimeout, FindSecond, GrowSeries, CountSecond,
                        HistStep, StatStep
    <3>2. C1 = C
      BY <2>2, <3>1
    <3> QED
      BY <1>1, <1>2, <3>1, <3>2
  <2> QED
    BY <2>3, <2>4
<1> QED
  BY <1>3, <1>4

-----------------------------------------------------------------------------
(* The invariant.                                                          *)

\* Nothing has been recorded at the start of a run.
LEMMA InitType ==
    ASSUME Init
    PROVE  TypeOK
<1>1. /\ plan \in Plans /\ next = 1 /\ Workers = 1 .. Len(plan) /\ Len(plan) \in Nat
      /\ Main \notin Workers
  BY PlanFacts DEF Init
<1>2. /\ pc = [x \in {Main} \cup Workers |-> IF x = Main THEN "send" ELSE "idle"]
      /\ on = [x \in {Main} \cup Workers |-> 1]
      /\ seen = [x \in Workers |-> 0] /\ held = [x \in {Main} \cup Workers |-> 0]
  BY DEF Init, Workers
<1>3. NoErrors \in Errors
  BY DEF NoErrors, Errors
<1>4. stats \in [StatNames -> StageStats]
  BY <1>3 DEF Init, StageStats
<1>5. hist \in [StatNames -> HistogramState]
  <2>1. MaxInt64 \in Nat /\ [i \in Indices |-> 0] \in [Indices -> Nat]
    BY HistogramAssumption DEF MaxInt64
  <2> QED
    BY <2>1 DEF Init, HistogramState
<1>6. /\ pc \in [{Main} \cup Workers -> SendLabels \cup ReadLabels \cup FileLabels]
      /\ pc[Main] \in SendLabels \cup ReadLabels \cup {"done"}
      /\ \A w \in Workers : pc[w] \in FileLabels /\ on[w] \in {1, 2}
  BY <1>1, <1>2 DEF SendLabels, FileLabels
<1>7. on \in [{Main} \cup Workers -> 1 .. Len(Names) + 1]
  <2>1. 1 \in 1 .. Len(Names) + 1
    BY NamesFacts
  <2> QED
    BY <1>2, <2>1
<1>8. seen \in [Workers -> Nat] /\ held \in [{Main} \cup Workers -> Nat]
  BY <1>2
<1>9. NoReport \in Report
  <2>1. << >> \in Seq(Nat)
    OBVIOUS
  <2> QED
    BY <1>3, <2>1 DEF NoReport, Report
<1>10. /\ seconds \in Seq(Nat) /\ buckets \in Seq(Bucket) /\ written \in Nat
       /\ files \subseteq Workers /\ late \subseteq Workers
       /\ report \in Report /\ walk \in [idx : Indices, cumulative : Nat]
  BY <1>9, IndicesFacts DEF Init
<1> QED
  BY <1>1, <1>4, <1>5, <1>6, <1>7, <1>8, <1>10 DEF TypeOK


\* The invariant holds when main is about to send its first attempt.
LEMMA InitInv ==
    ASSUME Init
    PROVE  Inv
<1>1. TypeOK
  BY InitType
<1>2. /\ plan \in Plans /\ next = 1 /\ Workers = 1 .. Len(plan) /\ Len(plan) \in Nat
      /\ Main \notin Workers
  BY PlanFacts DEF Init
<1>3. /\ pc[Main] = "send" /\ on[Main] = 1
      /\ \A w \in Workers : pc[w] = "idle" /\ on[w] = 1 /\ w >= next
  BY <1>2 DEF Init, Workers
<1>4. Control
  <2>1. walk = [idx |-> 0, cumulative |-> 0] /\ late = {}
    BY DEF Init
  <2> QED
    BY <1>2, <1>3, <2>1 DEF Control, SendLabels, ReadLabels
<1>5. \A n \in StatNames, k \in 1 .. 9 : Done(n, k) = {}
  <2>1. \A w \in Workers : StepOf(pc[w]) = 0
    BY <1>3, Steps
  <2> QED
    BY <1>3, <2>1 DEF Done
<1>6. Cardinality({}) = 0
  BY FS_EmptySet
<1>7. ASSUME NEW n \in StatNames
      PROVE /\ stats[n].sent = 0 /\ stats[n].completed = 0 /\ stats[n].success = 0
            /\ stats[n].failure = 0 /\ stats[n].timeouts = 0
            /\ \A o \in Outcomes : stats[n].errors[o] = 0
            /\ hist[n].total = 0 /\ hist[n].sum = 0 /\ hist[n].min = MaxInt64 /\ hist[n].max = 0
            /\ \A i \in Indices : hist[n].counts[i] = 0
  BY DEF Init, NoErrors
<1>8. Counted
  <2>1. ASSUME NEW n \in StatNames PROVE CountedAt(n)
    <3>1. Done(n, 1) = {} /\ Done(n, 7) = {} /\ Done(n, 8) = {} /\ Done(n, 9) = {}
      BY <1>5
    <3>2. /\ {w \in Done(n, 8) : Succeeded(w)} = {} /\ {w \in Done(n, 8) : ~Succeeded(w)} = {}
          /\ {w \in Done(n, 9) : plan[w].outcome = "timeout"} = {}
          /\ \A o \in Outcomes : {w \in Done(n, 7) : plan[w].outcome = o} = {}
      BY <3>1
    <3> QED
      BY <1>6, <1>7, <3>1, <3>2 DEF CountedAt
  <2> QED
    BY <2>1 DEF Counted
<1>9. Sent
  <2>1. ASSUME NEW n \in StatNames
        PROVE stats[n].sent = Cardinality({w \in Of(n) : w < next \/ (w = next /\ pc[Main] # "send")})
    <3>1. {w \in Of(n) : w < next \/ (w = next /\ pc[Main] # "send")} = {}
      BY <1>2, <1>3 DEF Of
    <3> QED
      BY <1>6, <1>7, <3>1
  <2> QED
    BY <2>1 DEF Sent
<1>10. Recorded
  <2>1. ASSUME NEW n \in StatNames PROVE RecordedAt(n)
    <3>1. Done(n, 2) = {} /\ Done(n, 3) = {} /\ Done(n, 4) = {}
      BY <1>5
    <3>2. \A i \in Indices : {w \in Done(n, 2) : CountsIndex(Value(w)) = i} = {}
      BY <3>1
    <3>3. Units(Done(n, 4)) = 0
      <4>1. {u \in Done(n, 4) \X (1 .. MaxTrackable) : u[2] <= Value(u[1])} = {}
        BY <3>1
      <4> QED
        BY <1>6, <4>1 DEF Units
    <3> QED
      BY <1>6, <1>7, <3>1, <3>2, <3>3 DEF RecordedAt
  <2> QED
    BY <2>1 DEF Recorded
<1>11. Extremes
  BY <1>3, <1>5, <1>7 DEF Extremes, ExtremesAt
<1>12. ReadSoFar
  BY <1>3 DEF ReadSoFar
<1>13. ReadSettled
  BY <1>3 DEF ReadSettled
<1>14. Walked
  <2>1. report.percentiles = << >>
    BY DEF Init, NoReport
  <2>2. DOMAIN report.percentiles = {}
    BY <2>1
  <2> QED
    BY <1>3, <2>1, <2>2 DEF Walked
<1>15. Series
  <2>1. seconds = << >> /\ buckets = << >>
    BY DEF Init
  <2>2. Len(seconds) = Len(buckets) /\ DOMAIN seconds = {} /\ DOMAIN buckets = {}
    BY <2>1
  <2> QED
    BY <1>2, <1>3, <2>2 DEF Series
<1>16. Claims
  <2>1. {w \in Workers : plan[w].outcome # "timeout" /\ pc[w] \notin {"idle", "artifact"}} = {}
    BY <1>3
  <2>2. written = 0 /\ files = {} /\ ArtifactLimit \in Nat \ {0}
    BY CollectorAssumption DEF Init
  <2> QED
    BY <1>6, <2>1, <2>2 DEF Claims
<1> QED
  BY <1>1, <1>4, <1>8, <1>9, <1>10, <1>11, <1>12, <1>13, <1>14, <1>15, <1>16 DEF Inv

\* Every step keeps it.
LEMMA StepInv ==
    ASSUME Inv, [Next]_vars
    PROVE  Inv'
<1>1. MainNext \/ \E w \in Workers : File(w)
  BY DEF Next, MainNext
<1>2. /\ TypeOK /\ Control /\ Counted /\ Sent /\ Recorded /\ Extremes
      /\ ReadSoFar /\ ReadSettled /\ Walked /\ Series /\ Claims
  BY DEF Inv
<1>3. TypeOK'
  BY <1>1, <1>2, FileType, MainType
<1>4. Control'
  BY <1>1, <1>2, FileControl, MainControl
<1>5. Counted'
  BY <1>1, <1>2, CountedElse, CountedStep DEF File
<1>6. Sent' /\ Recorded' /\ Extremes'
  BY <1>1, <1>2, SentStep, RecordedStep, ExtremesStep
<1>7. ReadSoFar' /\ ReadSettled' /\ Walked'
  BY <1>1, <1>2, ReadSoFarStep, ReadSettledStep, WalkedStep
<1>8. Series' /\ Claims'
  BY <1>1, <1>2, SeriesStep, ClaimsStep
<1> QED
  BY <1>3, <1>4, <1>5, <1>6, <1>7, <1>8 DEF Inv

\* What main and the workers make of the counters, the histograms, the series
\* and the artifacts, and what main has read of them, hold throughout a run.
THEOREM CollectorInvariant == Spec => []Inv
<1>1. Init => Inv
  BY InitInv
<1>2. Inv /\ [Next]_vars => Inv'
  BY StepInv
<1> QED
  BY <1>1, <1>2, PTL DEF Spec

-----------------------------------------------------------------------------
(* What follows.                                                           *)

\* Every variable has its type throughout a run.
THEOREM CollectorTypeOK == Spec => []TypeOK
<1>1. Inv => TypeOK
  BY DEF Inv
<1> QED
  BY <1>1, CollectorInvariant, PTL

\* countsIndex, valueAt and highestEquivalent agree on every value and not only
\* on those the run examines, for every magnitude and range NewHistogram could be
\* given: the buckets tile the values, at the stated relative precision.
THEOREM CollectorBucketsTile == Spec => []BucketsTile
<1>1. Tiled
  <2>1. LayoutRange \subseteq Nat
    BY HistogramAssumption DEF LayoutRange
  <2> QED
    BY <2>1, TiledEverywhere DEF Tiled
<1>2. Inv => BucketsTile
  BY <1>1 DEF BucketsTile
<1> QED
  BY <1>2, CollectorInvariant, PTL

\* The least of a set, as Min picks it.
LEMMA LeastOf ==
    ASSUME NEW S \in SUBSET Int, NEW x \in S, \A y \in S : x <= y
    PROVE  Min(S) = x
<1>1. \E z \in S : \A y \in S : z <= y
  OBVIOUS
<1>2. Min(S) \in S /\ \A y \in S : Min(S) <= y
  BY <1>1 DEF Min
<1>3. Min(S) <= x /\ x <= Min(S) /\ x \in Int /\ Min(S) \in Int
  BY <1>2
<1> QED
  BY <1>3

\* The largest of a set, as Max picks it.
LEMMA LargestOf ==
    ASSUME NEW S \in SUBSET Int, NEW x \in S, \A y \in S : x >= y
    PROVE  Max(S) = x
<1>1. \E z \in S : \A y \in S : z >= y
  OBVIOUS
<1>2. Max(S) \in S /\ \A y \in S : Max(S) >= y
  BY <1>1 DEF Max
<1>3. Max(S) >= x /\ x >= Max(S) /\ x \in Int /\ Max(S) \in Int
  BY <1>2
<1> QED
  BY <1>3

\* However many workers finish at once, WriteAttempt stores exactly as many
\* attempts with a response as the limit allows.
THEOREM CollectorArtifactsWithinLimit == Spec => []ArtifactsWithinLimit
<1>1. ASSUME Inv PROVE ArtifactsWithinLimit
  <2> DEFINE C == {w \in Workers : plan[w].outcome # "timeout" /\ pc[w] \notin {"idle", "artifact"}}
             D == {w \in Workers : plan[w].outcome # "timeout"}
  <2>1. /\ written = Cardinality(C) /\ files \subseteq C
        /\ Cardinality(files) = IF written < ArtifactLimit THEN written ELSE ArtifactLimit
    BY <1>1 DEF Inv, Claims
  <2>2. ArtifactLimit \in Nat /\ written \in Nat
    BY <1>1, CollectorAssumption DEF Inv, TypeOK
  <2>3. Cardinality(files) <= ArtifactLimit
    BY <2>1, <2>2
  <2>4. ASSUME Over PROVE Cardinality(files) = Min({ArtifactLimit, Cardinality(D)})
    <3>1. \A w \in Workers : pc[w] = "done"
      BY <2>4 DEF Over, Live
    <3>2. C = D
      BY <3>1
    <3> HIDE DEF C, D
    <3>3. {ArtifactLimit, Cardinality(D)} \subseteq Int
      BY <2>1, <2>2, <3>2
    <3>4. /\ Cardinality(files) \in {ArtifactLimit, Cardinality(D)}
          /\ \A y \in {ArtifactLimit, Cardinality(D)} : Cardinality(files) <= y
      BY <2>1, <2>2, <3>2
    <3> QED
      BY <3>3, <3>4, LeastOf
  <2> QED
    BY <2>3, <2>4 DEF ArtifactsWithinLimit
<1> QED
  BY <1>1, CollectorInvariant, PTL

\* The buckets of the series are those of their seconds: a recorder that found
\* the series too short under the read lock looks again under the exclusive one.
THEOREM CollectorSeriesByTheSecond == Spec => []SeriesByTheSecond
<1>1. ASSUME Inv, Over, NEW k \in DOMAIN seconds
      PROVE LET b == buckets[seconds[k]]
                Here(at) == IF at < 0 THEN k = 1 ELSE at = k - 1
                W == {w \in Workers : Here(plan[w].doneAt)}
            IN /\ b.sent = Cardinality({w \in Workers : Here(plan[w].sentAt)})
               /\ b.completed = Cardinality(W)
               /\ b.success = Cardinality({w \in W : Succeeded(w)})
               /\ b.failure = b.completed - b.success
               /\ b.timeouts = Cardinality({w \in W : plan[w].outcome = "timeout"})
  <2> DEFINE Here(at) == IF at < 0 THEN k = 1 ELSE at = k - 1
             W == {w \in Workers : Here(plan[w].doneAt)}
             V == {w \in Workers : Here(plan[w].sentAt)}
             S == {w \in Workers : pc[w] = "done" /\ Slot(plan[w].doneAt) = k}
             T == {w \in Workers : w < next /\ Slot(plan[w].sentAt) = k}
             P == {w \in W : Succeeded(w)}
             Q == {w \in W : ~Succeeded(w)}
  <2>1. TypeOK /\ Control /\ Series
    BY <1>1 DEF Inv
  <2>2. /\ plan \in Plans /\ Workers = 1 .. Len(plan) /\ Len(plan) \in Nat /\ IsFiniteSet(Workers)
        /\ \A w \in Workers : plan[w].sentAt \in Int /\ plan[w].doneAt \in Int
    BY <2>1, PlanFacts DEF TypeOK
  <2>3. seconds[k] = k /\ k \in Nat \ {0} /\ BucketAt(k)
    <3>1. seconds \in Seq(Nat) /\ buckets \in Seq(Bucket) /\ Len(seconds) = Len(buckets)
      BY <2>1 DEF TypeOK, Series
    <3>2. DOMAIN seconds = 1 .. Len(seconds) /\ DOMAIN buckets = 1 .. Len(seconds)
      BY <3>1
    <3> QED
      BY <2>1, <3>1, <3>2 DEF Series
  <2>4. /\ \A w \in Workers : pc[w] = "done"
        /\ next = Len(plan) + 1
    BY <1>1, <2>1 DEF Over, Live, Control, SendLabels
  <2>5. \A at \in Int : Here(at) <=> Slot(at) = k
    BY <2>3 DEF Slot
  <2>6. S = W /\ T = V
    BY <2>2, <2>4, <2>5
  <2>7. /\ buckets[k].sent = Cardinality(T) /\ buckets[k].completed = Cardinality(S)
        /\ buckets[k].success = Cardinality({w \in S : Succeeded(w)})
        /\ buckets[k].failure = Cardinality({w \in S : ~Succeeded(w)})
        /\ buckets[k].timeouts = Cardinality({w \in S : plan[w].outcome = "timeout"})
    BY <2>3 DEF BucketAt
  <2>8. W \subseteq Workers
    OBVIOUS
  <2> HIDE DEF S, T, W, V
  <2>9. W = P \cup Q /\ P \cap Q = {} /\ P \subseteq W /\ Q \subseteq W
    OBVIOUS
  <2>10. /\ buckets[k].sent = Cardinality(V) /\ buckets[k].completed = Cardinality(W)
         /\ buckets[k].success = Cardinality(P) /\ buckets[k].failure = Cardinality(Q)
         /\ buckets[k].timeouts = Cardinality({w \in W : plan[w].outcome = "timeout"})
    BY <2>6, <2>7
  <2>11. buckets[k].failure = buckets[k].completed - buckets[k].success
    <3> HIDE DEF P, Q
    <3>1. IsFiniteSet(P) /\ IsFiniteSet(Q)
      BY <2>2, <2>8, <2>9, FS_Subset
    <3>2. /\ Cardinality(P \cup Q) = Cardinality(P) + Cardinality(Q)
          /\ Cardinality(P) \in Nat /\ Cardinality(Q) \in Nat
      BY <2>9, <3>1, Disjoint
    <3> QED
      BY <2>9, <2>10, <3>2
  <2> QED
    BY <2>3, <2>10, <2>11 DEF V, W
<1>2. Inv => SeriesByTheSecond
  BY <1>1 DEF SeriesByTheSecond
<1> QED
  BY <1>2, CollectorInvariant, PTL

\* A number read is short of that of its set by the late workers at most, and
\* exact when there are none.
LEMMA ReadWithin ==
    ASSUME NEW x, NEW S, IsFiniteSet(S), IsFiniteSet(late), Read(x, S)
    PROVE  /\ x \in Nat /\ Cardinality(S) \in Nat /\ Cardinality(late) \in Nat
           /\ Cardinality(S) - Cardinality(late) <= x /\ x <= Cardinality(S)
           /\ late = {} => x = Cardinality(S)
<1>1. /\ Cardinality(S \ late) = Cardinality(S) - Cardinality(S \cap late)
      /\ Cardinality(S \cap late) <= Cardinality(late) /\ IsFiniteSet(S \cap late)
  <2>1. S \cap late \subseteq late
    OBVIOUS
  <2> QED
    BY <2>1, FS_Difference, FS_Subset
<1>2. /\ Cardinality(S) \in Nat /\ Cardinality(late) \in Nat /\ Cardinality(S \cap late) \in Nat
      /\ Cardinality(S \ late) \in Nat
  <2>1. IsFiniteSet(S \ late)
    BY FS_Difference
  <2> QED
    BY <1>1, <2>1, FS_CardinalityType
<1>3. x \in Cardinality(S \ late) .. Cardinality(S)
  BY DEF Read
<1>4. late = {} => S \ late = S
  OBVIOUS
<1> QED
  BY <1>1, <1>2, <1>3, <1>4

\* A summary read over late workers is off by no more than their number, and
\* its walk still finds every percentile among the values recorded.
THEOREM CollectorTornSummaryBounded == Spec => []TornSummaryBounded
<1>1. ASSUME Inv, pc[Main] = "total"
      PROVE LET n == Cardinality(late)
            IN /\ report.completed \in report.sent - n .. report.sent
               /\ report.success + report.failure - report.completed \in -n .. n
               /\ report.timeouts <= report.failure + n
  <2> DEFINE n == Cardinality(late)
             W == Of(Reading)
             P == {w \in W : Succeeded(w)}
             Q == {w \in W : ~Succeeded(w)}
             R == {w \in W : plan[w].outcome = "timeout"}
  <2>1. TypeOK /\ Control /\ ReadSoFar
    BY <1>1 DEF Inv
  <2>2. /\ report.sent = Cardinality(W) /\ Read(report.completed, W)
        /\ Read(report.success, P) /\ Read(report.failure, Q) /\ Read(report.timeouts, R)
    BY <1>1, <2>1 DEF ReadSoFar
  <2>3. IsFiniteSet(W) /\ IsFiniteSet(late)
    <3>1. W \subseteq Workers /\ late \subseteq Workers /\ IsFiniteSet(Workers)
      BY <2>1, PlanFacts DEF Of, TypeOK
    <3> QED
      BY <3>1, FS_Subset
  <2> HIDE DEF W
  <2>4. /\ W = P \cup Q /\ P \cap Q = {} /\ P \subseteq W /\ Q \subseteq W /\ R \subseteq Q
    BY DEF Succeeded
  <2>5. (W \ late) = (P \ late) \cup (Q \ late) /\ (P \ late) \cap (Q \ late) = {}
    BY <2>4
  <2> HIDE DEF P, Q, R, n
  <2>6. IsFiniteSet(P) /\ IsFiniteSet(Q) /\ IsFiniteSet(R)
    <3>1. IsFiniteSet(P) /\ IsFiniteSet(Q)
      BY <2>3, <2>4, FS_Subset
    <3> QED
      BY <2>4, <3>1, FS_Subset
  <2>7. /\ Cardinality(P \cup Q) = Cardinality(P) + Cardinality(Q)
        /\ Cardinality(P) \in Nat /\ Cardinality(Q) \in Nat
    BY <2>4, <2>6, Disjoint
  <2>8. /\ Cardinality((P \ late) \cup (Q \ late)) = Cardinality(P \ late) + Cardinality(Q \ late)
        /\ Cardinality(P \ late) \in Nat /\ Cardinality(Q \ late) \in Nat
    <3>1. IsFiniteSet(P \ late) /\ IsFiniteSet(Q \ late)
      BY <2>6, FS_Difference
    <3> QED
      BY <2>5, <3>1, Disjoint
  <2>9. Cardinality(R) <= Cardinality(Q)
    BY <2>4, <2>6, FS_Subset
  <2>10. /\ report.completed \in Nat /\ Cardinality(W) \in Nat /\ n \in Nat
         /\ Cardinality(W) - n <= report.completed /\ report.completed <= Cardinality(W)
    BY <2>2, <2>3, ReadWithin DEF n
  <2>11. /\ report.failure \in Nat /\ Cardinality(Q) - n <= report.failure
         /\ report.failure <= Cardinality(Q) /\ Cardinality(Q \ late) <= report.failure
    BY <2>2, <2>3, <2>6, <2>7, <2>8, ReadWithin DEF n, Read
  <2>12. report.timeouts \in Nat /\ report.timeouts <= Cardinality(R) /\ Cardinality(R) \in Nat
    BY <2>2, <2>3, <2>6, ReadWithin
  <2>13. /\ report.success \in Nat /\ report.success <= Cardinality(P)
         /\ Cardinality(P \ late) <= report.success
    BY <2>2, <2>3, <2>6, <2>7, <2>8, ReadWithin DEF Read
  <2>14. Cardinality(W \ late) >= Cardinality(W) - n
    <3>1. Cardinality(W \ late) = Cardinality(W) - Cardinality(W \cap late)
      BY <2>3, FS_Difference
    <3>2. Cardinality(W \cap late) <= n /\ Cardinality(W \cap late) \in Nat
      <4>1. W \cap late \subseteq late
        OBVIOUS
      <4> QED
        BY <2>3, <4>1, FS_Subset, FS_CardinalityType DEF n
    <3> QED
      BY <2>10, <3>1, <3>2
  <2>15. /\ Cardinality(W \ late) = Cardinality(P \ late) + Cardinality(Q \ late)
         /\ Cardinality(W) = Cardinality(P) + Cardinality(Q)
    BY <2>4, <2>5, <2>7, <2>8
  <2>16. report.success + report.failure - report.completed \in -n .. n
    BY <2>7, <2>8, <2>10, <2>11, <2>13, <2>14, <2>15
  <2>17. report.timeouts <= report.failure + n
    BY <2>7, <2>9, <2>10, <2>11, <2>12
  <2>18. report.completed \in report.sent - n .. report.sent
    BY <2>2, <2>10
  <2> QED
    BY <2>16, <2>17, <2>18 DEF n
<1>2. ASSUME Inv, NEW k \in DOMAIN report.percentiles
      PROVE \E w \in Workers : report.percentiles[k] = HighestEquivalent(CountsIndex(Value(w)))
  <2>1. Found(k)
    BY <1>2 DEF Inv, Walked
  <2> QED
    BY <2>1 DEF Found, Of
<1>3. Inv => TornSummaryBounded
  BY <1>1, <1>2 DEF TornSummaryBounded
<1> QED
  BY <1>3, CollectorInvariant, PTL

\* The value at a rank lies in the bucket where the cumulated count reaches it.
LEMMA AtTheRank ==
    ASSUME plan \in Plans, NEW W \in SUBSET Workers, NEW i \in Nat, NEW r \in Nat \ {0},
           Cardinality(Below(W, i)) < r, Cardinality(Below(W, i + 1)) >= r
    PROVE  LET AtMost(v) == Cardinality({w \in W : Value(w) <= v})
               v == Min({Value(w) : w \in {u \in W : AtMost(Value(u)) >= r}})
           IN v \in Nat /\ CountsIndex(v) = i
<1> DEFINE Under(v) == {w \in W : Value(w) <= v}
           A == {u \in W : Cardinality(Under(Value(u))) >= r}
           X == {Value(w) : w \in A}
           B == Below(W, i + 1)
<1>1. \A w \in W : Value(w) \in Nat /\ Value(w) <= MaxTrackable /\ CountsIndex(Value(w)) \in Nat
  <2>1. MaxTrackable \in Nat
    BY HistogramAssumption
  <2>2. ASSUME NEW w \in W
        PROVE Value(w) \in Nat /\ Value(w) <= MaxTrackable /\ CountsIndex(Value(w)) \in Nat
    <3>1. Value(w) \in 0 .. MaxTrackable /\ CountsIndex(Value(w)) \in Indices
      BY PlanFacts
    <3>2. CountsIndex(Value(w)) \in Nat
      BY <3>1, IndicesFacts
    <3> QED
      BY <2>1, <3>1, <3>2
  <2> QED
    BY <2>2
<1>2. \A T \in SUBSET W : IsFiniteSet(T) /\ Cardinality(T) \in Nat
  <2>1. IsFiniteSet(Workers)
    BY PlanFacts
  <2>2. \A T \in SUBSET W : IsFiniteSet(T)
    BY <2>1, FS_Subset
  <2> QED
    BY <2>2, FS_CardinalityType
<1>3. B \subseteq W /\ B # {}
  <2>1. B \subseteq W
    BY DEF Below
  <2>2. Cardinality(B) # 0
    BY <1>2, <2>1
  <2> QED
    BY <2>1, <2>2, FS_EmptySet
<1>4. PICK u \in B : \A w \in B : Value(w) <= Value(u)
  <2> DEFINE T == {MaxTrackable - Value(w) : w \in B}
  <2>1. MaxTrackable \in Nat
    BY HistogramAssumption
  <2>2. T \subseteq Nat /\ T # {}
    BY <1>1, <1>3, <2>1
  <2>3. PICK x \in T : \A y \in T : x <= y
    <3> HIDE DEF T
    <3> QED
      BY <2>2, LeastNat
  <2>4. PICK u \in B : x = MaxTrackable - Value(u)
    BY <2>3
  <2>5. ASSUME NEW w \in B PROVE Value(w) <= Value(u)
    <3>1. MaxTrackable - Value(u) <= MaxTrackable - Value(w)
      BY <2>3, <2>4
    <3>2. Value(w) \in Nat /\ Value(u) \in Nat
      BY <1>1, <1>3
    <3> QED
      BY <2>1, <3>1, <3>2
  <2> QED
    BY <2>5
<1>5. u \in A
  <2>1. B \subseteq Under(Value(u)) /\ Under(Value(u)) \subseteq W
    BY <1>3, <1>4
  <2>2. Cardinality(B) <= Cardinality(Under(Value(u)))
        /\ Cardinality(B) \in Nat /\ Cardinality(Under(Value(u))) \in Nat
    <3> HIDE DEF B, Under
    <3> QED
      BY <1>2, <1>3, <2>1, FS_Subset
  <2> HIDE DEF Under
  <2> QED
    BY <1>3, <2>2
<1>6. X \subseteq Nat /\ X # {} /\ Value(u) \in X
  BY <1>1, <1>5
<1>7. PICK x \in X : \A y \in X : x <= y
  <2> HIDE DEF X
  <2> QED
    BY <1>6, LeastNat
<1>8. Min(X) = x /\ x \in Nat
  <2> HIDE DEF X
  <2>1. X \in SUBSET Int /\ x \in Nat
    BY <1>6
  <2> QED
    BY <1>7, <2>1, LeastOf
<1>9. PICK t \in A : x = Value(t)
  BY <1>7
<1>10. CountsIndex(x) \in Nat
  BY <1>1, <1>9
<1>11. CountsIndex(x) <= i
  <2>1. x <= Value(u) /\ Value(u) \in Nat /\ CountsIndex(Value(u)) \in Nat
    BY <1>1, <1>3, <1>6, <1>7
  <2>2. CountsIndex(x) <= CountsIndex(Value(u))
    BY <1>8, <2>1, IndexMono
  <2>3. CountsIndex(Value(u)) < i + 1
    BY <1>4 DEF Below
  <2> QED
    BY <1>10, <2>1, <2>2, <2>3
<1>12. ~(CountsIndex(x) < i)
  <2>1. SUFFICES ASSUME CountsIndex(x) < i PROVE FALSE
    OBVIOUS
  <2>2. ASSUME NEW w \in Under(x) PROVE w \in Below(W, i)
    <3>1. w \in W /\ Value(w) <= x
      OBVIOUS
    <3>2. Value(w) \in Nat /\ CountsIndex(Value(w)) \in Nat
      BY <1>1, <3>1
    <3>3. CountsIndex(Value(w)) <= CountsIndex(x)
      BY <1>8, <3>1, <3>2, IndexMono
    <3>4. CountsIndex(Value(w)) < i
      BY <1>10, <2>1, <3>2, <3>3
    <3> QED
      BY <3>1, <3>4 DEF Below
  <2>3. Under(x) \subseteq Below(W, i) /\ Below(W, i) \subseteq W
    <3>1. Below(W, i) \subseteq W
      BY DEF Below
    <3> QED
      BY <2>2, <3>1
  <2>4. Cardinality(Under(x)) >= r
    BY <1>9
  <2> HIDE DEF Under
  <2>5. Cardinality(Under(x)) <= Cardinality(Below(W, i)) /\ Cardinality(Below(W, i)) \in Nat
        /\ Cardinality(Under(x)) \in Nat
    BY <1>2, <2>3, FS_Subset
  <2> QED
    BY <2>4, <2>5
<1>13. CountsIndex(x) = i
  BY <1>10, <1>11, <1>12
<1> QED
  BY <1>8, <1>13

\* The ceiling that the walk's comparison amounts to.
LEMMA RankFacts ==
    ASSUME NEW q \in 1 .. 99, NEW n \in Nat \ {0}, NEW b \in Nat
    PROVE  /\ Rank(q, n) \in Nat \ {0}
           /\ b * 100 < q * n => b < Rank(q, n)
           /\ b * 100 >= q * n => b >= Rank(q, n)
<1> DEFINE p == q * n
           d == (p + 99) \div 100
<1>1. p \in Nat \ {0}
  BY DEF p
<1> HIDE DEF p
<1>2. d \in Nat /\ d * 100 <= p + 99 /\ p + 99 < (d + 1) * 100
  BY <1>1
<1> HIDE DEF d
<1>3. d \in Nat \ {0} /\ (b * 100 < p => b < d) /\ (b * 100 >= p => b >= d)
  BY <1>1, <1>2
<1> QED
  BY <1>3 DEF Rank, p, d

\* A summary built with nobody late is exact: counters, minimum, maximum, sum,
\* errors, and every percentile the top of the bucket of the value at its rank.
THEOREM CollectorSettledSummaryExact == Spec => []SettledSummaryExact
<1> DEFINE W == {w \in Workers : Reading \in {plan[w].stage, "overall"}}
           Count(outcomes) == Cardinality({w \in W : plan[w].outcome \in outcomes})
           AtMost(v) == Cardinality({w \in W : Value(w) <= v})
           AtRank(r) == Min({Value(w) : w \in {u \in W : AtMost(Value(u)) >= r}})
<1>1. ASSUME Inv, late = {}
      PROVE /\ W = Of(Reading) /\ W \subseteq Workers /\ Reading \in StatNames
            /\ IsFiniteSet(W) /\ Cardinality(W) \in Nat /\ plan \in Plans
            /\ \A x : \A S \in SUBSET W : Read(x, S) => x = Cardinality(S)
            /\ \A w \in W : plan[w].outcome \in Outcomes /\ Value(w) \in 0 .. MaxTrackable
  <2>1. TypeOK
    BY <1>1 DEF Inv
  <2>2. plan \in Plans /\ IsFiniteSet(Workers)
    BY <2>1, PlanFacts DEF TypeOK
  <2>3. W = Of(Reading) /\ W \subseteq Workers
    BY DEF Of
  <2> HIDE DEF W
  <2>4. \A S \in SUBSET W : IsFiniteSet(S)
    BY <2>2, <2>3, FS_Subset
  <2>5. Reading \in StatNames
    <3>1. on[Main] \in 1 .. Len(Names) + 1 /\ Len(Names) \in Nat
      BY <2>1, NamesFacts DEF TypeOK
    <3> QED
      BY <3>1, NamesFacts DEF Reading
  <2>6. IsFiniteSet(late)
    BY <1>1, FS_EmptySet
  <2>7. \A x : \A S \in SUBSET W : Read(x, S) => x = Cardinality(S)
    BY <1>1, <2>4, <2>6, ReadWithin
  <2>8. IsFiniteSet(W) /\ Cardinality(W) \in Nat
    BY <2>4, FS_CardinalityType
  <2>9. \A w \in W : plan[w].outcome \in Outcomes /\ Value(w) \in 0 .. MaxTrackable
    BY <2>2, <2>3, PlanFacts
  <2> QED
    BY <2>2, <2>3, <2>5, <2>7, <2>8, <2>9
<1>2. ASSUME Inv, late = {}, pc[Main] = "total"
      PROVE /\ report.sent = Cardinality(W) /\ report.completed = report.sent
            /\ report.success = Count({"ok"}) /\ report.failure = Count({"failed", "timeout"})
            /\ report.timeouts = Count({"timeout"})
  <2>1. W = Of(Reading)
    BY <1>1, <1>2
  <2> HIDE DEF W
  <2>2. /\ report.sent = Cardinality(W) /\ Read(report.completed, W)
        /\ Read(report.success, {w \in W : Succeeded(w)})
        /\ Read(report.failure, {w \in W : ~Succeeded(w)})
        /\ Read(report.timeouts, {w \in W : plan[w].outcome = "timeout"})
    BY <1>2, <2>1 DEF Inv, ReadSoFar
  <2>3. \A w \in W : plan[w].outcome \in {"ok", "failed", "timeout"}
    BY <1>1, <1>2 DEF Outcomes
  <2>4. /\ {w \in W : Succeeded(w)} = {w \in W : plan[w].outcome \in {"ok"}}
        /\ {w \in W : ~Succeeded(w)} = {w \in W : plan[w].outcome \in {"failed", "timeout"}}
        /\ {w \in W : plan[w].outcome = "timeout"} = {w \in W : plan[w].outcome \in {"timeout"}}
    BY <2>3 DEF Succeeded
  <2>5. \A x : \A S \in SUBSET W : Read(x, S) => x = Cardinality(S)
    BY <1>1, <1>2
  <2>6. /\ report.completed = Cardinality(W)
        /\ report.success = Cardinality({w \in W : Succeeded(w)})
        /\ report.failure = Cardinality({w \in W : ~Succeeded(w)})
        /\ report.timeouts = Cardinality({w \in W : plan[w].outcome = "timeout"})
    BY <2>2, <2>5
  <2> QED
    BY <2>2, <2>4, <2>6
<1>3. ASSUME Inv, late = {}, pc[Main] = "entry"
      PROVE \A o \in DOMAIN report.errors : report.errors[o] = Count({o})
  <2>1. W = Of(Reading)
    BY <1>1, <1>3
  <2> HIDE DEF W
  <2>2. DOMAIN report.errors = Outcomes
    BY <1>3 DEF Inv, TypeOK, Report, Errors
  <2>3. ASSUME NEW o \in Outcomes PROVE report.errors[o] = Count({o})
    <3>1. Read(report.errors[o], {w \in W : plan[w].outcome = o})
      BY <1>3, <2>1 DEF Inv, ReadSoFar
    <3>2. {w \in W : plan[w].outcome = o} = {w \in W : plan[w].outcome \in {o}}
      OBVIOUS
    <3>3. \A x : \A S \in SUBSET W : Read(x, S) => x = Cardinality(S)
      BY <1>1, <1>3
    <3>4. report.errors[o] = Cardinality({w \in W : plan[w].outcome = o})
      BY <3>1, <3>3
    <3> QED
      BY <3>2, <3>4
  <2> QED
    BY <2>2, <2>3
<1>4. ASSUME Inv, late = {}, pc[Main] = "errors", W # {}
      PROVE /\ report.total = Cardinality(W)
            /\ report.min = Min({Value(w) : w \in W})
            /\ report.max = Max({Value(w) : w \in W})
            /\ report.sum = Units(W)
            /\ \A k \in DOMAIN Targets :
                  LET v == AtRank(Rank(Targets[k], Cardinality(W)))
                  IN v <= report.percentiles[k]
                     /\ report.percentiles[k] = HighestEquivalent(CountsIndex(v))
  <2>1. TypeOK /\ Control /\ Recorded /\ Extremes /\ ReadSettled /\ Walked
    BY <1>4 DEF Inv
  <2>2. PICK n \in StatNames : n = Reading
    BY <1>1, <1>4
  <2>3. /\ W = Of(n) /\ W \subseteq Workers /\ IsFiniteSet(W) /\ Cardinality(W) \in Nat
        /\ plan \in Plans
        /\ \A w \in W : Value(w) \in 0 .. MaxTrackable
    BY <1>1, <1>4, <2>2
  <2>4. Cardinality(W) > 0
    <3>1. Cardinality(W) # 0
      BY <1>4, <2>3, FS_EmptySet
    <3> QED
      BY <2>3, <3>1
  <2> HIDE DEF W
  <2> DEFINE h == hist[n]
             V == {Value(w) : w \in W}
  <2>5. report.total = Cardinality(W)
    BY <1>4, <2>1, <2>2, <2>3 DEF ReadSettled
  <2>6. report.min = h.min /\ report.max = h.max /\ report.sum = h.sum
    BY <1>4, <2>1, <2>2, <2>4, <2>5 DEF ReadSettled
  <2>7. \A k \in 1 .. 9 : Done(n, k) = W
    BY <1>4, <2>1, <2>3, Settled DEF SendLabels
  <2>8. /\ h.min = MaxInt64 \/ \E w \in W : h.min = Value(w)
        /\ h.max = 0 \/ \E w \in W : h.max = Value(w)
        /\ \A w \in W : h.min <= Value(w)
        /\ \A w \in W : h.max >= Value(w)
    BY <2>1, <2>3, <2>7 DEF Extremes, ExtremesAt
  <2>9. MaxTrackable \in Nat /\ V \in SUBSET Int /\ h.min \in Nat /\ h.max \in Nat
    BY <2>1, <2>3, HistogramAssumption DEF TypeOK, HistogramState
  <2>10. PICK u \in W : TRUE
    BY <1>4
  <2>11. h.min \in V /\ \A y \in V : h.min <= y
    <3>1. h.min # MaxInt64
      BY <2>3, <2>8, <2>9, <2>10 DEF MaxInt64
    <3> HIDE DEF h
    <3> QED
      BY <2>8, <3>1
  <2>12. h.max \in V /\ \A y \in V : h.max >= y
    <3>1. h.max = 0 => Value(u) = 0
      BY <2>3, <2>8, <2>9, <2>10
    <3> HIDE DEF h
    <3> QED
      BY <2>8, <2>10, <3>1
  <2>13. Min(V) = h.min /\ Max(V) = h.max
    <3> HIDE DEF V, h
    <3> QED
      BY <2>9, <2>11, <2>12, LeastOf, LargestOf
  <2>14. h.sum = Units(W)
    BY <2>1, <2>7 DEF Recorded, RecordedAt
  <2>15. ASSUME NEW k \in DOMAIN Targets
         PROVE LET v == AtRank(Rank(Targets[k], Cardinality(W)))
               IN v <= report.percentiles[k]
                  /\ report.percentiles[k] = HighestEquivalent(CountsIndex(v))
    <3> DEFINE N == Cardinality(W)
               q == Targets[k]
               r == Rank(q, N)
    <3>1. Found(k)
      <4>1. report.percentiles \in Seq(Nat)
        BY <2>1 DEF TypeOK, Report
      <4>2. Len(report.percentiles) = Len(Targets)
        BY <1>4, <2>1, <2>4, <2>5 DEF Walked
      <4>3. k \in DOMAIN report.percentiles
        BY <4>1, <4>2, TargetFacts
      <4> QED
        BY <2>1, <4>3 DEF Walked
    <3>2. PICK w \in W :
             LET i == CountsIndex(Value(w))
             IN /\ report.percentiles[k] = HighestEquivalent(i)
                /\ Cardinality(Below(W, i)) * 100 < q * N
                /\ Cardinality(Below(W, i + 1)) * 100 >= q * N
      BY <1>4, <2>2, <2>3, <2>5, <3>1 DEF Found
    <3> DEFINE i == CountsIndex(Value(w))
    <3>3. i \in Nat
      BY <2>3, PlanFacts, IndicesFacts
    <3>4. /\ report.percentiles[k] = HighestEquivalent(i)
          /\ Cardinality(Below(W, i)) * 100 < q * N
          /\ Cardinality(Below(W, i + 1)) * 100 >= q * N
      BY <3>2
    <3> HIDE DEF i
    <3>5. Cardinality(Below(W, i)) \in Nat /\ Cardinality(Below(W, i + 1)) \in Nat
      <4>1. Below(W, i) \subseteq W /\ Below(W, i + 1) \subseteq W
        BY DEF Below
      <4> QED
        BY <2>3, <4>1, FS_Subset, FS_CardinalityType
    <3>6. q \in 1 .. 99 /\ N \in Nat \ {0}
      BY <2>3, <2>4, TargetFacts
    <3> HIDE DEF q, N
    <3>7. r \in Nat \ {0} /\ Cardinality(Below(W, i)) < r /\ Cardinality(Below(W, i + 1)) >= r
      BY <3>4, <3>5, <3>6, RankFacts
    <3> HIDE DEF r
    <3>8. AtRank(r) \in Nat /\ CountsIndex(AtRank(r)) = i
      <4>1. /\ plan \in Plans /\ W \in SUBSET Workers /\ i \in Nat /\ r \in Nat \ {0}
            /\ Cardinality(Below(W, i)) < r /\ Cardinality(Below(W, i + 1)) >= r
        BY <2>3, <3>3, <3>7
      <4> DEFINE Least == Min({Value(x) : x \in {y \in W : Cardinality({z \in W : Value(z) <= Value(y)}) >= r}})
      <4>2. Least \in Nat /\ CountsIndex(Least) = i
        BY <4>1, AtTheRank, Zenon
      <4> QED
        BY <4>2
    <3> HIDE DEF AtRank
    <3>9. AtRank(r) <= HighestEquivalent(CountsIndex(AtRank(r)))
      BY <3>8, TiledEverywhere
    <3>10. AtRank(r) <= report.percentiles[k]
           /\ report.percentiles[k] = HighestEquivalent(CountsIndex(AtRank(r)))
      BY <3>4, <3>8, <3>9
    <3> QED
      BY <3>10 DEF r, q, N
  <2> QED
    BY <2>5, <2>6, <2>13, <2>14, <2>15
<1>5. Inv => SettledSummaryExact
  BY <1>2, <1>3, <1>4 DEF SettledSummaryExact
<1> QED
  BY <1>5, CollectorInvariant, PTL
=============================================================================

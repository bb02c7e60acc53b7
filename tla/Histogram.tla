------------------------------- MODULE Histogram ------------------------------
(***************************************************************************)
(* The layout of metrics.Histogram (internal/metrics/histogram.go): how a  *)
(* value finds its count and a count its values, as functions.  The code   *)
(* fixes 2^11 sub-buckets and one hour; both are parameters here.  Shifts  *)
(* and masks are written as the divisions and remainders they are on the   *)
(* numbers that occur, none of them negative.                              *)
(***************************************************************************)
EXTENDS Integers

CONSTANTS
    Magnitude,     \* subBucketCountMagnitude
    MaxTrackable   \* maxTrackable

\* The last conjunct is what an hour in nanoseconds is and NewHistogram leaves
\* unsaid: at a power of two the largest value would lie one past the counts.
ASSUME HistogramAssumption ==
    /\ Magnitude \in Nat \ {0} /\ MaxTrackable \in Nat /\ MaxTrackable > 2 ^ Magnitude
    /\ \E k \in 0 .. MaxTrackable : 2 ^ k < MaxTrackable /\ MaxTrackable < 2 ^ (k + 1)

SubBucketCount == 2 ^ Magnitude
SubBucketHalfCount == SubBucketCount \div 2

\* The first bucket count whose smallest untrackable value is beyond the range.
BucketCount ==
    CHOOSE n \in 1 .. MaxTrackable :
        /\ SubBucketCount * 2 ^ (n - 1) >= MaxTrackable
        /\ n = 1 \/ SubBucketCount * 2 ^ (n - 2) < MaxTrackable

\* The indices of counts.
Indices == 0 .. (BucketCount + 1) * SubBucketHalfCount - 1

\* bits.Len64, that is 64 less LeadingZeros64.
BitLen(v) == CHOOSE n \in 0 .. v : v < 2 ^ n /\ (n = 0 \/ v >= 2 ^ (n - 1))

\* Variant: the mask is one bit short.
BucketIndexUnmasked(v) == IF BitLen(v) >= Magnitude THEN BitLen(v) - Magnitude + 1 ELSE 0

\* v | subBucketMask has at least Magnitude bits.
BucketIndex(v) == IF BitLen(v) > Magnitude THEN BitLen(v) - Magnitude ELSE 0

CountsIndex(v) ==
    (BucketIndex(v) + 1) * SubBucketHalfCount + v \div 2 ^ BucketIndex(v) - SubBucketHalfCount

\* The bucket an index belongs to, the first half of bucket 0 included.
BucketOf(idx) ==
    IF idx < SubBucketHalfCount THEN 0 ELSE idx \div SubBucketHalfCount - 1

ValueAt(idx) ==
    LET sub == idx % SubBucketHalfCount
    IN IF idx < SubBucketHalfCount THEN sub
       ELSE (sub + SubBucketHalfCount) * 2 ^ BucketOf(idx)

\* Variant: the lowest value of the bucket.
LowestEquivalent(idx) == ValueAt(idx)

HighestEquivalent(idx) == ValueAt(idx) + 2 ^ BucketOf(idx) - 1

\* Record clamps what it is given.
Clamp(v) == IF v < 0 THEN 0 ELSE IF v > MaxTrackable THEN MaxTrackable ELSE v

-----------------------------------------------------------------------------
\* The values the layout is examined on: beyond the range too, so that several
\* buckets are among them.
LayoutRange == 0 .. 32 * MaxTrackable

\* The layout is sound: every value lies in the bucket its index names, the
\* buckets follow on each other without gap or overlap, those of trackable values
\* are in counts, and a bucket of more than one value is at most one part in
\* SubBucketHalfCount of its values wide: 1/1024 as the code has it, which is not
\* what the code says of it (Precise).
Tiled ==
    \A v \in LayoutRange :
        LET i == CountsIndex(v)
            width == HighestEquivalent(i) - ValueAt(i) + 1
        IN /\ v <= MaxTrackable => i \in Indices
           /\ ValueAt(i) <= v /\ v <= HighestEquivalent(i)
           /\ ValueAt(i + 1) = HighestEquivalent(i) + 1
           /\ width = 1 \/ width * SubBucketHalfCount <= v

\* A bucket is at most one part in n of its values wide, or of one value.
Precise(n) ==
    \A v \in LayoutRange :
        LET i == CountsIndex(v)
            width == HighestEquivalent(i) - ValueAt(i) + 1
        IN width = 1 \/ width * n <= v
=============================================================================

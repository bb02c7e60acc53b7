---------------------------- MODULE BreakerProofs ----------------------------
(***************************************************************************)
(* The circuit breaker for every limit, every window and every sequence of *)
(* outcomes: the ring holds the recent history, and the breaker trips      *)
(* exactly where the whole history says it should.                         *)
(***************************************************************************)
EXTENDS Breaker, FiniteSetTheorems, SequenceTheorems, TLAPS

Fields == {"num", "den", "window", "consecutiveLimit", "recent", "pos", "filled", "failures",
           "consecutive", "tripped", "reason"}

\* The struct, with every field in its place.
Struct ==
    /\ breaker = [k \in Fields |-> breaker[k]]
    /\ breaker.num \in Int /\ breaker.den \in Nat \ {0} /\ breaker.consecutiveLimit \in Int

\* The breaker has tripped when the switch says so of the counters it holds.
TrippedBySwitch == breaker.tripped = (TripReason(breaker) # "none")

\* Until the ring is full it fills from slot zero, and the rest of it is clear.
Filling ==
    /\ breaker.filled <= Len(history)
    /\ breaker.filled < breaker.window =>
          /\ breaker.filled = Len(history) /\ breaker.pos = Len(history)
          /\ \A i \in Slots : i >= breaker.filled => ~breaker.recent[i]

\* The ring going back from pos is the history going back from its end.
RingMatches ==
    \A k \in 1 .. breaker.filled :
        breaker.recent[(breaker.pos - k) % breaker.window] = history[Len(history) + 1 - k]

\* The counter of consecutive failures is the run the history ends in.
TrailingRun ==
    /\ breaker.consecutive <= Len(history)
    /\ \A i \in (Len(history) + 1 - breaker.consecutive) .. Len(history) : history[i]
    /\ breaker.consecutive < Len(history) => ~history[Len(history) - breaker.consecutive]

\* The inductive strengthening.
BreakerInv ==
    /\ Struct /\ TypeOK /\ TrippedBySwitch
    /\ Filling /\ FailuresMatchRing /\ RingMatches /\ TrailingRun
-----------------------------------------------------------------------------
\* Going back in a ring is a subtraction that wraps once.
LEMMA Back ==
    ASSUME NEW w \in Nat \ {0}, NEW p \in 0 .. w - 1, NEW k \in 1 .. w
    PROVE  (p - k) % w = IF k <= p THEN p - k ELSE p - k + w
OBVIOUS

\* No two distances within a ring lead back to the same slot.
LEMMA BackOnce ==
    ASSUME NEW w \in Nat \ {0}, NEW p \in 0 .. w - 1, NEW x \in 1 .. w, NEW y \in 1 .. w,
           (IF x <= p THEN p - x ELSE p - x + w) = (IF y <= p THEN p - y ELSE p - y + w)
    PROVE  x = y
OBVIOUS

\* Going forward is an addition that wraps once.
LEMMA Forward ==
    ASSUME NEW w \in Nat \ {0}, NEW p \in 0 .. w - 1
    PROVE  (p + 1) % w = IF p + 1 < w THEN p + 1 ELSE 0
OBVIOUS

\* Record, field by field, when it counts the outcome.
LEMMA RecordFields ==
    ASSUME NEW b, b = [k \in Fields |-> b[k]], NEW failed, ~(Disabled(b) \/ b.tripped),
           NEW s, s = Record(b, failed)
    PROVE  /\ s = [k \in Fields |-> s[k]]
           /\ s.num = b.num /\ s.den = b.den /\ s.window = b.window
           /\ s.consecutiveLimit = b.consecutiveLimit
           /\ s.recent = [b.recent EXCEPT ![b.pos] = failed]
           /\ s.pos = (b.pos + 1) % b.window
           /\ s.filled = IF b.filled < b.window THEN b.filled + 1 ELSE b.filled
           /\ s.failures = b.failures - (IF b.filled = b.window /\ b.recent[b.pos] THEN 1 ELSE 0)
                              + (IF failed THEN 1 ELSE 0)
           /\ s.consecutive = IF failed THEN b.consecutive + 1 ELSE 0
           /\ s.reason = TripReason(s) /\ s.tripped = (TripReason(s) # "none")
<1> DEFINE r == Slide(b, failed)
           t == [r EXCEPT !.tripped = TripReason(r) # "none", !.reason = TripReason(r)]
<1>1. /\ r = [k \in Fields |-> r[k]]
      /\ r.num = b.num /\ r.den = b.den /\ r.window = b.window
      /\ r.consecutiveLimit = b.consecutiveLimit
      /\ r.recent = [b.recent EXCEPT ![b.pos] = failed] /\ r.pos = (b.pos + 1) % b.window
      /\ r.filled = IF b.filled < b.window THEN b.filled + 1 ELSE b.filled
      /\ r.failures = b.failures - (IF b.filled = b.window /\ b.recent[b.pos] THEN 1 ELSE 0)
                         + (IF failed THEN 1 ELSE 0)
      /\ r.consecutive = IF failed THEN b.consecutive + 1 ELSE 0
  BY DEF Slide, Fields
<1>2. s = t
  BY DEF Record
<1> HIDE DEF r
<1>3. /\ t = [k \in Fields |-> t[k]]
      /\ t.num = r.num /\ t.den = r.den /\ t.window = r.window
      /\ t.consecutiveLimit = r.consecutiveLimit
      /\ t.recent = r.recent /\ t.pos = r.pos /\ t.filled = r.filled /\ t.failures = r.failures
      /\ t.consecutive = r.consecutive
      /\ t.tripped = (TripReason(r) # "none") /\ t.reason = TripReason(r)
  BY <1>1 DEF Fields
<1> HIDE DEF t
<1>4. TripReason(t) = TripReason(r)
  BY <1>3 DEF TripReason
<1>5. QED
  BY <1>1, <1>2, <1>3, <1>4

\* An outcome goes into the ring and the history together.
LEMMA Counted ==
    ASSUME BreakerInv, NEW failed \in BOOLEAN, RecordOutcome(failed),
           ~(Disabled(breaker) \/ breaker.tripped)
    PROVE  /\ Struct'
           /\ breaker'.num = breaker.num /\ breaker'.den = breaker.den
           /\ breaker'.window = breaker.window
           /\ breaker'.consecutiveLimit = breaker.consecutiveLimit
           /\ breaker'.recent = [breaker.recent EXCEPT ![breaker.pos] = failed]
           /\ breaker'.pos = IF breaker.pos + 1 < breaker.window THEN breaker.pos + 1 ELSE 0
           /\ breaker'.filled = IF breaker.filled < breaker.window
                                THEN breaker.filled + 1 ELSE breaker.filled
           /\ breaker'.failures = breaker.failures
                 - (IF breaker.filled = breaker.window /\ breaker.recent[breaker.pos] THEN 1 ELSE 0)
                 + (IF failed THEN 1 ELSE 0)
           /\ breaker'.consecutive = IF failed THEN breaker.consecutive + 1 ELSE 0
           /\ breaker'.reason = TripReason(breaker')
           /\ breaker'.tripped = (TripReason(breaker') # "none")
           /\ history' = Append(history, failed) /\ Len(history') = Len(history) + 1
           /\ history' \in Seq(BOOLEAN) /\ history'[Len(history')] = failed
           /\ \A i \in 1 .. Len(history) : history'[i] = history[i]
<1>1. Struct /\ breaker' = Record(breaker, failed)
  BY DEF BreakerInv, RecordOutcome
<1>2. (breaker.pos + 1) % breaker.window = IF breaker.pos + 1 < breaker.window THEN breaker.pos + 1 ELSE 0
  <2>1. breaker.window \in Nat \ {0} /\ breaker.pos \in 0 .. breaker.window - 1
    BY DEF BreakerInv, TypeOK, Slots
  <2>2. QED
    BY <2>1, Forward
<1>3. history \in Seq(BOOLEAN) /\ history' = Append(history, failed)
  BY DEF BreakerInv, TypeOK, RecordOutcome
<1>4. /\ Len(history') = Len(history) + 1 /\ history' \in Seq(BOOLEAN)
      /\ history'[Len(history')] = failed /\ \A i \in 1 .. Len(history) : history'[i] = history[i]
  BY <1>3, AppendProperties
<1>5. /\ breaker' = [k \in Fields |-> breaker'[k]]
      /\ breaker'.num = breaker.num /\ breaker'.den = breaker.den
      /\ breaker'.window = breaker.window
      /\ breaker'.consecutiveLimit = breaker.consecutiveLimit
      /\ breaker'.recent = [breaker.recent EXCEPT ![breaker.pos] = failed]
      /\ breaker'.pos = (breaker.pos + 1) % breaker.window
      /\ breaker'.filled = IF breaker.filled < breaker.window
                           THEN breaker.filled + 1 ELSE breaker.filled
      /\ breaker'.failures = breaker.failures
            - (IF breaker.filled = breaker.window /\ breaker.recent[breaker.pos] THEN 1 ELSE 0)
            + (IF failed THEN 1 ELSE 0)
      /\ breaker'.consecutive = IF failed THEN breaker.consecutive + 1 ELSE 0
      /\ breaker'.reason = TripReason(breaker')
      /\ breaker'.tripped = (TripReason(breaker') # "none")
  <2>1. breaker = [k \in Fields |-> breaker[k]]
    BY <1>1 DEF Struct
  <2> HIDE DEF Fields
  <2>2. QED
    BY <1>1, <2>1, RecordFields
<1>6. Struct'
  BY <1>1, <1>5 DEF Struct
<1>7. QED
  BY <1>2, <1>3, <1>4, <1>5, <1>6, Zenon

\* The count drops by the failure that slides out and rises by the one filed.
LEMMA FailuresStep ==
    ASSUME BreakerInv, NEW failed \in BOOLEAN, RecordOutcome(failed),
           ~(Disabled(breaker) \/ breaker.tripped)
    PROVE  FailuresMatchRing' /\ breaker'.failures \in Nat
<1> DEFINE S == {i \in Slots : breaker.recent[i]}
           T == {i \in Slots : breaker'.recent[i]}
           p == breaker.pos
           out == IF breaker.filled = breaker.window /\ breaker.recent[p] THEN 1 ELSE 0
<1>0. /\ breaker.window \in Nat \ {0} /\ breaker.recent \in [Slots -> BOOLEAN] /\ p \in Slots
      /\ breaker.failures = Cardinality(S)
  BY DEF BreakerInv, TypeOK, FailuresMatchRing
<1>1. IsFiniteSet(S) /\ Cardinality(S) \in Nat
  <2>1. IsFiniteSet(Slots)
    BY <1>0, FS_Interval DEF Slots
  <2>2. S \in SUBSET Slots
    OBVIOUS
  <2>3. QED
    BY <2>1, <2>2, FS_Subset, FS_CardinalityType
<1>2. breaker'.recent = [breaker.recent EXCEPT ![p] = failed] /\ Slots' = Slots
  BY Counted DEF Slots
<1>3. out = IF p \in S THEN 1 ELSE 0
  <2>1. CASE breaker.filled = breaker.window
    BY <1>0, <2>1
  <2>2. CASE breaker.filled # breaker.window
    <3>1. breaker.filled < breaker.window /\ p >= breaker.filled
      BY <1>0, <2>2 DEF BreakerInv, TypeOK, Filling
    <3>2. ~breaker.recent[p]
      BY <1>0, <3>1 DEF BreakerInv, Filling
    <3>3. QED
      BY <2>2, <3>2
  <2>3. QED
    BY <2>1, <2>2
<1>4. IsFiniteSet(S \ {p}) /\ Cardinality(S \ {p}) = Cardinality(S) - out /\ Cardinality(S \ {p}) \in Nat
  <2> HIDE DEF S, out, p
  <2>1. IsFiniteSet(S \ {p}) /\ Cardinality(S \ {p}) = IF p \in S THEN Cardinality(S) - 1 ELSE Cardinality(S)
    BY <1>1, FS_RemoveElement
  <2>2. Cardinality(S \ {p}) \in Nat
    BY <2>1, FS_CardinalityType
  <2>3. QED
    BY <1>1, <1>3, <2>1, <2>2
<1>5. T = IF failed THEN (S \ {p}) \cup {p} ELSE S \ {p}
  BY <1>0, <1>2
<1>6. Cardinality(T) = Cardinality(S \ {p}) + IF failed THEN 1 ELSE 0
  <2> HIDE DEF S, T
  <2>1. p \notin S \ {p}
    OBVIOUS
  <2>2. QED
    BY <1>4, <1>5, <2>1, FS_AddElement
<1>7. breaker'.failures = Cardinality(S) - out + IF failed THEN 1 ELSE 0
  BY <1>0, Counted
<1>8. breaker'.failures = Cardinality(T) /\ Cardinality(T) \in Nat
  <2> HIDE DEF S, T, out
  <2>1. Cardinality(T) = Cardinality(S) - out + IF failed THEN 1 ELSE 0
    BY <1>1, <1>4, <1>6
  <2>2. Cardinality(T) \in Nat
    BY <1>4, <1>6
  <2>3. QED
    BY <1>7, <2>1, <2>2
<1>9. QED
  BY <1>2, <1>8 DEF FailuresMatchRing

\* The ring turns with the history.
LEMMA RingStep ==
    ASSUME BreakerInv, NEW failed \in BOOLEAN, RecordOutcome(failed),
           ~(Disabled(breaker) \/ breaker.tripped)
    PROVE  RingMatches' /\ Filling'
<1> DEFINE w == breaker.window
           p == breaker.pos
           q == breaker'.pos
           m == breaker.filled
           n == Len(history)
<1>0. /\ w \in Nat \ {0} /\ p \in 0 .. w - 1 /\ m \in 0 .. w /\ n \in Nat /\ m <= n
      /\ breaker.recent \in [0 .. w - 1 -> BOOLEAN] /\ breaker'.window = w
      /\ breaker'.recent = [breaker.recent EXCEPT ![p] = failed]
      /\ q = IF p + 1 < w THEN p + 1 ELSE 0
      /\ breaker'.filled = IF m < w THEN m + 1 ELSE m
      /\ Len(history') = n + 1 /\ history'[n + 1] = failed
      /\ \A i \in 1 .. n : history'[i] = history[i]
  BY Counted DEF BreakerInv, TypeOK, Slots, Filling
<1>W. w \in Nat \ {0} /\ p \in 0 .. w - 1 /\ q = IF p + 1 < w THEN p + 1 ELSE 0
  BY <1>0
<1>1. Filling'
  <2>1. m < w => m = n /\ p = n /\ \A i \in 0 .. w - 1 : i >= m => ~breaker.recent[i]
    BY DEF BreakerInv, Filling, Slots
  <2>2. breaker'.filled <= n + 1
    BY <1>0
  <2>3. ASSUME breaker'.filled < w
        PROVE  /\ breaker'.filled = n + 1 /\ q = n + 1
               /\ \A i \in 0 .. w - 1 : i >= breaker'.filled => ~breaker'.recent[i]
    <3>1. m < w /\ breaker'.filled = m + 1 /\ m + 1 < w
      BY <1>0, <2>3
    <3>2. m = n /\ p = n /\ q = n + 1
      BY <1>0, <2>1, <3>1
    <3>3. \A i \in 0 .. w - 1 : i >= m + 1 => i # p /\ ~breaker.recent[i]
      BY <1>0, <2>1, <3>1, <3>2
    <3>4. QED
      BY <1>0, <3>1, <3>2, <3>3
  <2>4. QED
    BY <1>0, <2>2, <2>3 DEF Filling, Slots
<1>2. ASSUME NEW k \in 1 .. breaker'.filled
      PROVE  breaker'.recent[(q - k) % w] = history'[n + 2 - k]
  <2>0. k \in 1 .. w /\ q \in 0 .. w - 1 /\ k - 1 <= m
    <3>1. m \in 0 .. w /\ breaker'.filled = IF m < w THEN m + 1 ELSE m
      BY <1>0
    <3>2. QED
      BY <1>W, <3>1
  <2>1. CASE k = 1
    <3>1. (q - k) % w = p
      <4>1. (q - k) % w = IF k <= q THEN q - k ELSE q - k + w
        BY <1>W, <2>0, Back
      <4> DEFINE a == (q - k) % w
      <4>2. a = IF k <= q THEN q - k ELSE q - k + w
        BY <4>1
      <4> HIDE DEF a, p, q, w
      <4>3. a = p
        BY <1>W, <2>0, <2>1, <4>2
      <4>4. QED
        BY <4>3 DEF a
    <3>2. QED
      BY <1>0, <2>1, <3>1
  <2>2. CASE k > 1
    <3> DEFINE j == k - 1
    <3>1. j \in 1 .. m /\ j \in 1 .. w /\ j < w
      BY <1>0, <2>0, <2>2
    <3>2. (q - k) % w = (p - j) % w /\ (p - j) % w # p /\ (p - j) % w \in 0 .. w - 1
      <4>1. (q - k) % w = IF k <= q THEN q - k ELSE q - k + w
        BY <1>W, <2>0, Back
      <4>2. (p - j) % w = IF j <= p THEN p - j ELSE p - j + w
        BY <1>W, <3>1, Back
      <4> DEFINE a == (q - k) % w
                 b == (p - j) % w
      <4>3. /\ a = IF k <= q THEN q - k ELSE q - k + w
            /\ b = IF j <= p THEN p - j ELSE p - j + w
        BY <4>1, <4>2
      <4> HIDE DEF a, b, p, q, w
      <4>4. a = b /\ b # p /\ b \in 0 .. w - 1
        BY <1>W, <2>0, <3>1, <4>3
      <4>5. QED
        BY <4>4 DEF a, b
    <3>3. breaker'.recent[(q - k) % w] = breaker.recent[(p - j) % w]
      BY <1>0, <3>2
    <3>4. breaker.recent[(p - j) % w] = history[n + 1 - j]
      BY <3>1 DEF BreakerInv, RingMatches
    <3>5. n + 1 - j \in 1 .. n /\ n + 1 - j = n + 2 - k
      BY <1>0, <3>1
    <3>6. history'[n + 2 - k] = history[n + 1 - j]
      BY <1>0, <3>5
    <3>7. QED
      BY <3>3, <3>4, <3>6
  <2>3. QED
    BY <2>0, <2>1, <2>2
<1>3. RingMatches'
  <2>1. \A k \in 1 .. breaker'.filled :
           breaker'.recent[(q - k) % w] = history'[Len(history') + 1 - k]
    <3> SUFFICES ASSUME NEW k \in 1 .. breaker'.filled
                 PROVE  breaker'.recent[(q - k) % w] = history'[Len(history') + 1 - k]
      OBVIOUS
    <3>1. k \in Int /\ Len(history') + 1 - k = n + 2 - k
      BY <1>0
    <3>2. QED
      BY <1>2, <3>1
  <2>2. breaker'.window = w
    BY <1>0
  <2>3. QED
    BY <2>1, <2>2 DEF RingMatches
<1>4. QED
  BY <1>1, <1>3

\* The run of failures grows by the one filed, or is broken.
LEMMA RunStep ==
    ASSUME BreakerInv, NEW failed \in BOOLEAN, RecordOutcome(failed),
           ~(Disabled(breaker) \/ breaker.tripped)
    PROVE  TrailingRun' /\ breaker'.consecutive \in Nat
<1> DEFINE c == breaker.consecutive
           n == Len(history)
<1>0. /\ c \in Nat /\ n \in Nat /\ c <= n
      /\ \A i \in (n + 1 - c) .. n : history[i]
      /\ c < n => ~history[n - c]
      /\ breaker'.consecutive = IF failed THEN c + 1 ELSE 0
      /\ Len(history') = n + 1 /\ history'[n + 1] = failed
      /\ \A i \in 1 .. n : history'[i] = history[i]
  <2>1. /\ breaker'.consecutive = IF failed THEN c + 1 ELSE 0
        /\ Len(history') = n + 1 /\ history'[Len(history')] = failed
        /\ \A i \in 1 .. n : history'[i] = history[i]
    BY Counted
  <2>2. c \in Nat /\ n \in Nat
    BY DEF BreakerInv, TypeOK
  <2>3. TrailingRun
    BY DEF BreakerInv
  <2>4. QED
    BY <2>1, <2>2, <2>3 DEF TrailingRun
<1>1. CASE failed
  <2>1. breaker'.consecutive = c + 1 /\ c + 1 <= n + 1 /\ n + 2 - (c + 1) = n + 1 - c
    BY <1>0, <1>1
  <2>2. \A i \in (n + 1 - c) .. n + 1 : history'[i]
    <3>1. \A i \in (n + 1 - c) .. n + 1 : i = n + 1 \/ (i \in 1 .. n /\ i \in (n + 1 - c) .. n)
      BY <1>0
    <3>2. QED
      BY <1>0, <1>1, <3>1
  <2>3. c < n => ~history'[n - c]
    BY <1>0
  <2>4. /\ Len(history') = n + 1 /\ breaker'.consecutive <= Len(history')
        /\ Len(history') + 1 - breaker'.consecutive = n + 1 - c
        /\ Len(history') - breaker'.consecutive = n - c
        /\ breaker'.consecutive < Len(history') => c < n
        /\ breaker'.consecutive \in Nat
    <3>1. c \in Nat /\ n \in Nat /\ c <= n /\ Len(history') = n + 1
      BY <1>0
    <3>2. QED
      BY <2>1, <3>1
  <2>5. QED
    BY <2>2, <2>3, <2>4 DEF TrailingRun
<1>2. CASE ~failed
  <2>1. breaker'.consecutive = 0 /\ ~history'[n + 1]
    BY <1>0, <1>2
  <2>2. QED
    BY <1>0, <2>1 DEF TrailingRun
<1>3. QED
  BY <1>1, <1>2

\* Filing an outcome keeps the strengthening, whether it is counted or not.
LEMMA BreakerStep ==
    ASSUME BreakerInv, NEW failed \in BOOLEAN, RecordOutcome(failed)
    PROVE  BreakerInv'
<1>1. CASE Disabled(breaker) \/ breaker.tripped
  <2>1. breaker' = breaker /\ history' = history
    BY <1>1 DEF RecordOutcome, Record
  <2>2. QED
    BY <2>1 DEF BreakerInv, Struct, TypeOK, TrippedBySwitch, Filling, FailuresMatchRing, RingMatches,
         TrailingRun, Slots
<1>2. CASE ~(Disabled(breaker) \/ breaker.tripped)
  <2>1. Struct' /\ TrippedBySwitch'
    BY <1>2, Counted DEF TrippedBySwitch
  <2>2. FailuresMatchRing' /\ RingMatches' /\ Filling' /\ TrailingRun'
    BY <1>2, FailuresStep, RingStep, RunStep
  <2>3. TypeOK'
    <3>1. /\ breaker.window \in Nat \ {0} /\ breaker.recent \in [Slots -> BOOLEAN]
          /\ breaker.pos \in 0 .. breaker.window - 1 /\ breaker.filled \in 0 .. breaker.window
      BY DEF BreakerInv, TypeOK, Slots
    <3>2. breaker'.window = breaker.window /\ Slots' = Slots /\ history' \in Seq(BOOLEAN)
      BY <1>2, Counted DEF Slots
    <3>3. breaker'.recent \in [Slots -> BOOLEAN]
      <4>1. breaker'.recent = [breaker.recent EXCEPT ![breaker.pos] = failed]
        BY <1>2, Counted
      <4>2. QED
        BY <3>1, <4>1
    <3>4. breaker'.pos \in 0 .. breaker.window - 1
      <4>1. breaker'.pos = IF breaker.pos + 1 < breaker.window THEN breaker.pos + 1 ELSE 0
        BY <1>2, Counted
      <4>2. QED
        BY <3>1, <4>1
    <3>5. breaker'.filled \in 0 .. breaker.window
      <4>1. breaker'.filled = IF breaker.filled < breaker.window
                              THEN breaker.filled + 1 ELSE breaker.filled
        BY <1>2, Counted
      <4>2. QED
        BY <3>1, <4>1
    <3>6. breaker'.failures \in Nat /\ breaker'.consecutive \in Nat
      BY <1>2, FailuresStep, RunStep
    <3>7. breaker'.tripped \in BOOLEAN /\ breaker'.reason \in {"none", "consecutive", "rate"}
      <4>1. TripReason(breaker') \in {"none", "consecutive", "rate"}
        BY DEF TripReason
      <4>2. QED
        BY <1>2, <4>1, Counted
    <3>8. QED
      BY <3>1, <3>2, <3>3, <3>4, <3>5, <3>6, <3>7 DEF TypeOK, Slots
  <2>4. QED
    BY <2>1, <2>2, <2>3 DEF BreakerInv
<1>3. QED
  BY <1>1, <1>2

\* A new breaker holds no outcome.
LEMMA BreakerInit == Init => BreakerInv
<1> SUFFICES ASSUME Init PROVE BreakerInv
  OBVIOUS
<1>1. PICK l \in Limits : breaker = NewBreaker(l)
  BY DEF Init
<1>2. l.num \in Int /\ l.den \in Nat \ {0} /\ l.window \in Int /\ l.consecutive \in Int
  BY BreakerAssumption
<1>3. history = << >> /\ Len(history) = 0
  BY DEF Init
<1> DEFINE w == IF l.window < 1 THEN 1 ELSE l.window
<1>W. w \in Nat \ {0}
  BY <1>2
<1>4. breaker = [num |-> l.num, den |-> l.den, window |-> w, consecutiveLimit |-> l.consecutive,
                 recent |-> [i \in 0 .. w - 1 |-> FALSE], pos |-> 0, filled |-> 0,
                 failures |-> 0, consecutive |-> 0, tripped |-> FALSE, reason |-> "none"]
  BY <1>1 DEF NewBreaker
<1> HIDE DEF w
<1>5. /\ breaker.num = l.num /\ breaker.den = l.den /\ breaker.window = w
      /\ breaker.consecutiveLimit = l.consecutive
      /\ breaker.recent = [i \in 0 .. w - 1 |-> FALSE] /\ breaker.pos = 0 /\ breaker.filled = 0
      /\ breaker.failures = 0 /\ breaker.consecutive = 0 /\ breaker.tripped = FALSE
      /\ breaker.reason = "none"
  BY <1>4
<1>6. Struct
  <2>1. breaker = [k \in Fields |-> breaker[k]]
    BY <1>4 DEF Fields
  <2>2. QED
    BY <1>2, <1>5, <2>1 DEF Struct
<1>7. TypeOK
  <2>1. breaker.recent \in [Slots -> BOOLEAN] /\ breaker.pos \in Slots
    BY <1>W, <1>5 DEF Slots
  <2>2. breaker.filled \in 0 .. breaker.window /\ history \in Seq(BOOLEAN)
    BY <1>W, <1>3, <1>5
  <2>3. QED
    BY <1>W, <1>5, <2>1, <2>2 DEF TypeOK
<1>8. TrippedBySwitch
  <2>1. ~(l.consecutive > 0 /\ 0 >= l.consecutive) /\ 0 # w
    BY <1>2, <1>W
  <2>2. TripReason(breaker) = "none"
    BY <1>5, <2>1 DEF TripReason
  <2>3. QED
    BY <1>5, <2>2 DEF TrippedBySwitch
<1>9. Filling /\ RingMatches /\ TrailingRun
  BY <1>W, <1>3, <1>5 DEF Filling, RingMatches, TrailingRun, Slots
<1>10. FailuresMatchRing
  <2>1. {i \in Slots : breaker.recent[i]} = {}
    BY <1>5 DEF Slots
  <2>2. QED
    BY <1>5, <2>1, FS_EmptySet DEF FailuresMatchRing
<1>11. QED
  BY <1>6, <1>7, <1>8, <1>9, <1>10 DEF BreakerInv

-----------------------------------------------------------------------------
\* The strengthening holds after any number of outcomes.
THEOREM BreakerInvariant == Spec => []BreakerInv
<1>1. BreakerInv /\ [Next]_vars => BreakerInv'
  <2> SUFFICES ASSUME BreakerInv, [Next]_vars PROVE BreakerInv'
    OBVIOUS
  <2>1. CASE Next
    BY <2>1, BreakerStep DEF Next
  <2>2. CASE UNCHANGED vars
    BY <2>2 DEF vars, BreakerInv, Struct, TypeOK, TrippedBySwitch, Filling, FailuresMatchRing,
         RingMatches, TrailingRun, Slots
  <2>3. QED
    BY <2>1, <2>2
<1>2. QED
  BY BreakerInit, <1>1, PTL DEF Spec

\* For a window of any size, however often the ring has gone round, its slots
\* are the latest outcomes in order and failures counts exactly theirs.
THEOREM BreakerRecent == Spec => []RingIsRecentHistory
<1>1. BreakerInv => RingIsRecentHistory
  BY DEF BreakerInv, RingMatches, RingIsRecentHistory
<1>2. QED
  BY <1>1, BreakerInvariant, PTL

-----------------------------------------------------------------------------
\* A full ring holds as many failures as the outcomes it was filled with.
LEMMA FullRing ==
    ASSUME NEW w \in Nat \ {0}, NEW p \in 0 .. w - 1, NEW r \in [0 .. w - 1 -> BOOLEAN],
           NEW h \in Seq(BOOLEAN), w <= Len(h),
           \A k \in 1 .. w : r[(p - k) % w] = h[Len(h) + 1 - k]
    PROVE  Cardinality({i \in 0 .. w - 1 : r[i]})
             = Cardinality({i \in (Len(h) - w + 1) .. Len(h) : h[i]})
<1> DEFINE n == Len(h)
           back(k) == IF k <= p THEN p - k ELSE p - k + w
           latest == {i \in (n - w + 1) .. n : h[i]}
           slots == {i \in 0 .. w - 1 : r[i]}
           f == [i \in latest |-> back(n + 1 - i)]
<1>0. n \in Nat /\ w <= n
  OBVIOUS
<1>1. \A k \in 1 .. w : back(k) \in 0 .. w - 1 /\ r[back(k)] = h[n + 1 - k]
  <2> SUFFICES ASSUME NEW k \in 1 .. w PROVE back(k) \in 0 .. w - 1 /\ r[back(k)] = h[n + 1 - k]
    OBVIOUS
  <2>1. (p - k) % w = back(k)
    BY Back
  <2>2. back(k) \in 0 .. w - 1
    OBVIOUS
  <2>3. QED
    BY <2>1, <2>2
<1>2. \A i \in (n - w + 1) .. n : n + 1 - i \in 1 .. w /\ n + 1 - (n + 1 - i) = i
  BY <1>0
<1>3. ASSUME NEW i \in latest PROVE back(n + 1 - i) \in slots
  <2>1. n + 1 - i \in 1 .. w /\ n + 1 - (n + 1 - i) = i /\ h[i]
    BY <1>2
  <2> HIDE DEF back
  <2>2. QED
    BY <1>1, <2>1
<1>4. f \in [latest -> slots]
  <2> HIDE DEF back, latest, slots
  <2>1. QED
    BY <1>3
<1>5. \A i, j \in latest : f[i] = f[j] => i = j
  <2> SUFFICES ASSUME NEW i \in latest, NEW j \in latest, f[i] = f[j] PROVE i = j
    OBVIOUS
  <2>1. back(n + 1 - i) = back(n + 1 - j)
    OBVIOUS
  <2>2. n + 1 - i \in 1 .. w /\ n + 1 - j \in 1 .. w /\ i \in Int /\ j \in Int
    BY <1>2
  <2> DEFINE x == n + 1 - i
             y == n + 1 - j
  <2>3. x = y
    <3> HIDE DEF x, y
    <3>1. x \in 1 .. w /\ y \in 1 .. w /\ back(x) = back(y)
      BY <2>1, <2>2 DEF x, y
    <3>2. QED
      BY <3>1, BackOnce
  <2>4. QED
    BY <1>0, <2>2, <2>3
<1>6. ASSUME NEW s \in slots PROVE \E i \in latest : f[i] = s
  <2> DEFINE k == IF s < p THEN p - s ELSE p - s + w
  <2>1. k \in 1 .. w /\ back(k) = s
    OBVIOUS
  <2>2. n + 1 - k \in (n - w + 1) .. n /\ n + 1 - (n + 1 - k) = k
    BY <1>0, <2>1
  <2>3. h[n + 1 - k]
    BY <1>1, <2>1
  <2>4. n + 1 - k \in latest /\ f[n + 1 - k] = s
    BY <2>1, <2>2, <2>3
  <2>5. QED
    BY <2>4
<1> HIDE DEF latest, slots, f
<1>7. f \in Bijection(latest, slots)
  <2>1. f \in Injection(latest, slots)
    BY <1>4, <1>5 DEF Injection, IsInjective
  <2>2. f \in Surjection(latest, slots)
    BY <1>4, <1>6 DEF Surjection
  <2>3. QED
    BY <2>1, <2>2 DEF Bijection
<1>8. IsFiniteSet(latest)
  <2>1. IsFiniteSet((n - w + 1) .. n)
    BY <1>0, FS_Interval
  <2>2. latest \in SUBSET ((n - w + 1) .. n)
    BY DEF latest
  <2>3. QED
    BY <2>1, <2>2, FS_Subset
<1>9. Cardinality(slots) = Cardinality(latest)
  BY <1>7, <1>8, FS_Bijection DEF ExistsBijection
<1>10. QED
  BY <1>9 DEF latest, slots

\* The latest l outcomes all failed exactly when the trailing run is that long.
LEMMA AllFailed ==
    ASSUME NEW h \in Seq(BOOLEAN), NEW c \in Nat, NEW l \in Nat \ {0}, c <= Len(h),
           \A i \in (Len(h) + 1 - c) .. Len(h) : h[i],
           c < Len(h) => ~h[Len(h) - c]
    PROVE  c >= l <=> /\ Len(h) >= l
                      /\ Cardinality({i \in (Len(h) - l + 1) .. Len(h) : h[i]}) = l
<1> DEFINE n == Len(h)
           latest == {i \in (n - l + 1) .. n : h[i]}
<1>0. n \in Nat
  OBVIOUS
<1>1. IsFiniteSet((n - l + 1) .. n) /\ Cardinality((n - l + 1) .. n) = l
  <2>1. n - l + 1 \in Int /\ ~(n - l + 1 > n) /\ n - (n - l + 1) + 1 = l
    BY <1>0
  <2>2. QED
    BY <1>0, <2>1, FS_Interval
<1>2. ASSUME c >= l PROVE n >= l /\ Cardinality(latest) = l
  <2>1. \A i \in (n - l + 1) .. n : i \in (n + 1 - c) .. n
    BY <1>0, <1>2
  <2>2. latest = (n - l + 1) .. n
    BY <2>1
  <2> HIDE DEF latest
  <2>3. n >= l
    BY <1>0, <1>2
  <2>4. QED
    BY <1>1, <2>2, <2>3
<1>3. ASSUME c < l, n >= l PROVE Cardinality(latest) # l
  <2>1. n - c \in (n - l + 1) .. n /\ ~h[n - c]
    BY <1>0, <1>3
  <2>2. latest \in SUBSET ((n - l + 1) .. n) /\ latest # (n - l + 1) .. n
    BY <2>1
  <2> HIDE DEF latest
  <2>3. QED
    BY <1>1, <2>2, FS_Subset
<1>4. QED
  BY <1>0, <1>2, <1>3

\* The breaker has tripped exactly when the history calls for it.
LEMMA Decision == BreakerInv => (breaker.tripped <=> H!ShouldAbort)
<1> SUFFICES ASSUME BreakerInv PROVE breaker.tripped <=> H!ShouldAbort
  OBVIOUS
<1> DEFINE n == Len(history)
           w == breaker.window
           l == breaker.consecutiveLimit
           last(m) == Cardinality({i \in (n - m + 1) .. n : history[i]})
<1>0. /\ w \in Nat \ {0} /\ l \in Int /\ breaker.num \in Int /\ breaker.den \in Nat \ {0}
      /\ breaker.pos \in 0 .. w - 1 /\ breaker.recent \in [0 .. w - 1 -> BOOLEAN]
      /\ breaker.consecutive \in Nat /\ history \in Seq(BOOLEAN) /\ n \in Nat
      /\ breaker.filled \in 0 .. w
  <2>1. Struct /\ TypeOK
    BY DEF BreakerInv
  <2>2. l \in Int /\ breaker.num \in Int /\ breaker.den \in Nat \ {0}
    BY <2>1 DEF Struct
  <2>3. /\ w \in Nat \ {0} /\ breaker.pos \in 0 .. w - 1 /\ breaker.recent \in [0 .. w - 1 -> BOOLEAN]
        /\ breaker.consecutive \in Nat /\ history \in Seq(BOOLEAN) /\ breaker.filled \in 0 .. w
    BY <2>1 DEF TypeOK, Slots
  <2>4. n \in Nat
    BY <2>3
  <2>5. QED
    BY <2>2, <2>3, <2>4
<1>1. H!ShouldAbort <=>
         \/ l > 0 /\ n >= l /\ last(l) = l
         \/ breaker.num > 0 /\ n >= w /\ last(w) * breaker.den >= breaker.num * w
  <2>1. H!FailuresInLast(l) = last(l) /\ H!FailuresInLast(w) = last(w)
    BY DEF H!FailuresInLast, H!Cardinality, Cardinality
  <2> HIDE DEF last
  <2>2. QED
    BY <2>1 DEF H!ShouldAbort, H!RunOfFailures, H!WindowOverRate
<1>2. l > 0 => (breaker.consecutive >= l <=> n >= l /\ last(l) = l)
  <2> SUFFICES ASSUME l > 0 PROVE breaker.consecutive >= l <=> n >= l /\ last(l) = l
    OBVIOUS
  <2>1. l \in Nat \ {0}
    BY <1>0
  <2>2. /\ breaker.consecutive <= n
        /\ \A i \in (n + 1 - breaker.consecutive) .. n : history[i]
        /\ breaker.consecutive < n => ~history[n - breaker.consecutive]
    BY DEF BreakerInv, TrailingRun
  <2>3. QED
    BY <1>0, <2>1, <2>2, AllFailed
<1>3. breaker.filled = w <=> n >= w
  <2>1. /\ breaker.filled <= n
        /\ breaker.filled < w => breaker.filled = n
    BY DEF BreakerInv, Filling
  <2>2. QED
    BY <1>0, <2>1
<1>4. n >= w => breaker.failures = last(w)
  <2> SUFFICES ASSUME n >= w PROVE breaker.failures = last(w)
    OBVIOUS
  <2>1. breaker.failures = Cardinality({i \in 0 .. w - 1 : breaker.recent[i]})
    BY DEF BreakerInv, FailuresMatchRing, Slots
  <2>2. \A k \in 1 .. w : breaker.recent[(breaker.pos - k) % w] = history[n + 1 - k]
    BY <1>3 DEF BreakerInv, RingMatches
  <2>3. /\ w \in Nat \ {0} /\ breaker.pos \in 0 .. w - 1 /\ breaker.recent \in [0 .. w - 1 -> BOOLEAN]
        /\ history \in Seq(BOOLEAN) /\ w <= n
    BY <1>0
  <2>4. Cardinality({i \in 0 .. w - 1 : breaker.recent[i]}) = last(w)
    BY <2>2, <2>3, FullRing, ZenonT(90)
  <2>5. QED
    BY <2>1, <2>4
<1>5. breaker.tripped <=>
         \/ l > 0 /\ breaker.consecutive >= l
         \/ /\ breaker.num > 0 /\ breaker.filled = w
            /\ breaker.failures * breaker.den >= breaker.num * breaker.filled
  BY DEF BreakerInv, TrippedBySwitch, TripReason
<1> HIDE DEF last, n, w, l
<1>6. QED
  BY <1>1, <1>2, <1>3, <1>4, <1>5

\* The breaker implements its specification on the whole history: every
\* outcome counted is filed, and the run is aborted at the first one that
\* completes a run of failures or a full window at the limiting rate.
THEOREM BreakerImplementsHistory == Spec => ImplementsHistory
<1>1. Init => H!SpecInit
  <2> SUFFICES ASSUME Init PROVE H!SpecInit
    OBVIOUS
  <2>1. breaker.tripped = FALSE
    BY DEF Init, NewBreaker
  <2>2. QED
    BY <2>1 DEF Init, H!SpecInit
<1>2. ASSUME BreakerInv, BreakerInv', (breaker.tripped <=> H!ShouldAbort)', [Next]_vars
      PROVE  [H!FileOutcome]_(H!specVars)
  <2>1. ASSUME breaker' = breaker, history' = history PROVE UNCHANGED H!specVars
    BY <2>1 DEF H!specVars
  <2>2. ASSUME NEW failed \in BOOLEAN, RecordOutcome(failed), ~(Disabled(breaker) \/ breaker.tripped)
        PROVE  H!FileOutcome
    <3>1. ~breaker.tripped /\ history' = Append(history, failed)
      BY <2>2 DEF RecordOutcome
    <3>2. breaker'.tripped = H!ShouldAbort'
      <4>1. breaker'.tripped \in BOOLEAN
        BY <1>2 DEF BreakerInv, TypeOK
      <4>2. QED
        BY <1>2, <4>1 DEF H!ShouldAbort, H!RunOfFailures, H!WindowOverRate
    <3>3. /\ breaker'.num = breaker.num /\ breaker'.den = breaker.den
          /\ breaker'.window = breaker.window /\ breaker'.consecutiveLimit = breaker.consecutiveLimit
      BY <1>2, <2>2, Counted
    <3>4. QED
      BY <3>1, <3>2, <3>3 DEF H!FileOutcome
  <2>3. ASSUME NEW failed \in BOOLEAN, RecordOutcome(failed), Disabled(breaker) \/ breaker.tripped
        PROVE  breaker' = breaker /\ history' = history
    BY <2>3 DEF RecordOutcome, Record
  <2>4. QED
    BY <1>2, <2>1, <2>2, <2>3 DEF Next, vars
<1>3. QED
  BY <1>1, <1>2, Decision, BreakerInvariant, PTL DEF Spec, ImplementsHistory, H!HistorySpec
=============================================================================

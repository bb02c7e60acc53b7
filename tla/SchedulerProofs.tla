--------------------------- MODULE SchedulerProofs ---------------------------
(***************************************************************************)
(* load.Scheduler.Run for every rate, count, resolution of the clock and   *)
(* placement of delay: releases are never early, never closer than half an *)
(* interval, and a backlog drains.                                         *)
(***************************************************************************)
EXTENDS Scheduler, SequenceTheorems, TLAPS

\* How many slots have been released: this iteration's too, once it is.
Released == IF pc \in {"emit", "stopped"} THEN i + 1 ELSE i

\* The histories follow the loop: slot n is the n-th release, lastRelease is
\* the latest of them, and a send is made between its release and the next.
Histories ==
    /\ Len(releases) = Released /\ Len(sends) = i
    /\ lastRelease = IF Len(releases) = 0 THEN -1 ELSE releases[Len(releases)].at
    /\ lastRelease <= now
    /\ \A n \in 1 .. Len(releases) : releases[n].lag = Lag(releases[n].at, n - 1)
    /\ \A n \in 1 .. Len(sends) :
          /\ releases[n].at <= sends[n] /\ sends[n] <= now
          /\ n < Len(releases) => sends[n] <= releases[n + 1].at

\* The deadline of a sleep is the one this iteration asks for, and a slot is
\* released when it has passed.
DeadlineKept ==
    /\ pc \in {"sleep", "release"} => deadline = Deadline
    /\ pc = "release" => deadline <= now

\* The clock is ahead of what Run waits for by no more than the delay since
\* the last release.
AheadByDelay ==
    /\ pc \in {"sleep", "release"} => now - late <= deadline
    /\ pc \in {"loop", "emit"} => now - late <= (IF lastRelease = -1 THEN 0 ELSE lastRelease)

\* The inductive strengthening of RateCap and BacklogDrains.
SchedulerInv ==
    /\ TypeOK
    /\ Histories
    /\ DeadlineKept
    /\ AheadByDelay
    /\ RateCap
    /\ BacklogDrains

-----------------------------------------------------------------------------
\* Quotient and divisor bound the dividend.
LEMMA DivBounds ==
    ASSUME NEW a \in Nat, NEW c \in Nat \ {0}
    PROVE  /\ a \div c \in Nat
           /\ (a \div c) * c <= a
           /\ a < (a \div c) * c + c
OBVIOUS

\* Truncation loses nothing by adding first.
LEMMA DivSuperadditive ==
    ASSUME NEW a \in Nat, NEW b \in Nat, NEW c \in Nat \ {0}
    PROVE  (a + b) \div c >= a \div c + b \div c
<1> DEFINE p == a \div c
           q == b \div c
           r == (a + b) \div c
<1>1. /\ p \in Nat /\ q \in Nat /\ r \in Nat
      /\ p * c <= a /\ q * c <= b /\ a + b < r * c + c
  BY DivBounds, a + b \in Nat
<1> HIDE DEF p, q, r
<1>2. (p + q) * c < (r + 1) * c
  BY <1>1
<1>3. p + q < r + 1
  BY <1>1, <1>2
<1>4. QED
  BY <1>1, <1>3 DEF p, q, r

\* One gap more.
LEMMA OneMore ==
    ASSUME NEW n \in Int, NEW g \in Int
    PROVE  (n + 1) * g = n * g + g
OBVIOUS

\* k gaps are no less than none.
LEMMA GapsNat ==
    ASSUME NEW n \in Nat, NEW g \in Nat
    PROVE  n * g \in Nat
OBVIOUS

\* The schedule advances by at least an interval a slot, the gap is at most an
\* interval, and no rate changes during a run.
LEMMA ScheduleFacts ==
    ASSUME rate \in Rates
    PROVE  /\ Interval \in Nat /\ minGap \in Nat /\ minGap <= Interval
           /\ minGap = Interval \div catchUpFactor
           /\ Scheduled(0) = 0
           /\ \A n \in Nat : Scheduled(n) \in Nat
           /\ \A n \in Nat : Scheduled(n + 1) >= Scheduled(n) + Interval
<1> DEFINE t == Second * rate.den
<1>1. rate.num \in Nat \ {0} /\ rate.den \in Nat \ {0} /\ Second \in Nat \ {0}
  BY SchedulerAssumption
<1>2. t \in Nat
  BY <1>1
<1>3. Interval = t \div rate.num /\ Interval \in Nat
  BY <1>1, <1>2, DivBounds DEF Interval
<1>4. \A n \in Nat : n * Second * rate.den = n * t /\ n * t \in Nat
  BY <1>1
<1>5. \A n \in Nat : Scheduled(n) = (n * t) \div rate.num
  BY <1>4 DEF Scheduled
<1>6. \A n \in Nat : Scheduled(n) \in Nat
  BY <1>1, <1>4, <1>5, DivBounds
<1>7. Scheduled(0) = 0
  BY <1>1, <1>5
<1> HIDE DEF t
<1>8. ASSUME NEW n \in Nat PROVE Scheduled(n + 1) >= Scheduled(n) + Interval
  <2>1. (n + 1) * t = n * t + t
    BY <1>2, OneMore
  <2>2. (n * t + t) \div rate.num >= (n * t) \div rate.num + t \div rate.num
    BY <1>1, <1>2, <1>4, DivSuperadditive
  <2>3. QED
    BY <1>3, <1>5, <2>1, <2>2
<1>9. minGap \in Nat /\ minGap <= Interval
  BY <1>3 DEF minGap, catchUpFactor
<1>10. QED
  BY <1>3, <1>6, <1>7, <1>8, <1>9 DEF minGap
-----------------------------------------------------------------------------
\* Run starts with the invariant.
LEMMA SchedulerInit == Init => SchedulerInv
<1> SUFFICES ASSUME Init PROVE SchedulerInv
  OBVIOUS
<1>1. TypeOK
  <2>1. releases \in Seq(Tick) /\ sends \in Seq(Nat)
    BY EmptySeq DEF Init
  <2>2. cancelled \in BOOLEAN
    BY DEF Init
  <2>3. QED
    BY <2>1, <2>2, SchedulerAssumption DEF Init, TypeOK
<1>2. QED
  BY <1>1 DEF Init, SchedulerInv, Histories, Released, DeadlineKept, AheadByDelay,
              RateCap, BacklogDrains

\* A step that releases nothing leaves what was said of the releases true.
LEMMA ReleasesKept ==
    ASSUME SchedulerInv, UNCHANGED <<rate, releases>>
    PROVE  /\ RateCap' /\ BacklogDrains'
           /\ \A n \in 1 .. Len(releases) : releases[n].lag = Lag(releases[n].at, n - 1)'
           /\ minGap' = minGap /\ Interval' = Interval
           /\ \A n : Scheduled(n)' = Scheduled(n)
<1>1. /\ minGap' = minGap /\ Interval' = Interval
      /\ \A n : Scheduled(n)' = Scheduled(n)
  BY DEF minGap, Interval, Scheduled
<1>2. QED
  BY <1>1 DEF SchedulerInv, RateCap, BacklogDrains, Histories, Lag

\* Every step but the release preserves the invariant.
LEMMA OtherSteps ==
    ASSUME SchedulerInv,
           \/ Finish \/ Plan \/ Wake \/ WakeCancelled \/ EmitSends \/ EmitFails
           \/ Cancel \/ TickAsleep \/ TickDelayed \/ UNCHANGED vars
    PROVE  SchedulerInv'
<1> USE DEF call, clock
<1>K. UNCHANGED <<rate, releases>>
  BY DEF Finish, Plan, Wake, WakeCancelled, EmitSends, EmitFails, Cancel, TickAsleep,
         TickDelayed, vars
<1>R. /\ RateCap' /\ BacklogDrains'
      /\ \A n \in 1 .. Len(releases) : releases[n].lag = Lag(releases[n].at, n - 1)'
      /\ minGap' = minGap
      /\ \A n : Scheduled(n)' = Scheduled(n)
  BY <1>K, ReleasesKept
<1>S. /\ minGap \in Nat
      /\ \A n \in Nat : Scheduled(n) \in Nat
  BY ScheduleFacts DEF SchedulerInv, TypeOK
<1>T. /\ rate \in Rates /\ count \in Counts
      /\ now \in Nat /\ delay \in Nat /\ delay <= MaxDelay /\ late \in Nat /\ late <= delay
      /\ pc \in {"loop", "sleep", "release", "emit"} \cup Ended
      /\ i \in Nat /\ deadline \in Nat /\ lastRelease \in Nat \cup {-1}
      /\ releases \in Seq(Tick) /\ sends \in Seq(Nat) /\ MaxDelay \in Nat
  BY SchedulerAssumption DEF SchedulerInv, TypeOK
<1>D. Deadline \in Nat /\ (lastRelease # -1 => Deadline >= lastRelease)
  <2>1. Scheduled(i) \in Nat /\ minGap \in Nat /\ lastRelease \in Nat \cup {-1}
    BY <1>S, <1>T
  <2>2. lastRelease # -1 => lastRelease \in Nat /\ lastRelease + minGap \in Nat
    BY <2>1
  <2> HIDE DEF Scheduled, minGap
  <2>3. QED
    BY <2>1, <2>2 DEF Deadline
<1>1. TypeOK'
  <2>1. cancelled' \in BOOLEAN
    BY DEF SchedulerInv, TypeOK, Finish, Plan, Wake, WakeCancelled, EmitSends, EmitFails,
           Cancel, TickAsleep, TickDelayed, vars
  <2>2. sends' \in Seq(Nat)
    <3>1. sends' = sends \/ sends' = Append(sends, now)
      BY DEF Finish, Plan, Wake, WakeCancelled, EmitSends, EmitFails, Cancel, TickAsleep,
             TickDelayed, vars
    <3>2. sends \in Seq(Nat) /\ now \in Nat
      BY <1>T
    <3>3. Append(sends, now) \in Seq(Nat)
      BY <3>2, AppendProperties
    <3>4. QED
      BY <3>1, <3>2, <3>3
  <2>3. pc' \in {"loop", "sleep", "release", "emit"} \cup Ended
    BY <1>T DEF Ended, Finish, Plan, Wake, WakeCancelled, EmitSends, EmitFails,
           Cancel, TickAsleep, TickDelayed, vars
  <2>4. /\ now' \in Nat /\ delay' \in 0 .. MaxDelay /\ late' \in 0 .. delay'
        /\ i' \in Nat /\ deadline' \in Nat /\ lastRelease' = lastRelease
        /\ count' = count
    <3>1. CASE Plan
      BY <3>1, <1>T, <1>D DEF Plan
    <3>2. CASE EmitSends
      BY <3>2, <1>T DEF EmitSends
    <3>3. CASE TickAsleep \/ TickDelayed
      BY <3>3, <1>T DEF TickAsleep, TickDelayed
    <3>4. CASE ~(Plan \/ EmitSends \/ TickAsleep \/ TickDelayed)
      BY <3>4, <1>T DEF Finish, Wake, WakeCancelled, EmitFails, Cancel, vars
    <3>5. QED
      BY <3>1, <3>2, <3>3, <3>4
  <2>5. QED
    BY <1>K, <1>T, <2>1, <2>2, <2>3, <2>4 DEF TypeOK
<1>2. Histories'
  <2>1. CASE EmitSends
    <3>1. /\ Len(sends') = i + 1 /\ sends'[i + 1] = now
          /\ \A n \in 1 .. i : sends'[n] = sends[n]
      <4>1. /\ sends \in Seq(Nat) /\ now \in Nat /\ Len(sends) = i
            /\ sends' = Append(sends, now)
        BY <2>1, <1>T DEF EmitSends, SchedulerInv, Histories
      <4>2. QED
        BY <4>1, AppendProperties
    <3>2. QED
      <4>1. /\ Len(releases) = i + 1 /\ Len(sends) = i /\ Released' = i + 1 /\ i' = i + 1 /\ now' = now
            /\ lastRelease' = lastRelease /\ lastRelease = releases[i + 1].at /\ lastRelease <= now
        BY <2>1, <1>T DEF EmitSends, SchedulerInv, Histories, Released
      <4>2. \A n \in 1 .. i : /\ releases[n].at <= sends[n] /\ sends[n] <= now
                              /\ sends[n] <= releases[n + 1].at
        BY <4>1, <1>T DEF SchedulerInv, Histories
      <4>3. \A n \in 1 .. i + 1 : n \in 1 .. i \/ n = i + 1
        BY <1>T
      <4>4. \A n \in 1 .. Len(sends') :
               /\ releases'[n].at <= sends'[n] /\ sends'[n] <= now'
               /\ n < Len(releases') => sends'[n] <= releases'[n + 1].at
        BY <3>1, <4>1, <4>2, <4>3, <1>K, <1>T
      <4>5. \A n \in 1 .. Len(releases') : releases'[n].lag = Lag(releases[n].at, n - 1)'
        BY <1>K, <1>R
      <4>6. /\ Len(releases') = Released' /\ Len(sends') = i' /\ lastRelease' <= now'
            /\ lastRelease' = IF Len(releases') = 0 THEN -1 ELSE releases'[Len(releases')].at
        BY <3>1, <4>1, <1>K, <1>T
      <4>7. QED
        BY <4>4, <4>5, <4>6 DEF Histories
  <2>2. CASE ~EmitSends
    <3>1. /\ UNCHANGED <<i, sends, lastRelease>>
          /\ now' \in Nat /\ now <= now'
          /\ Released' = Released
      BY <2>2, <1>T DEF Released, Ended, Finish, Plan, Wake, WakeCancelled, EmitFails,
           Cancel, TickAsleep, TickDelayed, vars
    <3>2. \A n \in 1 .. Len(sends) : sends[n] \in Nat
      BY <1>T
    <3>3. QED
      <4>1. Len(releases') = Released' /\ Len(sends') = i'
        BY <3>1, <1>K DEF SchedulerInv, Histories
      <4>2. /\ lastRelease' = IF Len(releases') = 0 THEN -1 ELSE releases'[Len(releases')].at
            /\ lastRelease' <= now'
        BY <3>1, <1>K, <1>T DEF SchedulerInv, Histories
      <4>3. \A n \in 1 .. Len(sends) :
               /\ releases[n].at <= sends[n] /\ sends[n] <= now'
               /\ n < Len(releases) => sends[n] <= releases[n + 1].at
        BY <3>1, <3>2, <1>T DEF SchedulerInv, Histories
      <4>4. \A n \in 1 .. Len(sends') :
               /\ releases'[n].at <= sends'[n] /\ sends'[n] <= now'
               /\ n < Len(releases') => sends'[n] <= releases'[n + 1].at
        BY <3>1, <4>3, <1>K
      <4>5. \A n \in 1 .. Len(releases') : releases'[n].lag = Lag(releases[n].at, n - 1)'
        BY <1>K, <1>R
      <4>6. QED
        BY <4>1, <4>2, <4>4, <4>5 DEF Histories
  <2>3. QED
    BY <2>1, <2>2
<1>3. DeadlineKept'
  <2>1. CASE EmitSends
    BY <2>1 DEF EmitSends, DeadlineKept
  <2>2. CASE ~EmitSends
    <3>1. Deadline' = Deadline
      <4>1. UNCHANGED <<i, lastRelease>>
        BY <2>2 DEF Finish, Plan, Wake, WakeCancelled, EmitFails, Cancel, TickAsleep,
             TickDelayed, vars
      <4>2. QED
        BY <4>1, <1>R DEF Deadline
    <3>2. QED
      BY <2>2, <3>1, <1>T, <1>D DEF SchedulerInv, DeadlineKept, Ended, Finish, Plan, Wake,
           WakeCancelled, EmitFails, Cancel, TickAsleep, TickDelayed, vars
  <2>3. QED
    BY <2>1, <2>2
<1>4. AheadByDelay'
  <2>1. AheadByDelay
    BY DEF SchedulerInv
  <2>2. CASE Plan
    BY <2>1, <2>2, <1>T, <1>D DEF AheadByDelay, Plan
  <2>3. CASE TickAsleep \/ TickDelayed
    BY <2>1, <2>3, <1>T DEF AheadByDelay, TickAsleep, TickDelayed
  <2>4. CASE ~(Plan \/ TickAsleep \/ TickDelayed)
    BY <2>1, <2>4 DEF AheadByDelay, Ended, Finish, Wake, WakeCancelled, EmitSends, EmitFails, Cancel, vars
  <2>5. QED
    BY <2>2, <2>3, <2>4
<1>5. QED
  BY <1>1, <1>2, <1>3, <1>4, <1>R DEF SchedulerInv

\* What a release that waited for the schedule or for the gap can lag by.
LEMMA LagArithmetic ==
    ASSUME NEW at \in Nat, NEW last \in Nat, NEW lag \in Nat, NEW due \in Nat,
           NEW before \in Nat, NEW gap \in Nat, NEW interval \in Nat, NEW waited \in Nat,
           gap <= interval, due >= before + interval, lag >= last - before,
           at - waited <= due \/ at - waited <= last + gap
    PROVE  at - due <= (IF lag - (interval - gap) < 0 THEN 0 ELSE lag - (interval - gap)) + waited
OBVIOUS

\* A release appends to the history what the invariant asks of its last entry:
\* the deadline it waited for is no earlier than the schedule and the gap, and
\* no later than one of them allows.
LEMMA ReleaseStep ==
    ASSUME SchedulerInv, Release
    PROVE  SchedulerInv'
<1> DEFINE r == [at |-> now, lag |-> Lag(now, i), late |-> late]
<1>K. /\ minGap' = minGap /\ Interval' = Interval
      /\ \A n : Scheduled(n)' = Scheduled(n)
      /\ \A a, n : Lag(a, n)' = Lag(a, n)
  BY DEF Release, call, minGap, Interval, Scheduled, Lag
<1>S. /\ Interval \in Nat /\ minGap \in Nat /\ minGap <= Interval
      /\ minGap = Interval \div catchUpFactor
      /\ Scheduled(0) = 0
      /\ \A n \in Nat : Scheduled(n) \in Nat
      /\ \A n \in Nat : Scheduled(n + 1) >= Scheduled(n) + Interval
  BY ScheduleFacts DEF SchedulerInv, TypeOK
<1>T. /\ rate \in Rates /\ count \in Counts /\ cancelled \in BOOLEAN
      /\ now \in Nat /\ delay \in 0 .. MaxDelay /\ late \in Nat /\ late <= delay
      /\ i \in Nat /\ deadline \in Nat /\ lastRelease \in Nat \cup {-1}
      /\ releases \in Seq(Tick) /\ sends \in Seq(Nat) /\ MaxDelay \in Nat
      /\ pc = "release"
  BY SchedulerAssumption DEF SchedulerInv, TypeOK, Release
<1>H. /\ Len(releases) = i /\ Len(sends) = i
      /\ lastRelease = IF i = 0 THEN -1 ELSE releases[i].at
      /\ \A n \in 1 .. i : releases[n] \in Tick
  BY <1>T DEF SchedulerInv, Histories, Released
<1>D. /\ Scheduled(i) \in Nat
      /\ now >= Scheduled(i)
      /\ i # 0 => now >= releases[i].at + minGap
      /\ now - late <= Deadline
  <2>1. deadline = Deadline /\ deadline <= now /\ now - late <= deadline
    BY <1>T DEF SchedulerInv, DeadlineKept, AheadByDelay
  <2>2. Scheduled(i) \in Nat /\ minGap \in Nat
    BY <1>S, <1>T
  <2>3. i # 0 => lastRelease = releases[i].at /\ lastRelease \in Nat
    BY <1>H, <1>T DEF Tick
  <2>4. /\ Scheduled(i) <= Deadline
        /\ i # 0 => releases[i].at + minGap <= Deadline
    BY <2>2, <2>3, <1>T DEF Deadline
  <2>5. QED
    BY <2>1, <2>2, <2>3, <2>4, <1>T
<1>A. /\ releases' = Append(releases, r) /\ Len(releases') = i + 1
      /\ releases'[i + 1] = r
      /\ \A n \in 1 .. i : releases'[n] = releases[n]
  BY <1>T, <1>H, AppendProperties DEF Release
<1>L. Lag(now, i) = now - Scheduled(i) /\ Lag(now, i) \in Nat
  BY <1>T, <1>D DEF Lag
<1>Q. r \in Tick
  BY <1>T, <1>L DEF Tick
<1>1. TypeOK'
  <2>1. releases' \in Seq(Tick)
    BY <1>A, <1>Q, <1>T, AppendProperties
  <2>2. /\ rate' \in Rates /\ count' \in Counts /\ cancelled' \in BOOLEAN
        /\ sends' \in Seq(Nat)
    BY <1>T DEF Release, call
  <2>3. QED
    BY <2>1, <2>2, <1>T DEF Release, call, TypeOK
<1>2. Histories'
  <2>1. \A n \in 1 .. i + 1 : releases'[n].lag = Lag(releases'[n].at, n - 1)
    BY <1>A, <1>T, <1>H DEF SchedulerInv, Histories
  <2>2. ASSUME NEW n \in 1 .. i
        PROVE  /\ releases'[n].at <= sends[n] /\ sends[n] <= now
               /\ n < i + 1 => sends[n] <= releases'[n + 1].at
    <3>1. releases'[n].at <= sends[n] /\ sends[n] <= now
      BY <1>A, <1>H DEF SchedulerInv, Histories
    <3>2. CASE n = i
      BY <3>1, <3>2, <1>A
    <3>3. CASE n # i
      BY <3>3, <1>A, <1>H, <1>T DEF SchedulerInv, Histories
    <3>4. QED
      BY <3>1, <3>2, <3>3, <1>T
  <2>3. /\ Len(sends') = i /\ sends' = sends /\ now' = now /\ i' = i
        /\ Released' = i + 1 /\ lastRelease' = now
    BY <1>H, <1>T DEF Release, Released
  <2>4. QED
    BY <2>1, <2>2, <2>3, <1>A, <1>K, <1>T DEF Histories
<1>3. DeadlineKept' /\ AheadByDelay'
  BY <1>T DEF Release, DeadlineKept, AheadByDelay
<1>4. RateCap'
  <2>D. DOMAIN releases = 1 .. i
    BY <1>H, <1>T
  <2>1. ASSUME NEW n \in 1 .. i + 1
        PROVE  releases'[n].at >= Scheduled(n - 1)
    <3>1. CASE n \in 1 .. i
      BY <3>1, <1>A, <2>D DEF SchedulerInv, RateCap
    <3>2. CASE n = i + 1
      BY <3>2, <1>A, <1>D, <1>T, (i + 1) - 1 = i
    <3>3. QED
      BY <3>1, <3>2, <1>T
  <2>2. ASSUME NEW m \in 1 .. i + 1, NEW n \in 1 .. i + 1, m < n
        PROVE  releases'[n].at - releases'[m].at >= (n - m) * minGap
    <3>1. CASE n \in 1 .. i
      <4>1. m \in 1 .. i
        BY <3>1, <2>2, <1>T
      <4>2. releases'[n] = releases[n] /\ releases'[m] = releases[m]
        BY <3>1, <4>1, <1>A
      <4>3. QED
        BY <3>1, <4>1, <4>2, <2>2, <2>D DEF SchedulerInv, RateCap
    <3>2. CASE n = i + 1
      <4>1. m \in 1 .. i /\ i # 0 /\ i \in 1 .. i /\ i - m \in Nat
        BY <3>2, <2>2, <1>T
      <4>2. releases[i].at \in Nat /\ releases[m].at \in Nat
        BY <4>1, <1>H DEF Tick
      <4>3. (n - m) * minGap = (i - m) * minGap + minGap
        BY <3>2, <4>1, <1>S, <1>T, OneMore, (i + 1) - m = (i - m) + 1
      <4>4. releases[i].at - releases[m].at >= (i - m) * minGap
        <5>1. CASE m = i
          <6>1. i - m = 0 /\ 0 * minGap = 0
            BY <5>1, <1>S, <1>T
          <6>2. QED
            BY <5>1, <6>1, <4>2
        <5>2. CASE m # i
          <6>1. m < i /\ m \in DOMAIN releases /\ i \in DOMAIN releases
            BY <5>2, <4>1, <2>D, <1>T
          <6>2. QED
            BY <6>1 DEF SchedulerInv, RateCap
        <5>3. QED
          BY <5>1, <5>2
      <4>5. releases'[n].at = now /\ releases'[m].at = releases[m].at
        BY <3>2, <4>1, <1>A
      <4>6. (i - m) * minGap \in Nat
        BY <4>1, <1>S, GapsNat
      <4> DEFINE gaps == (i - m) * minGap
      <4>7. /\ now \in Nat /\ minGap \in Nat /\ gaps \in Nat
            /\ now >= releases[i].at + minGap /\ releases[i].at - releases[m].at >= gaps
        BY <4>1, <4>4, <4>6, <1>D, <1>S, <1>T
      <4> HIDE DEF gaps
      <4>8. now - releases[m].at >= gaps + minGap
        BY <4>2, <4>7
      <4>9. QED
        BY <4>3, <4>5, <4>8 DEF gaps
    <3>3. QED
      BY <3>1, <3>2, <1>T
  <2>3. DOMAIN releases' = 1 .. i + 1
    BY <1>A, <1>1 DEF TypeOK
  <2>4. QED
    BY <2>1, <2>2, <2>3, <1>K DEF RateCap
<1>5. BacklogDrains'
  <2> DEFINE half == Interval - minGap
             before(n) == IF n = 1 THEN 0 ELSE releases'[n - 1].lag - half
  <2>1. ASSUME NEW n \in 1 .. i + 1
        PROVE  releases'[n].lag <= (IF before(n) < 0 THEN 0 ELSE before(n)) + releases'[n].late
    <3>1. CASE n \in 1 .. i
      <4>1. n # 1 => n - 1 \in 1 .. i
        BY <3>1, <1>T
      <4>2. before(n) = IF n = 1 THEN 0 ELSE releases[n - 1].lag - half
        BY <4>1, <1>A
      <4>3. releases'[n] = releases[n] /\ n \in DOMAIN releases
        BY <3>1, <1>A, <1>H, <1>T
      <4>4. half = Interval - Interval \div catchUpFactor
        BY <1>S
      <4> HIDE DEF before, half
      <4>5. QED
        BY <4>2, <4>3, <4>4 DEF SchedulerInv, BacklogDrains
    <3>2. CASE n = i + 1 /\ i = 0
      <4>1. Deadline = 0
        BY <3>2, <1>H, <1>S DEF Deadline
      <4>2. QED
        BY <3>2, <4>1, <1>A, <1>D, <1>L, <1>S, <1>T
    <3>3. CASE n = i + 1 /\ i # 0
      <4>1. i \in 1 .. i /\ releases[i] \in Tick /\ i - 1 \in Nat
        BY <3>3, <1>H, <1>T
      <4>2. /\ releases[i].at \in Nat /\ releases[i].lag \in Nat
            /\ lastRelease = releases[i].at
        BY <4>1, <3>3, <1>H DEF Tick
      <4>3. Scheduled(i) >= Scheduled(i - 1) + Interval /\ Scheduled(i - 1) \in Nat
        BY <4>1, <1>S, <1>T, (i - 1) + 1 = i
      <4>4. releases[i].lag >= releases[i].at - Scheduled(i - 1)
        BY <4>1, <4>2, <4>3, <1>H DEF SchedulerInv, Histories, Lag
      <4>5. before(n) = releases[i].lag - half
        BY <3>3, <4>1, <1>A, <1>T
      <4>6. releases'[n].lag = now - Scheduled(i) /\ releases'[n].late = late
        BY <3>3, <1>A, <1>L
      <4>7. \/ now - late <= Scheduled(i)
            \/ now - late <= releases[i].at + minGap
        BY <4>2, <1>D DEF Deadline
      <4>8. now - Scheduled(i) <= (IF releases[i].lag - (Interval - minGap) < 0 THEN 0
                                   ELSE releases[i].lag - (Interval - minGap)) + late
        <5>1. /\ now \in Nat /\ late \in Nat /\ Scheduled(i) \in Nat
              /\ Interval \in Nat /\ minGap \in Nat /\ minGap <= Interval
          BY <1>D, <1>S, <1>T
        <5>2. QED
          BY <4>2, <4>3, <4>4, <4>7, <5>1, LagArithmetic
      <4>9. QED
        BY <4>5, <4>6, <4>8
    <3>4. QED
      BY <3>1, <3>2, <3>3, <1>T
  <2>2. DOMAIN releases' = 1 .. i + 1
    BY <1>A, <1>1 DEF TypeOK
  <2>3. QED
    BY <2>1, <2>2, <1>K, <1>S DEF BacklogDrains
<1>6. QED
  BY <1>1, <1>2, <1>3, <1>4, <1>5 DEF SchedulerInv
-----------------------------------------------------------------------------
\* Every step preserves the invariant.
LEMMA SchedulerStep == SchedulerInv /\ [Next]_vars => SchedulerInv'
<1> SUFFICES ASSUME SchedulerInv, [Next]_vars PROVE SchedulerInv'
  OBVIOUS
<1>1. CASE Release
  BY <1>1, ReleaseStep
<1>2. CASE ~Release
  BY <1>2, OtherSteps DEF Next, Steps, Stopped
<1>3. QED
  BY <1>1, <1>2

\* Run keeps the invariant whatever its rate, its count, the resolution of its
\* clock, and wherever the clock runs away between two of its reads.
THEOREM SchedulerInvariant == Spec => []SchedulerInv
<1>1. QED
  BY SchedulerInit, SchedulerStep, PTL DEF Spec

\* The scheduler's state keeps its types: no release is stamped before time 0
\* and no lag is negative.
THEOREM SchedulerTypeOK == Spec => []TypeOK
<1>1. SchedulerInv => TypeOK
  BY DEF SchedulerInv
<1>2. QED
  BY <1>1, SchedulerInvariant, PTL

\* The open loop is never early and catches up at no more than catchUpFactor
\* times the target rate, the anti-burst floor of Scheduler.Run.
THEOREM SchedulerRateCap == Spec => []RateCap
<1>1. SchedulerInv => RateCap
  BY DEF SchedulerInv
<1>2. QED
  BY <1>1, SchedulerInvariant, PTL

\* A backlog shrinks by half an interval a slot, but for new delay: Run drains
\* a transient stall and accumulates no error of its own, truncation included.
THEOREM SchedulerBacklog == Spec => []BacklogDrains
<1>1. SchedulerInv => BacklogDrains
  BY DEF SchedulerInv
<1>2. QED
  BY <1>1, SchedulerInvariant, PTL

\* What emit sends is paced as well: its wait for a worker slot lets no more
\* than two requests out back to back.
THEOREM SchedulerSendBurst == Spec => []SendBurst
<1>1. ASSUME SchedulerInv PROVE SendBurst
  <2> SUFFICES ASSUME NEW m \in DOMAIN sends, NEW n \in DOMAIN sends, m < n
               PROVE  sends[n] - sends[m] >= (n - m - 1) * minGap
    BY DEF SendBurst
  <2>1. /\ sends \in Seq(Nat) /\ releases \in Seq(Tick) /\ i \in Nat
        /\ Len(sends) = i /\ Len(releases) \in {i, i + 1}
    BY <1>1 DEF SchedulerInv, TypeOK, Histories, Released
  <2>2. minGap \in Nat
    BY <1>1, ScheduleFacts DEF SchedulerInv, TypeOK
  <2>3. /\ m \in 1 .. Len(sends) /\ n \in 1 .. Len(sends)
        /\ m + 1 \in 1 .. Len(releases) /\ n \in 1 .. Len(releases)
        /\ m + 1 <= n /\ m < Len(releases) /\ m \in Int /\ n \in Int
    BY <2>1
  <2>4. /\ sends[m] \in Nat /\ sends[n] \in Nat
        /\ releases[m + 1].at \in Nat /\ releases[n].at \in Nat
    <3>1. releases[m + 1] \in Tick /\ releases[n] \in Tick
      BY <2>1, <2>3
    <3>2. sends[m] \in Nat /\ sends[n] \in Nat
      BY <2>1, <2>3
    <3>3. QED
      BY <3>1, <3>2 DEF Tick
  <2>5. releases[n].at <= sends[n] /\ sends[m] <= releases[m + 1].at
    BY <1>1, <2>3 DEF SchedulerInv, Histories
  <2> DEFINE gaps == (n - m - 1) * minGap
  <2>6. gaps \in Int
    BY <2>2, <2>3
  <2>7. releases[n].at - releases[m + 1].at >= gaps
    <3>1. CASE n = m + 1
      <4>1. n - m - 1 = 0 /\ 0 * minGap = 0
        BY <3>1, <2>2, <2>3
      <4>2. QED
        BY <3>1, <4>1, <2>4
    <3>2. CASE n # m + 1
      <4>1. m + 1 < n /\ n - (m + 1) = n - m - 1
        BY <3>2, <2>3
      <4>2. m + 1 \in DOMAIN releases /\ n \in DOMAIN releases
        BY <2>1, <2>3
      <4>3. QED
        BY <4>1, <4>2, <1>1 DEF SchedulerInv, RateCap
    <3>3. QED
      BY <3>1, <3>2
  <2> HIDE DEF gaps
  <2>8. sends[n] - sends[m] >= gaps
    BY <2>4, <2>5, <2>6, <2>7
  <2>9. QED
    BY <2>8 DEF gaps
<1>2. QED
  BY <1>1, SchedulerInvariant, PTL
=============================================================================

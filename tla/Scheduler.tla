------------------------------ MODULE Scheduler ------------------------------
(***************************************************************************)
(* load.Scheduler.Run (internal/load/scheduler.go): the open-loop clock of *)
(* a stage.  Slot i is due at start + i/rate; releases that fall behind    *)
(* are paced at catchUpFactor times the rate.                              *)
(*                                                                         *)
(* Time is a count of ticks.  The rate is num/den slots per second and the *)
(* conversions to a Duration truncate, as the code's do.  The clock may    *)
(* move between any two reads of it: a goroutine is descheduled, a timer   *)
(* wakes late, emit blocks on a full worker pool.  Ticks that pass while   *)
(* the scheduler is not waiting for its deadline are delay, bounded by     *)
(* MaxDelay.                                                               *)
(***************************************************************************)
EXTENDS Integers, Sequences

CONSTANTS
    Second,    \* ticks per second
    Rates,     \* target rates, records [num, den] of slots per second
    Counts,    \* how many slots Run may be asked for
    MaxDelay   \* bound on the ticks of delay in a behaviour

ASSUME SchedulerAssumption ==
    /\ Second \in Nat \ {0}
    /\ Rates \subseteq [num : Nat \ {0}, den : Nat \ {0}]
    /\ Counts \subseteq Nat
    /\ MaxDelay \in Nat

VARIABLES
    rate, count,   \* what Run was called with; start is time 0
    now,           \* the clock
    cancelled,     \* ctx
    pc, i,         \* where Run is, and its loop variable
    deadline,      \* when the slot of this iteration may be released
    lastRelease,   \* -1 is the zero time.Time
    releases,      \* history: a record for every slot released
    sends,         \* history: when emit sent each request
    delay, late    \* ticks of delay in all, and since the last release

vars == <<rate, count, now, cancelled, pc, i, deadline, lastRelease,
          releases, sends, delay, late>>
clock == <<now, delay, late>>
call == <<rate, count>>
Ended == {"done", "cancelled", "stopped"}

-----------------------------------------------------------------------------
catchUpFactor == 2

\* Interval: the nominal spacing.
Interval == (Second * rate.den) \div rate.num

\* The least time between two releases.
minGap == Interval \div catchUpFactor

\* Slot n's place in the absolute schedule.
Scheduled(n) == (n * Second * rate.den) \div rate.num

\* Variant: no anti-burst floor.
DeadlineNoFloor == Scheduled(i)

\* Variant: the schedule is relative to the last release.
DeadlineRelative == IF lastRelease = -1 THEN Scheduled(i) ELSE lastRelease + Interval

\* The absolute schedule, floored by the anti-burst gap.
Deadline ==
    IF lastRelease # -1 /\ lastRelease + minGap > Scheduled(i)
    THEN lastRelease + minGap ELSE Scheduled(i)

Lag(at, n) == IF at - Scheduled(n) < 0 THEN 0 ELSE at - Scheduled(n)

Init ==
    /\ rate \in Rates /\ count \in Counts
    /\ now = 0 /\ delay = 0 /\ late = 0
    /\ cancelled = FALSE
    /\ pc = "loop" /\ i = 0
    /\ deadline = 0 /\ lastRelease = -1
    /\ releases = << >> /\ sends = << >>

\* Variant: the loop runs once too often.
MoreSlotsInclusive == i <= count

\* The loop's condition.
MoreSlots == i < count

Finish ==
    /\ pc = "loop" /\ ~MoreSlots
    /\ pc' = "done"
    /\ UNCHANGED <<call, clock, cancelled, i, deadline, lastRelease, releases, sends>>

\* The head of an iteration: ctx, the deadline, and whether to sleep at all.
Plan ==
    /\ pc = "loop" /\ MoreSlots
    /\ IF cancelled
       THEN pc' = "cancelled" /\ UNCHANGED deadline
       ELSE /\ deadline' = Deadline
            /\ pc' = IF now < Deadline THEN "sleep" ELSE "release"
    /\ UNCHANGED <<call, clock, cancelled, i, lastRelease, releases, sends>>

\* SleepUntil returns because the deadline passed.
Wake ==
    /\ pc = "sleep" /\ now >= deadline
    /\ pc' = "release"
    /\ UNCHANGED <<call, clock, cancelled, i, deadline, lastRelease, releases, sends>>

\* SleepUntil returns ctx's error.
WakeCancelled ==
    /\ pc = "sleep" /\ cancelled
    /\ pc' = "cancelled"
    /\ UNCHANGED <<call, clock, cancelled, i, deadline, lastRelease, releases, sends>>

\* The slot is released: its tick is stamped, and emit is called with it.
Release ==
    /\ pc = "release"
    /\ lastRelease' = now
    /\ releases' = Append(releases, [at |-> now, lag |-> Lag(now, i), late |-> late])
    /\ late' = 0
    /\ pc' = "emit"
    /\ UNCHANGED <<call, now, delay, cancelled, i, deadline, sends>>

\* emit returns after sending, however long it waited for a worker slot.
EmitSends ==
    /\ pc = "emit"
    /\ sends' = Append(sends, now)
    /\ i' = i + 1
    /\ pc' = "loop"
    /\ UNCHANGED <<call, clock, cancelled, deadline, lastRelease, releases>>

\* emit returns an error: the run was stopped, or ctx was cancelled.
EmitFails ==
    /\ pc = "emit"
    /\ pc' = "stopped"
    /\ UNCHANGED <<call, clock, cancelled, i, deadline, lastRelease, releases, sends>>

Cancel ==
    /\ ~cancelled /\ pc \notin Ended
    /\ cancelled' = TRUE
    /\ UNCHANGED <<call, clock, pc, i, deadline, lastRelease, releases, sends>>

\* Time passes as planned, before the deadline of a sleep.
TickAsleep ==
    /\ pc = "sleep" /\ now < deadline
    /\ now' = now + 1
    /\ UNCHANGED <<call, delay, late, cancelled, pc, i, deadline, lastRelease, releases, sends>>

\* Time passes while the scheduler should be running.
TickDelayed ==
    /\ pc \notin Ended /\ ~(pc = "sleep" /\ now < deadline)
    /\ delay < MaxDelay
    /\ now' = now + 1 /\ delay' = delay + 1 /\ late' = late + 1
    /\ UNCHANGED <<call, cancelled, pc, i, deadline, lastRelease, releases, sends>>

Stopped == pc \in Ended /\ UNCHANGED vars

Steps == Finish \/ Plan \/ Wake \/ Release \/ EmitSends

Next == Steps \/ WakeCancelled \/ EmitFails \/ Cancel \/ TickAsleep \/ TickDelayed \/ Stopped

Spec == Init /\ [][Next]_vars

\* The goroutine is scheduled, time passes, and emit returns in the end (a
\* worker slot is freed when its request completes or times out).
FairSpec == Spec /\ WF_vars(Steps) /\ WF_vars(TickAsleep)

-----------------------------------------------------------------------------
Tick == [at : Nat, lag : Nat, late : Nat]

TypeOK ==
    /\ rate \in Rates /\ count \in Counts
    /\ now \in Nat /\ delay \in 0 .. MaxDelay /\ late \in 0 .. delay
    /\ cancelled \in BOOLEAN
    /\ pc \in {"loop", "sleep", "release", "emit"} \cup Ended
    /\ i \in Nat
    /\ deadline \in Nat
    /\ lastRelease \in Nat \cup {-1}
    /\ releases \in Seq(Tick) /\ sends \in Seq(Nat)

\* Open loop, and "capped at catchUpFactor times the target rate": no slot is
\* released before its place in the absolute schedule, and however far behind,
\* any k slots after a release take at least k gaps of half an interval.
RateCap ==
    /\ \A n \in DOMAIN releases : releases[n].at >= Scheduled(n - 1)
    /\ \A m, n \in DOMAIN releases :
          m < n => releases[n].at - releases[m].at >= (n - m) * minGap

\* scheduler.go:60, "errors do not accumulate", and :66, "a transient stall can
\* still be absorbed": the first release lags by no more than the delay before
\* it; each later one takes half an interval off the lag and adds no more than
\* the delay between.  With the spacing the README promises (SpacedByInterval)
\* nothing would ever come off.
BacklogDrains ==
    \A n \in DOMAIN releases :
        LET half   == Interval - Interval \div catchUpFactor
            before == IF n = 1 THEN 0 ELSE releases[n - 1].lag - half IN
        releases[n].lag <= (IF before < 0 THEN 0 ELSE before) + releases[n].late

\* The dispatch of requests is paced too, although one may wait for a worker
\* slot after its release was stamped: such a wait lets two requests out back to
\* back, never more.
SendBurst ==
    \A m, n \in DOMAIN sends :
        m < n => sends[n] - sends[m] >= (n - m - 1) * minGap

\* README.md:166, "No catch-up bursts": "When the client falls behind, releases
\* are still spaced at least one interval apart".
SpacedByInterval ==
    \A n \in DOMAIN releases :
        n > 1 /\ releases[n - 1].lag > 0 /\ releases[n].lag > 0
            => releases[n].at - releases[n - 1].at >= Interval

\* Run returns, and a run that was neither cancelled nor stopped released
\* every slot it was asked for.
RunReturns ==
    <>(/\ pc \in Ended
       /\ pc = "done" => Len(releases) = count /\ Len(sends) = count)
=============================================================================

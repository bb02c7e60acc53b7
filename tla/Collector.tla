------------------------------- MODULE Collector ------------------------------
(***************************************************************************)
(* metrics.Collector (internal/metrics/collector.go, histogram.go): what   *)
(* main and the workers of a run record concurrently, one atomic operation *)
(* at a time, and BuildSummary (internal/report/summary.go), which main    *)
(* calls after the drain while workers that outlived the grace period go   *)
(* on recording.  A worker with a response first claims a debug artifact   *)
(* (artifacts.go).                                                         *)
(*                                                                         *)
(* Of the four histograms of a StageStats, filled and read by the same     *)
(* code one after the other, the one of total latency stands for all.      *)
(***************************************************************************)
EXTENDS Histogram, Sequences, FiniteSets, FiniteSetsExt

CONSTANTS
    Stages,        \* the names of the stages, in order
    Plans,         \* sequences of attempts
    ArtifactLimit  \* the limit of the ArtifactStore

Outcomes == {"ok", "failed", "timeout"}
\* "overall" names the StageStats of the run, which no attempt has as its stage.
Attempts ==
    [stage : {Stages[k] : k \in DOMAIN Stages} \ {"overall"}, value : Int, outcome : Outcomes,
     sentAt : Int, doneAt : Int]

ASSUME CollectorAssumption ==
    ArtifactLimit \in Nat \ {0} /\ Stages \in Seq(STRING) /\ Plans \subseteq Seq(Attempts)

Main == 0
Names == Append(Stages, "overall")
MaxInt64 == MaxTrackable + 1   \* above any value a histogram holds
StatNames == {Names[k] : k \in DOMAIN Names}
Targets == <<50, 90, 99>>      \* percentiles, P95 left out

VARIABLES
    plan,            \* the attempts of the run, one for each worker
    pc, on,          \* where main and the workers are; which StageStats
    seen,            \* a value loaded: a minimum or maximum
    held,            \* the bucket second returned
    stats, hist,     \* by StageStats: its counters, its histogram
    seconds,         \* the series: pointers to buckets ...
    buckets,         \* ... and the buckets themselves
    written, files,  \* ArtifactStore: slots claimed, attempts stored
    next,            \* main: the attempt to send
    report, walk,    \* main: what it has read; the walk over the counts
    late             \* history: the workers that were live during the summary

vars == <<plan, pc, on, seen, held, stats, hist, seconds, buckets, written, files, next,
          report, walk, late>>

Workers == DOMAIN plan

NoErrors == [o \in Outcomes |-> 0]
NoReport == [sent |-> 0, completed |-> 0, success |-> 0, failure |-> 0, timeouts |-> 0,
             total |-> 0, min |-> 0, max |-> 0, sum |-> 0, percentiles |-> << >>,
             errors |-> NoErrors]

Goto(x, label) == pc' = [pc EXCEPT ![x] = label]

Init ==
    /\ plan \in Plans
    /\ pc = [x \in {Main} \cup DOMAIN plan |-> IF x = Main THEN "send" ELSE "idle"]
    /\ on = [x \in {Main} \cup DOMAIN plan |-> 1]
    /\ seen = [x \in DOMAIN plan |-> 0] /\ held = [x \in {Main} \cup DOMAIN plan |-> 0]
    /\ stats = [n \in StatNames |->
                  [sent |-> 0, completed |-> 0, success |-> 0, failure |-> 0, timeouts |-> 0,
                   errors |-> NoErrors]]
    /\ hist = [n \in StatNames |->
                  [counts |-> [i \in Indices |-> 0], total |-> 0, sum |-> 0, overflow |-> 0,
                   min |-> MaxInt64, max |-> 0]]
    /\ seconds = << >> /\ buckets = << >>
    /\ written = 0 /\ files = {} /\ next = 1
    /\ report = NoReport /\ walk = [idx |-> 0, cumulative |-> 0]
    /\ late = {}

-----------------------------------------------------------------------------
(* second: the bucket of a second, for main and the workers alike.         *)

\* The second an actor is about to record in, clamped at the start of the run.
SecondOf(x) ==
    LET at == IF x = Main THEN plan[next].sentAt ELSE plan[x].doneAt
    IN IF at < 0 THEN 0 ELSE at

\* Under the read lock: the bucket is there, or the series must grow.
FindSecond(x) ==
    /\ pc[x] = "second"
    /\ IF SecondOf(x) < Len(seconds)
       THEN held' = [held EXCEPT ![x] = seconds[SecondOf(x) + 1]] /\ Goto(x, "bucket")
       ELSE UNCHANGED held /\ Goto(x, "grow")
    /\ UNCHANGED <<plan, on, seen, stats, hist, seconds, buckets, written, files, next,
                   report, walk, late>>

NewBucket == [sent |-> 0, completed |-> 0, success |-> 0, failure |-> 0, timeouts |-> 0]

\* Variant: the length is not looked at again, one bucket is appended.
GrowUnchecked(x) ==
    /\ pc[x] = "grow"
    /\ seconds' = Append(seconds, Len(buckets) + 1)
    /\ buckets' = Append(buckets, NewBucket)
    /\ held' = [held EXCEPT ![x] = Len(buckets) + 1]
    /\ Goto(x, "bucket")
    /\ UNCHANGED <<plan, on, seen, stats, hist, written, files, next, report, walk, late>>

\* Under the exclusive lock: append until the second is there, if it is not by
\* now.
GrowSeries(x) ==
    /\ pc[x] = "grow"
    /\ LET missing == {k \in 1 .. SecondOf(x) + 1 : k > Len(seconds)}
           fresh == [k \in 1 .. Cardinality(missing) |-> Len(buckets) + k]
       IN /\ seconds' = seconds \o fresh
          /\ buckets' = buckets \o [k \in DOMAIN fresh |-> NewBucket]
          /\ held' = [held EXCEPT ![x] = (seconds \o fresh)[SecondOf(x) + 1]]
    /\ Goto(x, "bucket")
    /\ UNCHANGED <<plan, on, seen, stats, hist, written, files, next, report, walk, late>>

-----------------------------------------------------------------------------
(* Main sends.                                                             *)

\* RecordSent: the counters of stage and run are main's alone to write.
Send ==
    /\ pc[Main] = "send" /\ next \in Workers
    /\ stats' = [n \in DOMAIN stats |->
                    IF n \in {plan[next].stage, "overall"}
                    THEN [stats[n] EXCEPT !.sent = @ + 1] ELSE stats[n]]
    /\ Goto(Main, "second")
    /\ UNCHANGED <<plan, on, seen, held, hist, seconds, buckets, written, files, next,
                   report, walk, late>>

\* RecordSent counts the second, and the worker starts.  An attempt that ends
\* without a response stores nothing.
Start ==
    /\ pc[Main] = "bucket"
    /\ buckets' = [buckets EXCEPT ![held[Main]].sent = @ + 1]
    /\ pc' = [pc EXCEPT ![Main] = "send",
                         ![next] = IF plan[next].outcome = "timeout" THEN "completed"
                                   ELSE "artifact"]
    /\ next' = next + 1
    /\ UNCHANGED <<plan, on, seen, held, stats, hist, seconds, written, files, report, walk, late>>

-----------------------------------------------------------------------------
(* A worker files its attempt.                                             *)

\* Variant: the count is checked before the slot is claimed.
ClaimArtifactUnlocked(w) ==
    /\ pc[w] = "artifact"
    /\ files' = IF written < ArtifactLimit THEN files \cup {w} ELSE files
    /\ written' \in {written, written + 1}
    /\ Goto(w, "completed")
    /\ UNCHANGED <<plan, on, seen, held, stats, hist, seconds, buckets, next, report, walk, late>>

\* WriteAttempt claims a slot by adding, and stores the attempt if it is within
\* the limit.
ClaimArtifact(w) ==
    /\ pc[w] = "artifact"
    /\ written' = written + 1
    /\ files' = IF written + 1 > ArtifactLimit THEN files ELSE files \cup {w}
    /\ Goto(w, "completed")
    /\ UNCHANGED <<plan, on, seen, held, stats, hist, seconds, buckets, next, report, walk, late>>

\* The StageStats a worker is recording into: its stage, then the run.
Stat(w) == IF on[w] = 1 THEN plan[w].stage ELSE "overall"
Value(w) == Clamp(plan[w].value)
Succeeded(w) == plan[w].outcome = "ok"

\* One atomic operation on the StageStats; "again" is the loop's next round,
\* for the run, and after that the series.
StatStep(w, from, to, changed) ==
    /\ pc[w] = from
    /\ stats' = [stats EXCEPT ![Stat(w)] = changed]
    /\ Goto(w, IF to # "again" THEN to ELSE IF on[w] = 1 THEN "completed" ELSE "second")
    /\ on' = IF to = "again" THEN [on EXCEPT ![w] = 2] ELSE on
    /\ UNCHANGED <<plan, seen, held, hist, seconds, buckets, written, files, next,
                   report, walk, late>>

HistStep(w, from, to, changed) ==
    /\ pc[w] = from
    /\ hist' = [hist EXCEPT ![Stat(w)] = changed]
    /\ Goto(w, to)
    /\ UNCHANGED <<plan, on, seen, held, stats, seconds, buckets, written, files, next,
                   report, walk, late>>

AddCompleted(w) ==
    LET s == stats[Stat(w)] IN StatStep(w, "completed", "counts", [s EXCEPT !.completed = @ + 1])

\* Variant: the total is added before the bucket's count.
AddCountLate(w) ==
    LET h == hist[Stat(w)]
    IN \/ HistStep(w, "counts", "total", [h EXCEPT !.total = @ + 1])
       \/ HistStep(w, "total", "sum", [h EXCEPT !.counts[CountsIndex(Value(w))] = @ + 1])

\* Histogram.Record: a value beyond the range is clamped and counted as such;
\* the count of its bucket, then the total, then the sum.
AddCount(w) ==
    LET h == hist[Stat(w)]
        over == IF plan[w].value > MaxTrackable THEN 1 ELSE 0
    IN \/ HistStep(w, "counts", "total", [h EXCEPT !.counts[CountsIndex(Value(w))] = @ + 1,
                                                   !.overflow = @ + over])
       \/ HistStep(w, "total", "sum", [h EXCEPT !.total = @ + 1])

AddSum(w) ==
    LET h == hist[Stat(w)] IN HistStep(w, "sum", "min", [h EXCEPT !.sum = @ + Value(w)])

\* The minimum is loaded ...
LoadMin(w) ==
    /\ pc[w] = "min"
    /\ IF Value(w) >= hist[Stat(w)].min
       THEN Goto(w, "max") /\ UNCHANGED seen
       ELSE Goto(w, "swapMin") /\ seen' = [seen EXCEPT ![w] = hist[Stat(w)].min]
    /\ UNCHANGED <<plan, on, held, stats, hist, seconds, buckets, written, files, next,
                   report, walk, late>>

\* Variant: store instead of compare and swap.
StoreMin(w) ==
    LET h == hist[Stat(w)] IN HistStep(w, "swapMin", "max", [h EXCEPT !.min = Value(w)])

\* ... and swapped, or loaded again.
SwapMin(w) ==
    LET h == hist[Stat(w)]
    IN IF h.min = seen[w] THEN HistStep(w, "swapMin", "max", [h EXCEPT !.min = Value(w)])
       ELSE HistStep(w, "swapMin", "min", h)

LoadMax(w) ==
    /\ pc[w] = "max"
    /\ IF Value(w) <= hist[Stat(w)].max
       THEN Goto(w, "outcome") /\ UNCHANGED seen
       ELSE Goto(w, "swapMax") /\ seen' = [seen EXCEPT ![w] = hist[Stat(w)].max]
    /\ UNCHANGED <<plan, on, held, stats, hist, seconds, buckets, written, files, next,
                   report, walk, late>>

SwapMax(w) ==
    LET h == hist[Stat(w)]
    IN IF h.max = seen[w] THEN HistStep(w, "swapMax", "outcome", [h EXCEPT !.max = Value(w)])
       ELSE HistStep(w, "swapMax", "max", h)

\* recordOutcome, under the mutex of the StageStats.
RecordOutcome(w) ==
    LET s == stats[Stat(w)]
    IN StatStep(w, "outcome", "split", [s EXCEPT !.errors[plan[w].outcome] = @ + 1])

\* Success or Failure; a timeout has a counter more.
AddSplit(w) ==
    LET s == stats[Stat(w)]
    IN IF Succeeded(w) THEN StatStep(w, "split", "again", [s EXCEPT !.success = @ + 1])
       ELSE IF plan[w].outcome = "timeout"
            THEN StatStep(w, "split", "timeouts", [s EXCEPT !.failure = @ + 1])
       ELSE StatStep(w, "split", "again", [s EXCEPT !.failure = @ + 1])

AddTimeout(w) ==
    LET s == stats[Stat(w)] IN StatStep(w, "timeouts", "again", [s EXCEPT !.timeouts = @ + 1])

\* The counters of the second, in one step: the series that main copies after
\* the summary is not modelled, and no other reads them.
CountSecond(w) ==
    /\ pc[w] = "bucket"
    /\ LET b == buckets[held[w]]
           One(test) == IF test THEN 1 ELSE 0
       IN buckets' = [buckets EXCEPT ![held[w]] =
                         [b EXCEPT !.completed = @ + 1,
                                   !.success = @ + One(Succeeded(w)),
                                   !.failure = @ + One(~Succeeded(w)),
                                   !.timeouts = @ + One(plan[w].outcome = "timeout")]]
    /\ Goto(w, "done")
    /\ UNCHANGED <<plan, on, seen, held, stats, hist, seconds, written, files, next,
                   report, walk, late>>

File(w) ==
    \/ ClaimArtifact(w) \/ AddCompleted(w) \/ AddCount(w) \/ AddSum(w) \/ LoadMin(w)
    \/ SwapMin(w) \/ LoadMax(w) \/ SwapMax(w) \/ RecordOutcome(w) \/ AddSplit(w)
    \/ AddTimeout(w) \/ FindSecond(w) \/ GrowSeries(w) \/ CountSecond(w)

-----------------------------------------------------------------------------
(* Main builds the summary.                                                *)

Live == {w \in Workers : pc[w] # "done"}

\* The drain is over: every worker settled, or the grace period has elapsed.
Drain ==
    /\ pc[Main] = "send" /\ next \notin Workers
    /\ Goto(Main, "sent")
    /\ late' = Live
    /\ UNCHANGED <<plan, on, seen, held, stats, hist, seconds, buckets, written, files, next,
                   report, walk>>

Reading == IF on[Main] <= Len(Names) THEN Names[on[Main]] ELSE "overall"

\* stageSummary reads one field of the StageStats it is at.  What the counters,
\* the snapshot and the errors gave goes into the summary and is not looked at
\* again: each of the three begins with an empty report.
ReadField(field, to, value) ==
    /\ pc[Main] = field
    /\ report' = [(IF field \in {"sent", "total", "errors"} THEN NoReport ELSE report)
                     EXCEPT ![field] = value]
    /\ Goto(Main, to)
    /\ UNCHANGED <<plan, on, seen, held, stats, hist, seconds, buckets, written, files, next,
                   walk, late>>

\* The counters, one load each, what Snapshot reads before its walk, and, under
\* the mutex, the distribution of errors.
ReadCounters ==
    LET s == stats[Reading]
        h == hist[Reading]
    IN \/ ReadField("sent", "completed", s.sent)
       \/ ReadField("completed", "success", s.completed)
       \/ ReadField("success", "failure", s.success)
       \/ ReadField("failure", "timeouts", s.failure)
       \/ ReadField("timeouts", "total", s.timeouts)
       \/ ReadField("total", IF h.total = 0 THEN "errors" ELSE "min", h.total)
       \/ ReadField("min", "max", h.min)
       \/ ReadField("max", "sum", h.max)
       \/ ReadField("sum", "walk", h.sum)
       \/ ReadField("errors", "entry", s.errors)

\* One bucket of Snapshot's walk: every percentile the cumulated count has
\* reached is the highest value of this bucket.  The walk ends with the last
\* percentile; one left over at the end of the counts is given the maximum.
WalkCounts ==
    /\ pc[Main] = "walk"
    /\ LET c == hist[Reading].counts[walk.idx]
           cumulative == walk.cumulative + c
           found == report.percentiles
           reached == {k \in DOMAIN Targets :
                         k > Len(found) /\ c > 0 /\ cumulative * 100 >= Targets[k] * report.total}
           more == found \o [k \in 1 .. Cardinality(reached) |-> HighestEquivalent(walk.idx)]
       IN IF Len(more) < Len(Targets) /\ walk.idx + 1 \in Indices
          THEN /\ walk' = [idx |-> walk.idx + 1, cumulative |-> cumulative]
               /\ report' = [report EXCEPT !.percentiles = more] /\ UNCHANGED pc
          ELSE /\ walk' = [idx |-> 0, cumulative |-> 0]
               /\ report' = [report EXCEPT !.percentiles =
                                more \o [k \in 1 .. Len(Targets) - Len(more) |-> report.max]]
               /\ Goto(Main, "errors")
    /\ UNCHANGED <<plan, on, seen, held, stats, hist, seconds, buckets, written, files, next, late>>

\* The entry is in the summary; the next StageStats follows.
NextEntry ==
    /\ pc[Main] = "entry"
    /\ report' = NoReport
    /\ Goto(Main, IF on[Main] = Len(Names) THEN "done" ELSE "sent")
    /\ on' = [on EXCEPT ![Main] = @ + 1]
    /\ UNCHANGED <<plan, seen, held, stats, hist, seconds, buckets, written, files, next, walk, late>>

BuildSummary == ReadCounters \/ WalkCounts \/ NextEntry

Over == pc[Main] = "done" /\ Live = {}

Next ==
    \/ Send \/ FindSecond(Main) \/ GrowSeries(Main) \/ Start \/ Drain \/ BuildSummary
    \/ \E w \in Workers : File(w)
    \/ Over /\ UNCHANGED vars

Spec == Init /\ [][Next]_vars

-----------------------------------------------------------------------------
SendLabels == {"send", "second", "grow", "bucket"}
ReadLabels == {"sent", "completed", "success", "failure", "timeouts", "total", "min", "max",
               "sum", "walk", "errors", "entry"}
FileLabels == {"idle", "artifact", "completed", "counts", "total", "sum", "min", "swapMin",
               "max", "swapMax", "outcome", "split", "timeouts", "second", "grow", "bucket",
               "done"}

Errors == [Outcomes -> Nat]
StageStats ==
    [sent : Nat, completed : Nat, success : Nat, failure : Nat, timeouts : Nat, errors : Errors]
HistogramState ==
    [counts : [Indices -> Nat], total : Nat, sum : Nat, overflow : Nat, min : Nat, max : Nat]
Bucket == [sent : Nat, completed : Nat, success : Nat, failure : Nat, timeouts : Nat]
Report ==
    [sent : Nat, completed : Nat, success : Nat, failure : Nat, timeouts : Nat, total : Nat,
     min : Nat, max : Nat, sum : Nat, percentiles : Seq(Nat), errors : Errors]

\* The type invariant.
TypeOK ==
    /\ plan \in Plans /\ next \in 1 .. Len(plan) + 1
    /\ pc \in [{Main} \cup Workers -> SendLabels \cup ReadLabels \cup FileLabels]
    /\ pc[Main] \in SendLabels \cup ReadLabels \cup {"done"}
    /\ on \in [{Main} \cup Workers -> 1 .. Len(Names) + 1]
    /\ \A w \in Workers : pc[w] \in FileLabels /\ on[w] \in {1, 2}
    /\ seen \in [Workers -> Nat] /\ held \in [{Main} \cup Workers -> Nat]
    /\ stats \in [StatNames -> StageStats] /\ hist \in [StatNames -> HistogramState]
    /\ seconds \in Seq(Nat) /\ buckets \in Seq(Bucket)
    /\ written \in Nat /\ files \subseteq Workers
    /\ report \in Report /\ walk \in [idx : Indices, cumulative : Nat]
    /\ late \subseteq Workers

\* countsIndex, valueAt and highestEquivalent agree at every power of two, and
\* the relative precision is the one that follows from half the sub-buckets being
\* in use above the first bucket.  The layout never changes; it is examined where
\* the run begins.
BucketsTile == pc[Main] = "send" /\ next = 1 => Tiled

\* histogram.go:17, summary.go:25 and README.md:291, of the 2^11 sub-buckets of the
\* code: "every recorded value is stored in a bucket whose width is at most
\* 1/2048 of the value".
StatedPrecision == pc[Main] = "send" /\ next = 1 => Precise(2048)

\* The rank of the q-th percentile of n values.
Rank(q, n) == (q * n + 99) \div 100

\* The sum of the values of a set of workers, counted out.
Units(W) == Cardinality({u \in W \X (1 .. MaxTrackable) : u[2] <= Value(u[1])})

\* A summary built after every worker had settled is exact, however their
\* records interleaved: its sums agree, minimum, maximum and sum are those of the
\* attempts, and a percentile is the top of the bucket of the value at its rank,
\* so never below a value actually observed.
SettledSummaryExact ==
    late = {} =>
        LET W == {w \in Workers : Reading \in {plan[w].stage, "overall"}}
            Count(outcomes) == Cardinality({w \in W : plan[w].outcome \in outcomes})
            AtMost(v) == Cardinality({w \in W : Value(w) <= v})
            AtRank(n) == Min({Value(w) : w \in {u \in W : AtMost(Value(u)) >= n}})
        IN /\ pc[Main] = "total" =>
                /\ report.sent = Cardinality(W) /\ report.completed = report.sent
                /\ report.success = Count({"ok"}) /\ report.failure = Count({"failed", "timeout"})
                /\ report.timeouts = Count({"timeout"})
           /\ pc[Main] = "errors" /\ W # {} =>
                /\ report.total = Cardinality(W)
                /\ report.min = Min({Value(w) : w \in W})
                /\ report.max = Max({Value(w) : w \in W})
                /\ report.sum = Units(W)
                /\ \A k \in DOMAIN Targets :
                      LET v == AtRank(Rank(Targets[k], Cardinality(W)))
                      IN v <= report.percentiles[k]
                         /\ report.percentiles[k] = HighestEquivalent(CountsIndex(v))
           /\ pc[Main] = "entry" => \A o \in DOMAIN report.errors : report.errors[o] = Count({o})

\* A summary read over late workers is off by no more than their number: each
\* pair of counters that should agree differs by at most one for each of them.
\* And a bucket's count is added before the total, and the total read before the
\* counts, so the walk still finds every percentile: the guard that would report
\* the maximum, which may not be set yet, is never needed.
TornSummaryBounded ==
    /\ pc[Main] = "total" =>
          LET n == Cardinality(late)
          IN /\ report.completed \in report.sent - n .. report.sent
             /\ report.success + report.failure - report.completed \in -n .. n
             /\ report.timeouts <= report.failure + n
    /\ \A k \in DOMAIN report.percentiles :
          \E w \in Workers :
              report.percentiles[k] = HighestEquivalent(CountsIndex(Value(w)))

\* Two recorders that reach a new second together neither lose a bucket nor
\* shift the seconds after it: at the end each second holds its own attempts.
SeriesByTheSecond ==
    Over => \A k \in DOMAIN seconds :
                LET b == buckets[seconds[k]]
                    Here(at) == IF at < 0 THEN k = 1 ELSE at = k - 1
                    W == {w \in Workers : Here(plan[w].doneAt)}
                IN /\ b.sent = Cardinality({w \in Workers : Here(plan[w].sentAt)})
                   /\ b.completed = Cardinality(W)
                   /\ b.success = Cardinality({w \in W : Succeeded(w)})
                   /\ b.failure = b.completed - b.success
                   /\ b.timeouts = Cardinality({w \in W : plan[w].outcome = "timeout"})

\* However many workers finish at once, no more attempts are stored than the
\* limit allows, and as many as it allows.
ArtifactsWithinLimit ==
    /\ Cardinality(files) <= ArtifactLimit
    /\ Over => Cardinality(files) =
                  Min({ArtifactLimit, Cardinality({w \in Workers : plan[w].outcome # "timeout"})})
=============================================================================

# Verification of tsa-bench

tsa-bench is a load generator for RFC 3161 timestamp services. Every request it
sends to a live provider is paid for and cannot be taken back, so what has to be
right is the accounting: how many requests leave, at which pace, when issuing
stops, and that the record of what was sent can be believed. This directory
models that core in TLA+, with the gates before it, the exchange and verdict of an
attempt, and the measurements after it; checks it with TLC on small instances; and
proves with TLAPS, for every value of the constants, every safety property and
refinement that the runs check.

## The system and its components

| Component | State | Operations | Modelled in |
|---|---|---|---|
| quota (`internal/load/quota.go`) | `used`, `closed`, immutable budget and cap | `Acquire` (lock-free), `Close`, `Remaining` | `Quota` |
| circuit breaker (`breaker.go`) | ring of outcomes, running counts, `tripped` | `Record` under a mutex | `BreakerRing`, `Breaker` |
| scheduler (`scheduler.go`, `clock.go`) | loop index, last release | `Run`, `SleepUntil`, the emit callback | `Scheduler` |
| runner (`runner.go`) | worker pool, stop flag and reason, two contexts | `Run`, `dispatch`, `acquire`, `perform`, `stop`, `drain` | `Runner` |
| attempt (`runner.go`, `internal/transport/transport.go`) | one exchange, its deadline, the `wroteRequest` flag | build, draw, post, read, verify, classify, file | `Attempt` |
| response verifier (`internal/tsp`) and error classes (`internal/errclass`) | none | ordered acceptance checks, ESS binding, lenient genTime, `Classify` | `Verifier` |
| collector (`internal/metrics/collector.go`) | counters, histograms, per-second series | `RecordSent`, `Record`, `second` | `Collector`; its counters also in `Runner` |
| latency histogram (`histogram.go`) | counts, total, sum, minimum, maximum | `Record`, `Snapshot`, index and bounds | `Histogram`, `Collector` |
| summary (`internal/report/summary.go`) | none | `BuildSummary` | reads in `Collector`; limitations in `Gates` |
| debug artifacts (`artifacts.go`) | slots claimed | `WriteAttempt` | `Collector` |
| writer (`internal/report/writer.go`) | buffered `requests.csv`, row count, `closed` | `Write`, `Flush`, `Rows`, `Close`, `CountDataRows` | `Runner`, `RunCommand` |
| run command (`cmd/tsa-bench/run.go`, `main.go`) | the process | gates, run, results, integrity check, exit status | `Gates`, `RunCommand` |
| validate and doctor commands | the process | load, checks, pre-flight exchange | `Gates` |
| configuration, profile (`internal/config`, `profile.go`) | none after start-up | `Parse`, `Validate`, `Warnings`, `Budget`, `CheckAgainstQuota` | `Gates` |
| authenticator and digest (`internal/transport/auth.go`, `challenge.go`, `internal/config/digest.go`) | shared challenge and nonce count | `Prime`, `Authorize`, `RetryStale`, `PostTimestamp` | `DigestAuth` |
| mock responder (`internal/mock`) | current nonce, served count, sessions | `authorised`, `challenge`, `rotate` | server side of `DigestAuth` |

`PROJECT.json` lists every component, the remaining ones with the reason they are
left out.

How they interact: `runLoad` passes its gates (flags, configuration, profile,
roots, client, credentials, in that order), builds the parts and calls `Runner.Run` on the main
goroutine. In a rate stage `Scheduler.Run` calls `dispatch` back for each slot;
`dispatch` takes a place in the worker pool (a channel), a unit of the quota, and
starts a goroutine. That goroutine sends (through the authenticator, which all
workers share), verifies, files the attempt with the collector, the writer and
the breaker, and may stop the run. A signal cancels the issuing context at any
time; requests in flight live under a second context that is cancelled after the
drain. Workers that outlive the grace period keep running while the command
writes and checks its results.

What is hard: the quota is read and changed without a lock; the stop flag, the
closing of the quota and the reason are set in three steps seen by others; the
reason for ending is raced for by the breaker, the budget and the signal; late
workers run beside the integrity check; the scheduler must neither burst nor
fall behind for good; digest state is read under a lock and used outside it; one
deadline and one trace serve several exchanges; a response with several faults
must get the class of the first; the summary is read counter by counter while
late workers add to them; three commands repeat each other's checks in code of
their own, over files that may change between them.
`PROJECT.json` lists these hazards by line, with the properties that cover each.

## Modules

**Quota.** One action per atomic operation of `Acquire`: `CheckClosed`, `Load`,
`CompareAndSwap`; `Close` at any time. `grants` and `usedAtClose` are history.
**BudgetSpec** is what callers may rely on: a call is admitted, then granted the
next unit or refused, each in one step. `ImplementsBudget` is the refinement.

**BreakerRing** holds the breaker as functions on its struct, shared by
**Breaker** (the state machine with the history of outcomes) and `Runner`.
**BreakerSpec** is the decision stated on the whole history; `ImplementsHistory`
is the refinement. The float rate is a rational compared by
cross-multiplication.

**Scheduler.** Time is in ticks and conversions truncate as in the code. The
clock may move between any two reads: `TickAsleep` is time that passes in a
planned sleep, `TickDelayed` time that passes when the goroutine should be
running (descheduled, woken late, or blocked in `emit` on a full pool).

**Runner.** `pc`, `stage`, `slot`, `planned`, `truncated` are the main
goroutine; `phase[w]` is the goroutine that performs unit `w`. Time is abstract:
any slot, answer or grace period may come at any moment. Only main calls
`Acquire`, so its load and swap are one step, the check of `closed` before them
another. In a worker's `stop` the flag and the closing of the quota are separate
steps with `stopMu` held between them. An attempt's result is nondeterministic:
ok, failed, or cancelled once the drain has cancelled it. A pause between stages
is the step to the head of the stage loop, where a cancelled context is seen.
The branch that reports `StopError` after a stage cannot be reached: the
scheduler fails only for a rate of zero or less, which `Profile.Validate`
excludes.

**RunCommand** extends `Runner` with what `runLoad` does afterwards: flush,
`writer.Rows()`, the count on disk, `Close`, the exit status, each a step that
late workers interleave with. `disk` is what the file holds, `rows` what the
writer accepted. The process may be killed and a sync client may replace the
file at any time (both external). A buffer that fills is written out whole; the
real one may cut a row in two, which no property here depends on. Write errors
(a full disk) are not modelled.

**DigestAuth.** Workers copy the shared challenge and then take a count, as
`applyDigest` does; `RetryStale` stores the challenge it was sent. The server
checks, counts and rotates in separate steps. In per-request mode each attempt
draws its own challenge from a server with single-use nonces. A request or its
answer may be lost. Only these two pairings of client and server are modelled.

**Verifier** is the acceptance chain as operators on the facts the code inspects:
a response is a record of them (status, media type, how it parses, how nonce and
imprint echo, the two ESS attributes, signature, chain, key usages, the encoding
of genTime). `Checks` lists the checks in the order of `Verify` with the class
each failure gives, and `Sub` the sub-category (failInfo, status or HTTP code); an
error is the set of what `errors.As` and `errors.Is` find in it. The cryptography is external: signature and chain are facts.

**Attempt** opens up the attempt `Runner` takes as one result: build, draw a
challenge, dial, write, wait, read the body, verify, file, and the retry of a
stale challenge, with the deadline, the run's cancellation or a transport failure
at any of them. `posted` and `everPosted` are history, what the server may really
have seen; `wroteRequest` is the flag the code keeps. `ReadmeSteps`, `Bound` and
`Deciding` state the README's verification chain and use nothing of `Verifier`: an
ESS attribute decides by its presence, and one that cannot be read binds nobody.
`FirstFailureClassifies` and `DeviationsReported` are what holds of that chain and
of the warnings; `NoCheckSkipped`, `SignatureClassifiesFirst` and `LeniencyReported`
are what the documentation says beyond it, and do not hold (see below).

**Histogram** is the layout, index and bound functions, for any magnitude and
range. **Collector** takes every atomic operation of `RecordSent` and `Record` on
its own: the counters, the bucket, the total, the sum, the compare-and-swap loops
of minimum and maximum, the lookup of a second and its growth under the lock, the
artifact slot. `BuildSummary` reads them one at a time, also while late workers
record. One of the four histograms of a stage stands for all. The sum of recorded
values is stated as the number of units they count out (`Units`), so that it can be
reasoned about as a set.

**Gates** is a session of `validate`, `doctor` and `run` on a configuration, a
profile and certificate files that may be replaced at any moment. A setting is
abstracted to the values its checks tell apart; the planned counts keep the width
of int64 (scaled down), and a float too large for it becomes whatever the build
makes of it. The load itself is one step that spends part of the quota: `Runner`
and `RunCommand` are its detail.

Each module states its type invariant (`TypeOK`, `CommandTypeOK`), a theorem or part
of a proved invariant. The sum over a profile's
stages is the number of slots they plan (`PlannedSlots`, `Demand`), and the rows of a
file are counted the same way, so that both can be reasoned about; `Gates` wraps the
sum to int64 once, which is what wrapping every addition amounts to. Definitions introduced as variants are the code with one fault in it,
which the property named for it in `PROJECT.json` must detect.

## Runs

| Run | Bounds | What it shows |
|---|---|---|
| `quota` | 3 callers; budgets -1, 0, 2, 4; caps none, 1, 3 | exact numbering, budget and cap kept, honest `Remaining`, at most one late unit per goroutine after `Close`, refusals final, refinement of `BudgetSpec`, every `Acquire` returns |
| `breaker` | 8 outcomes; windows of 1 to 4 that wrap, rate and consecutive limits, disabled | the ring is the recent history and the running count its own (`RingIsRecentHistory`); decisions equal those on the history |
| `scheduler` | 3 or 4 slots, intervals of 5, 3 and 2 (both truncated) and 0 ticks, 5 ticks of delay | never early, and any k slots take k half intervals (`RateCap`); the backlog drains at that pace and lag is never more than the delay met (`BacklogDrains`); sends are at most one slot ahead of that pace; `Run` returns complete |
| `runner` | up to 3 requests over one or two stages that plan 2, 3 and 4, pool of 2, three breakers, budgets 0 and 3 | pool slots conserved, one row per unit, settled books after a full drain; the reported outcome is true (`OutcomeHonest`); at most one request after a stop or a signal (`OvershootBounded`); every run returns if attempts end, an interrupted rate-mode run even if none ever does |
| `command` | up to 3 requests, pool of 2 | exit 0 means complete; a file left alone ends with every accepted row; exit 4 is given for a file lost before the count, and to a run that drained for nothing else |
| `digest` | 3 attempts; nonce lifetimes for ever, 1, 2 | one timestamp per unit; HTTP traffic reconciles; per-request mode is never refused |
| `attempt` | one attempt in every mode; a perfect response and all that differ from it in at most two facts; skew limit 2 ticks | where the ESS attribute can be read, success exactly if every step of the chain passes, else the class of the first fault (of either, for signature and chain); a warning for grantedWithMods, a missing ESS attribute and zeros at the end of genTime, none that does not apply, and the skew; the breaker hears of all but our own cancellations; `request_timeout` only if nothing was sent; every attempt ends |
| `metrics` | 2 workers, 1 or 2 stages, 4 sub-buckets, range 0 to 7, one artifact | index and bounds agree at every power of two, and a bucket is at most its values over half the sub-buckets wide; a settled summary is exact; a torn one is off by at most the number of late workers and still finds its percentiles; seconds and artifacts are right however recorders race |
| `gates` | some 350 inputs, 16 command lines, sessions of 2 commands, one file replaced at any moment; int64 as -16 to 15, hard cap up to 6 | nothing is spent that was not authorised, and a run stopped at a gate leaves nothing; a run that starts fits; `run` agrees with `validate` and `doctor`; what the report should disclose was warned of |
| `digest_count`, `scheduler_spacing`, `attempt_timeout` | as `digest`, `scheduler`, `attempt` | expected violations, see below |

Why the bounds suffice: three contenders give a winner, a loser and one that
arrives late; three requests on a pool of two give a full pool, a waiting
dispatcher and a stage that begins while the previous one drains; breaker
windows of up to four go round twice in eight outcomes; delays of a whole
interval or more make a backlog of several slots; two faults in one response let
any two checks compete for the class; two recorders race for one minimum, one
bucket, one second and one artifact slot, and four sub-buckets already give
buckets of one and of two values on both sides of a power of two; two commands
and one edit are what a statement about one command after another needs, and the
small int64 puts the wrap within reach of the hard caps. `breaker` stops at its bound
on outcomes, so deadlock is not checked there; elsewhere a finished system
stutters explicitly and deadlock is checked.

Fairness. `Quota`: a goroutine inside the loop keeps running; nothing is assumed
of calls starting. `Scheduler`: its goroutine runs, time passes during a sleep,
and `emit` returns, since each pool slot is freed when a request ends or times
out. `Runner`: main and workers are scheduled (`HangSpec`). That an attempt ends
is a hypothesis of `RunReturns` alone, justified by `request.timeout`;
`SignalReturns` does without it. `Attempt`: the client's own steps and its
deadline; nothing is asked of network or server, so `AttemptEnds` is also what
justifies that hypothesis. Weak fairness is enough throughout: no action
waits on a condition that others keep switching off and on.

## Disagreements between the code and what is said of it

Shown by a run:

- `digest_count`: the nonce count is not unique per nonce, against digest.go:44.
- `attempt_timeout`: the flag that tells the two timeouts apart is set by any
  request of the attempt and by a failed write, so a timeout in the dial of the
  timestamp request, after a drawn or stale challenge, is filed
  `response_timeout`, against errclass.go:121 and runbook.md:109.
- `scheduler_spacing`: a backlog is released half an interval apart, against
  README.md:166, which says one interval. scheduler.go:28-36 argues for the code:
  at one interval lag would never be made up (`BacklogDrains`).

Stated in `RunCommand` and refuted by TLC when added to `MCRunCommand.cfg`:

- `LossNoticed`: the record is counted before the writer is closed, so a file
  replaced at the close, as README.md:263 describes, is not noticed although
  README.md:271 says it cannot pass unnoticed.
- `ExitFourMeansIncomplete`: a worker that outlived the drain and writes its row
  between the flush and the count makes the command exit 4; the close then
  completes the file.
- `InterruptExits130`: genuine failures during the drain after a signal trip the
  breaker, and the command exits 3 where README.md:109 says 130.
- `KilledLeavesRecord`: rows wait in a 256 KB buffer; a killed run loses them,
  against the comment at writer.go:37.

Stated in `Attempt` and refuted by TLC when added to `MCAttempt.cfg`:

- `NoCheckSkipped`: an ESS attribute that is present but cannot be unmarshalled (an
  empty SET, say) counts as absent (ess.go:65); V1 decides in its place, or the token
  is accepted as one without the attribute. README.md:309 wants a present attribute
  to bind the signer; README.md:315-316 and verify.go:84 exclude a skipped check.
- `SignatureClassifiesFirst`: signature (README's step 7) and chain (step 8) are one
  library call; a response that fails both is filed under the one the library
  reports, against "the first failure classifies the attempt" (README.md:300). The
  model leaves the library either order; digitorus/pkcs7 builds the chain before it
  checks the signature value.
- `LeniencyReported`: a genTime with a comma, with more than nine digits or with
  `+0000` is accepted without the warning verify.go:119-122 promises.

Stated in `Collector` and refuted by TLC when added to `MCCollector.cfg` with
`Magnitude = 11` and `MaxTrackable = 2100`, the 2048 sub-buckets of the code:

- `StatedPrecision`: above the first bucket half the sub-buckets are in use, so the
  relative precision is 1/1024, not the 1/2048 of histogram.go:17,
  internal/report/summary.go:25 and README.md:292. `BucketsTile` is the bound that
  holds.

Met while modelling:

- Issuing. quota.go:16 says no unit is issued after the budget closes
  (`LateIssuesBounded` is what holds); a late `SetChallenge` can put an older nonce
  back over a newer one.
- Reports. collector.go:23 defines the lag as start minus schedule (it is taken
  at the release, before the wait for a worker); runbook.md:116 reads a
  `quota_guard` row as a budget reached (a breaker abort that closes the quota
  under main writes one too); README.md:270 says rows are counted against the
  quota consumed (they are counted against the writer's own count). In a summary
  torn by late workers the mean may exceed the maximum and the minimum may still be
  its initial value.
- Gates. `CheckAgainstQuota` adds in int64: sums that wrap let a profile through
  that does not fit (`StartedFits` has the premise `Exact`); the quota still
  bounds what is spent. config.go:316 says a profile `validate` accepts cannot be
  rejected by `run`: it is when `--max-requests` is below what it plans. "Validation
  is total" (config.go:8) does not cover a CA file without a certificate in it, or
  an OID whose arcs overflow or cannot be encoded. The limitation "verified
  against the system root store" is printed for a configuration with `ca_file`
  and no `tsa_ca_file`, whose responses are verified against `ca_file`
  (internal/config/auth.go:137); "endpoint is plaintext" for an https endpoint with
  `allow_plaintext`. `doctor` exits 1 when interrupted.
- Verification. An answer other than 401 to a drawn challenge is filed
  `unknown_error`.

## Proofs

Each component has a module of proofs next to it (`RunCommandProofs` serves `Runner`
and `RunCommand`, `CollectorProofs` serves `Histogram` and `Collector`). Its theorems hold for every value
of the constants that satisfies the named assumption of the component's module, which
says no more than what the Go types and the checks before it guarantee. Each module
proves one inductive invariant, with a case per action, and derives the properties
from it; the invariants were first checked by TLC on the instances of the runs.

| Module | Assumed of the constants | Proved |
|---|---|---|
| `QuotaProofs` | finitely many callers; integer budgets and caps | `TypeOK`, `NoDoubleIssue`, `WithinCap`, `RemainingHonest`, `LateIssuesBounded`, `RefusalIsFinal`, refinement of `BudgetSpec` |
| `BreakerProofs` | integer limits, a rate with a positive denominator | `TypeOK`, `RingIsRecentHistory`, refinement of `BreakerSpec` |
| `SchedulerProofs` | positive rates, any counts, delays and clock resolution | `TypeOK`, `RateCap`, `BacklogDrains`, `SendBurst` |
| `RunCommandProofs`, on `Runner` | stages that plan something (`Profile.Validate`), budgets up to `MaxUnits`, which is any, a pool of at least one | `TypeOK`, `SlotsConserved`, `OneRowPerUnit`, `OvershootBounded`, `OutcomeHonest`, `DrainedMeansSettled` |
| `RunCommandProofs`, on `RunCommand` | the same | `CommandTypeOK`, `RecordSurvivesExit`, `ExitFourHonest`, `SuccessIsComplete` |
| `DigestAuthProofs` | finitely many attempts, any nonce lifetimes | `TypeOK`, `OneTokenPerUnit`, `TrafficReconciles`, `PerRequestNeverRefused` |
| `AttemptProofs` | responses are records of `ResponseFacts`; a positive skew limit | `TypeOK`, `FirstFailureClassifies`, `DeviationsReported`, `BlameIsOurs`, `RequestTimeoutMeansUnsent` |
| `GatesProofs` | inputs and command lines of their types; caps that fit int64 | `TypeOK`, `SpendAuthorised`, `NothingUndisclosed`, `StartedFits`, `CommandsAgree` |
| `CollectorProofs` | any magnitude; a range beyond the sub-buckets and no power of two (an hour in nanoseconds is none); attempts of their types; a positive artifact limit | `TypeOK`, `BucketsTile`, `SettledSummaryExact`, `TornSummaryBounded`, `SeriesByTheSecond`, `ArtifactsWithinLimit` |

None of the properties is inductive alone. What each invariant adds, and why:

**Quota.** `Clamped` (the clamp of `NewQuota`, without which the budget test and the
cap test of the loop do not amount to one limit), `SwapBelowLimit` (a caller about to
swap holds a value below the limit; with a successful swap `used = cur`, so the new
value is within it) and `CloseStamped`. `LateIssuesBounded` counts: after a close,
units issued since plus callers still past the check never grow, because a caller
leaves the loop with at most one unit and none enters. `StepRefines` maps each action
to a step of `BudgetSpec` or a stutter.

**Breaker.** `RingMatches` reads ring and history backwards together, with the one
wrap of the index (`Back`, `Forward`); `Filling` says where a ring that is not full
stands; `TrailingRun` is what the consecutive counter counts. A full ring then has
as many failures as the last `window` outcomes because going back is a bijection
from the ring's slots to them, and the switch on the counters is the decision of
`BreakerSpec` on the history.

**Scheduler.** `DeadlineKept` carries the deadline from where it is computed to where
the slot is released; `AheadByDelay` says that the clock is ahead of what `Run`
waits for by no more than the delay since the last release, which bounds a lag by
the delay and the lag before it. The truncation of `Scheduled` and of half the
interval is where an off-by-one could sit: `DivSuperadditive` and `LagArithmetic`.

**Runner.** `Accounted` ties the quota used to the plan: what earlier stages planned
plus the slots issued in this one, and a stage cut short is the last. `WorkersStarted`
gives each unit used a worker, `Ledger` counts the collector's figures against the
workers' phases, `GuardOnce` and `Stops` say what is left once a run is stopped.
Slots are counted by the set of pooled workers, which each step changes by one
element at most. **RunCommand** keeps this invariant, since `Run`'s steps are its own,
and adds `CommandOrder`, `RowsSettled`, `FileKept` and `Verified`: the file against
the rows accepted at each stage of the exit.

**DigestAuth.** One conjunct per attempt: `SendsCounted` (one send, and one more after
a retry), `TokenFollows` (a timestamp comes with its answer) and `OwnChallenge` (a
challenge drawn for one attempt is in no one else's hands until it is spent).
`TrafficReconciles` is kept by counting the two sets it compares.

**Attempt.** First facts about `Verify`, for every response: `WalkFindsSigner` (the ESS
walk that stops early finds the signer exactly if `Bound` says so; the first entry
exists because a set of naturals has a least element), `StepsAreChecks` (the README's
ten steps are the code's checks, the binding where the attribute that decides can be
read), `VerdictIsFirst` under that premise, and `VerdictReports`, which needs none: an
unreadable attribute fails the README's step before any warning is asked for. Then the
invariant: `Progress` (what is known at each step), `Judged` (a verdict is that of
the response it was given), `Blamed`, and `FlagCovers` (what was really sent is at
most what `wroteRequest` says, the direction `RequestTimeoutMeansUnsent` needs; the
other is the expected violation `attempt_timeout`).

**Gates.** `ValidateOrder`, `DoctorOrder` and `RunOrder` say what a command has passed
where it stands or where it stopped, as facts of the files now unless one was
replaced under it; `Verdicts` says the same of what earlier commands concluded, and
an edit withdraws both. `CommandsAgree` is the two put together. `StartedFits` adds
that the demand is finite (`DemandCounts`) and that a sum within int64 is not changed
by the wrap (`WrapExact`).

**Histogram.** No prover here knows the powers of two, or can do an induction on an
exponent. `PowerNext` (2^(n+1) = 2 * 2^n) and `PowerSum` come from counting instead:
2^n is the number of subsets of 1 .. n. `BitLength` and `CountsReach` then justify the
two `CHOOSE`s by least elements, `Located` puts a value between the bounds of its
index, and `Follows` sets the next bucket beside it (`TiledEverywhere`). `CountsReach`
is where the range must not be a power of two: at one, the largest value would lie
past the array. The assumption says so with an exponent `k` that has the range strictly
between 2^k and 2^(k+1), and `RangeNoPower` draws the conclusion for every exponent. `IndexMono`, that a larger value has no smaller index, is what makes
percentiles of buckets percentiles of values.

**Collector.** `StepOf` numbers the atomic steps of `Record`, and `Done(n, k)` is the
set of workers past step `k` of a `StageStats`. A step of a worker changes one of
these sets by that worker (`Moves`), and every counter is the cardinality of one of
them (`Counted`, `Recorded`): two counters differ by who stands between their steps.
`Extremes` bounds the values of those past the loops and says what a worker about to
swap has compared. On main's side, `Read` says that a number read is the number of
those past the step, but for late workers: with `ReadSoFar` this bounds a torn
summary, and with nobody late makes it exact (`ReadSettled`). `Walked` is the
invariant of the walk over the counts, which replaces an induction over the array:
the records not visited yet make up for what the cumulated count lacks to the total
read before, because a record is counted in its bucket before it is counted in the
total. So the walk cannot end with a percentile missing. `AtTheRank` then identifies
the bucket it stops at with that of the value at the rank. `Series` has a pointer for
each second, in order, with the bucket a worker holds among them, and `Claims` gives
each claimed slot a worker.

Only model-checked: the liveness properties (`AcquireReturns`, the two `RunReturns`,
`SignalReturns`, `AttemptEnds`; fairness and `ENABLED` are beyond the prover) and the
three expected violations.

## Not modelled

Encodings (ASN.1, HTTP headers, digest hashes) and cryptography: their outcomes
are facts of a response or an error. Redaction, the comparison and HTML report,
the printed dumps and banners: formatting of finished values. The rates, shares
and bottleneck verdict of the summary, and the copy the time series is written
from: floating-point arithmetic on, or a copy of, counters `Collector` covers. The
resource sampler and the connection counters: values no decision depends on.
Write errors (a full disk). The faults the mock responder injects, and `report`
and `mock` themselves. That nonces are fresh is a property of the system's random
source.

## Plan

1. Done: `Quota` with proofs, `BreakerRing`/`Breaker`, `Scheduler`, `Runner`,
   `RunCommand`, `DigestAuth`, `Verifier`/`Attempt`, `Histogram`/`Collector`,
   `Gates`.
2. Done: proofs of every safety property and refinement the runs check.
3. Left: liveness, should a prover for fairness be available; the outcomes of a full
   disk in `RunCommand`; the time series and rates of the report, once a property
   depends on them.

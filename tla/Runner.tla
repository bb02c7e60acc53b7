-------------------------------- MODULE Runner --------------------------------
(***************************************************************************)
(* load.Runner (internal/load/runner.go): a run of a profile against one   *)
(* provider.  The main goroutine walks the stages, and releases each slot  *)
(* through the worker pool (rate mode) or performs it itself (sequential   *)
(* mode); one goroutine per pooled request performs it and files the       *)
(* outcome; a signal cancels the issuing at any moment.                    *)
(*                                                                         *)
(* Time is abstracted: a scheduled slot is released, a request answered, a *)
(* pause over and a grace period elapsed after any delay.  A worker is     *)
(* named by the sequence number Acquire gave it.  Only main calls Acquire, *)
(* so its swap cannot be lost and is one step with the load; the check of  *)
(* `closed` before it is a step of its own (module Quota has them all).    *)
(***************************************************************************)
EXTENDS Integers, Sequences, FiniteSets

Br == INSTANCE BreakerRing

CONSTANTS
    Profiles,        \* sequences of stages [mode, planned]
    Budgets,         \* budgets of the quota, clamped already
    MaxUnits,        \* the largest of them
    Limits,          \* arguments of NewBreaker
    MaxConcurrency   \* capacity of the worker pool

Units == 1 .. MaxUnits

ASSUME RunnerAssumption ==
    /\ Profiles \subseteq Seq([mode : {"sequential", "rate"}, planned : Nat \ {0}])
    /\ MaxUnits \in Nat /\ Budgets \subseteq 0 .. MaxUnits
    /\ MaxConcurrency \in Nat \ {0}

VARIABLES
    profile, budget,       \* what the run was configured with
    pc, stage, slot,       \* main: where it is, in which stage, slots issued
    planned, truncated,    \* main: locals of the stage loop
    sem,                   \* worker slots taken
    used, closed,          \* the quota
    stopped, reason,       \* stop: the flag and the first reason
    cancelled,             \* ctx, cancelled by a signal
    reqCancelled,          \* reqCtx, cancelled after the drain
    phase, result,         \* workers: where each is in perform, and its attempt
    breaker,               \* the circuit breaker
    stats,                 \* the collector's overall counters
    rows, sinkClosed,      \* the sink: rows accepted per sequence, 0 the guard's
    outcome,               \* what Run returns
    usedAtStop, usedAtSignal, \* history: used at the first stop, at the signal
    interrupted            \* history: the signal found the run going

config == <<profile, budget>>
main == <<pc, stage, slot, planned, truncated>>
quota == <<used, closed>>
stopping == <<stopped, reason, usedAtStop>>
signal == <<cancelled, usedAtSignal, interrupted>>
workers == <<phase, result>>
sink == <<rows, sinkClosed>>
runnerVars == <<config, main, sem, quota, stopping, signal, reqCancelled,
                workers, breaker, stats, sink, outcome>>

-----------------------------------------------------------------------------
Goto(label) == pc' = label /\ UNCHANGED <<stage, slot, planned, truncated>>

Remaining == budget - used

\* A goroutine between the CompareAndSwap and the Close of stop holds stopMu.
StopMuFree == \A w \in Units : phase[w] # "closing"

\* Variant: the last reason wins.
StopOverwriting(why) ==
    /\ StopMuFree
    /\ stopped' = TRUE
    /\ reason' = why
    /\ usedAtStop' = IF stopped THEN usedAtStop ELSE used
    /\ closed' = TRUE

\* Runner.stop, as main calls it: the first reason is kept, the quota closed.
Stop(why) ==
    /\ StopMuFree
    /\ stopped' = TRUE
    /\ reason' = IF stopped THEN reason ELSE why
    /\ usedAtStop' = IF stopped THEN usedAtStop ELSE used
    /\ closed' = TRUE

\* Writer.Write: a closed writer accepts the call and drops the row.
WriteRow(seq) ==
    /\ rows' = IF sinkClosed THEN rows ELSE [rows EXCEPT ![seq] = @ + 1]
    /\ UNCHANGED sinkClosed

\* recordQuotaGuard: a row, kept out of the collector.
RecordQuotaGuard == WriteRow(0)

\* Collector.RecordSent, Record and RecordSaturation, on the overall counters.
RecordSent(s) == [s EXCEPT !.sent = @ + 1]

Record(s, ok) ==
    [s EXCEPT !.completed = @ + 1,
              !.success = IF ok THEN @ + 1 ELSE @,
              !.failure = IF ok THEN @ ELSE @ + 1]

RecordSaturation(s, behind) == [s EXCEPT !.saturated = @ \/ behind]

Stage == profile[stage]
Rate == Stage.mode = "rate"

InitRunner ==
    /\ profile \in Profiles /\ budget \in Budgets
    /\ pc = "prime" /\ stage = 1 /\ slot = 0 /\ planned = 0 /\ truncated = FALSE
    /\ sem = 0
    /\ used = 0 /\ closed = FALSE
    /\ stopped = FALSE /\ reason = "none" /\ usedAtStop = -1
    /\ cancelled = FALSE /\ usedAtSignal = -1 /\ interrupted = FALSE
    /\ reqCancelled = FALSE
    /\ phase = [w \in Units |-> "none"] /\ result = [w \in Units |-> "none"]
    /\ \E l \in Limits : breaker = Br!NewBreaker(l)
    /\ stats = [sent |-> 0, completed |-> 0, success |-> 0, failure |-> 0, saturated |-> FALSE]
    /\ rows = [s \in 0 .. MaxUnits |-> 0] /\ sinkClosed = FALSE
    /\ outcome = [reason |-> "none", partial |-> FALSE, quotaUsed |-> 0, drained |-> FALSE]

-----------------------------------------------------------------------------
(* The main goroutine.                                                     *)

\* primeAuth draws the first challenge, or the run ends before any quota is
\* at stake.
Prime ==
    /\ pc = "prime"
    /\ \/ Goto("stage") /\ UNCHANGED outcome
       \/ /\ Goto("returned")
          /\ outcome' = [outcome EXCEPT !.reason = "error", !.partial = TRUE]
    /\ UNCHANGED <<config, sem, quota, stopping, signal, reqCancelled, workers,
                   breaker, stats, sink>>

\* The head of the stage loop, when it is left.
LeaveStages ==
    /\ pc = "stage"
    /\ stage > Len(profile) \/ stopped \/ cancelled
    /\ Goto("drain")
    /\ UNCHANGED <<config, sem, quota, stopping, signal, reqCancelled, workers,
                   breaker, stats, sink, outcome>>

\* No budget is left before a stage.
OutOfQuota ==
    /\ pc = "stage" /\ stage <= Len(profile) /\ ~stopped /\ ~cancelled
    /\ Remaining <= 0
    /\ Stop("quota_exhausted") /\ UNCHANGED used
    /\ Goto("drain")
    /\ UNCHANGED <<config, sem, signal, reqCancelled, workers, breaker, stats, sink, outcome>>

\* A stage is planned within the remaining budget and started.
StartStage ==
    /\ pc = "stage" /\ stage <= Len(profile) /\ ~stopped /\ ~cancelled
    /\ Remaining > 0
    /\ planned' = IF Stage.planned > Remaining THEN Remaining ELSE Stage.planned
    /\ truncated' = (Stage.planned > Remaining)
    /\ slot' = 0 /\ pc' = "slot" /\ UNCHANGED stage
    /\ UNCHANGED <<config, sem, quota, stopping, signal, reqCancelled, workers,
                   breaker, stats, sink, outcome>>

\* The stage's loop is over: every slot issued, ctx cancelled, or, where the
\* sequential loop checks it, the run stopped.
EndStage ==
    /\ pc = "slot"
    /\ slot = planned \/ cancelled \/ (~Rate /\ stopped)
    /\ Goto("stageEnd")
    /\ UNCHANGED <<config, sem, quota, stopping, signal, reqCancelled, workers,
                   breaker, stats, sink, outcome>>

\* The scheduler releases a slot, which calls dispatch; the sequential loop
\* goes straight to acquire.
NextSlot ==
    /\ pc = "slot" /\ slot < planned /\ ~cancelled
    /\ IF Rate THEN Goto("dispatch") ELSE ~stopped /\ Goto("acquire")
    /\ UNCHANGED <<config, sem, quota, stopping, signal, reqCancelled, workers,
                   breaker, stats, sink, outcome>>

\* A worker slot is taken; the slot may prove to lag beyond the threshold.
TakeSlot ==
    /\ sem < MaxConcurrency /\ sem' = sem + 1
    /\ \E lagging \in BOOLEAN : stats' = RecordSaturation(stats, lagging)
    /\ Goto("acquire")

\* dispatch is entered: give up when stopped or cancelled, else take a worker
\* slot, or find none, say so, and wait for one.
Dispatch ==
    /\ pc = "dispatch"
    /\ IF stopped \/ cancelled
       THEN Goto("stageEnd") /\ UNCHANGED <<sem, stats>>
       ELSE \/ TakeSlot
            \/ /\ sem = MaxConcurrency /\ stats' = RecordSaturation(stats, TRUE)
               /\ Goto("semWait") /\ UNCHANGED sem
    /\ UNCHANGED <<config, quota, stopping, signal, reqCancelled, workers, breaker,
                   sink, outcome>>

\* Variant: a wait that a cancelled ctx does not end.
SemWaitDeaf ==
    /\ pc = "semWait"
    /\ TakeSlot
    /\ UNCHANGED <<config, quota, stopping, signal, reqCancelled, workers, breaker,
                   sink, outcome>>

\* The select on the semaphore and ctx.Done: either ready case may be chosen.
SemWait ==
    /\ pc = "semWait"
    /\ \/ TakeSlot
       \/ cancelled /\ Goto("stageEnd") /\ UNCHANGED <<sem, stats>>
    /\ UNCHANGED <<config, quota, stopping, signal, reqCancelled, workers, breaker,
                   sink, outcome>>

\* Acquire's check of closed, when it passes.
AcquireOpen ==
    /\ pc = "acquire" /\ ~closed
    /\ Goto("take")
    /\ UNCHANGED <<config, sem, quota, stopping, signal, reqCancelled, workers,
                   breaker, stats, sink, outcome>>

\* Variant: the worker slot is kept when acquire fails.
AcquireRefusedLeaking ==
    /\ \/ pc = "acquire" /\ closed
       \/ pc = "take" /\ Remaining <= 0
    /\ Stop("quota_exhausted") /\ UNCHANGED used
    /\ RecordQuotaGuard
    /\ Goto("stageEnd")
    /\ UNCHANGED <<config, sem, signal, reqCancelled, workers, breaker, stats, outcome>>

\* acquire is refused, for either reason: the run stops, a quota_guard row is
\* written, the worker slot given back.
AcquireRefused ==
    /\ \/ pc = "acquire" /\ closed
       \/ pc = "take" /\ Remaining <= 0
    /\ Stop("quota_exhausted") /\ UNCHANGED used
    /\ RecordQuotaGuard
    /\ sem' = IF Rate THEN sem - 1 ELSE sem
    /\ Goto("stageEnd")
    /\ UNCHANGED <<config, signal, reqCancelled, workers, breaker, stats, outcome>>

\* A unit is taken, counted as sent, and handed to a worker or performed here.
AcquireUnit ==
    /\ pc = "take" /\ Remaining > 0
    /\ used' = used + 1 /\ UNCHANGED closed
    /\ stats' = RecordSent(stats)
    /\ phase' = [phase EXCEPT ![used + 1] = "inFlight"] /\ UNCHANGED result
    /\ slot' = slot + 1
    /\ pc' = IF Rate THEN "slot" ELSE "perform"
    /\ UNCHANGED <<config, stage, planned, truncated, sem, stopping, signal,
                   reqCancelled, breaker, sink, outcome>>

\* After a stage: a truncated one is about to be reported as quota-limited,
\* the run goes on to the next stage after the pause, or the loop is left.
StageEnd ==
    /\ pc = "stageEnd"
    /\ IF truncated /\ ~stopped THEN Goto("truncate")
       ELSE IF stopped \/ cancelled THEN Goto("drain")
       ELSE /\ stage' = stage + 1 /\ pc' = "stage"
            /\ UNCHANGED <<slot, planned, truncated>>
    /\ UNCHANGED <<config, sem, quota, stopping, signal, reqCancelled, workers,
                   breaker, stats, sink, outcome>>

\* The stop of a truncated stage, and its quota_guard row.
ReportTruncation ==
    /\ pc = "truncate"
    /\ Stop("quota_exhausted") /\ UNCHANGED used
    /\ RecordQuotaGuard
    /\ Goto("drain")
    /\ UNCHANGED <<config, sem, signal, reqCancelled, workers, breaker, stats, outcome>>

\* Variant: the drain does not wait.
DrainAtOnce ==
    /\ pc = "drain"
    /\ reqCancelled' = TRUE
    /\ outcome' = [outcome EXCEPT !.quotaUsed = used, !.drained = TRUE]
    /\ Goto("return")
    /\ UNCHANGED <<config, sem, quota, stopping, signal, workers, breaker, stats, sink>>

\* drain: every worker is done, or the grace period is over; either way what
\* is left in flight is cancelled.
Drain ==
    /\ pc = "drain"
    /\ \E drained \in BOOLEAN :
          /\ drained => \A w \in Units : phase[w] \in {"none", "done"}
          /\ outcome' = [outcome EXCEPT !.quotaUsed = used, !.drained = drained]
    /\ reqCancelled' = TRUE
    /\ Goto("return")
    /\ UNCHANGED <<config, sem, quota, stopping, signal, workers, breaker, stats, sink>>

\* The outcome: the first stop reason, else the signal, else completion.
Return ==
    /\ pc = "return" /\ StopMuFree
    /\ LET why == IF stopped THEN reason ELSE IF cancelled THEN "signal" ELSE "completed"
       IN  outcome' = [outcome EXCEPT !.reason = why,
                                      !.partial = why # "completed" \/ ~outcome.drained]
    /\ Goto("returned")
    /\ UNCHANGED <<config, sem, quota, stopping, signal, reqCancelled, workers,
                   breaker, stats, sink>>

-----------------------------------------------------------------------------
(* A worker: perform, and the deferred release of its slot.                *)

Move(w, from, to) == phase[w] = from /\ phase' = [phase EXCEPT ![w] = to]

\* attempt returns and Collector.Record files it.  An attempt we cancelled
\* ourselves is one that was still in flight after cancelRequests.
Complete(w) ==
    /\ Move(w, "inFlight", "write")
    /\ \E r \in {"ok", "failed"} \cup (IF reqCancelled THEN {"cancelled"} ELSE {}) :
          /\ result' = [result EXCEPT ![w] = r]
          /\ stats' = Record(stats, r = "ok")
    /\ UNCHANGED <<config, main, sem, quota, stopping, signal, reqCancelled, breaker,
                   sink, outcome>>

\* Variant: the row of a failed attempt is skipped.
WriteSinkSuccesses(w) ==
    /\ Move(w, "write", "judge") /\ UNCHANGED result
    /\ IF result[w] = "ok" THEN WriteRow(w) ELSE UNCHANGED sink
    /\ UNCHANGED <<config, main, sem, quota, stopping, signal, reqCancelled, breaker,
                   stats, outcome>>

WriteSink(w) ==
    /\ Move(w, "write", "judge") /\ UNCHANGED result
    /\ WriteRow(w)
    /\ UNCHANGED <<config, main, sem, quota, stopping, signal, reqCancelled, breaker,
                   stats, outcome>>

\* The breaker is told, unless the failure is our own cancellation.
Judge(w) ==
    /\ breaker' = IF result[w] = "cancelled" THEN breaker
                  ELSE Br!Record(breaker, result[w] = "failed")
    /\ Move(w, "judge", IF result[w] # "cancelled" /\ breaker'.tripped
                        THEN "stop" ELSE "exit")
    /\ UNCHANGED <<config, main, sem, quota, stopping, signal, reqCancelled, result,
                   stats, sink, outcome>>

\* Variant: the reason is recorded, the flag is not set.
StopRunUnflagged(w) ==
    /\ Move(w, "stop", "exit")
    /\ reason' = "auto_abort"
    /\ usedAtStop' = IF usedAtStop = -1 THEN used ELSE usedAtStop
    /\ UNCHANGED <<config, main, sem, quota, stopped, signal, reqCancelled, result,
                   breaker, stats, sink, outcome>>

\* stop(StopBreaker), up to the Close: stopMu is held until CloseQuota.
StopRun(w) ==
    /\ StopMuFree
    /\ Move(w, "stop", IF stopped THEN "exit" ELSE "closing")
    /\ stopped' = TRUE
    /\ reason' = IF stopped THEN reason ELSE "auto_abort"
    /\ usedAtStop' = IF stopped THEN usedAtStop ELSE used
    /\ UNCHANGED <<config, main, sem, quota, signal, reqCancelled, result, breaker,
                   stats, sink, outcome>>

CloseQuota(w) ==
    /\ Move(w, "closing", "exit") /\ UNCHANGED result
    /\ closed' = TRUE
    /\ UNCHANGED <<config, main, sem, used, stopping, signal, reqCancelled, breaker,
                   stats, sink, outcome>>

\* Variant: the slot of a pooled worker is never freed.
ExitKeepsSlot(w) ==
    /\ Move(w, "exit", "done") /\ UNCHANGED <<result, sem>>
    /\ IF pc = "perform" /\ w = used THEN Goto("slot") ELSE UNCHANGED main
    /\ UNCHANGED <<config, quota, stopping, signal, reqCancelled, breaker, stats,
                   sink, outcome>>

\* perform is over: a pooled worker frees its slot and is Done, the sequential
\* loop goes on.
Exit(w) ==
    /\ Move(w, "exit", "done") /\ UNCHANGED result
    /\ IF pc = "perform" /\ w = used
       THEN Goto("slot") /\ UNCHANGED sem
       ELSE sem' = sem - 1 /\ UNCHANGED main
    /\ UNCHANGED <<config, quota, stopping, signal, reqCancelled, breaker, stats,
                   sink, outcome>>

\* SIGINT or SIGTERM: issuing is cancelled, requests in flight are not.
Signal ==
    /\ ~cancelled
    /\ cancelled' = TRUE
    /\ usedAtSignal' = used
    /\ interrupted' = (~stopped /\ pc \notin {"prime", "returned"})
    /\ UNCHANGED <<config, main, sem, quota, stopping, reqCancelled, workers, breaker,
                   stats, sink, outcome>>

-----------------------------------------------------------------------------
Main ==
    \/ Prime \/ LeaveStages \/ OutOfQuota \/ StartStage \/ EndStage \/ NextSlot
    \/ Dispatch \/ SemWait \/ AcquireOpen \/ AcquireRefused \/ AcquireUnit
    \/ StageEnd \/ ReportTruncation \/ Drain \/ Return

\* A worker's steps once its attempt is over.
File(w) == WriteSink(w) \/ Judge(w) \/ StopRun(w) \/ CloseQuota(w) \/ Exit(w)

Worker(w) == Complete(w) \/ File(w)

RunnerNext == Main \/ Signal \/ \E w \in Units : Worker(w)

\* The run has returned and the last goroutine is gone.
Over == pc = "returned" /\ \A w \in Units : phase[w] \in {"none", "done"}

Rest == Over /\ UNCHANGED runnerVars

Next == RunnerNext \/ Rest

Spec == InitRunner /\ [][Next]_runnerVars

\* Goroutines are scheduled; nothing is said of when a request is answered.
HangSpec ==
    /\ Spec /\ WF_runnerVars(Main)
    /\ \A w \in Units : WF_runnerVars(File(w))

\* Every attempt ends: request.timeout bounds the send.
AttemptsEnd == \A w \in Units : WF_runnerVars(Complete(w))

-----------------------------------------------------------------------------
TypeOK ==
    /\ profile \in Profiles /\ budget \in Budgets
    /\ pc \in {"prime", "stage", "slot", "dispatch", "semWait", "acquire", "take", "perform",
               "stageEnd", "truncate", "drain", "return", "returned"}
    /\ stage \in 1 .. Len(profile) + 1 /\ slot \in 0 .. planned /\ planned \in 0 .. budget
    /\ truncated \in BOOLEAN /\ closed \in BOOLEAN /\ stopped \in BOOLEAN
    /\ cancelled \in BOOLEAN /\ reqCancelled \in BOOLEAN /\ sinkClosed \in BOOLEAN
    /\ sem \in 0 .. MaxConcurrency /\ used \in 0 .. budget
    /\ reason \in {"none", "quota_exhausted", "auto_abort"}
    /\ phase \in [Units -> {"none", "inFlight", "write", "judge", "stop", "closing", "exit", "done"}]
    /\ result \in [Units -> {"none", "ok", "failed", "cancelled"}]
    /\ stats \in [sent : 0 .. MaxUnits, completed : 0 .. MaxUnits, success : 0 .. MaxUnits,
                  failure : 0 .. MaxUnits, saturated : BOOLEAN]
    /\ rows \in [0 .. MaxUnits -> Nat]
    /\ usedAtStop \in -1 .. used /\ usedAtSignal \in -1 .. used /\ interrupted \in BOOLEAN

\* The slots of the first n stages, <<stage, slot>>.
PlannedSlots(n) == UNION {{k} \X (1 .. profile[k].planned) : k \in 1 .. n}

TotalPlanned == Cardinality(PlannedSlots(Len(profile)))

\* Worker w runs in the pool: main is not performing it itself.
Pooled(w) == phase[w] \notin {"none", "done"} /\ ~(pc = "perform" /\ w = used)

\* The pool neither leaks nor over-commits: the slots taken are those of the
\* pooled workers still running, and the one main holds between taking it and
\* starting a worker, whatever path acquire, dispatch and stop take.
SlotsConserved ==
    sem = Cardinality({w \in Units : Pooled(w)})
          + (IF pc \in {"acquire", "take"} /\ Rate THEN 1 ELSE 0)

\* A unit of quota has exactly one row once its attempt is filed, none before,
\* and the run marks the end of its budget at most once.
OneRowPerUnit ==
    /\ rows[0] <= 1
    /\ ~sinkClosed => \A w \in Units :
          rows[w] = IF phase[w] \in {"none", "inFlight", "write"} THEN 0 ELSE 1

\* When the drain was complete the books balance: every unit of quota was sent,
\* completed, counted as a success or a failure, and has its row.
DrainedMeansSettled ==
    pc = "returned" /\ outcome.drained =>
        /\ outcome.quotaUsed = used /\ stats.sent = used
        /\ stats.completed = used /\ stats.success + stats.failure = used
        /\ ~sinkClosed => \A w \in 1 .. used : rows[w] = 1

\* What Run returns is the truth, whichever of the signal, the breaker, a
\* refused acquire and the drain comes first.  "Calling such a run completed
\* would misrepresent a partial measurement": one reported as completed and not
\* partial sent and finished all it planned; one a signal found going is
\* partial; and quota is the reason only if the profile did not fit it.
OutcomeHonest ==
    /\ pc = "returned" /\ outcome.reason = "completed" /\ ~outcome.partial =>
          /\ used = TotalPlanned
          /\ \A w \in 1 .. used : phase[w] = "done"
    /\ interrupted /\ pc = "returned" => outcome.partial
    /\ reason = "quota_exhausted" => TotalPlanned > budget

\* "The tool stops issuing immediately": once the run is stopped, or a signal
\* has arrived, at most one more request is sent, the one main had already
\* carried past its checks.
OvershootBounded ==
    /\ usedAtStop # -1 => used - usedAtStop <= 1
    /\ usedAtSignal # -1 => used - usedAtSignal <= 1

\* Every run returns if its attempts end: no stage, wait for a worker slot,
\* stop or drain hangs.
RunReturns == AttemptsEnd => <>(pc = "returned")

\* An interrupted rate-mode run returns even if no request in flight is ever
\* answered: the wait for a slot ends with ctx, the drain with the grace period.
SignalReturns ==
    (cancelled /\ \A k \in DOMAIN profile : profile[k].mode = "rate")
        ~> (pc = "returned")
=============================================================================

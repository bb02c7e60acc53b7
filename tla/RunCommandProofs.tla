-------------------------- MODULE RunCommandProofs --------------------------
(***************************************************************************)
(* load.Runner for every profile, budget, pool and breaker: no worker slot *)
(* is leaked, every unit of quota has one row, the overshoot of a stop is  *)
(* one request, and what Run returns is the truth.  Then the run command   *)
(* around it, for every profile that fits the budget: what exit statuses 0 *)
(* and 4 mean, and that the record survives a normal exit whichever        *)
(* workers outlive the drain.                                              *)
(***************************************************************************)
EXTENDS RunCommand, FiniteSetTheorems, TLAPS

Phases == {"none", "inFlight", "write", "judge", "stop", "closing", "exit", "done"}

PlannedThrough(n) == Cardinality(PlannedSlots(n))

InStage == {"slot", "dispatch", "semWait", "acquire", "take", "perform", "stageEnd", "truncate"}

\* Main's place in the stage: what it has established on the way to each line.
Control ==
    /\ pc \in InStage => stage <= Len(profile)
    /\ pc \in {"dispatch", "semWait"} => Rate
    /\ pc = "perform" => ~Rate
    /\ pc \in {"dispatch", "semWait", "acquire", "take"} => slot < planned
    /\ pc = "truncate" => truncated

\* The quota used is what the stages before this one planned and what this one
\* has issued: a stage that was cut short is the last.
Accounted ==
    /\ pc \in {"prime", "stage"} => used = PlannedThrough(stage - 1)
    /\ pc \in InStage =>
          /\ used = PlannedThrough(stage - 1) + slot
          /\ planned <= budget - PlannedThrough(stage - 1)
          /\ IF truncated THEN Stage.planned > budget - PlannedThrough(stage - 1)
                          ELSE planned = Stage.planned
    /\ pc = "stageEnd" /\ ~stopped /\ ~cancelled => slot = planned
    /\ pc \in {"drain", "return"} /\ ~stopped /\ ~cancelled => used = TotalPlanned

\* A unit taken has a worker, and one the breaker made stop the run did.
WorkersStarted ==
    \A w \in Units : /\ phase[w] = "none" <=> w > used
                     /\ phase[w] = "closing" => stopped

\* The requests whose attempt is over.
Answered == {w \in Units : phase[w] \notin {"none", "inFlight"}}

\* The collector counts each request once on its way out and once on its way in.
Ledger ==
    /\ stats.sent = used
    /\ stats.completed = Cardinality(Answered)
    /\ stats.success + stats.failure = stats.completed

\* The row that marks the end of the budget is written on the way out only.
GuardOnce ==
    /\ pc \notin {"stageEnd", "drain", "return", "returned"} => rows[0] = 0
    /\ rows[0] # 0 => stopped

\* A stop and a signal are remembered, and no slot is begun after either.
Stops ==
    /\ closed => stopped
    /\ stopped <=> usedAtStop # -1
    /\ stopped => reason # "none"
    /\ cancelled <=> usedAtSignal # -1
    /\ interrupted => cancelled
    /\ stopped /\ pc \in {"semWait", "acquire", "take"} => used = usedAtStop
    /\ cancelled /\ pc \in {"semWait", "acquire", "take"} => used = usedAtSignal
    /\ cancelled /\ pc = "dispatch" => used = usedAtSignal

\* What Run returns, from the drain on.
Returned ==
    /\ outcome \in [reason : {"none", "error", "signal", "completed", "quota_exhausted", "auto_abort"},
                    partial : BOOLEAN, quotaUsed : Nat, drained : BOOLEAN]
    /\ outcome.drained => /\ pc \in {"return", "returned"}
                          /\ outcome.quotaUsed = used
                          /\ \A w \in Units : phase[w] \in {"none", "done"}
    /\ pc = "returned" => outcome.reason # "none"
    /\ pc = "returned" /\ outcome.reason = "completed" =>
          used = TotalPlanned /\ rows[0] = 0 /\ (~outcome.partial => outcome.drained)
    /\ outcome.reason = "quota_exhausted" => TotalPlanned > budget

\* The inductive strengthening of the invariants of Runner.
RunnerInv ==
    /\ TypeOK /\ Control /\ Accounted /\ WorkersStarted /\ Ledger
    /\ GuardOnce /\ Stops /\ Returned
    /\ SlotsConserved /\ OneRowPerUnit /\ OutcomeHonest /\ OvershootBounded
-----------------------------------------------------------------------------
\* A stage of the profile has a mode and plans at least one slot.
LEMMA StageFacts ==
    ASSUME profile \in Profiles
    PROVE  /\ Len(profile) \in Nat
           /\ \A k \in 1 .. Len(profile) : profile[k].planned \in Nat \ {0}
<1> DEFINE S == [mode : {"sequential", "rate"}, planned : Nat \ {0}]
<1>1. profile \in Seq(S)
  BY RunnerAssumption
<1> HIDE DEF S
<1>2. \A k \in 1 .. Len(profile) : profile[k] \in S
  BY <1>1
<1>3. Len(profile) \in Nat
  BY <1>1
<1>4. QED
  BY <1>2, <1>3 DEF S

\* The slots 1 .. p are p.
LEMMA UpTo ==
    ASSUME NEW p \in Nat
    PROVE  IsFiniteSet(1 .. p) /\ Cardinality(1 .. p) = p
  BY FS_Interval

\* The first n stages plan finitely many slots.
LEMMA SlotsFinite ==
    ASSUME profile \in Profiles, NEW n \in 0 .. Len(profile)
    PROVE  IsFiniteSet(PlannedSlots(n))
<1> DEFINE slots(k) == {k} \X (1 .. profile[k].planned)
           all == {slots(k) : k \in 1 .. n}
           f == [k \in 1 .. n |-> slots(k)]
<1>1. n \in Nat /\ \A k \in 1 .. n : profile[k].planned \in Nat
  BY StageFacts
<1>2. IsFiniteSet(1 .. n)
  BY <1>1, FS_Interval
<1>3. \A k \in 1 .. n : IsFiniteSet(slots(k))
  <2> TAKE k \in 1 .. n
  <2>1. IsFiniteSet({k}) /\ IsFiniteSet(1 .. profile[k].planned)
    BY <1>1, UpTo, FS_Singleton
  <2>2. QED
    BY <2>1, FS_Product
<1>4. f \in Surjection(1 .. n, all)
  BY DEF Surjection
<1>5. IsFiniteSet(all)
  BY <1>2, <1>4, FS_Surjection
<1>6. \A T \in all : IsFiniteSet(T)
  BY <1>3
<1>7. QED
  BY <1>5, <1>6, FS_UNION DEF PlannedSlots

\* What the stages plan adds up.
LEMMA PlanFacts ==
    ASSUME profile \in Profiles
    PROVE  /\ PlannedThrough(0) = 0
           /\ \A n \in 0 .. Len(profile) : PlannedThrough(n) \in Nat
           /\ \A n \in 1 .. Len(profile) :
                 /\ PlannedThrough(n) = PlannedThrough(n - 1) + profile[n].planned
                 /\ PlannedThrough(n) <= TotalPlanned
           /\ TotalPlanned = PlannedThrough(Len(profile)) /\ TotalPlanned \in Nat
<1>0. Len(profile) \in Nat
  BY StageFacts
<1>1. PlannedThrough(0) = 0
  <2>1. PlannedSlots(0) = {}
    BY DEF PlannedSlots
  <2>2. QED
    BY <2>1, FS_EmptySet DEF PlannedThrough
<1>2. \A n \in 0 .. Len(profile) : PlannedThrough(n) \in Nat
  BY SlotsFinite, FS_CardinalityType DEF PlannedThrough
<1>3. ASSUME NEW n \in 1 .. Len(profile)
      PROVE  PlannedThrough(n) = PlannedThrough(n - 1) + profile[n].planned
  <2> DEFINE before == PlannedSlots(n - 1)
             new == {n} \X (1 .. profile[n].planned)
  <2>1. n - 1 \in 0 .. Len(profile) /\ n \in 0 .. Len(profile) /\ profile[n].planned \in Nat
    BY <1>0, StageFacts
  <2>2. IsFiniteSet(before)
    BY <2>1, SlotsFinite
  <2>3. IsFiniteSet(new) /\ Cardinality(new) = profile[n].planned
    <3>1. /\ IsFiniteSet({n}) /\ Cardinality({n}) = 1
      BY FS_Singleton
    <3>2. /\ IsFiniteSet(1 .. profile[n].planned)
          /\ Cardinality(1 .. profile[n].planned) = profile[n].planned
      BY <2>1, UpTo
    <3>3. IsFiniteSet(new) /\ Cardinality(new) = 1 * profile[n].planned
      BY <3>1, <3>2, FS_Product
    <3>4. QED
      BY <3>3, <2>1
  <2>4. PlannedSlots(n) = before \cup new
    <3>1. 1 .. n = (1 .. n - 1) \cup {n}
      BY <2>1
    <3>2. QED
      BY <3>1 DEF PlannedSlots
  <2>5. before \cap new = {}
    BY <2>1 DEF PlannedSlots
  <2>6. Cardinality(before \cap new) = 0
    BY <2>5, FS_EmptySet
  <2> HIDE DEF before, new
  <2>7. Cardinality(before \cup new) = Cardinality(before) + Cardinality(new) - Cardinality(before \cap new)
    BY <2>2, <2>3, FS_Union
  <2>8. Cardinality(before) \in Nat
    BY <2>2, FS_CardinalityType
  <2>9. QED
    BY <2>1, <2>3, <2>4, <2>6, <2>7, <2>8 DEF PlannedThrough, before
<1>4. ASSUME NEW n \in 1 .. Len(profile) PROVE PlannedThrough(n) <= TotalPlanned
  <2>1. Len(profile) \in 0 .. Len(profile)
    BY <1>0
  <2>2. IsFiniteSet(PlannedSlots(Len(profile)))
    BY <2>1, SlotsFinite
  <2>3. PlannedSlots(n) \subseteq PlannedSlots(Len(profile))
    BY <1>0 DEF PlannedSlots
  <2>4. QED
    BY <2>2, <2>3, FS_Subset DEF PlannedThrough, TotalPlanned
<1>5. QED
  BY <1>0, <1>1, <1>2, <1>3, <1>4 DEF TotalPlanned, PlannedThrough
-----------------------------------------------------------------------------
USE DEF config, main, quota, stopping, signal, workers, sink, Goto, Move

\* Main leaves the workers alone, but for the one it starts.
LEMMA MainFrame ==
    ASSUME Main
    PROVE  /\ UNCHANGED <<profile, budget, cancelled, usedAtSignal, interrupted, breaker,
                          result, sinkClosed>>
           /\ ~AcquireUnit => UNCHANGED <<phase, used>>
  BY DEF Main, Prime, LeaveStages, OutOfQuota, StartStage, EndStage, NextSlot, Dispatch, TakeSlot,
         SemWait, AcquireOpen, AcquireRefused, AcquireUnit, StageEnd, ReportTruncation, Drain,
         Return, RecordQuotaGuard, WriteRow

\* Main's stops: the first reason and the use at that time are kept.
LEMMA MainStops ==
    ASSUME Main
    PROVE  \/ UNCHANGED <<stopped, reason, usedAtStop, closed, rows>>
           \/ /\ OutOfQuota \/ AcquireRefused \/ ReportTruncation
              /\ stopped' = TRUE /\ closed' = TRUE
              /\ stopped => UNCHANGED <<reason, usedAtStop>>
              /\ ~stopped => reason' = "quota_exhausted" /\ usedAtStop' = used
              /\ OutOfQuota => UNCHANGED rows
<1>1. CASE OutOfQuota \/ AcquireRefused \/ ReportTruncation
  <2>1. Stop("quota_exhausted") /\ (OutOfQuota => UNCHANGED rows)
    BY <1>1 DEF OutOfQuota, AcquireRefused, ReportTruncation
  <2>2. /\ stopped' = TRUE /\ closed' = TRUE
        /\ stopped => UNCHANGED <<reason, usedAtStop>>
        /\ ~stopped => reason' = "quota_exhausted" /\ usedAtStop' = used
    BY <2>1 DEF Stop
  <2>3. QED
    BY <1>1, <2>1, <2>2
<1>2. CASE ~(OutOfQuota \/ AcquireRefused \/ ReportTruncation)
  BY <1>2 DEF Main, Prime, LeaveStages, StartStage, EndStage, NextSlot, Dispatch, SemWait,
         AcquireOpen, AcquireUnit, StageEnd, Drain, Return
<1>3. QED
  BY <1>1, <1>2

\* A worker moves itself alone, one step down perform; it may free main from
\* performing it, and may be the first to stop the run.
LEMMA WorkerFrame ==
    ASSUME NEW w \in Units, Worker(w), phase \in [Units -> Phases]
    PROVE  /\ UNCHANGED <<profile, budget, stage, slot, planned, truncated, used, cancelled,
                          reqCancelled, usedAtSignal, interrupted, outcome, sinkClosed>>
           /\ pc' = pc \/ (pc = "perform" /\ pc' = "slot")
           /\ stopped => stopped' = TRUE /\ UNCHANGED <<reason, usedAtStop>>
           /\ ~stopped => \/ UNCHANGED <<stopped, reason, usedAtStop>>
                          \/ stopped' = TRUE /\ reason' = "auto_abort" /\ usedAtStop' = used
           /\ closed' = closed \/ (phase[w] = "closing" /\ closed' = TRUE /\ stopped' = stopped)
           /\ phase[w] \notin {"none", "done"}
           /\ phase' = [phase EXCEPT ![w] = phase'[w]]
           /\ phase'[w] \in {"write", "judge", "stop", "closing", "exit", "done"}
           /\ phase'[w] = "closing" => stopped'
           /\ phase'[w] = "done" <=> Exit(w)
           /\ phase'[w] = "write" <=> Complete(w)
           /\ phase'[w] = "judge" <=> WriteSink(w)
           /\ ~Exit(w) => UNCHANGED <<pc, sem>>
           /\ ~Complete(w) => UNCHANGED <<stats, result>>
           /\ ~WriteSink(w) => UNCHANGED rows
  BY DEF Worker, File, Complete, WriteSink, Judge, StopRun, CloseQuota, Exit, WriteRow

\* The values the proofs of the steps use, out of TypeOK and the assumptions.
LEMMA Types ==
    ASSUME TypeOK
    PROVE  /\ phase \in [Units -> Phases]
           /\ MaxUnits \in Nat /\ budget \in Nat /\ budget <= MaxUnits
           /\ used \in Nat /\ used <= budget /\ sem \in Nat
           /\ Len(profile) \in Nat /\ stage \in Nat /\ stage >= 1 /\ stage <= Len(profile) + 1
           /\ planned \in Nat /\ slot \in Nat /\ slot <= planned /\ planned <= budget
           /\ profile \in Profiles
<1>1. MaxUnits \in Nat /\ budget \in Nat /\ budget <= MaxUnits
  BY RunnerAssumption DEF TypeOK
<1>2. Len(profile) \in Nat
  BY StageFacts DEF TypeOK
<1>3. phase \in [Units -> Phases]
  BY DEF TypeOK, Phases
<1>4. QED
  BY <1>1, <1>2, <1>3, RunnerAssumption DEF TypeOK

\* The plan does not change.
LEMMA PlanKept ==
    ASSUME UNCHANGED profile
    PROVE  /\ \A n : PlannedThrough(n)' = PlannedThrough(n)
           /\ TotalPlanned' = TotalPlanned
  BY DEF PlannedThrough, TotalPlanned, PlannedSlots

\* Main's steps, and those that let it go on, keep its place in the stage.
LEMMA ControlStep ==
    ASSUME RunnerInv, RunnerNext
    PROVE  Control'
<1>0. /\ stage \in Nat /\ Len(profile) \in Nat /\ planned \in Nat /\ slot \in Nat
      /\ slot <= planned /\ phase \in [Units -> Phases]
  BY Types DEF RunnerInv
<1>1. CASE Main
  BY <1>0, <1>1 DEF RunnerInv, Control, InStage, Rate, Stage, Main, Prime, LeaveStages, OutOfQuota,
         StartStage, EndStage, NextSlot, Dispatch, TakeSlot, SemWait, AcquireOpen, AcquireRefused,
         AcquireUnit, StageEnd, ReportTruncation, Drain, Return
<1>2. CASE Signal
  BY <1>2 DEF RunnerInv, Control, Rate, Stage, Signal
<1>3. ASSUME NEW w \in Units, Worker(w) PROVE Control'
  BY <1>0, <1>3, WorkerFrame DEF RunnerInv, Control, InStage, Rate, Stage
<1>4. QED
  BY <1>1, <1>2, <1>3 DEF RunnerNext

\* The use of the quota stays accounted for.
LEMMA AccountedStep ==
    ASSUME RunnerInv, RunnerNext
    PROVE  Accounted'
<1>0. /\ stage \in Nat /\ stage >= 1 /\ stage <= Len(profile) + 1 /\ Len(profile) \in Nat
      /\ planned \in Nat /\ slot \in Nat /\ slot <= planned /\ phase \in [Units -> Phases]
      /\ used \in Nat /\ budget \in Nat /\ profile \in Profiles
  BY Types DEF RunnerInv
<1>1. CASE Main
  <2>1. /\ \A n : PlannedThrough(n)' = PlannedThrough(n)
        /\ TotalPlanned' = TotalPlanned /\ UNCHANGED <<budget, profile, cancelled>>
    BY <1>1, MainFrame, PlanKept
  <2>2. /\ PlannedThrough(stage - 1) \in Nat
        /\ TotalPlanned = PlannedThrough(Len(profile))
        /\ stage <= Len(profile) =>
              /\ PlannedThrough(stage) = PlannedThrough(stage - 1) + Stage.planned
              /\ Stage.planned \in Nat
    <3>1. stage - 1 \in 0 .. Len(profile) /\ (stage <= Len(profile) => stage \in 1 .. Len(profile))
      BY <1>0
    <3>2. QED
      BY <1>0, <3>1, PlanFacts, StageFacts DEF Stage
  <2>3. CASE StageEnd
    <3>1. ~stopped /\ ~cancelled /\ ~truncated => used = PlannedThrough(stage) /\ stage <= Len(profile)
      BY <1>0, <2>2, <2>3 DEF RunnerInv, Accounted, Control, InStage, StageEnd
    <3>2. QED
      BY <1>0, <2>1, <2>3, <3>1, (stage + 1) - 1 = stage
      DEF RunnerInv, Accounted, InStage, Stage, StageEnd
  <2>4. CASE StartStage
    <3>1. /\ stage <= Len(profile) /\ used = PlannedThrough(stage - 1)
          /\ pc' = "slot" /\ slot' = 0 /\ UNCHANGED <<stage, used>>
          /\ planned' = IF Stage.planned > budget - used THEN budget - used ELSE Stage.planned
          /\ truncated' <=> Stage.planned > budget - used
          /\ Stage' = Stage /\ Stage.planned \in Nat
      BY <2>1, <2>2, <2>4 DEF RunnerInv, Accounted, Remaining, StartStage, Stage
    <3>2. /\ used = PlannedThrough(stage - 1) + 0
          /\ planned' <= budget - PlannedThrough(stage - 1)
          /\ IF truncated' THEN Stage.planned > budget - PlannedThrough(stage - 1)
                           ELSE planned' = Stage.planned
      <4>1. CASE Stage.planned > budget - used
        BY <1>0, <3>1, <4>1
      <4>2. CASE ~(Stage.planned > budget - used)
        BY <1>0, <3>1, <4>2
      <4>3. QED
        BY <4>1, <4>2
    <3>3. QED
      BY <2>1, <3>1, <3>2 DEF Accounted
  <2>5. CASE AcquireUnit
    BY <1>0, <2>1, <2>2, <2>5 DEF RunnerInv, Accounted, InStage, Stage, AcquireUnit
  <2>6. CASE ~(StageEnd \/ StartStage \/ AcquireUnit)
    <3>1. /\ UNCHANGED <<stage, slot, planned, truncated, used>>
          /\ \/ pc \in InStage /\ pc' \in InStage
             \/ pc = "prime" /\ pc' = "stage"
             \/ pc' \in {"drain", "return", "returned"}
      BY <1>1, <2>6 DEF InStage, Main, Prime, LeaveStages, OutOfQuota, EndStage, NextSlot, Dispatch,
           TakeSlot, SemWait, AcquireOpen, AcquireRefused, ReportTruncation, Drain, Return
    <3>2. pc' = "stageEnd" /\ ~stopped' /\ ~cancelled => slot = planned
      BY <1>1, <2>6 DEF Main, Prime, LeaveStages, OutOfQuota, EndStage, NextSlot, Dispatch,
           TakeSlot, SemWait, AcquireOpen, AcquireRefused, ReportTruncation, Drain, Return, Stop
    <3>3. pc' \in {"drain", "return"} /\ ~stopped' /\ ~cancelled => used = TotalPlanned
      <4>1. CASE LeaveStages
        <5>1. ~stopped /\ ~cancelled => stage = Len(profile) + 1 /\ used = PlannedThrough(stage - 1)
          BY <1>0, <4>1 DEF LeaveStages, RunnerInv, Accounted
        <5>2. QED
          BY <1>0, <2>2, <4>1, <5>1, (Len(profile) + 1) - 1 = Len(profile) DEF LeaveStages
      <4>2. CASE ~LeaveStages
        BY <1>1, <2>6, <4>2 DEF RunnerInv, Accounted, Main, Prime, OutOfQuota, EndStage, NextSlot,
             Dispatch, TakeSlot, SemWait, AcquireOpen, AcquireRefused, ReportTruncation, Drain,
             Return, Stop
      <4>3. QED
        BY <4>1, <4>2
    <3>4. Stage' = Stage
      BY <2>1, <3>1 DEF Stage
    <3>5. QED
      BY <2>1, <3>1, <3>2, <3>3, <3>4 DEF RunnerInv, Accounted, InStage
  <2>7. QED
    BY <2>3, <2>4, <2>5, <2>6
<1>2. CASE Signal
  <2>1. UNCHANGED profile
    BY <1>2 DEF Signal
  <2>2. QED
    BY <1>2, <2>1, PlanKept DEF RunnerInv, Accounted, Stage, Signal
<1>3. ASSUME NEW w \in Units, Worker(w) PROVE Accounted'
  <2>1. UNCHANGED profile
    BY <1>0, <1>3, WorkerFrame
  <2>2. /\ UNCHANGED <<stage, slot, planned, truncated, used, cancelled, budget>>
        /\ pc' = pc \/ (pc = "perform" /\ pc' = "slot")
        /\ stopped => stopped'
        /\ Stage' = Stage
    BY <1>0, <1>3, WorkerFrame DEF Stage
  <2>3. QED
    BY <2>1, <2>2, PlanKept DEF RunnerInv, Accounted, InStage
<1>4. QED
  BY <1>1, <1>2, <1>3 DEF RunnerNext

\* Units are handed out in order, each to a worker of its own.
LEMMA WorkersStep ==
    ASSUME RunnerInv, RunnerNext
    PROVE  WorkersStarted'
<1>0. /\ phase \in [Units -> Phases] /\ used \in Nat /\ MaxUnits \in Nat
      /\ used <= budget /\ budget <= MaxUnits /\ budget \in Nat /\ WorkersStarted
  BY Types DEF RunnerInv
<1>1. CASE AcquireUnit
  BY <1>0, <1>1 DEF WorkersStarted, AcquireUnit, Units
<1>2. CASE Main /\ ~AcquireUnit
  <2>1. UNCHANGED <<phase, used>>
    BY <1>2, MainFrame
  <2>2. stopped => stopped'
    BY <1>2, MainStops
  <2>3. QED
    BY <1>0, <2>1, <2>2 DEF WorkersStarted
<1>3. CASE Signal
  BY <1>0, <1>3 DEF WorkersStarted, Signal
<1>4. ASSUME NEW w \in Units, Worker(w) PROVE WorkersStarted'
  <2>1. /\ stopped => stopped'
        /\ phase[w] # "none" /\ phase'[w] # "none"
        /\ phase'[w] = "closing" => stopped'
        /\ \A u \in Units : u # w => phase'[u] = phase[u]
        /\ used' = used
    BY <1>0, <1>4, WorkerFrame
  <2>2. QED
    BY <1>0, <2>1 DEF WorkersStarted
<1>5. QED
  BY <1>1, <1>2, <1>3, <1>4 DEF RunnerNext

StatsType == [sent : Nat, completed : Nat, success : Nat, failure : Nat, saturated : BOOLEAN]

\* Any set of workers is finite.
LEMMA UnitsFinite ==
    ASSUME NEW S \in SUBSET Units, MaxUnits \in Nat
    PROVE  IsFiniteSet(S) /\ Cardinality(S) \in Nat /\ Cardinality(S) <= MaxUnits
<1>1. IsFiniteSet(Units) /\ Cardinality(Units) = MaxUnits
  BY UpTo DEF Units
<1>2. IsFiniteSet(S) /\ Cardinality(S) <= MaxUnits
  BY <1>1, FS_Subset
<1>3. QED
  BY <1>2, FS_CardinalityType

\* The collector's counters keep up with the workers.
LEMMA LedgerStep ==
    ASSUME RunnerInv, RunnerNext
    PROVE  Ledger' /\ stats' \in StatsType
<1>0. /\ phase \in [Units -> Phases] /\ used \in Nat /\ MaxUnits \in Nat
      /\ used <= budget /\ budget <= MaxUnits /\ budget \in Nat /\ WorkersStarted /\ Ledger
  BY Types DEF RunnerInv
<1>S. stats \in StatsType
  <2>1. 0 .. MaxUnits \subseteq Nat
    BY <1>0
  <2>2. QED
    BY <2>1 DEF RunnerInv, TypeOK, StatsType
<1>A. IsFiniteSet(Answered) /\ Cardinality(Answered) \in Nat
  BY <1>0, UnitsFinite DEF Answered
<1>1. CASE AcquireUnit
  <2>1. phase[used + 1] = "none"
    BY <1>0, <1>1 DEF WorkersStarted, AcquireUnit, Units, Remaining
  <2>2. Answered' = Answered
    BY <1>0, <1>1, <2>1 DEF AcquireUnit, Answered, Phases
  <2>3. used' = used + 1 /\ stats' = [stats EXCEPT !.sent = stats.sent + 1]
    BY <1>1 DEF AcquireUnit, RecordSent
  <2>4. QED
    BY <1>0, <1>S, <1>A, <2>2, <2>3 DEF Ledger, StatsType
<1>2. CASE Main /\ ~AcquireUnit
  <2>1. UNCHANGED <<phase, used>>
    BY <1>2, MainFrame
  <2>2. Answered' = Answered
    BY <2>1 DEF Answered
  <2>3. stats' = stats \/ \E b \in BOOLEAN : stats' = RecordSaturation(stats, b)
    BY <1>2 DEF Main, Prime, LeaveStages, OutOfQuota, StartStage, EndStage, NextSlot, Dispatch,
         TakeSlot, SemWait, AcquireOpen, AcquireRefused, StageEnd, ReportTruncation, Drain, Return
  <2>4. QED
    BY <1>0, <1>S, <2>1, <2>2, <2>3 DEF Ledger, RecordSaturation, StatsType
<1>3. CASE Signal
  BY <1>0, <1>S, <1>3 DEF Ledger, Answered, Signal
<1>4. ASSUME NEW w \in Units, Worker(w) PROVE Ledger' /\ stats' \in StatsType
  <2>1. CASE Complete(w)
    <3>1. Answered' = Answered \cup {w} /\ w \notin Answered
      BY <1>0, <2>1 DEF Answered, Complete, Phases
    <3>2. Cardinality(Answered') = Cardinality(Answered) + 1
      BY <1>A, <3>1, FS_AddElement
    <3>3. PICK ok \in BOOLEAN : stats' = Record(stats, ok)
      BY <2>1 DEF Complete
    <3>4. used' = used
      BY <2>1 DEF Complete
    <3>5. /\ stats'.sent = stats.sent /\ stats'.completed = stats.completed + 1
          /\ stats'.success + stats'.failure = stats.success + stats.failure + 1
          /\ stats' \in StatsType
      <4>1. stats' = [sent |-> stats.sent, completed |-> stats.completed + 1,
                      success |-> IF ok THEN stats.success + 1 ELSE stats.success,
                      failure |-> IF ok THEN stats.failure ELSE stats.failure + 1,
                      saturated |-> stats.saturated]
        BY <1>S, <3>3 DEF Record, StatsType
      <4>2. /\ stats.sent \in Nat /\ stats.completed \in Nat /\ stats.success \in Nat
            /\ stats.failure \in Nat /\ stats.saturated \in BOOLEAN
        BY <1>S DEF StatsType
      <4>3. QED
        BY <4>1, <4>2 DEF StatsType
    <3>6. QED
      BY <1>0, <3>2, <3>4, <3>5 DEF Ledger
  <2>2. CASE ~Complete(w)
    <3>1. UNCHANGED <<stats, used>> /\ phase[w] \notin {"none", "inFlight"}
      BY <1>0, <1>4, <2>2, WorkerFrame DEF Worker, File, WriteSink, Judge, StopRun, CloseQuota, Exit
    <3>2. phase'[w] \notin {"none", "inFlight"} /\ phase' = [phase EXCEPT ![w] = phase'[w]]
      BY <1>0, <1>4, WorkerFrame
    <3>3. Answered' = Answered
      BY <1>0, <3>1, <3>2 DEF Answered
    <3>4. QED
      BY <1>0, <1>S, <3>1, <3>3 DEF Ledger
  <2>3. QED
    BY <2>1, <2>2
<1>5. QED
  BY <1>1, <1>2, <1>3, <1>4 DEF RunnerNext

\* Each row is written once.
LEMMA RowsStep ==
    ASSUME RunnerInv, RunnerNext
    PROVE  GuardOnce' /\ OneRowPerUnit' /\ rows' \in [0 .. MaxUnits -> Nat]
<1>0. /\ phase \in [Units -> Phases] /\ used \in Nat /\ MaxUnits \in Nat
      /\ used <= budget /\ budget <= MaxUnits /\ budget \in Nat /\ WorkersStarted
      /\ GuardOnce /\ OneRowPerUnit /\ rows \in [0 .. MaxUnits -> Nat]
  BY Types DEF RunnerInv, TypeOK
<1>Z. 0 \in 0 .. MaxUnits /\ \A w \in Units : w \in 0 .. MaxUnits /\ w # 0
  BY <1>0 DEF Units
<1>1. CASE AcquireUnit
  <2>1. phase[used + 1] = "none" /\ used + 1 \in Units
    BY <1>0, <1>1 DEF WorkersStarted, AcquireUnit, Units, Remaining
  <2>2. UNCHANGED <<rows, sinkClosed>> /\ phase' = [phase EXCEPT ![used + 1] = "inFlight"]
        /\ pc = "take" /\ pc' \in {"slot", "perform"}
    BY <1>1 DEF AcquireUnit
  <2>3. QED
    BY <1>0, <2>1, <2>2 DEF GuardOnce, OneRowPerUnit
<1>2. CASE Main /\ ~AcquireUnit
  <2>1. UNCHANGED <<phase, sinkClosed>>
    BY <1>2, MainFrame
  <2>2. CASE AcquireRefused \/ ReportTruncation
    <3>1. /\ rows' = IF sinkClosed THEN rows ELSE [rows EXCEPT ![0] = rows[0] + 1]
          /\ rows[0] = 0
          /\ stopped' /\ pc' \in {"stageEnd", "drain"}
      BY <1>0, <2>2 DEF AcquireRefused, ReportTruncation, RecordQuotaGuard, WriteRow, Stop, GuardOnce
    <3>2. /\ rows' \in [0 .. MaxUnits -> Nat] /\ rows'[0] <= 1
          /\ \A w \in Units : rows'[w] = rows[w]
      BY <1>0, <1>Z, <3>1
    <3>3. QED
      BY <1>0, <2>1, <3>1, <3>2 DEF GuardOnce, OneRowPerUnit
  <2>3. CASE ~(AcquireRefused \/ ReportTruncation)
    <3>1. UNCHANGED rows
      BY <1>2, <2>3, MainStops
    <3>2. GuardOnce'
      <4>1. pc' \notin {"stageEnd", "drain", "return", "returned"} =>
               pc \notin {"stageEnd", "drain", "return", "returned"} \/ ~stopped
        BY <1>2, <2>3 DEF Main, Prime, LeaveStages, OutOfQuota, StartStage, EndStage, NextSlot,
             Dispatch, TakeSlot, SemWait, AcquireOpen, StageEnd, Drain, Return
      <4>2. stopped => stopped'
        BY <1>2, MainStops
      <4>3. QED
        BY <1>0, <3>1, <4>1, <4>2 DEF GuardOnce
    <3>3. QED
      BY <1>0, <2>1, <3>1, <3>2 DEF OneRowPerUnit
  <2>4. QED
    BY <2>2, <2>3
<1>3. CASE Signal
  BY <1>0, <1>3 DEF GuardOnce, OneRowPerUnit, Signal
<1>4. ASSUME NEW w \in Units, Worker(w)
      PROVE  GuardOnce' /\ OneRowPerUnit' /\ rows' \in [0 .. MaxUnits -> Nat]
  <2>1. /\ phase' = [phase EXCEPT ![w] = phase'[w]] /\ sinkClosed' = sinkClosed
        /\ pc' = pc \/ (pc = "perform" /\ pc' = "slot")
        /\ stopped => stopped'
    BY <1>0, <1>4, WorkerFrame
  <2>2. CASE WriteSink(w)
    <3>1. /\ rows' = IF sinkClosed THEN rows ELSE [rows EXCEPT ![w] = rows[w] + 1]
          /\ phase[w] = "write" /\ phase'[w] = "judge"
      BY <1>0, <2>2 DEF WriteSink, WriteRow
    <3>2. /\ rows' \in [0 .. MaxUnits -> Nat] /\ rows'[0] = rows[0]
          /\ \A u \in Units : u # w => rows'[u] = rows[u]
          /\ ~sinkClosed => rows'[w] = rows[w] + 1
      BY <1>0, <1>Z, <3>1
    <3>3. QED
      BY <1>0, <2>1, <3>1, <3>2 DEF GuardOnce, OneRowPerUnit
  <2>3. CASE ~WriteSink(w)
    <3>1. /\ UNCHANGED rows
          /\ phase[w] \in {"none", "inFlight", "write"} <=> phase'[w] \in {"none", "inFlight", "write"}
      BY <1>0, <1>4, <2>3, WorkerFrame
      DEF Worker, File, Complete, Judge, StopRun, CloseQuota, Exit
    <3>2. QED
      BY <1>0, <2>1, <3>1 DEF GuardOnce, OneRowPerUnit
  <2>4. QED
    BY <2>2, <2>3
<1>5. QED
  BY <1>1, <1>2, <1>3, <1>4 DEF RunnerNext

\* After a stop or a signal, main issues what it was past its checks with.
LEMMA StopsStep ==
    ASSUME RunnerInv, RunnerNext
    PROVE  /\ Stops' /\ OvershootBounded'
           /\ usedAtStop' \in -1 .. used' /\ usedAtSignal' \in -1 .. used'
<1>0. /\ phase \in [Units -> Phases] /\ used \in Nat /\ WorkersStarted
      /\ Stops /\ OvershootBounded
      /\ usedAtStop \in -1 .. used /\ usedAtSignal \in -1 .. used
  BY Types DEF RunnerInv, TypeOK
<1>1. CASE AcquireUnit
  <2>1. /\ pc = "take" /\ pc' \in {"slot", "perform"} /\ used' = used + 1
        /\ UNCHANGED <<closed, stopped, reason, usedAtStop, cancelled, usedAtSignal, interrupted>>
    BY <1>1 DEF AcquireUnit
  <2>2. QED
    BY <1>0, <2>1 DEF Stops, OvershootBounded
<1>2. CASE Main /\ ~AcquireUnit
  <2>1. UNCHANGED <<used, cancelled, usedAtSignal, interrupted>>
    BY <1>2, MainFrame
  <2>2. /\ pc' \in {"semWait", "acquire", "take"} =>
             \/ ~stopped /\ ~cancelled
             \/ pc \in {"semWait", "acquire", "take"}
        /\ pc' = "dispatch" => ~cancelled
    BY <1>2 DEF Main, Prime, LeaveStages, OutOfQuota, StartStage, EndStage, NextSlot, Dispatch,
         TakeSlot, SemWait, AcquireOpen, AcquireRefused, StageEnd, ReportTruncation, Drain, Return
  <2>3. CASE UNCHANGED <<stopped, reason, usedAtStop, closed>>
    BY <1>0, <2>1, <2>2, <2>3 DEF Stops, OvershootBounded
  <2>4. CASE /\ stopped' = TRUE /\ closed' = TRUE
             /\ stopped => UNCHANGED <<reason, usedAtStop>>
             /\ ~stopped => reason' = "quota_exhausted" /\ usedAtStop' = used
             /\ OutOfQuota \/ AcquireRefused \/ ReportTruncation
    <3>1. pc' \notin {"semWait", "acquire", "take", "dispatch"}
      BY <2>4 DEF OutOfQuota, AcquireRefused, ReportTruncation
    <3>2. QED
      BY <1>0, <2>1, <2>4, <3>1 DEF Stops, OvershootBounded
  <2>5. QED
    BY <1>2, <2>3, <2>4, MainStops
<1>3. CASE Signal
  BY <1>0, <1>3 DEF Stops, OvershootBounded, Signal
<1>4. ASSUME NEW w \in Units, Worker(w)
      PROVE  /\ Stops' /\ OvershootBounded'
             /\ usedAtStop' \in -1 .. used' /\ usedAtSignal' \in -1 .. used'
  <2>1. /\ UNCHANGED <<used, cancelled, usedAtSignal, interrupted>>
        /\ pc' = pc \/ pc' = "slot"
        /\ stopped => stopped' = TRUE /\ UNCHANGED <<reason, usedAtStop>>
        /\ ~stopped => \/ UNCHANGED <<stopped, reason, usedAtStop>>
                       \/ stopped' = TRUE /\ reason' = "auto_abort" /\ usedAtStop' = used
        /\ closed' = closed \/ phase[w] = "closing"
    BY <1>0, <1>4, WorkerFrame
  <2>2. closed' => stopped'
    BY <1>0, <2>1 DEF Stops, WorkersStarted
  <2>3. QED
    BY <1>0, <2>1, <2>2 DEF Stops, OvershootBounded
<1>5. QED
  BY <1>1, <1>2, <1>3, <1>4 DEF RunnerNext

\* What Run returns, and the reason it stopped for, stay true.
LEMMA OutcomeStep ==
    ASSUME RunnerInv, RunnerNext
    PROVE  Returned' /\ OutcomeHonest'
<1>0. /\ phase \in [Units -> Phases] /\ used \in Nat /\ WorkersStarted
      /\ Returned /\ OutcomeHonest /\ budget \in Nat /\ Stops
      /\ used <= budget /\ budget <= MaxUnits /\ MaxUnits \in Nat
      /\ stage \in Nat /\ stage >= 1 /\ stage <= Len(profile) + 1 /\ Len(profile) \in Nat
      /\ profile \in Profiles /\ slot \in Nat /\ planned \in Nat
      /\ reason \in {"none", "quota_exhausted", "auto_abort"}
      /\ GuardOnce /\ rows \in [0 .. MaxUnits -> Nat]
  BY Types DEF RunnerInv, TypeOK
<1>D. ASSUME NEW w \in 1 .. used, phase[w] \in {"none", "done"} PROVE phase[w] = "done"
  <2>1. w \in Units /\ ~(w > used)
    BY <1>0 DEF Units
  <2>2. QED
    BY <1>0, <1>D, <2>1 DEF WorkersStarted
<1>1. CASE Main
  <2>1. /\ UNCHANGED <<profile, budget, cancelled, interrupted>>
        /\ TotalPlanned' = TotalPlanned
    BY <1>1, MainFrame, PlanKept
  <2>2. reason' = "quota_exhausted" => TotalPlanned > budget
    <3>1. CASE reason' = reason
      BY <1>0, <3>1 DEF OutcomeHonest
    <3>2. CASE (OutOfQuota \/ AcquireRefused \/ ReportTruncation) /\ ~stopped
      <4>1. stage <= Len(profile)
        BY <3>2 DEF OutOfQuota, AcquireRefused, ReportTruncation, RunnerInv, Control, InStage
      <4>2. /\ stage \in 1 .. Len(profile) /\ stage - 1 \in 0 .. Len(profile)
        BY <1>0, <4>1
      <4>3. /\ PlannedThrough(stage - 1) \in Nat /\ Stage.planned \in Nat \ {0}
            /\ PlannedThrough(stage) = PlannedThrough(stage - 1) + Stage.planned
            /\ PlannedThrough(stage) <= TotalPlanned /\ TotalPlanned \in Nat
        BY <1>0, <4>2, PlanFacts, StageFacts DEF Stage
      <4>4. PlannedThrough(stage - 1) + Stage.planned > budget
        <5>1. CASE OutOfQuota
          <6>1. used = PlannedThrough(stage - 1) /\ used >= budget
            BY <1>0, <5>1 DEF OutOfQuota, Remaining, RunnerInv, Accounted
          <6>2. QED
            BY <1>0, <4>3, <6>1
        <5>2. CASE AcquireRefused
          <6>1. /\ used = PlannedThrough(stage - 1) + slot /\ slot < planned
                /\ planned <= budget - PlannedThrough(stage - 1)
            BY <5>2 DEF AcquireRefused, RunnerInv, Accounted, Control, InStage
          <6>2. used >= budget
            BY <1>0, <3>2, <5>2 DEF AcquireRefused, Remaining, Stops
          <6>3. budget \in Nat /\ slot \in Nat /\ planned \in Nat /\ PlannedThrough(stage - 1) \in Nat
            BY <1>0, <4>3
          <6>4. QED
            BY <6>1, <6>2, <6>3
        <5>3. CASE ReportTruncation
          <6>1. Stage.planned > budget - PlannedThrough(stage - 1)
            BY <5>3 DEF ReportTruncation, RunnerInv, Accounted, Control, InStage
          <6>2. QED
            BY <1>0, <4>3, <6>1
        <5>4. QED
          BY <3>2, <5>1, <5>2, <5>3
      <4>5. QED
        BY <1>0, <4>3, <4>4
    <3>3. QED
      BY <1>1, <3>1, <3>2, MainStops
  <2>3. CASE ~(Prime \/ Drain \/ Return \/ AcquireUnit)
    <3>1. UNCHANGED <<outcome, phase, used>> /\ pc # "returned" /\ pc' # "returned" /\ pc # "return"
      BY <1>1, <2>3 DEF Main, LeaveStages, OutOfQuota, StartStage, EndStage, NextSlot, Dispatch,
         TakeSlot, SemWait, AcquireOpen, AcquireRefused, StageEnd, ReportTruncation
    <3>2. QED
      BY <1>0, <2>1, <2>2, <3>1 DEF Returned, OutcomeHonest
  <2>4. CASE AcquireUnit
    <3>1. UNCHANGED <<outcome>> /\ pc = "take" /\ pc' \in {"slot", "perform"}
      BY <2>4 DEF AcquireUnit
    <3>2. QED
      BY <1>0, <2>1, <2>2, <3>1 DEF Returned, OutcomeHonest
  <2>5. CASE Prime
    <3>1. /\ UNCHANGED <<used, phase>> /\ pc = "prime"
          /\ \/ pc' = "stage" /\ UNCHANGED outcome
             \/ outcome' = [outcome EXCEPT !.reason = "error", !.partial = TRUE]
      BY <2>5 DEF Prime
    <3>2. QED
      BY <1>0, <2>1, <2>2, <3>1 DEF Returned, OutcomeHonest
  <2>6. CASE Drain
    <3>1. PICK d \in BOOLEAN :
             /\ d => \A w \in Units : phase[w] \in {"none", "done"}
             /\ outcome' = [outcome EXCEPT !.quotaUsed = used, !.drained = d]
      BY <2>6 DEF Drain
    <3>2. UNCHANGED <<used, phase>> /\ pc' = "return"
      BY <2>6 DEF Drain
    <3>3. QED
      BY <1>0, <2>1, <2>2, <3>1, <3>2 DEF Returned, OutcomeHonest
  <2>7. CASE Return
    <3> DEFINE why == IF stopped THEN reason ELSE IF cancelled THEN "signal" ELSE "completed"
    <3>1. /\ outcome' = [outcome EXCEPT !.reason = why,
                                        !.partial = why # "completed" \/ ~outcome.drained]
          /\ UNCHANGED <<used, phase, rows>> /\ pc = "return" /\ pc' = "returned"
      BY <2>7 DEF Return
    <3>2. /\ why \in {"signal", "completed", "quota_exhausted", "auto_abort"}
          /\ why = "completed" => used = TotalPlanned /\ ~cancelled /\ rows[0] = 0
          /\ why = "quota_exhausted" => TotalPlanned > budget
      BY <1>0, <3>1 DEF RunnerInv, Accounted, GuardOnce, Stops, OutcomeHonest
    <3> HIDE DEF why
    <3>3. outcome' = [reason |-> why, partial |-> why # "completed" \/ ~outcome.drained,
                      quotaUsed |-> outcome.quotaUsed, drained |-> outcome.drained]
      BY <1>0, <3>1 DEF Returned
    <3>4. Returned'
      BY <1>0, <2>1, <3>1, <3>2, <3>3 DEF Returned
    <3>5. OutcomeHonest'
      <4>1. outcome'.reason = "completed" /\ ~outcome'.partial =>
               used = TotalPlanned /\ \A w \in Units : phase[w] \in {"none", "done"}
        BY <1>0, <3>2, <3>3 DEF Returned
      <4>2. interrupted => outcome'.partial
        BY <1>0, <3>2, <3>3 DEF Stops
      <4>3. 1 .. used \subseteq Units
        BY <1>0 DEF Units
      <4>4. QED
        BY <1>D, <2>1, <2>2, <3>1, <4>1, <4>2, <4>3 DEF OutcomeHonest
    <3>6. QED
      BY <3>4, <3>5
  <2>8. QED
    BY <2>3, <2>4, <2>5, <2>6, <2>7
<1>2. CASE Signal
  <2>1. /\ UNCHANGED <<profile, budget, used, outcome, phase, pc, reason, rows>>
        /\ pc = "returned" => interrupted' = FALSE
    BY <1>2 DEF Signal
  <2>2. QED
    BY <1>0, <2>1, PlanKept DEF Returned, OutcomeHonest
<1>3. ASSUME NEW w \in Units, Worker(w) PROVE Returned' /\ OutcomeHonest'
  <2>1. /\ UNCHANGED <<profile, budget, used, outcome, interrupted>>
        /\ pc' = pc \/ (pc = "perform" /\ pc' = "slot")
        /\ reason' = reason \/ reason' = "auto_abort"
        /\ phase[w] \notin {"none", "done"} /\ phase' = [phase EXCEPT ![w] = phase'[w]]
    BY <1>0, <1>3, WorkerFrame
  <2>2. TotalPlanned' = TotalPlanned
    BY <2>1, PlanKept
  <2>3. ~outcome.drained
    BY <1>0, <2>1 DEF Returned
  <2>R. rows'[0] = rows[0]
    <3>1. 0 # w /\ 0 \in 0 .. MaxUnits
      BY <1>0 DEF Units
    <3>2. CASE WriteSink(w)
      BY <1>0, <3>1, <3>2 DEF WriteSink, WriteRow
    <3>3. CASE ~WriteSink(w)
      BY <1>0, <1>3, <3>3, WorkerFrame
    <3>4. QED
      BY <3>2, <3>3
  <2>4. Returned'
    BY <1>0, <2>1, <2>2, <2>3, <2>R DEF Returned
  <2>5. OutcomeHonest'
    BY <1>0, <2>1, <2>2, <2>3 DEF Returned, OutcomeHonest
  <2>6. QED
    BY <2>4, <2>5
<1>4. QED
  BY <1>1, <1>2, <1>3 DEF RunnerNext

\* The workers that hold a slot, and the slot main holds.
Running == {w \in Units : Pooled(w)}
Held == IF pc \in {"acquire", "take"} /\ Rate THEN 1 ELSE 0

\* Slots are taken and given back one for one, whoever runs next.
LEMMA SlotsStep ==
    ASSUME RunnerInv, RunnerNext
    PROVE  SlotsConserved' /\ sem' \in 0 .. MaxConcurrency
<1>0. /\ phase \in [Units -> Phases] /\ used \in Nat /\ WorkersStarted /\ Control
      /\ used <= budget /\ budget <= MaxUnits /\ MaxUnits \in Nat /\ budget \in Nat
      /\ sem \in 0 .. MaxConcurrency /\ MaxConcurrency \in Nat
  BY Types, RunnerAssumption DEF RunnerInv, TypeOK
<1>F. IsFiniteSet(Running) /\ Cardinality(Running) \in Nat
  BY <1>0, UnitsFinite DEF Running
<1>S. sem = Cardinality(Running) + Held
  BY DEF RunnerInv, SlotsConserved, Running, Held
<1>Q. ASSUME sem' = Cardinality(Running') + Held', sem' \in 0 .. MaxConcurrency
      PROVE  SlotsConserved' /\ sem' \in 0 .. MaxConcurrency
  BY <1>Q DEF SlotsConserved, Running, Held
<1>1. CASE AcquireUnit
  <2>1. phase[used + 1] = "none" /\ used + 1 \in Units
    BY <1>0, <1>1 DEF WorkersStarted, AcquireUnit, Units, Remaining
  <2>2. /\ pc = "take" /\ used' = used + 1 /\ sem' = sem /\ Rate' = Rate
        /\ phase' = [phase EXCEPT ![used + 1] = "inFlight"]
        /\ pc' = IF Rate THEN "slot" ELSE "perform"
    BY <1>1 DEF AcquireUnit, Rate, Stage
  <2>3. CASE Rate
    <3>1. Running' = Running \cup {used + 1} /\ used + 1 \notin Running
      BY <1>0, <2>1, <2>2, <2>3 DEF Running, Pooled
    <3>2. Cardinality(Running') = Cardinality(Running) + 1
      BY <1>F, <3>1, FS_AddElement
    <3>3. Held = 1 /\ Held' = 0
      BY <2>2, <2>3 DEF Held
    <3>4. QED
      BY <1>0, <1>F, <1>S, <1>Q, <2>2, <3>2, <3>3
  <2>4. CASE ~Rate
    <3>1. Running' = Running
      BY <1>0, <2>1, <2>2, <2>4 DEF Running, Pooled
    <3>2. Held = 0 /\ Held' = 0
      BY <2>2, <2>4 DEF Held
    <3>3. QED
      BY <1>0, <1>S, <1>Q, <2>2, <3>1, <3>2
  <2>5. QED
    BY <2>3, <2>4
<1>2. CASE Main /\ ~AcquireUnit
  <2>1. UNCHANGED <<phase, used>> /\ pc # "perform" /\ pc' # "perform"
    BY <1>2, MainFrame DEF Main, Prime, LeaveStages, OutOfQuota, StartStage, EndStage, NextSlot,
         Dispatch, TakeSlot, SemWait, AcquireOpen, AcquireRefused, StageEnd, ReportTruncation,
         Drain, Return
  <2>2. Running' = Running
    BY <2>1 DEF Running, Pooled
  <2>3. \/ sem' = sem /\ Held' = Held
        \/ sem' = sem + 1 /\ sem < MaxConcurrency /\ Held = 0 /\ Held' = 1
        \/ sem' = sem - 1 /\ Held = 1 /\ Held' = 0
    <3>1. CASE Dispatch
      BY <1>0, <3>1 DEF Dispatch, TakeSlot, Held, Control, Rate, Stage
    <3>2. CASE SemWait
      BY <1>0, <3>2 DEF SemWait, TakeSlot, Held, Control, Rate, Stage
    <3>3. CASE AcquireRefused
      BY <1>0, <3>3 DEF AcquireRefused, Held, Rate, Stage
    <3>4. CASE ~(Dispatch \/ SemWait \/ AcquireRefused)
      BY <1>2, <3>4 DEF Main, Prime, LeaveStages, OutOfQuota, StartStage, EndStage, NextSlot,
           AcquireOpen, StageEnd, ReportTruncation, Drain, Return, Held, Rate, Stage
    <3>5. QED
      BY <3>1, <3>2, <3>3, <3>4
  <2>4. QED
    BY <1>0, <1>F, <1>S, <1>Q, <2>2, <2>3
<1>3. CASE Signal
  <2>1. UNCHANGED <<phase, used, pc, sem, stage, profile>>
    BY <1>3 DEF Signal
  <2>2. Running' = Running /\ Held' = Held
    BY <2>1 DEF Running, Pooled, Held, Rate, Stage
  <2>3. QED
    BY <1>0, <1>S, <1>Q, <2>1, <2>2
<1>4. ASSUME NEW w \in Units, Worker(w)
      PROVE  SlotsConserved' /\ sem' \in 0 .. MaxConcurrency
  <2>1. /\ UNCHANGED <<profile, stage, used>>
        /\ phase[w] \notin {"none", "done"}
        /\ phase' = [phase EXCEPT ![w] = phase'[w]]
        /\ pc' = pc \/ (pc = "perform" /\ pc' = "slot")
    BY <1>0, <1>4, WorkerFrame
  <2>2. Held' = Held
    BY <2>1 DEF Held, Rate, Stage
  <2>3. CASE ~Exit(w)
    <3>1. UNCHANGED <<pc, sem>> /\ phase'[w] \notin {"none", "done"}
      BY <1>0, <1>4, <2>3, WorkerFrame
    <3>2. Running' = Running
      BY <1>0, <2>1, <3>1 DEF Running, Pooled
    <3>3. QED
      BY <1>0, <1>S, <1>Q, <2>2, <3>1, <3>2
  <2>4. CASE Exit(w) /\ pc = "perform" /\ w = used
    <3>1. pc' = "slot" /\ sem' = sem /\ phase'[w] = "done"
      BY <1>0, <2>4 DEF Exit
    <3>2. Running' = Running
      BY <1>0, <2>1, <2>4, <3>1 DEF Running, Pooled
    <3>3. QED
      BY <1>0, <1>S, <1>Q, <2>2, <3>1, <3>2
  <2>5. CASE Exit(w) /\ ~(pc = "perform" /\ w = used)
    <3>1. pc' = pc /\ sem' = sem - 1 /\ phase'[w] = "done"
      BY <1>0, <2>5 DEF Exit
    <3>2. Running' = Running \ {w} /\ w \in Running
      BY <1>0, <2>1, <2>5, <3>1 DEF Running, Pooled
    <3>3. Cardinality(Running') = Cardinality(Running) - 1 /\ Cardinality(Running') \in Nat
      <4>1. IsFiniteSet(Running')
        BY <1>F, <3>2, FS_RemoveElement
      <4>2. QED
        BY <1>F, <3>2, <4>1, FS_RemoveElement, FS_CardinalityType
    <3>4. Held \in {0, 1}
      BY DEF Held
    <3>5. QED
      BY <1>0, <1>F, <1>S, <1>Q, <2>2, <3>1, <3>3, <3>4
  <2>6. QED
    BY <2>3, <2>4, <2>5
<1>5. QED
  BY <1>1, <1>2, <1>3, <1>4 DEF RunnerNext

\* Every variable keeps its type.
LEMMA TypeStep ==
    ASSUME RunnerInv, RunnerNext
    PROVE  TypeOK'
<1>0. /\ phase \in [Units -> Phases] /\ used \in Nat /\ WorkersStarted /\ Control
      /\ used <= budget /\ budget <= MaxUnits /\ MaxUnits \in Nat /\ budget \in Nat
      /\ stage \in Nat /\ stage >= 1 /\ stage <= Len(profile) + 1 /\ Len(profile) \in Nat
      /\ planned \in Nat /\ slot \in Nat /\ slot <= planned /\ planned <= budget
      /\ profile \in Profiles
  BY Types DEF RunnerInv
<1>1. profile' = profile /\ budget' = budget
  <2>1. CASE Main
    BY <2>1, MainFrame
  <2>2. CASE Signal
    BY <2>2 DEF Signal
  <2>3. ASSUME NEW w \in Units, Worker(w) PROVE profile' = profile /\ budget' = budget
    BY <1>0, <2>3, WorkerFrame
  <2>4. QED
    BY <2>1, <2>2, <2>3 DEF RunnerNext
<1>2. /\ stage' \in 1 .. Len(profile) + 1 /\ slot' \in 0 .. planned' /\ planned' \in 0 .. budget
      /\ used' \in 0 .. budget
      /\ pc' \in {"prime", "stage", "slot", "dispatch", "semWait", "acquire", "take", "perform",
               "stageEnd", "truncate", "drain", "return", "returned"}
  <2>1. CASE Main
    <3>1. CASE StartStage
      <4>1. Stage.planned \in Nat
        BY <1>0, <3>1, StageFacts DEF StartStage, Stage
      <4>2. QED
        BY <1>0, <3>1, <4>1 DEF StartStage, Remaining
    <3>2. CASE AcquireUnit
      BY <1>0, <3>2 DEF AcquireUnit, Control, Remaining
    <3>3. CASE ~(StartStage \/ AcquireUnit)
      <4>1. UNCHANGED <<slot, planned, used>> /\ (stage' = stage \/ (StageEnd /\ stage' = stage + 1))
        BY <2>1, <3>3 DEF Main, Prime, LeaveStages, OutOfQuota, EndStage, NextSlot, Dispatch,
             TakeSlot, SemWait, AcquireOpen, AcquireRefused, StageEnd, ReportTruncation, Drain, Return
      <4>2. pc' \in {"prime", "stage", "slot", "dispatch", "semWait", "acquire", "take", "perform",
                     "stageEnd", "truncate", "drain", "return", "returned"}
        BY <2>1, <3>3 DEF Main, Prime, LeaveStages, OutOfQuota, EndStage, NextSlot, Dispatch,
             TakeSlot, SemWait, AcquireOpen, AcquireRefused, StageEnd, ReportTruncation, Drain, Return
      <4>3. StageEnd => stage <= Len(profile)
        BY <1>0 DEF StageEnd, Control, InStage
      <4>4. QED
        BY <1>0, <4>1, <4>2, <4>3
    <3>4. QED
      BY <3>1, <3>2, <3>3
  <2>2. CASE Signal
    BY <1>0, <2>2 DEF Signal, RunnerInv, TypeOK
  <2>3. ASSUME NEW w \in Units, Worker(w)
        PROVE  /\ UNCHANGED <<stage, slot, planned, used>>
               /\ pc' = pc \/ pc' = "slot"
    BY <1>0, <2>3, WorkerFrame
  <2>4. QED
    BY <1>0, <2>1, <2>2, <2>3 DEF RunnerNext, RunnerInv, TypeOK
<1>3. /\ truncated' \in BOOLEAN /\ closed' \in BOOLEAN /\ stopped' \in BOOLEAN
      /\ cancelled' \in BOOLEAN /\ reqCancelled' \in BOOLEAN /\ sinkClosed' \in BOOLEAN
      /\ interrupted' \in BOOLEAN
  <2>1. CASE Main
    <3>1. stopped' \in BOOLEAN /\ closed' \in BOOLEAN
      BY <2>1, MainStops DEF RunnerInv, TypeOK
    <3>2. truncated' \in BOOLEAN
      <4>1. CASE StartStage
        BY <4>1 DEF StartStage
      <4>2. CASE ~StartStage
        <5>1. truncated' = truncated
          BY <2>1, <4>2 DEF Main, Prime, LeaveStages, OutOfQuota, EndStage, NextSlot, Dispatch,
               TakeSlot, SemWait, AcquireOpen, AcquireRefused, AcquireUnit, StageEnd,
               ReportTruncation, Drain, Return
        <5>2. QED
          BY <5>1 DEF RunnerInv, TypeOK
      <4>3. QED
        BY <4>1, <4>2
    <3>3. reqCancelled' \in BOOLEAN
      BY <2>1 DEF RunnerInv, TypeOK, Main, Prime, LeaveStages, OutOfQuota, StartStage, EndStage,
           NextSlot, Dispatch, TakeSlot, SemWait, AcquireOpen, AcquireRefused, AcquireUnit, StageEnd,
           ReportTruncation, Drain, Return
    <3>4. QED
      BY <2>1, <3>1, <3>2, <3>3, MainFrame DEF RunnerInv, TypeOK
  <2>2. CASE Signal
    BY <2>2 DEF Signal, RunnerInv, TypeOK
  <2>3. ASSUME NEW w \in Units, Worker(w)
        PROVE  /\ UNCHANGED <<truncated, cancelled, reqCancelled, sinkClosed, interrupted>>
               /\ closed' \in {closed, TRUE} /\ stopped' \in {stopped, TRUE}
    BY <1>0, <2>3, WorkerFrame
  <2>4. QED
    BY <2>1, <2>2, <2>3 DEF RunnerNext, RunnerInv, TypeOK
<1>4. /\ reason' \in {"none", "quota_exhausted", "auto_abort"}
      /\ phase' \in [Units -> Phases]
      /\ result' \in [Units -> {"none", "ok", "failed", "cancelled"}]
  <2>0. /\ reason \in {"none", "quota_exhausted", "auto_abort"}
        /\ result \in [Units -> {"none", "ok", "failed", "cancelled"}]
    BY DEF RunnerInv, TypeOK
  <2>1. CASE Main
    <3>1. phase' \in [Units -> Phases]
      BY <1>0, <2>1, MainFrame DEF AcquireUnit, Phases
    <3>2. reason' \in {"none", "quota_exhausted", "auto_abort"}
      BY <2>0, <2>1, MainStops
    <3>3. QED
      BY <2>0, <2>1, <3>1, <3>2, MainFrame
  <2>2. CASE Signal
    BY <1>0, <2>0, <2>2 DEF Signal
  <2>3. ASSUME NEW w \in Units, Worker(w)
        PROVE  /\ reason' \in {reason, "auto_abort"}
               /\ phase' \in [Units -> Phases]
               /\ result' \in [Units -> {"none", "ok", "failed", "cancelled"}]
    <3>1. /\ reason' \in {reason, "auto_abort"}
          /\ phase' \in [Units -> Phases]
      BY <1>0, <2>3, WorkerFrame DEF Phases
    <3>2. result' \in [Units -> {"none", "ok", "failed", "cancelled"}]
      <4>1. CASE Complete(w)
        <5>1. PICK r \in {"ok", "failed", "cancelled"} : result' = [result EXCEPT ![w] = r]
          BY <4>1 DEF Complete
        <5>2. QED
          BY <2>0, <5>1
      <4>2. CASE ~Complete(w)
        BY <1>0, <2>0, <2>3, <4>2, WorkerFrame
      <4>3. QED
        BY <4>1, <4>2
    <3>3. QED
      BY <3>1, <3>2
  <2>4. QED
    BY <2>0, <2>1, <2>2, <2>3 DEF RunnerNext
<1>5. stats' \in [sent : 0 .. MaxUnits, completed : 0 .. MaxUnits, success : 0 .. MaxUnits,
                  failure : 0 .. MaxUnits, saturated : BOOLEAN]
  <2>1. Ledger' /\ stats' \in StatsType
    BY LedgerStep
  <2>2. Cardinality(Answered') \in Nat /\ Cardinality(Answered') <= MaxUnits
    <3>1. Answered' \in SUBSET Units
      BY DEF Answered, Units
    <3>2. QED
      BY <1>0, <3>1, UnitsFinite
  <2>3. /\ stats'.sent \in 0 .. MaxUnits /\ stats'.completed \in 0 .. MaxUnits
        /\ stats'.success \in 0 .. MaxUnits /\ stats'.failure \in 0 .. MaxUnits
    BY <1>0, <1>2, <2>1, <2>2 DEF Ledger, StatsType
  <2>4. QED
    BY <2>1, <2>3 DEF StatsType
<1>6. /\ sem' \in 0 .. MaxConcurrency /\ rows' \in [0 .. MaxUnits -> Nat]
      /\ usedAtStop' \in -1 .. used' /\ usedAtSignal' \in -1 .. used'
  BY SlotsStep, RowsStep, StopsStep
<1>7. profile' \in Profiles /\ budget' \in Budgets
  BY <1>1 DEF RunnerInv, TypeOK
<1>8. QED
  BY <1>1, <1>2, <1>3, <1>4, <1>5, <1>6, <1>7 DEF TypeOK, Phases
-----------------------------------------------------------------------------
\* A run begins with the invariant.
LEMMA RunnerInit == InitRunner => RunnerInv
<1> SUFFICES ASSUME InitRunner PROVE RunnerInv
  OBVIOUS
<1>0. /\ profile \in Profiles /\ budget \in Budgets /\ MaxUnits \in Nat /\ budget \in Nat
      /\ MaxConcurrency \in Nat /\ Len(profile) \in Nat
  BY RunnerAssumption, StageFacts DEF InitRunner
<1>1. TypeOK
  <2>1. /\ truncated \in BOOLEAN /\ closed \in BOOLEAN /\ stopped \in BOOLEAN
        /\ cancelled \in BOOLEAN /\ reqCancelled \in BOOLEAN /\ sinkClosed \in BOOLEAN
        /\ interrupted \in BOOLEAN
    BY DEF InitRunner
  <2>2. stats \in [sent : 0 .. MaxUnits, completed : 0 .. MaxUnits, success : 0 .. MaxUnits,
                   failure : 0 .. MaxUnits, saturated : BOOLEAN]
    BY <1>0 DEF InitRunner
  <2>3. QED
    BY <1>0, <2>1, <2>2 DEF InitRunner, TypeOK
<1>2. Control /\ WorkersStarted /\ GuardOnce /\ Stops /\ OneRowPerUnit /\ OvershootBounded
  BY <1>0 DEF InitRunner, Control, InStage, WorkersStarted, Units, GuardOnce, Stops, OneRowPerUnit,
       OvershootBounded
<1>3. Accounted
  BY <1>0, PlanFacts DEF InitRunner, Accounted, InStage
<1>4. Ledger
  <2>1. Answered = {}
    BY DEF InitRunner, Answered
  <2>2. QED
    BY <2>1, FS_EmptySet DEF InitRunner, Ledger
<1>5. SlotsConserved
  <2>1. Running = {}
    BY DEF InitRunner, Running, Pooled
  <2>2. Held = 0 /\ sem = 0 /\ Cardinality(Running) = 0
    BY <2>1, FS_EmptySet DEF InitRunner, Held
  <2>3. sem = Cardinality(Running) + Held
    BY <2>2
  <2>4. QED
    BY <2>3 DEF SlotsConserved, Running, Held
<1>6. Returned /\ OutcomeHonest
  BY <1>0 DEF InitRunner, Returned, OutcomeHonest
<1>7. QED
  BY <1>1, <1>2, <1>3, <1>4, <1>5, <1>6 DEF RunnerInv

\* Every step of the run preserves it.
LEMMA RunnerStep ==
    ASSUME RunnerInv, RunnerNext
    PROVE  RunnerInv'
  BY TypeStep, ControlStep, AccountedStep, WorkersStep, LedgerStep, RowsStep, StopsStep,
     OutcomeStep, SlotsStep DEF RunnerInv

\* So does one that changes nothing but to close the sink.
LEMMA SinkClosed ==
    ASSUME RunnerInv, sinkClosed' \in {sinkClosed, TRUE},
           UNCHANGED <<config, main, sem, quota, stopping, signal, reqCancelled, workers,
                       breaker, stats, rows, outcome>>
    PROVE  RunnerInv'
<1>1. UNCHANGED <<profile, budget, pc, stage, slot, planned, truncated, sem, used, closed, stopped,
                  reason, usedAtStop, cancelled, usedAtSignal, interrupted, reqCancelled, phase,
                  result, stats, rows, outcome>>
  OBVIOUS
<1>2. TypeOK'
  <2>1. sinkClosed' \in BOOLEAN
    BY DEF RunnerInv, TypeOK
  <2>2. QED
    BY <1>1, <2>1 DEF RunnerInv, TypeOK
<1>3. \A n : PlannedThrough(n)' = PlannedThrough(n)
  BY <1>1, PlanKept
<1>4. TotalPlanned' = TotalPlanned
  BY <1>1, PlanKept
<1>5. Control' /\ WorkersStarted' /\ GuardOnce' /\ Stops' /\ OvershootBounded'
  BY <1>1 DEF RunnerInv, Control, Rate, Stage, WorkersStarted, GuardOnce, Stops, OvershootBounded
<1>6. Accounted' /\ Returned' /\ OutcomeHonest'
  BY <1>1, <1>3, <1>4 DEF RunnerInv, Accounted, Stage, Returned, OutcomeHonest
<1>7. Ledger' /\ SlotsConserved'
  BY <1>1 DEF RunnerInv, Ledger, Answered, SlotsConserved, Pooled, Rate, Stage
<1>8. OneRowPerUnit'
  BY <1>1 DEF RunnerInv, OneRowPerUnit
<1>9. QED
  BY <1>2, <1>5, <1>6, <1>7, <1>8 DEF RunnerInv

\* A run keeps the invariant, whatever its profile, budget, pool and breaker,
\* and however main, the workers and a signal interleave.
THEOREM RunnerInvariant == Spec => []RunnerInv
<1>1. RunnerInv /\ [Next]_runnerVars => RunnerInv'
  <2> SUFFICES ASSUME RunnerInv, [Next]_runnerVars PROVE RunnerInv'
    OBVIOUS
  <2>1. CASE RunnerNext
    BY <2>1, RunnerStep
  <2>2. CASE UNCHANGED runnerVars
    BY <2>2, SinkClosed DEF runnerVars
  <2>3. QED
    BY <2>1, <2>2 DEF Next, Rest
<1>2. QED
  BY <1>1, RunnerInit, PTL DEF Spec

\* Every variable of the run keeps its type: the pool's counter never leaves
\* its capacity, the quota its budget, a stage its plan.
THEOREM RunnerTypeOK == Spec => []TypeOK
<1>1. RunnerInv => TypeOK
  BY DEF RunnerInv
<1>2. QED
  BY <1>1, RunnerInvariant, PTL

\* The worker pool of dispatch neither leaks nor over-commits.
THEOREM RunnerSlots == Spec => []SlotsConserved
<1>1. RunnerInv => SlotsConserved
  BY DEF RunnerInv
<1>2. QED
  BY <1>1, RunnerInvariant, PTL

\* perform writes one row per unit, and the runner one quota_guard row at most.
THEOREM RunnerRows == Spec => []OneRowPerUnit
<1>1. RunnerInv => OneRowPerUnit
  BY DEF RunnerInv
<1>2. QED
  BY <1>1, RunnerInvariant, PTL

\* After stop or a signal, Runner issues at most the request in hand.
THEOREM RunnerOvershoot == Spec => []OvershootBounded
<1>1. RunnerInv => OvershootBounded
  BY DEF RunnerInv
<1>2. QED
  BY <1>1, RunnerInvariant, PTL

\* Outcome's stop reason and partial flag are the truth about the run.
THEOREM RunnerOutcome == Spec => []OutcomeHonest
<1>1. RunnerInv => OutcomeHonest
  BY DEF RunnerInv
<1>2. QED
  BY <1>1, RunnerInvariant, PTL

\* A drain that reports itself complete leaves balanced books.
LEMMA DrainedBooks == RunnerInv => DrainedMeansSettled
<1> SUFFICES ASSUME RunnerInv, outcome.drained PROVE
        /\ outcome.quotaUsed = used /\ stats.sent = used
        /\ stats.completed = used /\ stats.success + stats.failure = used
        /\ ~sinkClosed => \A w \in 1 .. used : rows[w] = 1
  BY DEF DrainedMeansSettled
<1>1. /\ used \in Nat /\ used <= budget /\ budget <= MaxUnits /\ MaxUnits \in Nat /\ budget \in Nat
      /\ phase \in [Units -> Phases]
  BY Types DEF RunnerInv
<1>2. \A w \in Units : phase[w] = (IF w > used THEN "none" ELSE "done")
  BY DEF RunnerInv, Returned, WorkersStarted
<1>3. Answered = 1 .. used
  BY <1>1, <1>2 DEF Answered, Units
<1>4. Cardinality(Answered) = used
  BY <1>1, <1>3, UpTo
<1>5. outcome.quotaUsed = used
  BY DEF RunnerInv, Returned
<1>6. ~sinkClosed => \A w \in 1 .. used : rows[w] = 1
  BY <1>1, <1>2 DEF RunnerInv, OneRowPerUnit, Units
<1>7. QED
  BY <1>4, <1>5, <1>6 DEF RunnerInv, Ledger

\* Every unit of a drained run was sent, answered, counted and written.
THEOREM RunnerSettled == Spec => []DrainedMeansSettled
<1>1. QED
  BY DrainedBooks, RunnerInvariant, PTL

-----------------------------------------------------------------------------
(*                            The run command                              *)

\* runLoad is past Run only when Run has returned, closes the sink before it
\* exits, and exits last.
CommandOrder ==
    /\ cmd # "run" => pc = "returned"
    /\ sinkClosed <=> cmd = "exit"
    /\ Exited => cmd = "exit"

\* A sequence has a row or none, and a drained run all of its rows.
RowsSettled ==
    /\ \A s \in 0 .. MaxUnits : rows[s] \in 0 .. 1
    /\ pc = "returned" /\ outcome.drained =>
          \A w \in Units : rows[w] = IF w > used THEN 0 ELSE 1

\* The file against the rows accepted: empty once it is lost; complete after
\* the flush of a drained run, and after the close of any.
FileKept ==
    /\ fileLost => disk = NoRows
    /\ ~fileLost /\ cmd = "exit" => disk = rows
    /\ ~fileLost /\ cmd # "run" /\ outcome.drained => disk = rows

\* What the integrity check was told and what it found.
Verified ==
    /\ cmd \in {"count", "close", "exit"} /\ outcome.drained => wantRows = RowCount(rows)
    /\ cmd \in {"close", "exit"} /\ outcome.drained /\ ~fileLost => recordsOK
    /\ cmd \in {"close", "exit"} /\ lostAtCount /\ wantRows > 0 => ~recordsOK
    /\ Exited => exit = Status(outcome.reason, recordsOK)

\* The inductive strengthening of the properties of RunCommand.
CommandInv ==
    /\ RunnerInv /\ CommandTypeOK
    /\ CheckAgainstQuota
    /\ CommandOrder /\ RowsSettled /\ FileKept /\ Verified
-----------------------------------------------------------------------------
\* CountDataRows of an empty file.
LEMMA EmptyCount == RowCount(NoRows) = 0
<1>1. MaxUnits \in Nat
  BY RunnerAssumption
<1>2. \A s \in 0 .. MaxUnits : 1 .. NoRows[s] = {}
  BY <1>1 DEF NoRows
<1>3. UNION {{s} \X (1 .. NoRows[s]) : s \in 0 .. MaxUnits} = {}
  BY <1>2
<1>4. QED
  BY <1>3, FS_EmptySet DEF RowCount

\* With one row a sequence at most, the count is bounded by the sequences.
LEMMA CountBounded ==
    ASSUME NEW f, \A s \in 0 .. MaxUnits : f[s] \in 0 .. 1
    PROVE  RowCount(f) \in 0 .. MaxUnits + 1
<1> DEFINE all == UNION {{s} \X (1 .. f[s]) : s \in 0 .. MaxUnits}
           box == (0 .. MaxUnits) \X (1 .. 1)
<1>1. MaxUnits \in Nat
  BY RunnerAssumption
<1>2. /\ IsFiniteSet(0 .. MaxUnits) /\ Cardinality(0 .. MaxUnits) = MaxUnits + 1
      /\ IsFiniteSet(1 .. 1) /\ Cardinality(1 .. 1) = 1
  <2>1. /\ IsFiniteSet(0 .. MaxUnits)
        /\ Cardinality(0 .. MaxUnits) = IF 0 > MaxUnits THEN 0 ELSE MaxUnits - 0 + 1
    BY <1>1, FS_Interval
  <2>2. IsFiniteSet(1 .. 1) /\ Cardinality(1 .. 1) = 1
    BY UpTo, 1 \in Nat
  <2>3. QED
    BY <1>1, <2>1, <2>2
<1>3. IsFiniteSet(box) /\ Cardinality(box) = (MaxUnits + 1) * 1
  <2>1. ASSUME NEW S, IsFiniteSet(S), NEW T, IsFiniteSet(T)
        PROVE  IsFiniteSet(S \X T) /\ Cardinality(S \X T) = Cardinality(S) * Cardinality(T)
    BY <2>1, FS_Product
  <2>2. IsFiniteSet(box) /\ Cardinality(box) = Cardinality(0 .. MaxUnits) * Cardinality(1 .. 1)
    BY <1>2, <2>1
  <2>3. QED
    BY <1>2, <2>2
<1>4. all \subseteq box
  <2>1. \A s \in 0 .. MaxUnits : 1 .. f[s] \subseteq 1 .. 1
    OBVIOUS
  <2>2. QED
    BY <2>1
<1>5. IsFiniteSet(all) /\ Cardinality(all) <= Cardinality(box)
  BY <1>3, <1>4, FS_Subset
<1>6. Cardinality(all) \in Nat
  BY <1>5, FS_CardinalityType
<1> HIDE DEF all, box
<1>7. Cardinality(all) \in 0 .. MaxUnits + 1
  BY <1>1, <1>3, <1>5, <1>6
<1>8. QED
  BY <1>7 DEF RowCount, all

\* The rows of a settled run that never met its budget's end are its units.
LEMMA SettledCount ==
    ASSUME used \in Nat, used <= MaxUnits, rows[0] = 0,
           \A w \in Units : rows[w] = IF w > used THEN 0 ELSE 1
    PROVE  RowCount(rows) = used
<1> DEFINE all == UNION {{s} \X (1 .. rows[s]) : s \in 0 .. MaxUnits}
           units == (1 .. used) \X (1 .. 1)
<1>1. MaxUnits \in Nat
  BY RunnerAssumption
<1>2. \A s \in 0 .. MaxUnits : s = 0 \/ s \in Units
  BY <1>1 DEF Units
<1>3. \A s \in 0 .. MaxUnits : 1 .. rows[s] = IF s \in 1 .. used THEN 1 .. 1 ELSE {}
  <2> TAKE s \in 0 .. MaxUnits
  <2>1. CASE s = 0
    BY <2>1
  <2>2. CASE s \in Units /\ s > used
    <3>1. rows[s] = 0 /\ s \notin 1 .. used
      BY <2>2
    <3>2. QED
      BY <3>1
  <2>3. CASE s \in Units /\ ~(s > used)
    <3>1. rows[s] = 1 /\ s \in 1 .. used
      BY <2>3, <1>1 DEF Units
    <3>2. QED
      BY <3>1
  <2>4. QED
    BY <1>2, <2>1, <2>2, <2>3
<1>4. 1 .. used \subseteq 0 .. MaxUnits
  BY <1>1
<1>5. all = units
  <2>1. ASSUME NEW x \in all PROVE x \in units
    <3>1. PICK s \in 0 .. MaxUnits : x \in {s} \X (1 .. rows[s])
      OBVIOUS
    <3>2. s \in 1 .. used /\ 1 .. rows[s] = 1 .. 1
      BY <1>3, <3>1
    <3>3. QED
      BY <3>1, <3>2
  <2>2. ASSUME NEW x \in units PROVE x \in all
    <3>1. PICK s \in 1 .. used : x \in {s} \X (1 .. 1)
      OBVIOUS
    <3>2. s \in 0 .. MaxUnits /\ 1 .. rows[s] = 1 .. 1
      BY <1>3, <1>4
    <3>3. QED
      BY <3>1, <3>2
  <2>3. QED
    BY <2>1, <2>2
<1>6. /\ IsFiniteSet(1 .. used) /\ Cardinality(1 .. used) = used
      /\ IsFiniteSet(1 .. 1) /\ Cardinality(1 .. 1) = 1
  BY UpTo
<1>7. Cardinality(units) = used
  <2>1. Cardinality(units) = Cardinality(1 .. used) * Cardinality(1 .. 1)
    BY <1>6, FS_Product
  <2>2. QED
    BY <1>6, <2>1
<1>8. QED
  BY <1>5, <1>7 DEF RowCount

-----------------------------------------------------------------------------
\* Once Run has returned, workers and signals change no verdict of its own,
\* and no row of a drained run.
LEMMA AfterReturn ==
    ASSUME RunnerInv, RunnerNext
    PROVE  /\ UNCHANGED <<profile, budget, sinkClosed>>
           /\ pc = "returned" => UNCHANGED <<pc, used, outcome>>
           /\ pc = "returned" /\ outcome.drained => UNCHANGED rows
           /\ sinkClosed => UNCHANGED rows \/ pc # "returned"
<1>0. phase \in [Units -> Phases]
  BY Types DEF RunnerInv
<1>1. CASE Main
  <2>1. pc # "returned"
    BY <1>1 DEF Main, Prime, LeaveStages, OutOfQuota, StartStage, EndStage, NextSlot, Dispatch,
         SemWait, AcquireOpen, AcquireRefused, AcquireUnit, StageEnd, ReportTruncation, Drain, Return
  <2>2. QED
    BY <1>1, <2>1, MainFrame
<1>2. CASE Signal
  BY <1>2 DEF Signal, config, main, quota, sink
<1>3. ASSUME NEW w \in Units, Worker(w)
      PROVE  /\ UNCHANGED <<profile, budget, sinkClosed>>
             /\ pc = "returned" => UNCHANGED <<pc, used, outcome>>
             /\ pc = "returned" /\ outcome.drained => UNCHANGED rows
             /\ sinkClosed => UNCHANGED rows
  <2>1. /\ UNCHANGED <<profile, budget, sinkClosed, used, outcome>>
        /\ pc = "returned" => UNCHANGED pc
        /\ phase[w] \notin {"none", "done"}
        /\ ~WriteSink(w) => UNCHANGED rows
    BY <1>0, <1>3, WorkerFrame
  <2>2. ~outcome.drained
    BY <2>1 DEF RunnerInv, Returned
  <2>3. WriteSink(w) /\ sinkClosed => UNCHANGED rows
    BY DEF WriteSink, WriteRow
  <2>4. QED
    BY <2>1, <2>2, <2>3
<1>4. QED
  BY <1>1, <1>2, <1>3 DEF RunnerNext

\* The command starts with the invariant.
LEMMA CommandInit == InitCommand => CommandInv
<1> SUFFICES ASSUME InitCommand PROVE CommandInv
  OBVIOUS
<1>1. RunnerInv /\ MaxUnits \in Nat
  BY RunnerInit, RunnerAssumption DEF InitCommand
<1>2. CommandTypeOK
  <2>1. disk \in [0 .. MaxUnits -> 0 .. 1]
    BY <1>1 DEF InitCommand, NoRows
  <2>2. fileLost \in BOOLEAN /\ recordsOK \in BOOLEAN /\ lostAtCount \in BOOLEAN
    BY DEF InitCommand
  <2>3. QED
    BY <1>1, <2>1, <2>2 DEF InitCommand, CommandTypeOK, RunnerInv
<1>3. CommandOrder /\ FileKept /\ Verified
  BY DEF InitCommand, InitRunner, CommandOrder, Exited, FileKept, Verified
<1>4. RowsSettled
  BY <1>1 DEF InitCommand, InitRunner, RowsSettled
<1>5. QED
  BY <1>1, <1>2, <1>3, <1>4 DEF CommandInv, InitCommand

\* A step of the run preserves it.
LEMMA RunStep ==
    ASSUME CommandInv, RunnerNext, Alive, UNCHANGED commandVars
    PROVE  CommandInv'
<1>0. RunnerInv /\ RunnerInv' /\ MaxUnits \in Nat
  BY RunnerStep, RunnerAssumption DEF CommandInv
<1>1. /\ UNCHANGED <<profile, budget, sinkClosed, cmd, disk, fileLost, wantRows, recordsOK,
                      lostAtCount, exit>>
      /\ pc = "returned" => UNCHANGED <<pc, used, outcome>>
      /\ pc = "returned" /\ outcome.drained => UNCHANGED rows
      /\ sinkClosed => UNCHANGED rows
      /\ exit = -1 /\ ~Exited
  BY <1>0, AfterReturn DEF CommandInv, CommandOrder, commandVars, Alive, Exited
<1>2. CommandTypeOK'
  BY <1>0, <1>1 DEF CommandInv, CommandTypeOK, RunnerInv
<1>3. CheckAgainstQuota'
  BY <1>1, PlanKept DEF CommandInv, CheckAgainstQuota
<1>4. CommandOrder'
  BY <1>1 DEF CommandInv, CommandOrder, Exited
<1>5. RowsSettled'
  <2>1. CASE sinkClosed
    BY <1>1, <2>1 DEF CommandInv, RowsSettled, CommandOrder
  <2>2. CASE ~sinkClosed
    <3>1. /\ rows'[0] <= 1 /\ rows' \in [0 .. MaxUnits -> Nat]
          /\ \A w \in Units : rows'[w] = IF phase'[w] \in {"none", "inFlight", "write"} THEN 0 ELSE 1
      BY <1>0, <1>1, <2>2 DEF RunnerInv, OneRowPerUnit, TypeOK
    <3>2. \A s \in 0 .. MaxUnits : s = 0 \/ s \in Units
      BY <1>0 DEF Units
    <3>3. \A s \in 0 .. MaxUnits : rows'[s] \in 0 .. 1
      BY <1>0, <3>1, <3>2
    <3>4. outcome'.drained => \A w \in Units : phase'[w] = IF w > used' THEN "none" ELSE "done"
      BY <1>0 DEF RunnerInv, Returned, WorkersStarted
    <3>5. QED
      BY <3>1, <3>3, <3>4 DEF RowsSettled
  <2>3. QED
    BY <2>1, <2>2
<1>6. FileKept'
  BY <1>1 DEF CommandInv, CommandOrder, FileKept, NoRows
<1>7. Verified'
  BY <1>1 DEF CommandInv, CommandOrder, Verified, RowCount, Exited
<1>8. QED
  BY <1>0, <1>2, <1>3, <1>4, <1>5, <1>6, <1>7 DEF CommandInv

\* So does one of runLoad itself, the buffer, the sync client and a kill.
LEMMA CommandStep ==
    ASSUME CommandInv, Command \/ AutoFlush \/ ReplaceFile \/ Kill \/ UNCHANGED allVars
    PROVE  CommandInv'
<1>0. RunnerInv /\ MaxUnits \in Nat
  BY RunnerAssumption DEF CommandInv
<1>1. /\ UNCHANGED <<config, main, sem, quota, stopping, signal, reqCancelled, workers,
                      breaker, stats, rows, outcome>>
      /\ sinkClosed' \in {sinkClosed, TRUE}
  BY DEF Command, WriteResults, ReadRows, VerifyRecordIntegrity, CloseWriter, ExitProcess,
         AutoFlush, ReplaceFile, Kill, allVars, runnerVars, sink
<1>2. RunnerInv'
  BY <1>0, <1>1, SinkClosed
<1>3. UNCHANGED <<profile, budget, pc, used, outcome, rows>>
  BY <1>1 DEF config, main, quota
<1>4. CheckAgainstQuota'
  BY <1>3, PlanKept DEF CommandInv, CheckAgainstQuota
<1>5. RowsSettled'
  BY <1>3 DEF CommandInv, RowsSettled
<1>6. /\ rows \in [0 .. MaxUnits -> 0 .. 1] /\ NoRows \in [0 .. MaxUnits -> 0 .. 1]
      /\ RowCount(rows) \in 0 .. MaxUnits + 1
  <2>1. \A s \in 0 .. MaxUnits : rows[s] \in 0 .. 1
    BY DEF CommandInv, RowsSettled
  <2>2. rows \in [0 .. MaxUnits -> Nat]
    BY DEF CommandInv, RunnerInv, TypeOK
  <2>3. NoRows \in [0 .. MaxUnits -> 0 .. 1]
    BY DEF NoRows
  <2>4. RowCount(rows) \in 0 .. MaxUnits + 1
    BY <2>1, CountBounded
  <2>5. QED
    BY <2>1, <2>2, <2>3, <2>4
<1>7. CommandTypeOK'
  <2>1. disk' \in [0 .. MaxUnits -> 0 .. 1]
    BY <1>6 DEF CommandInv, CommandTypeOK, Command, WriteResults, ReadRows, VerifyRecordIntegrity,
         CloseWriter, ExitProcess, AutoFlush, ReplaceFile, Kill, allVars, commandVars, Flush
  <2>2. fileLost' \in BOOLEAN /\ recordsOK' \in BOOLEAN /\ lostAtCount' \in BOOLEAN
    BY DEF CommandInv, CommandTypeOK, Command, WriteResults, ReadRows, VerifyRecordIntegrity,
         CloseWriter, ExitProcess, AutoFlush, ReplaceFile, Kill, allVars, commandVars, Flush
  <2>3. wantRows' \in 0 .. MaxUnits + 1
    BY <1>6 DEF CommandInv, CommandTypeOK, Command, WriteResults, ReadRows, VerifyRecordIntegrity,
         CloseWriter, ExitProcess, AutoFlush, ReplaceFile, Kill, allVars, commandVars
  <2>4. /\ cmd' \in {"run", "verify", "count", "close", "exit"}
        /\ exit' \in {-1, 0, 1, 3, 4, 130, 137}
    BY DEF CommandInv, CommandTypeOK, Command, WriteResults, ReadRows, VerifyRecordIntegrity,
         CloseWriter, ExitProcess, AutoFlush, ReplaceFile, Kill, allVars, commandVars, Status
  <2>5. QED
    BY <1>2, <2>1, <2>2, <2>3, <2>4 DEF CommandTypeOK, RunnerInv
<1>8. CommandOrder'
  BY <1>3 DEF CommandInv, CommandOrder, Exited, Alive, Command, WriteResults, ReadRows,
       VerifyRecordIntegrity, CloseWriter, ExitProcess, AutoFlush, ReplaceFile, Kill, allVars,
       commandVars, runnerVars, sink
<1>9. FileKept'
  BY <1>3 DEF CommandInv, CommandOrder, FileKept, Flush, Command, WriteResults, ReadRows,
       VerifyRecordIntegrity, CloseWriter, ExitProcess, AutoFlush, ReplaceFile, Kill, allVars,
       commandVars, NoRows
<1>10. Verified'
  <2>1. RowCount(rows)' = RowCount(rows)
    BY <1>3 DEF RowCount
  <2>2. CASE VerifyRecordIntegrity
    <3>1. fileLost /\ wantRows > 0 => ~(RowCount(disk) = wantRows)
      BY EmptyCount DEF CommandInv, FileKept, CommandTypeOK
    <3>2. QED
      BY <1>3, <2>1, <2>2, <3>1 DEF CommandInv, CommandOrder, FileKept, Verified, Exited, Alive,
           VerifyRecordIntegrity
  <2>3. CASE ~VerifyRecordIntegrity
    BY <1>3, <2>1, <2>3 DEF CommandInv, CommandOrder, Verified, Exited, Alive, Command, WriteResults,
         ReadRows, CloseWriter, ExitProcess, AutoFlush, ReplaceFile, Kill, allVars, commandVars
  <2>4. QED
    BY <2>2, <2>3
<1>11. QED
  BY <1>2, <1>4, <1>5, <1>7, <1>8, <1>9, <1>10 DEF CommandInv

\* The run command keeps the invariant, whichever workers outlive the drain and
\* whenever the file is replaced or the process killed.
THEOREM CommandInvariant == CommandSpec => []CommandInv
<1>1. CommandInv /\ [CommandNext]_allVars => CommandInv'
  BY RunStep, CommandStep DEF CommandNext
<1>2. QED
  BY <1>1, CommandInit, PTL DEF CommandSpec

\* The command's steps and the statuses it may end with.
THEOREM CommandTypes == CommandSpec => []CommandTypeOK
<1>1. CommandInv => CommandTypeOK
  BY DEF CommandInv
<1>2. QED
  BY <1>1, CommandInvariant, PTL

\* A Close that follows Run leaves every accepted row in requests.csv.
THEOREM CommandRecord == CommandSpec => []RecordSurvivesExit
<1>1. CommandInv => RecordSurvivesExit
  BY DEF CommandInv, CommandOrder, FileKept, RecordSurvivesExit
<1>2. QED
  BY <1>1, CommandInvariant, PTL

\* verifyRecordIntegrity decides exit 4: a lost file gives it, a drained run
\* whose file was left alone never does.
THEOREM CommandExitFour == CommandSpec => []ExitFourHonest
<1>1. ASSUME CommandInv PROVE ExitFourHonest
  <2>1. exit = 4 => Exited
    BY DEF Exited
  <2>2. recordsOK \in BOOLEAN
    BY <1>1 DEF CommandInv, CommandTypeOK
  <2>3. Exited => (exit = 4 <=> ~recordsOK)
    BY <1>1, <2>2 DEF CommandInv, Verified, Status
  <2>4. QED
    BY <1>1, <2>1, <2>3 DEF CommandInv, CommandOrder, Verified, ExitFourHonest
<1>2. QED
  BY <1>1, CommandInvariant, PTL

\* Exit 0 means the profile was sent whole and, if drained, recorded whole.
THEOREM CommandSuccess == CommandSpec => []SuccessIsComplete
<1>1. ASSUME CommandInv, exit = 0
      PROVE  /\ used = TotalPlanned
             /\ outcome.drained => wantRows = used /\ \A w \in 1 .. used : rows[w] = 1
  <2>1. /\ Exited /\ cmd = "exit" /\ pc = "returned"
        /\ Status(outcome.reason, recordsOK) = 0
    BY <1>1 DEF CommandInv, CommandOrder, Verified, Exited
  <2>2. outcome.reason \notin {"signal", "auto_abort", "error"}
    BY <2>1 DEF Status
  <2>3. /\ used \in Nat /\ used <= MaxUnits /\ MaxUnits \in Nat
        /\ budget \in Nat /\ profile \in Profiles
    BY <1>1, Types DEF CommandInv, RunnerInv
  <2>4. TotalPlanned \in Nat
    BY <2>3, PlanFacts
  <2>5. outcome.reason = "completed"
    BY <1>1, <2>1, <2>2, <2>3, <2>4 DEF CommandInv, RunnerInv, Returned, CheckAgainstQuota
  <2>6. used = TotalPlanned /\ rows[0] = 0
    BY <1>1, <2>1, <2>5 DEF CommandInv, RunnerInv, Returned
  <2>7. ASSUME outcome.drained PROVE wantRows = used /\ \A w \in 1 .. used : rows[w] = 1
    <3>1. \A w \in Units : rows[w] = IF w > used THEN 0 ELSE 1
      BY <1>1, <2>1, <2>7 DEF CommandInv, RowsSettled
    <3>2. wantRows = used
      BY <1>1, <2>1, <2>3, <2>6, <2>7, <3>1, SettledCount DEF CommandInv, Verified
    <3>3. QED
      BY <2>3, <3>1, <3>2 DEF Units
  <2>8. QED
    BY <2>6, <2>7
<1>2. CommandInv => SuccessIsComplete
  BY <1>1 DEF SuccessIsComplete
<1>3. QED
  BY <1>2, CommandInvariant, PTL
=============================================================================

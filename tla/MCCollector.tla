----------------------------- MODULE MCCollector ------------------------------
(* Two attempts, in one stage and in two: a small and a large latency that     *)
(* race for minimum and maximum, below zero and beyond the range among them;   *)
(* seconds not seen before, reached together and out of order, one before the  *)
(* start of the run; every outcome.  Four sub-buckets give six counts, of which *)
(* the upper ones hold two values each.                                        *)
EXTENDS Collector

A(stage, value, outcome, sentAt, doneAt) ==
    [stage |-> stage, value |-> value, outcome |-> outcome, sentAt |-> sentAt, doneAt |-> doneAt]

MCStages == <<"ramp", "peak">>

MCPlans ==
    {<<A("ramp", 5, "timeout", -1, 1), A("ramp", -1, "ok", 0, 2)>>,
     <<A("ramp", 3, "failed", 0, 2), A("peak", 9, "timeout", 0, 1)>>,
     <<A("ramp", 6, "ok", 0, 1), A("ramp", 6, "failed", 1, 1)>>}
=============================================================================

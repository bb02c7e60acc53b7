----------------------------- MODULE BreakerSpec -----------------------------
(***************************************************************************)
(* What load.Breaker promises, stated on the whole history of outcomes     *)
(* rather than on a ring and running counters: the run is aborted at the   *)
(* first outcome after which the last `consecutive` outcomes all failed,   *)
(* or a full window of the latest outcomes fails at the limiting rate.     *)
(***************************************************************************)
EXTENDS Integers, Sequences, FiniteSets

VARIABLES
    limits,   \* [num, den, window, consecutive]: the rate is num/den
    outcomes, \* every outcome filed so far, TRUE for a failure
    aborted

specVars == <<limits, outcomes, aborted>>

\* The failures among the last n outcomes.
FailuresInLast(n) ==
    Cardinality({i \in (Len(outcomes) - n + 1) .. Len(outcomes) : outcomes[i]})

RunOfFailures ==
    /\ limits.consecutive > 0
    /\ Len(outcomes) >= limits.consecutive
    /\ FailuresInLast(limits.consecutive) = limits.consecutive

WindowOverRate ==
    /\ limits.num > 0
    /\ Len(outcomes) >= limits.window
    /\ FailuresInLast(limits.window) * limits.den >= limits.num * limits.window

ShouldAbort == RunOfFailures \/ WindowOverRate

SpecInit ==
    /\ outcomes = << >>
    /\ aborted = FALSE

\* One more outcome, unless the run is aborted already.
FileOutcome ==
    /\ ~aborted
    /\ \E failed \in BOOLEAN : outcomes' = Append(outcomes, failed)
    /\ aborted' = ShouldAbort'
    /\ UNCHANGED limits

HistorySpec == SpecInit /\ [][FileOutcome]_specVars
=============================================================================

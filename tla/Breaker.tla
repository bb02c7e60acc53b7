------------------------------- MODULE Breaker -------------------------------
(***************************************************************************)
(* load.Breaker (internal/load/breaker.go): the circuit breaker that       *)
(* aborts a run that is going badly.  Record holds the mutex throughout,   *)
(* so filing an outcome is one step, whichever worker takes it.            *)
(***************************************************************************)
EXTENDS BreakerRing, Sequences, FiniteSets

CONSTANTS
    Limits,      \* NewBreaker arguments: records [num, den, window, consecutive]
    MaxOutcomes  \* bound on the outcomes filed in one behaviour

ASSUME BreakerAssumption ==
    /\ Limits \subseteq [num : Int, den : Nat \ {0}, window : Int, consecutive : Int]
    /\ MaxOutcomes \in Nat

-----------------------------------------------------------------------------
VARIABLES
    breaker,  \* the struct
    history   \* every outcome filed before the breaker tripped, in order

vars == <<breaker, history>>

Init ==
    /\ \E l \in Limits : breaker = NewBreaker(l)
    /\ history = << >>

\* A worker files an outcome.
RecordOutcome(failed) ==
    /\ Len(history) < MaxOutcomes
    /\ breaker' = Record(breaker, failed)
    /\ history' = IF Disabled(breaker) \/ breaker.tripped
                  THEN history ELSE Append(history, failed)

Next == \E failed \in BOOLEAN : RecordOutcome(failed)

Spec == Init /\ [][Next]_vars

-----------------------------------------------------------------------------
Slots == 0 .. breaker.window - 1

TypeOK ==
    /\ breaker.window \in Nat \ {0}
    /\ breaker.recent \in [Slots -> BOOLEAN]
    /\ breaker.pos \in Slots
    /\ breaker.filled \in 0 .. breaker.window
    /\ breaker.failures \in Nat
    /\ breaker.consecutive \in Nat
    /\ breaker.tripped \in BOOLEAN
    /\ breaker.reason \in {"none", "consecutive", "rate"}
    /\ history \in Seq(BOOLEAN)

\* The running count is the number of failures in the ring: nothing that slid
\* out of the window is still counted and nothing in it was discounted.
FailuresMatchRing ==
    breaker.failures = Cardinality({i \in Slots : breaker.recent[i]})

\* The ring holds the latest outcomes, and the running count is theirs: going
\* back k slots from pos, modulo the window, finds the k-th latest outcome of
\* the history.
RingIsRecentHistory ==
    /\ FailuresMatchRing
    /\ \A k \in 1 .. breaker.filled :
          breaker.recent[(breaker.pos - k) % breaker.window]
              = history[Len(history) + 1 - k]

\* The breaker as a decision on the whole history.
H == INSTANCE BreakerSpec WITH
        limits <- [num |-> breaker.num, den |-> breaker.den, window |-> breaker.window,
                   consecutive |-> breaker.consecutiveLimit],
        outcomes <- history, aborted <- breaker.tripped

\* Ring, counters and switch decide exactly as the history does: the breaker
\* trips at the first outcome that calls for it, and at no other.
ImplementsHistory == H!HistorySpec
=============================================================================

-------------------------------- MODULE Quota --------------------------------
(***************************************************************************)
(* load.Quota (internal/load/quota.go): the atomic budget of physical      *)
(* request attempts.  One action per atomic operation of Acquire, so that  *)
(* callers, and the Close of a stopping run, interleave between the check  *)
(* of `closed`, the load of `used` and the compare-and-swap.               *)
(***************************************************************************)
EXTENDS Integers, Sequences, FiniteSets

CONSTANTS
    Callers,   \* goroutines that call Acquire
    Budgets,   \* budget arguments NewQuota may be given
    HardCaps   \* hardCap arguments; zero or less means no cap

ASSUME QuotaAssumption ==
    /\ IsFiniteSet(Callers)
    /\ Budgets \subseteq Int
    /\ HardCaps \subseteq Int

VARIABLES
    budget, hardCap,  \* the struct's immutable fields
    used,             \* atomic.Int64
    closed,           \* atomic.Bool
    pc,               \* where each caller is in Acquire
    cur,              \* each caller's local: the value it loaded from used
    result,           \* what each caller's latest call returned
    grants,           \* history: the sequence numbers returned, in CAS order
    usedAtClose       \* history: used when closed was first set, -1 before

vars == <<budget, hardCap, used, closed, pc, cur, result, grants, usedAtClose>>
config == <<budget, hardCap>>

-----------------------------------------------------------------------------
\* Variant: the clamp left out.
NewQuotaUnclamped(b, h) == budget = b /\ hardCap = h

\* NewQuota: the budget is clamped to the hard cap, when there is one.
NewQuota(b, h) ==
    /\ budget = IF h > 0 /\ b > h THEN h ELSE b
    /\ hardCap = h

\* Remaining: what the runner plans a stage against.
Remaining == IF budget - used < 0 THEN 0 ELSE budget - used

\* Variant: > where the code has >=.
SpentPastEnd(n) == n > budget \/ (hardCap > 0 /\ n > hardCap)

\* The two refusals inside the loop, on the value just loaded.
Spent(n) == n >= budget \/ (hardCap > 0 /\ n >= hardCap)

Init ==
    /\ \E b \in Budgets, h \in HardCaps : NewQuota(b, h)
    /\ used = 0
    /\ closed = FALSE
    /\ pc = [c \in Callers |-> "idle"]
    /\ cur = [c \in Callers |-> 0]
    /\ result = [c \in Callers |-> "none"]
    /\ grants = << >>
    /\ usedAtClose = -1

\* Variant: Acquire without the check of closed.
CheckClosedNever(c) ==
    /\ pc[c] = "idle"
    /\ pc' = [pc EXCEPT ![c] = "load"]
    /\ UNCHANGED <<config, used, closed, cur, result, grants, usedAtClose>>

\* Acquire is entered: closed is read, once, before the loop.
CheckClosed(c) ==
    /\ pc[c] = "idle"
    /\ IF closed
       THEN result' = [result EXCEPT ![c] = "exhausted"] /\ UNCHANGED pc
       ELSE pc' = [pc EXCEPT ![c] = "load"] /\ UNCHANGED result
    /\ UNCHANGED <<config, used, closed, cur, grants, usedAtClose>>

\* The head of the loop: load used, refuse or go on to the swap.
Load(c) ==
    /\ pc[c] = "load"
    /\ IF Spent(used)
       THEN /\ result' = [result EXCEPT ![c] = "exhausted"]
            /\ pc' = [pc EXCEPT ![c] = "idle"]
            /\ UNCHANGED cur
       ELSE /\ cur' = [cur EXCEPT ![c] = used]
            /\ pc' = [pc EXCEPT ![c] = "cas"]
            /\ UNCHANGED result
    /\ UNCHANGED <<config, used, closed, grants, usedAtClose>>

\* Variants of the swap: a plain store, which issues a unit taken meanwhile
\* again; a lost swap reported as exhaustion; a lost swap retried unreloaded.
StoreNext(c) ==
    /\ pc[c] = "cas"
    /\ used' = cur[c] + 1
    /\ grants' = Append(grants, cur[c] + 1)
    /\ result' = [result EXCEPT ![c] = "issued"]
    /\ pc' = [pc EXCEPT ![c] = "idle"]
    /\ UNCHANGED <<config, closed, cur, usedAtClose>>

SwapNoRetry(c) ==
    \/ used = cur[c] /\ StoreNext(c)
    \/ /\ pc[c] = "cas" /\ used # cur[c]
       /\ result' = [result EXCEPT ![c] = "exhausted"]
       /\ pc' = [pc EXCEPT ![c] = "idle"]
       /\ UNCHANGED <<config, used, closed, cur, grants, usedAtClose>>

SwapNoReload(c) == used = cur[c] /\ StoreNext(c)

\* CompareAndSwap(cur, cur+1): return cur+1, or lose and go round again.
CompareAndSwap(c) ==
    /\ pc[c] = "cas"
    /\ IF used = cur[c]
       THEN /\ used' = cur[c] + 1
            /\ grants' = Append(grants, cur[c] + 1)
            /\ result' = [result EXCEPT ![c] = "issued"]
            /\ pc' = [pc EXCEPT ![c] = "idle"]
       ELSE /\ pc' = [pc EXCEPT ![c] = "load"]
            /\ UNCHANGED <<used, grants, result>>
    /\ UNCHANGED <<config, closed, cur, usedAtClose>>

\* Close, called by Runner.stop from whichever goroutine stops the run.
Close ==
    /\ closed' = TRUE
    /\ usedAtClose' = IF closed THEN usedAtClose ELSE used
    /\ UNCHANGED <<config, used, pc, cur, result, grants>>

Acquire(c) == CheckClosed(c) \/ Load(c) \/ CompareAndSwap(c)

Next == Close \/ \E c \in Callers : Acquire(c)

Spec == Init /\ [][Next]_vars

\* Every goroutine inside Acquire keeps being scheduled.
FairSpec ==
    Spec /\ \A c \in Callers : WF_vars(Load(c)) /\ WF_vars(CompareAndSwap(c))

-----------------------------------------------------------------------------
\* The units that may ever be issued, from the fields Acquire reads.
Limit ==
    LET most == IF hardCap > 0 /\ hardCap < budget THEN hardCap ELSE budget
    IN  IF most < 0 THEN 0 ELSE most

\* Callers past the check of closed, that a Close no longer stops.
Past == {c \in Callers : pc[c] \in {"load", "cas"}}

TypeOK ==
    /\ budget \in Int /\ hardCap \in Int
    /\ used \in Nat
    /\ closed \in BOOLEAN
    /\ pc \in [Callers -> {"idle", "load", "cas"}]
    /\ cur \in [Callers -> Nat]
    /\ result \in [Callers -> {"none", "issued", "exhausted"}]
    /\ grants \in Seq(Nat)
    /\ usedAtClose \in Nat \cup {-1}

\* "No double issue": the n-th grant carries sequence number n, so no number
\* is returned twice or skipped, however many swaps were lost on the way.
NoDoubleIssue ==
    /\ Len(grants) = used
    /\ \A n \in DOMAIN grants : grants[n] = n

\* "No issue past the cap": neither the run's budget nor the engagement's
\* hard cap is ever exceeded, at the boundary with several callers included.
WithinCap == used <= Limit

\* What Remaining tells the runner, which plans a stage from it, is exactly
\* what can still be issued: the hard cap is never hidden behind the budget.
RemainingHonest == Remaining = Limit - used

\* After Close, a unit can be issued only to a caller that had already passed
\* the check of closed, and once to each: at most one unit per goroutine.
LateIssuesBounded ==
    closed => (used - usedAtClose) + Cardinality(Past) <= Cardinality(Callers)

\* A call that was refused while the quota is open is refused for good: the
\* budget really is spent then, and never un-spends.
RefusalIsFinal ==
    [][\A c \in Callers :
          result[c] # "exhausted" /\ result'[c] = "exhausted"
             => closed \/ used' = Limit]_vars

\* Every Acquire returns: a lost swap means another caller took a unit, and
\* there are finitely many.
AcquireReturns == \A c \in Callers : (pc[c] # "idle") ~> (pc[c] = "idle")

-----------------------------------------------------------------------------
\* The linearisation: a call is admitted when it passes the check of closed,
\* granted at its successful swap, refused at the load that finds no unit.
callOf ==
    [c \in Callers |->
        IF pc[c] # "idle" THEN "admitted"
        ELSE CASE result[c] = "issued"    -> "granted"
               [] result[c] = "exhausted" -> "refused"
               [] OTHER                   -> "none"]

B == INSTANCE BudgetSpec WITH
        limit <- Limit, granted <- used, open <- ~closed, call <- callOf

\* The lock-free counter implements the one-step budget.
ImplementsBudget == B!BudgetSafety
=============================================================================

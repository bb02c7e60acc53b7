----------------------------- MODULE QuotaProofs -----------------------------
(***************************************************************************)
(* load.Quota for every set of callers, budget and hard cap: the counter   *)
(* is exact under any interleaving, overshoots a Close by at most one unit *)
(* per caller, and implements the one-step budget of BudgetSpec.           *)
(***************************************************************************)
EXTENDS Quota, FiniteSetTheorems, TLAPS

\* The clamp of NewQuota, kept: no budget above a hard cap.
Clamped == hardCap > 0 => budget <= hardCap

\* A caller about to swap loaded a value that was below the limit.
SwapBelowLimit == \A c \in Callers : pc[c] = "cas" => cur[c] < Limit

\* usedAtClose is a real reading of the counter once the quota is closed.
CloseStamped == closed => usedAtClose \in Nat

\* The inductive strengthening of the properties of Quota.
QuotaInv ==
    /\ TypeOK
    /\ NoDoubleIssue
    /\ WithinCap
    /\ Clamped
    /\ SwapBelowLimit
    /\ CloseStamped
    /\ LateIssuesBounded

-----------------------------------------------------------------------------
\* Appending keeps a sequence of numbers one.
LEMMA AppendType ==
    ASSUME NEW s \in Seq(Nat), NEW n \in Nat
    PROVE  Append(s, n) \in Seq(Nat)
OBVIOUS

\* Under the clamp, Spent is exactly "the limit is reached".
LEMMA SpentIsLimit ==
    ASSUME TypeOK, Clamped
    PROVE  /\ Limit \in Nat
           /\ \A n \in Nat : Spent(n) <=> n >= Limit
BY DEF TypeOK, Clamped, Limit, Spent

\* The set of callers past the check is finite, and no larger than Callers.
LEMMA PastFinite ==
    /\ IsFiniteSet(Past)
    /\ Cardinality(Past) \in Nat
    /\ Cardinality(Callers) \in Nat
    /\ Cardinality(Past) <= Cardinality(Callers)
<1>1. Past \subseteq Callers
  BY DEF Past
<1>2. QED
  BY <1>1, QuotaAssumption, FS_Subset, FS_CardinalityType

\* A caller that leaves Acquire leaves one caller fewer past the check.
LEMMA PastShrinks ==
    ASSUME TypeOK, NEW c \in Callers, c \in Past,
           pc' = [pc EXCEPT ![c] = "idle"]
    PROVE  /\ IsFiniteSet(Past')
           /\ Cardinality(Past') = Cardinality(Past) - 1
<1>1. Past' = Past \ {c}
  BY DEF Past, TypeOK
<1>2. QED
  BY <1>1, PastFinite, FS_RemoveElement

\* A caller that moves between the two steps of the loop stays past the check.
LEMMA PastKept ==
    ASSUME TypeOK, NEW c \in Callers, c \in Past,
           NEW l \in {"load", "cas"}, pc' = [pc EXCEPT ![c] = l]
    PROVE  Past' = Past
BY DEF Past, TypeOK

-----------------------------------------------------------------------------
\* NewQuota establishes the invariant.
LEMMA InitInv == Init => QuotaInv
<1> SUFFICES ASSUME Init PROVE QuotaInv
  OBVIOUS
<1> USE DEF Init, NewQuota
<1>0. budget \in Int /\ hardCap \in Int /\ (hardCap > 0 => budget <= hardCap)
  <2>1. PICK b \in Budgets, h \in HardCaps : NewQuota(b, h)
    OBVIOUS
  <2>2. b \in Int /\ h \in Int
    BY QuotaAssumption
  <2>3. QED
    BY <2>1, <2>2
<1>1. TypeOK
  <2>1. grants \in Seq(Nat) /\ usedAtClose \in Nat \cup {-1}
    OBVIOUS
  <2>2. closed \in BOOLEAN /\ used \in Nat
    OBVIOUS
  <2>3. /\ pc \in [Callers -> {"idle", "load", "cas"}]
        /\ cur \in [Callers -> Nat]
        /\ result \in [Callers -> {"none", "issued", "exhausted"}]
    OBVIOUS
  <2>4. QED
    BY <1>0, <2>1, <2>2, <2>3 DEF TypeOK
<1>2. NoDoubleIssue
  BY DEF NoDoubleIssue
<1>3. Clamped
  BY <1>0 DEF Clamped
<1>4. WithinCap
  BY <1>1, <1>3, SpentIsLimit DEF WithinCap
<1>5. SwapBelowLimit /\ CloseStamped /\ LateIssuesBounded
  BY DEF SwapBelowLimit, CloseStamped, LateIssuesBounded
<1>6. QED
  BY <1>1, <1>2, <1>3, <1>4, <1>5 DEF QuotaInv

\* Each atomic operation of Acquire, and Close, preserves it.
LEMMA StepInv == QuotaInv /\ [Next]_vars => QuotaInv'
<1> SUFFICES ASSUME QuotaInv, [Next]_vars PROVE QuotaInv'
  OBVIOUS
<1> USE DEF QuotaInv
<1>L. Limit \in Nat /\ \A n \in Nat : Spent(n) <=> n >= Limit
  BY SpentIsLimit
<1>F. /\ Cardinality(Past) \in Nat /\ Cardinality(Callers) \in Nat
      /\ Cardinality(Past) <= Cardinality(Callers)
  BY PastFinite
<1>1. ASSUME NEW c \in Callers, CheckClosed(c) PROVE QuotaInv'
  <2> USE <1>1 DEF CheckClosed, config
  <2>1. TypeOK' /\ NoDoubleIssue' /\ Clamped' /\ CloseStamped'
    BY DEF TypeOK, NoDoubleIssue, Clamped, CloseStamped
  <2>2. Limit' = Limit
    BY DEF Limit
  <2>3. WithinCap' /\ SwapBelowLimit'
    BY <2>2 DEF WithinCap, SwapBelowLimit, TypeOK
  <2>4. LateIssuesBounded'
    <3>1. closed' => Past' = Past
      BY DEF Past
    <3>2. QED
      BY <3>1 DEF LateIssuesBounded
  <2>5. QED
    BY <2>1, <2>3, <2>4
<1>2. ASSUME NEW c \in Callers, Load(c) PROVE QuotaInv'
  <2> USE <1>2 DEF Load, config
  <2>1. TypeOK' /\ NoDoubleIssue' /\ Clamped' /\ CloseStamped'
    BY DEF TypeOK, NoDoubleIssue, Clamped, CloseStamped
  <2>2. Limit' = Limit
    BY DEF Limit
  <2>3. WithinCap' /\ SwapBelowLimit'
    BY <2>2, <1>L DEF WithinCap, SwapBelowLimit, TypeOK
  <2>4. LateIssuesBounded'
    <3>0. c \in Past
      BY DEF Past
    <3>1. CASE pc' = [pc EXCEPT ![c] = "idle"]
      <4>1. Cardinality(Past') = Cardinality(Past) - 1
        BY <3>0, <3>1, PastShrinks
      <4>2. QED
        BY <4>1, <1>F DEF LateIssuesBounded, CloseStamped, TypeOK
    <3>2. CASE pc' = [pc EXCEPT ![c] = "cas"]
      BY <3>0, <3>2, PastKept DEF LateIssuesBounded
    <3>3. QED
      BY <3>1, <3>2
  <2>5. QED
    BY <2>1, <2>3, <2>4
<1>3. ASSUME NEW c \in Callers, CompareAndSwap(c) PROVE QuotaInv'
  <2> USE <1>3 DEF CompareAndSwap, config
  <2>0. cur[c] + 1 \in Nat
    BY DEF TypeOK
  <2>1. TypeOK' /\ Clamped' /\ CloseStamped'
    <3>1. used' \in Nat
      BY <2>0 DEF TypeOK
    <3>0. grants' \in Seq(Nat)
      <4>1. grants' = grants \/ grants' = Append(grants, cur[c] + 1)
        OBVIOUS
      <4>2. grants \in Seq(Nat)
        BY DEF TypeOK
      <4>3. Append(grants, cur[c] + 1) \in Seq(Nat)
        BY <2>0, <4>2, AppendType
      <4>4. QED
        BY <4>1, <4>2, <4>3
    <3>2. pc' \in [Callers -> {"idle", "load", "cas"}]
      BY DEF TypeOK
    <3>3. result' \in [Callers -> {"none", "issued", "exhausted"}]
      BY DEF TypeOK
    <3>4. QED
      BY <3>0, <3>1, <3>2, <3>3 DEF TypeOK, Clamped, CloseStamped
  <2>2. Limit' = Limit
    BY DEF Limit
  <2>3. c \in Past
    BY DEF Past
  <2>4. CASE used = cur[c]
    <3>1. NoDoubleIssue'
      <4>1. /\ grants \in Seq(Nat)
            /\ grants' = Append(grants, cur[c] + 1)
            /\ Len(grants) = cur[c]
            /\ used' = cur[c] + 1
        BY <2>4 DEF NoDoubleIssue, TypeOK
      <4>2. /\ Len(grants') = cur[c] + 1
            /\ DOMAIN grants' = 1 .. (cur[c] + 1)
            /\ grants'[cur[c] + 1] = cur[c] + 1
            /\ \A n \in 1 .. cur[c] : grants'[n] = grants[n]
        BY <4>1, <2>0
      <4>3. \A n \in 1 .. cur[c] : grants[n] = n
        BY <4>1 DEF NoDoubleIssue
      <4>4. QED
        BY <4>1, <4>2, <4>3, <2>0 DEF NoDoubleIssue
    <3>2. WithinCap' /\ SwapBelowLimit'
      BY <2>2, <2>4, <1>L DEF WithinCap, SwapBelowLimit, TypeOK
    <3>3. LateIssuesBounded'
      <4>1. Cardinality(Past') = Cardinality(Past) - 1
        BY <2>3, <2>4, PastShrinks
      <4>2. QED
        BY <4>1, <2>4, <1>F DEF LateIssuesBounded, CloseStamped, TypeOK
    <3>4. QED
      BY <2>1, <3>1, <3>2, <3>3
  <2>5. CASE used # cur[c]
    <3>1. NoDoubleIssue' /\ WithinCap' /\ SwapBelowLimit'
      BY <2>2, <2>5 DEF NoDoubleIssue, WithinCap, SwapBelowLimit, TypeOK
    <3>2. LateIssuesBounded'
      BY <2>3, <2>5, PastKept DEF LateIssuesBounded
    <3>3. QED
      BY <2>1, <3>1, <3>2
  <2>6. QED
    BY <2>4, <2>5
<1>4. CASE Close
  <2> USE <1>4 DEF Close, config
  <2>1. TypeOK' /\ NoDoubleIssue' /\ Clamped' /\ CloseStamped'
    BY DEF TypeOK, NoDoubleIssue, Clamped, CloseStamped
  <2>2. Limit' = Limit /\ Past' = Past
    BY DEF Limit, Past
  <2>3. WithinCap' /\ SwapBelowLimit'
    BY <2>2 DEF WithinCap, SwapBelowLimit
  <2>4. LateIssuesBounded'
    BY <2>2, <1>F DEF LateIssuesBounded, TypeOK
  <2>5. QED
    BY <2>1, <2>3, <2>4
<1>5. CASE UNCHANGED vars
  <2>1. Limit' = Limit /\ Past' = Past
    BY <1>5 DEF Limit, Past, vars
  <2>2. QED
    BY <1>5, <2>1 DEF vars, TypeOK, NoDoubleIssue, WithinCap, Clamped,
                      SwapBelowLimit, CloseStamped, LateIssuesBounded
<1>6. QED
  BY <1>1, <1>2, <1>3, <1>4, <1>5 DEF Next, Acquire

\* The strengthened invariant holds in every reachable state.
THEOREM QuotaInvariant == Spec => []QuotaInv
<1>1. QED
  BY InitInv, StepInv, PTL DEF Spec

\* Type correctness, for every set of callers, budgets and hard caps.
THEOREM QuotaTypeOK == Spec => []TypeOK
<1>1. QuotaInv => TypeOK
  BY DEF QuotaInv
<1>2. QED
  BY <1>1, QuotaInvariant, PTL

\* Sequence numbers are handed out once each, without a gap, by any number
\* of goroutines racing in Acquire.
THEOREM QuotaNoDoubleIssue == Spec => []NoDoubleIssue
<1>1. QuotaInv => NoDoubleIssue
  BY DEF QuotaInv
<1>2. QED
  BY <1>1, QuotaInvariant, PTL

\* The counter never passes the budget or the hard cap.
THEOREM QuotaWithinCap == Spec => []WithinCap
<1>1. QuotaInv => WithinCap
  BY DEF QuotaInv
<1>2. QED
  BY <1>1, QuotaInvariant, PTL

\* Remaining is exactly the number of units that can still be issued.
THEOREM QuotaRemainingHonest == Spec => []RemainingHonest
<1>1. QuotaInv => RemainingHonest
  BY DEF QuotaInv, RemainingHonest, Remaining, WithinCap, Clamped, Limit, TypeOK
<1>2. QED
  BY <1>1, QuotaInvariant, PTL

\* After Close, at most one unit per goroutine is still issued.
THEOREM QuotaLateIssues == Spec => []LateIssuesBounded
<1>1. QuotaInv => LateIssuesBounded
  BY DEF QuotaInv
<1>2. QED
  BY <1>1, QuotaInvariant, PTL

-----------------------------------------------------------------------------
\* Every step of the lock-free counter is a step of the one-step budget, or
\* invisible to it: a load that goes on to the swap, and a lost swap.
LEMMA StepRefines ==
    ASSUME QuotaInv, [Next]_vars
    PROVE  [B!BudgetNext]_(B!budgetVars)
<1> USE DEF QuotaInv
<1>L. Limit \in Nat /\ \A n \in Nat : Spent(n) <=> n >= Limit
  BY SpentIsLimit
<1>T. /\ pc \in [Callers -> {"idle", "load", "cas"}]
      /\ result \in [Callers -> {"none", "issued", "exhausted"}]
      /\ used \in Nat
  BY DEF TypeOK
<1>1. ASSUME NEW c \in Callers, CheckClosed(c)
      PROVE  B!Admit(c) \/ B!Refuse(c)
  <2> USE <1>1, <1>T DEF CheckClosed, config
  <2>1. Limit' = Limit
    BY DEF Limit
  <2>2. CASE closed
    <3>1. callOf' = [callOf EXCEPT ![c] = "refused"] /\ callOf[c] \in B!Settled
      BY <2>2 DEF callOf, B!Settled
    <3>2. QED
      BY <2>1, <2>2, <3>1 DEF B!Refuse
  <2>3. CASE ~closed
    <3>1. callOf' = [callOf EXCEPT ![c] = "admitted"] /\ callOf[c] \in B!Settled
      BY <2>3 DEF callOf, B!Settled
    <3>2. QED
      BY <2>1, <2>3, <3>1 DEF B!Admit
  <2>4. QED
    BY <2>2, <2>3
<1>2. ASSUME NEW c \in Callers, Load(c)
      PROVE  B!Refuse(c) \/ UNCHANGED B!budgetVars
  <2> USE <1>2, <1>T DEF Load, config
  <2>1. Limit' = Limit
    BY DEF Limit
  <2>2. CASE Spent(used)
    <3>1. callOf' = [callOf EXCEPT ![c] = "refused"] /\ callOf[c] = "admitted"
      BY <2>2 DEF callOf
    <3>2. QED
      BY <2>1, <2>2, <1>L, <3>1 DEF B!Refuse
  <2>3. CASE ~Spent(used)
    <3>1. callOf' = callOf
      BY <2>3 DEF callOf
    <3>2. QED
      BY <2>1, <3>1 DEF B!budgetVars
  <2>4. QED
    BY <2>2, <2>3
<1>3. ASSUME NEW c \in Callers, CompareAndSwap(c)
      PROVE  B!Grant(c) \/ UNCHANGED B!budgetVars
  <2> USE <1>3, <1>T DEF CompareAndSwap, config
  <2>1. Limit' = Limit
    BY DEF Limit
  <2>2. CASE used = cur[c]
    <3>1. callOf' = [callOf EXCEPT ![c] = "granted"] /\ callOf[c] = "admitted"
      BY <2>2 DEF callOf
    <3>2. used < Limit
      BY <2>2 DEF SwapBelowLimit
    <3>3. QED
      BY <2>1, <2>2, <3>1, <3>2 DEF B!Grant
  <2>3. CASE used # cur[c]
    <3>1. callOf' = callOf
      BY <2>3 DEF callOf
    <3>2. QED
      BY <2>1, <2>3, <3>1 DEF B!budgetVars
  <2>4. QED
    BY <2>2, <2>3
<1>4. ASSUME Close PROVE B!Shut
  <2>1. Limit' = Limit /\ callOf' = callOf
    BY <1>4 DEF Close, config, Limit, callOf
  <2>2. QED
    BY <1>4, <2>1 DEF Close, B!Shut
<1>5. ASSUME UNCHANGED vars PROVE UNCHANGED B!budgetVars
  BY <1>5 DEF vars, B!budgetVars, Limit, callOf
<1>6. QED
  BY <1>1, <1>2, <1>3, <1>4, <1>5 DEF Next, Acquire, B!BudgetNext

\* The quota implements the one-step budget: seen from its callers, each
\* Acquire is granted the next unit or refused in a single step.
THEOREM QuotaImplementsBudget == Spec => ImplementsBudget
<1>1. Init => B!BudgetInit
  <2> SUFFICES ASSUME Init PROVE B!BudgetInit
    OBVIOUS
  <2>1. Limit \in Nat
    BY InitInv, SpentIsLimit DEF QuotaInv
  <2>2. callOf = [c \in Callers |-> "none"]
    BY DEF Init, callOf
  <2>3. QED
    BY <2>1, <2>2 DEF Init, B!BudgetInit
<1>2. QuotaInv /\ [Next]_vars => [B!BudgetNext]_(B!budgetVars)
  BY StepRefines
<1>3. QED
  BY <1>1, <1>2, QuotaInvariant, PTL DEF Spec, ImplementsBudget, B!BudgetSafety

\* A refusal is honest: the budget is closed, or spent down to the last unit.
THEOREM QuotaRefusalIsFinal == Spec => RefusalIsFinal
<1> DEFINE Honest ==
      \A c \in Callers :
         result[c] # "exhausted" /\ result'[c] = "exhausted"
            => closed \/ used' = Limit
<1>1. ASSUME QuotaInv, [Next]_vars PROVE [Honest]_vars
  <2> USE <1>1 DEF QuotaInv
  <2>L. Limit \in Nat /\ \A n \in Nat : Spent(n) <=> n >= Limit
    BY SpentIsLimit
  <2>1. ASSUME NEW d \in Callers, CheckClosed(d) PROVE Honest
    BY <2>1 DEF CheckClosed, TypeOK
  <2>2. ASSUME NEW d \in Callers, Load(d) PROVE Honest
    BY <2>2, <2>L DEF Load, TypeOK, WithinCap
  <2>3. ASSUME NEW d \in Callers, CompareAndSwap(d) PROVE Honest
    BY <2>3 DEF CompareAndSwap, TypeOK
  <2>4. ASSUME Close PROVE Honest
    BY <2>4 DEF Close
  <2>5. QED
    BY <2>1, <2>2, <2>3, <2>4 DEF Next, Acquire
<1>2. QED
  BY <1>1, QuotaInvariant, PTL DEF Spec, RefusalIsFinal
=============================================================================

----------------------------- MODULE BudgetSpec -----------------------------
(***************************************************************************)
(* What load.Quota promises, seen from outside: a fixed budget of units,   *)
(* numbered from 1, each handed out exactly once, in order.  A call is     *)
(* admitted while the budget is open, and an admitted call is granted the  *)
(* next unit or refused because none is left.  Granting is one step: there *)
(* is no counter to read and no compare-and-swap to lose.                  *)
(***************************************************************************)
EXTENDS Integers

CONSTANT Callers

VARIABLES
    limit,    \* how many units may ever be granted
    granted,  \* how many have been granted: units 1 .. granted
    open,     \* FALSE once the budget was closed
    call      \* what each caller's latest call came to

budgetVars == <<limit, granted, open, call>>

Settled == {"none", "granted", "refused"}

BudgetInit ==
    /\ limit \in Nat
    /\ granted = 0
    /\ open = TRUE
    /\ call = [c \in Callers |-> "none"]

Admit(c) ==
    /\ call[c] \in Settled
    /\ open
    /\ call' = [call EXCEPT ![c] = "admitted"]
    /\ UNCHANGED <<limit, granted, open>>

Grant(c) ==
    /\ call[c] = "admitted"
    /\ granted < limit
    /\ granted' = granted + 1
    /\ call' = [call EXCEPT ![c] = "granted"]
    /\ UNCHANGED <<limit, open>>

\* Refused for want of units, or at the door because the budget is closed.
Refuse(c) ==
    /\ \/ call[c] = "admitted" /\ granted >= limit
       \/ call[c] \in Settled /\ ~open
    /\ call' = [call EXCEPT ![c] = "refused"]
    /\ UNCHANGED <<limit, granted, open>>

Shut ==
    /\ open' = FALSE
    /\ UNCHANGED <<limit, granted, call>>

BudgetNext ==
    \/ \E c \in Callers : Admit(c) \/ Grant(c) \/ Refuse(c)
    \/ Shut

BudgetSafety == BudgetInit /\ [][BudgetNext]_budgetVars
=============================================================================

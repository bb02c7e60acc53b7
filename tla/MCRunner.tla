------------------------------- MODULE MCRunner -------------------------------
(* Up to three requests over a pool of two.  The profiles put a sequential   *)
(* stage before and after a rate stage and make two rate stages overlap; the *)
(* budgets are nothing, and one below, at and above what a profile plans;    *)
(* the breaker trips on the first failure, so that three requests leave two  *)
(* to send after it, on half of a window of two, or never.                   *)
EXTENDS Runner

Seq1 == [mode |-> "sequential", planned |-> 1]
Rate2 == [mode |-> "rate", planned |-> 2]

MCProfiles == {<<Rate2>>, <<Seq1, Rate2>>, <<Rate2, Seq1>>, <<Rate2, Rate2>>}
MCBudgets == {0, 3}
MCLimits == {[num |-> 0, den |-> 1, window |-> 1, consecutive |-> 1],
             [num |-> 1, den |-> 2, window |-> 2, consecutive |-> 0],
             [num |-> 0, den |-> 1, window |-> 1, consecutive |-> 0]}
=============================================================================

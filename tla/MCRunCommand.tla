----------------------------- MODULE MCRunCommand -----------------------------
(* Up to three requests over a pool of two, the breaker at two consecutive   *)
(* failures or off: enough for one worker to outlive the drain while another *)
(* trips the breaker, and for main to be past its checks at that moment.     *)
EXTENDS RunCommand

MCProfiles == {<<[mode |-> "rate", planned |-> 3]>>,
               <<[mode |-> "sequential", planned |-> 1], [mode |-> "rate", planned |-> 1]>>}
MCBudgets == {3}
MCLimits == {[num |-> 0, den |-> 1, window |-> 1, consecutive |-> 2],
             [num |-> 0, den |-> 1, window |-> 1, consecutive |-> 0]}
=============================================================================

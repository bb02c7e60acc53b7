------------------------------- MODULE MCQuota -------------------------------
(* Three callers contending for budgets below, at and above the hard cap,   *)
(* with no cap (0) and with a budget that is already spent (0 and -1).      *)
EXTENDS Quota

CONSTANTS c1, c2, c3

MCCallers == {c1, c2, c3}
MCBudgets == {-1, 0, 2, 4}
MCHardCaps == {0, 1, 3}
=============================================================================

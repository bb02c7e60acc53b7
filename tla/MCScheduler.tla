----------------------------- MODULE MCScheduler -----------------------------
(* Three or four slots at rates whose interval is whole, truncated (a third *)
(* and a quarter of a second), and below one tick, with up to five ticks of *)
(* delay: a whole interval or more at every rate, so that a backlog of one  *)
(* slot or several builds up and is drained.                                *)
EXTENDS Scheduler

MCRates == {[num |-> 2, den |-> 1], [num |-> 3, den |-> 1],
            [num |-> 4, den |-> 1], [num |-> 12, den |-> 1]}
MCCounts == {0, 3, 4}
=============================================================================

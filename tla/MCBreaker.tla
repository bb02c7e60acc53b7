------------------------------ MODULE MCBreaker ------------------------------
(* Windows of 0 (raised to 1) to 4 outcomes, rates of a third to one, runs  *)
(* of consecutive failures shorter and longer than the window, each limit   *)
(* alone, both, and neither.  Eight outcomes take the largest ring twice    *)
(* round.                                                                   *)
EXTENDS Breaker

MCLimits ==
    {[num |-> r[1], den |-> r[2], window |-> w, consecutive |-> c] :
        r \in {<<0, 1>>, <<1, 3>>, <<1, 2>>, <<3, 4>>, <<1, 1>>},
        w \in {0, 2, 3, 4},
        c \in {0, 2, 3, 5}}
=============================================================================

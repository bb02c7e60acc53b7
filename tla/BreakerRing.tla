----------------------------- MODULE BreakerRing -----------------------------
(***************************************************************************)
(* The decision procedure of load.Breaker (internal/load/breaker.go), as   *)
(* functions on its struct.  The float ErrorRate is the rational num/den,  *)
(* and failures/filled >= ErrorRate is compared by cross-multiplication:   *)
(* both sides of the code's comparison are correctly rounded, so equal     *)
(* rationals compare equal there too.                                      *)
(***************************************************************************)
EXTENDS Integers

\* NewBreaker: a window below one is one.
NewBreaker(l) ==
    LET window == IF l.window < 1 THEN 1 ELSE l.window IN
    [num |-> l.num, den |-> l.den, window |-> window, consecutiveLimit |-> l.consecutive,
     recent |-> [i \in 0 .. window - 1 |-> FALSE], pos |-> 0, filled |-> 0,
     failures |-> 0, consecutive |-> 0, tripped |-> FALSE, reason |-> "none"]

Disabled(b) == b.num <= 0 /\ b.consecutiveLimit <= 0

\* Variant: the overwritten failure stays counted.
SlideKeeping(b, failed) ==
    [b EXCEPT !.recent[b.pos] = failed,
              !.pos = (b.pos + 1) % b.window,
              !.filled = IF @ < b.window THEN @ + 1 ELSE @,
              !.failures = @ + (IF failed THEN 1 ELSE 0),
              !.consecutive = IF failed THEN @ + 1 ELSE 0]

\* One outcome into the ring and the running counters.
Slide(b, failed) ==
    LET evicted == IF b.filled = b.window /\ b.recent[b.pos] THEN 1 ELSE 0 IN
    [b EXCEPT !.recent[b.pos] = failed,
              !.pos = (b.pos + 1) % b.window,
              !.filled = IF @ < b.window THEN @ + 1 ELSE @,
              !.failures = @ - evicted + (IF failed THEN 1 ELSE 0),
              !.consecutive = IF failed THEN @ + 1 ELSE 0]

\* Variant: the rate is judged before the window is full.
TripReasonEarly(b) ==
    CASE b.consecutiveLimit > 0 /\ b.consecutive >= b.consecutiveLimit -> "consecutive"
      [] b.num > 0 /\ b.failures * b.den >= b.num * b.filled           -> "rate"
      [] OTHER                                                        -> "none"

\* The switch: consecutive failures first, then the rate over a full window.
TripReason(b) ==
    IF b.consecutiveLimit > 0 /\ b.consecutive >= b.consecutiveLimit
    THEN "consecutive"
    ELSE IF /\ b.num > 0 /\ b.filled = b.window
            /\ b.failures * b.den >= b.num * b.filled
         THEN "rate"
         ELSE "none"

\* Record: nothing when disabled, nothing more once tripped.
Record(b, failed) ==
    IF Disabled(b) \/ b.tripped THEN b
    ELSE LET s == Slide(b, failed) IN
         [s EXCEPT !.tripped = TripReason(s) # "none", !.reason = TripReason(s)]
=============================================================================

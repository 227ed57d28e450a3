--------------------------- MODULE MCRequestPacing ---------------------------
(* RequestPacing for TLC: a clock that stops at MaxTime and short steps. *)
EXTENDS RequestPacing

CONSTANTS
    MaxTime,   \* the clock's bound
    MaxStep    \* the longest wait and the longest oversleeping

MCNext ==
    \E ticks \in 0..MaxStep :
        /\ now + Sleep + ticks <= MaxTime
        /\ Wait(ticks) \/ MakeRequest(ticks)

MCSpec == Init /\ [][MCNext]_vars
=============================================================================

---------------------------- MODULE RequestPacing ----------------------------
(***************************************************************************)
(* How makeRequest keeps its requests to the box apart: it compares the    *)
(* current second with the second of the request before, and sleeps 200 ms *)
(* when they are the same.  Time is counted in ticks; time() sees only     *)
(* whole seconds of them.                                                  *)
(***************************************************************************)
EXTENDS Naturals

CONSTANTS
    Second,     \* ticks in a second: 1000 ms in the code
    Sleep,      \* ticks of usleep: 200 ms in the code
    Epoch       \* the tick the daemon is started at

ASSUME PacingConstants ==
    /\ Second \in Nat /\ Second > 0
    /\ Sleep \in Nat /\ Sleep > 0
    /\ Epoch \in Nat /\ Epoch >= Second    \* not in second 0 of 1970

VARIABLES
    now,              \* the clock, in ticks
    lastRequestTime,  \* member of TitanRemote, in seconds
    started,          \* history: the tick the last request was made at
    burst             \* history: requests made in the second of the last one

vars == <<now, lastRequestTime, started, burst>>

\* time(0)
Seconds(t) == t \div Second

Init ==
    /\ now = Epoch
    /\ lastRequestTime = 0
    /\ started = 0
    /\ burst = 0

\* The last request is under way, or the daemon waits for the next one.
Wait(ticks) ==
    /\ now' = now + ticks
    /\ UNCHANGED <<lastRequestTime, started, burst>>

\* The request is made at tick t.
Made(t) ==
    /\ now' = t
    /\ started' = t
    /\ lastRequestTime' = Seconds(t)
    /\ burst' = IF Seconds(t) = Seconds(started) THEN burst + 1 ELSE 1

\* Fault: two requests of a second are not kept apart.
MakeRequestAtOnce(oversleep) == Made(now)

\* The head of makeRequest.  usleep may take longer than it was asked to.
MakeRequest(oversleep) ==
    \/ Seconds(now) = lastRequestTime /\ Made(now + Sleep + oversleep)
    \/ Seconds(now) # lastRequestTime /\ Made(now)

Next == \E ticks \in Nat : Wait(ticks) \/ MakeRequest(ticks)

Spec == Init /\ [][Next]_vars

-----------------------------------------------------------------------------
(* Properties *)

\* Type correctness of the clock and the member.
TypeOK ==
    /\ now \in Nat
    /\ lastRequestTime \in Nat
    /\ started \in Nat
    /\ burst \in Nat

\* The box gets at most as many requests in one second as sleeps fit into it,
\* five of 200 ms, although the program compares whole seconds only and forgets
\* the time of every request but the last (TitanRemote.cpp 52-63).
BurstBounded == burst > 0 => (burst - 1) * Sleep < Second
=============================================================================

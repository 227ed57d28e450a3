----------------------------- MODULE MCHttpServer -----------------------------
(* HttpServer for TLC: the client sends at most MaxSent requests, with the      *)
(* shortest and the longest headers, without a body or with the longest; where  *)
(* it expects "100 Continue" the request is a good one of the longest kind.     *)
EXTENDS HttpServer

CONSTANT MaxSent

Extreme(r) == r.head \in {1, MaxHead} /\ r.body \in {0, MaxBody}
Longest(r) == r.good /\ r.head = MaxHead /\ r.body = MaxBody

MCSend(r, hold) ==
    /\ Len(reqs) < MaxSent
    /\ Extreme(r) /\ (r.expect => Longest(r))
    /\ Send(r, hold)

MCNext ==
    \/ Receive \/ Output \/ Close \/ Leave \/ SendBody
    \/ \E r \in Request, hold \in BOOLEAN : MCSend(r, hold)

MCFairSpec == Init /\ [][MCNext]_vars /\ Fairness
=============================================================================

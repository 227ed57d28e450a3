-------------------------------- MODULE MCLog --------------------------------
(* Log for TLC: the daemon logs MaxCount lines. *)
EXTENDS Log

CONSTANT MaxCount

MCNext == Next /\ count' <= MaxCount

MCSpec == Init /\ [][MCNext]_vars
=============================================================================

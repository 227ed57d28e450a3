------------------------------- MODULE MCPlayer -------------------------------
(* Player for TLC: connections are interchangeable.  One of the sessions is the *)
(* one the server starts with: a client whose X-Apple-Session-ID is empty owns  *)
(* the media before anybody has played (AirPlay.cpp 16).                        *)
EXTENDS Player, TLC

CONSTANTS c1, c2, s1, s2

Symmetry == Permutations(Conns)
=============================================================================

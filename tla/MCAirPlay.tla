------------------------------ MODULE MCAirPlay ------------------------------
(* AirPlay for TLC: connections are interchangeable, and so are sessions. *)
EXTENDS AirPlay, TLC

CONSTANTS c1, c2, c3, s1, s2

Symmetry == Permutations(Conns) \cup Permutations(Sessions)
=============================================================================

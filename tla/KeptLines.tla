------------------------------ MODULE KeptLines ------------------------------
(***************************************************************************)
(* What the log promises: the lines it keeps are the latest ones, in the   *)
(* order they were logged and without a gap, until the disk refuses one.   *)
(* It may forget the oldest lines at any time.                             *)
(***************************************************************************)
EXTENDS Naturals, Sequences

VARIABLES
    kept,    \* numbers of the lines that can still be read
    count,   \* lines logged so far
    refused  \* the disk has refused a line

vars == <<kept, count, refused>>

Init == kept = <<>> /\ count = 0 /\ refused = FALSE

Log ==
    /\ kept' = Append(kept, count + 1)
    /\ count' = count + 1
    /\ UNCHANGED refused

\* The line is lost, or torn: part of it is in the file.
Refuse ==
    /\ kept' \in {kept, Append(kept, count + 1)}
    /\ count' = count + 1
    /\ refused' = TRUE

Forget(n) ==
    /\ kept' = SubSeq(kept, n + 1, Len(kept))
    /\ UNCHANGED <<count, refused>>

Next == Log \/ Refuse \/ \E n \in 1..Len(kept) : Forget(n)

Spec == Init /\ [][Next]_vars
=============================================================================

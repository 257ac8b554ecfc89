----------------------------- MODULE MCJobQueue -----------------------------
(* JobQueue with two jobs, the second one more urgent. *)
EXTENDS JobQueue

CONSTANTS w1, w2, j1, j2

Urgent == [j \in {j1, j2} |-> IF j = j1 THEN 1 ELSE 2]
=============================================================================

--------------------------- MODULE MCRunLifecycle ---------------------------
(* Two runs of one message: a response and its regeneration. *)
EXTENDS RunLifecycle

CONSTANTS r1, r2, q1

OneQuestion == [r \in {r1, r2} |-> q1]
=============================================================================

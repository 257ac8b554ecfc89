--------------------------- MODULE MCVaultBudget ---------------------------
(* Two paid calls, made by one process or by two. *)
EXTENDS VaultBudget, TLC

CONSTANTS api, worker, c1, c2

OneHome == c1 :> api @@ c2 :> api
TwoHomes == c1 :> api @@ c2 :> worker
AnyHomes == {OneHome, TwoHomes}
BothHomes == {TwoHomes}
MCCosts == {1, 3}

\* Two deaths interrupt a recovery.  With two processes one death has them race; it is
\* the API's, which takes every step the worker takes and the maintenance besides.
MCCrashes ==
  [h \in Homes |-> api :> (IF h = OneHome THEN 2 ELSE 1) @@ worker :> 0]
=============================================================================

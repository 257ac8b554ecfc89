--------------------------- MODULE MCClaimLedger ---------------------------
(* ClaimLedger with the ways of saying something that it tells apart. *)
EXTENDS ClaimLedger

Plain(by) == [by |-> by, correction |-> FALSE, ago |-> FALSE, arrived |-> "current"]
Said == {Plain("user"), Plain("first"), Plain("tool"),
         [Plain("user") EXCEPT !.ago = TRUE],
         [Plain("second") EXCEPT !.correction = TRUE],
         [Plain("tool") EXCEPT !.arrived = "stale"]}
=============================================================================

---------------------------- MODULE AtomicLedger ----------------------------
(***************************************************************************)
(* What the installation-budget lock promises: one authority, whose        *)
(* admissions happen one at a time, are never forgotten and never exceed   *)
(* the allowance.  InstallationBudget takes this for granted: each of its  *)
(* actions reads and replaces the ledger in one step.                      *)
(***************************************************************************)
EXTENDS Integers, FiniteSets

CONSTANTS Calls, Allowance

VARIABLE ledger   \* the calls the authority has admitted

Init == ledger = {}

Admit(c) ==
  /\ c \notin ledger
  /\ Cardinality(ledger) < Allowance
  /\ ledger' = ledger \cup {c}

Next == \E c \in Calls : Admit(c)

Spec == Init /\ [][Next]_ledger
=============================================================================

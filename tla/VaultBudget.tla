---------------------------- MODULE VaultBudget ----------------------------
(***************************************************************************)
(* One paid call of a vault is accounted for twice: by an entry of the     *)
(* installation-wide ledger file and by a row of the vault's own SQLite    *)
(* database (packages/database/src/index.ts).  No transaction spans the    *)
(* two, so this module interleaves the writes to each of them by the       *)
(* processes that have the vault open - the API and the worker - with      *)
(* crashes between any two of them.                                        *)
(*                                                                         *)
(* A step is one locked operation on the file (an action of                *)
(* InstallationBudget, here for one call at a time) or one SQLite          *)
(* statement or transaction.  The methods are synchronous, so a process    *)
(* runs one of them at a time (op).  The caps are InstallationBudget's     *)
(* subject: here admission by either store may simply be refused.          *)
(***************************************************************************)
EXTENDS Integers, FiniteSets

CONSTANTS
  Calls,       \* the paid calls, by reservation id
  Programs,    \* the processes that open this vault
  Maintainers, \* those of them that delete, reset and import: the API
  Homes,       \* the ways in which processes share the calls
  NoProgram,
  NoCall,
  Estimate,    \* the worst-case cost each call reserves
  Costs,       \* what a call may turn out to cost
  MaxCrashes   \* bound on the number of crashes, for each of the Homes and each process

ASSUME HomesAssumption == Homes \subseteq [Calls -> Programs]
ASSUME NoneAssumption == NoProgram \notin Programs /\ NoCall \notin Calls
ASSUME CostAssumption == Estimate \in Nat /\ Costs \subseteq Nat
ASSUME MaxCrashesAssumption == MaxCrashes \in [Homes -> [Programs -> Nat]]

VARIABLES
  charges,   \* the ledger entry of each call
  legacy,    \* the cost in the ledger entry that stands for the call's row in
             \* installation_budget_ledger, once that row names no reservation
  row,       \* the budget_reservations row of each call, with the cost that
             \* installation_budget_ledger holds for it
  expired,   \* the calls whose expires_at has passed
  stage,     \* where the code that makes each call is
  started,   \* the calls whose provider request has been sent
  dead,      \* the calls whose process died after it had begun them
  op,        \* the database method each process is in
  txn,       \* the process inside an immediate transaction, or NoProgram
  crashes,
  overtaken, \* ghost: the calls whose row was inserted while a process that opens the
             \* vault had read the rows and had yet to look for orphans in the file
  home       \* which process makes each call

accountVars == <<charges, legacy, row, expired, stage, started, dead, op, txn, crashes,
                 overtaken, home>>
callVars == <<expired, started, dead, crashes, legacy, overtaken, home>>

Running == {home[c] : c \in Calls}

Idle == [step |-> "idle", call |-> NoCall, todo |-> {}, settling |-> {},
         deleting |-> {}, cost |-> 0]

At(p, step) == op[p].step = step

\* The method goes on; it ends; it ends and the call with it.
GoOn(p, next) == op' = [op EXCEPT ![p].step = next]
Done(p) == op' = [op EXCEPT ![p] = Idle]
Close(c) == stage' = [stage EXCEPT ![c] = "closed"]

AccountInit ==
  /\ charges = [c \in Calls |-> [status |-> "absent", actual |-> 0]]
  /\ legacy = [c \in Calls |-> 0]
  /\ row = [c \in Calls |-> [status |-> "none", cost |-> 0, attached |-> FALSE]]
  /\ expired = {}
  /\ stage = [c \in Calls |-> "new"]
  /\ started = {}
  /\ dead = {}
  /\ op = [p \in Programs |-> [Idle EXCEPT !.step = "down"]]
  /\ txn = NoProgram
  /\ crashes = 0
  /\ overtaken = {}
  /\ home \in Homes

-----------------------------------------------------------------------------
(* Operations on the ledger file, each under its lock *)

Larger(a, b) == IF a >= b THEN a ELSE b

\* Faulty: the last cost reported wins.
ChargedLast(entry, cost) == [status |-> "committed", actual |-> cost]

\* reconcileCommitted, and commitConservatively with its fallback.
Charged(entry, cost) ==
  [status |-> "committed",
   actual |-> IF entry.status = "committed" THEN Larger(entry.actual, cost)
                                            ELSE cost]

Chargeable(c) == charges[c].status \in {"reserved", "committed"}

ReleasedBeforeCall(c) ==
  IF charges[c].status = "reserved"
    THEN [charges EXCEPT ![c].status = "released"]
    ELSE charges

ReservedRows == {c \in Calls : row[c].status = "reserved"}

ExpiredRows == ReservedRows \cap expired

-----------------------------------------------------------------------------
(* open: #releaseOrphanedInstallationReservations and                        *)
(* #synchronizeInstallationBudget                                            *)

\* The rows are read first ...
ReadAdmitted(p) ==
  /\ At(p, "down") /\ p \in Running
  /\ op' = [op EXCEPT ![p].step = "orphans",
                      ![p].todo = {c \in Calls : row[c].status \in
                                     {"reserved", "settled", "released"}}]
  /\ UNCHANGED <<charges, row, stage, txn, callVars>>

\* Faulty: the rows that were read are not spared.
ReleaseEveryOrphan(p) ==
  /\ At(p, "orphans")
  /\ charges' = [c \in Calls |->
       IF charges[c].status = "reserved" /\ c \in dead
         THEN [charges[c] EXCEPT !.status = "released"] ELSE charges[c]]
  /\ GoOn(p, "import")
  /\ UNCHANGED <<row, stage, txn, callVars>>

\* ... then the file's orphans are released: reserved, their process dead, and
\* not among the rows that were read.
ReleaseOrphans(p) ==
  /\ At(p, "orphans")
  /\ charges' = [c \in Calls |->
       IF charges[c].status = "reserved" /\ c \in dead /\ c \notin op[p].todo
         THEN [charges[c] EXCEPT !.status = "released"] ELSE charges[c]]
  /\ GoOn(p, "import")
  /\ UNCHANGED <<row, stage, txn, callVars>>

\* The rows are handed to reconcileLegacyEntries: under the reservation's id, or
\* as "legacy-application:<row id>" when the row names none.
ImportRows(p) ==
  /\ At(p, "import")
  /\ charges' = [c \in Calls |->
       CASE row[c].status = "settled" -> Charged(charges[c], row[c].cost)
         [] row[c].status = "reserved" /\ charges[c].status = "absent" ->
              [status |-> "reserved", actual |-> 0]
         [] OTHER -> charges[c]]
  /\ legacy' = [c \in Calls |-> IF row[c].status = "scrubbed"
                                  THEN Larger(legacy[c], row[c].cost) ELSE legacy[c]]
  /\ Done(p)
  /\ UNCHANGED <<row, expired, stage, started, dead, txn, crashes, overtaken, home>>

-----------------------------------------------------------------------------
(* Charging the expired reservations, then a transaction that settles them.  *)
(* reserveBudget, budgetSummary and reconcileOutstandingBudgetReservations   *)
(* all begin this way; the last one takes every reservation.                 *)

BeginReserve(p, c) ==
  /\ At(p, "idle")
  /\ home[c] = p
  /\ stage[c] = "new"
  /\ stage' = [stage EXCEPT ![c] = "reserving"]
  /\ op' = [op EXCEPT ![p] = [Idle EXCEPT !.step = "charge", !.call = c,
                                          !.todo = ExpiredRows]]
  /\ UNCHANGED <<charges, row, txn, callVars>>

BeginSummary(p) ==
  /\ At(p, "idle")
  /\ op' = [op EXCEPT ![p] = [Idle EXCEPT !.step = "charge", !.todo = ExpiredRows]]
  /\ UNCHANGED <<charges, row, stage, txn, callVars>>

\* The maintenance lock waits for every call in flight and for every other
\* process's work.
InMaintenance(p) ==
  /\ \A q \in Programs : op[q].step \in {"idle", "down"}
  /\ At(p, "idle") /\ p \in Maintainers
  /\ \A c \in Calls : stage[c] \in {"new", "closed"}

\* Vault reset and import run this before they scrub every row.
BeginOutstanding(p) ==
  /\ InMaintenance(p)
  /\ op' = [op EXCEPT ![p] = [Idle EXCEPT !.step = "chargeAll",
                                          !.todo = ReservedRows]]
  /\ UNCHANGED <<charges, row, stage, txn, callVars>>

\* #deleteRunDerivatives, in the transaction of a hard deletion; with every row
\* for S, the scrubbing of a reset or an import.
BeginDelete(p, S) ==
  /\ InMaintenance(p)
  /\ \A c \in S : row[c].status \in {"reserved", "settled", "released"}
  /\ txn = NoProgram
  /\ txn' = p
  /\ op' = [op EXCEPT ![p] = [Idle EXCEPT !.step = "settle", !.deleting = S,
                                !.todo = S \cap ReservedRows,
                                !.settling = S \cap ReservedRows]]
  /\ UNCHANGED <<charges, row, stage, callVars>>

\* A method that throws leaves its transaction; reserveBudget takes back what it
\* reserved in the file once that has happened.
Fail(p) ==
  LET c == op[p].call IN
  /\ txn' = IF txn = p THEN NoProgram ELSE txn
  /\ IF c # NoCall /\ txn = p
       THEN GoOn(p, "undo") /\ UNCHANGED stage
       ELSE /\ Done(p)
            /\ IF c # NoCall THEN Close(c) ELSE UNCHANGED stage

\* #commitCanonicalConservatively for one of the rows that were read.
ChargeNext(p) ==
  /\ op[p].step \in {"charge", "chargeAll", "settle"}
  /\ \E c \in op[p].todo :
       IF Chargeable(c)
         THEN /\ charges' = [charges EXCEPT ![c] = Charged(charges[c], Estimate)]
              /\ op' = [op EXCEPT ![p].todo = @ \ {c}]
              /\ UNCHANGED <<stage, txn>>
         ELSE /\ Fail(p)
              /\ UNCHANGED charges
  /\ UNCHANGED <<row, callVars>>

\* reserve in the file, which may refuse.
ReserveInFile(p) ==
  /\ At(p, "charge") /\ op[p].todo = {} /\ op[p].call # NoCall
  /\ \/ /\ charges' = [charges EXCEPT ![op[p].call] = [status |-> "reserved", actual |-> 0]]
        /\ GoOn(p, "begin")
        /\ UNCHANGED stage
     \/ /\ Done(p)
        /\ Close(op[p].call)
        /\ UNCHANGED charges
  /\ UNCHANGED <<row, txn, callVars>>

\* The immediate transaction begins by reading the rows it has to settle.
BeginTransaction(p) ==
  /\ \/ At(p, "begin")
     \/ At(p, "charge") /\ op[p].todo = {} /\ op[p].call = NoCall
     \/ At(p, "chargeAll") /\ op[p].todo = {}
  /\ txn = NoProgram
  /\ txn' = p
  /\ LET rows == IF At(p, "chargeAll") THEN ReservedRows ELSE ExpiredRows
     IN  op' = [op EXCEPT ![p].step = "settle", ![p].todo = rows,
                          ![p].settling = rows]
  /\ UNCHANGED <<charges, row, stage, callVars>>

Settled(p) ==
  [c \in Calls |-> IF c \in op[p].settling
                     THEN [status |-> "settled", cost |-> Estimate, attached |-> FALSE]
                     ELSE row[c]]

\* scrubInstallationBudgetMetadata cuts the link of a cost to its reservation and
\* removes what cost nothing; the reservation goes with the run.
Scrubbed(r) ==
  CASE r.status = "none" -> r
    [] r.cost > 0 -> [r EXCEPT !.status = "scrubbed"]
    [] OTHER -> [r EXCEPT !.status = "gone"]

CommitSettlement(p) ==
  /\ At(p, "settle") /\ op[p].todo = {} /\ op[p].call = NoCall
  /\ row' = [c \in Calls |-> IF c \in op[p].deleting THEN Scrubbed(Settled(p)[c])
                                                      ELSE Settled(p)[c]]
  /\ txn' = NoProgram
  /\ Done(p)
  /\ UNCHANGED <<charges, stage, callVars>>

\* reserveBudget: the call's own row, or a refusal that rolls everything back.
CommitReservation(p) ==
  LET c == op[p].call IN
  /\ At(p, "settle") /\ op[p].todo = {} /\ c # NoCall
  /\ \/ /\ row' = [Settled(p) EXCEPT ![c].status = "reserved"]
        /\ txn' = NoProgram
        /\ stage' = [stage EXCEPT ![c] = "admitted"]
        /\ overtaken' = IF \E q \in Programs : At(q, "orphans")
                          THEN overtaken \cup {c} ELSE overtaken
        /\ Done(p)
     \/ /\ Fail(p)
        /\ UNCHANGED <<row, overtaken>>
  /\ UNCHANGED <<charges, expired, started, dead, crashes, legacy, home>>

UndoReserve(p) ==
  /\ At(p, "undo")
  /\ charges' = ReleasedBeforeCall(op[p].call)
  /\ Close(op[p].call)
  /\ Done(p)
  /\ UNCHANGED <<row, txn, callVars>>

-----------------------------------------------------------------------------
(* The call itself, and recordModelCall *)

StartProvider(c) ==
  /\ stage[c] = "admitted"
  /\ At(home[c], "idle")
  /\ stage' = [stage EXCEPT ![c] = "calling"]
  /\ started' = started \cup {c}
  /\ UNCHANGED <<charges, legacy, row, expired, dead, op, txn, crashes, overtaken, home>>

BeginRecord(c, cost) ==
  /\ stage[c] = "calling"
  /\ At(home[c], "idle")
  /\ op' = [op EXCEPT ![home[c]] = [Idle EXCEPT !.step = "record", !.call = c,
                                                !.cost = cost]]
  /\ UNCHANGED <<charges, row, stage, txn, callVars>>

\* chargeFailedReservation does nothing when the row is already settled.
BeginChargeFailed(c) ==
  /\ stage[c] = "calling"
  /\ At(home[c], "idle")
  /\ IF row[c].status = "reserved"
       THEN /\ op' = [op EXCEPT ![home[c]] =
                        [Idle EXCEPT !.step = "record", !.call = c, !.cost = Estimate]]
            /\ UNCHANGED stage
       ELSE Close(c) /\ UNCHANGED op
  /\ UNCHANGED <<charges, row, txn, callVars>>

\* The charge goes to the file first.
RecordInFile(p) ==
  LET c == op[p].call IN
  /\ At(p, "record")
  /\ IF row[c].status \in {"reserved", "settled"} /\ Chargeable(c)
       THEN /\ charges' = [charges EXCEPT ![c] = Charged(charges[c], op[p].cost)]
            /\ GoOn(p, "attach")
            /\ UNCHANGED stage
       ELSE Done(p) /\ Close(c) /\ UNCHANGED charges
  /\ UNCHANGED <<row, txn, callVars>>

\* The transaction settles the row, or attaches a late completion to a row that
\* was settled conservatively meanwhile, keeping the larger cost.
RecordInVault(p) ==
  LET c == op[p].call IN
  /\ At(p, "attach")
  /\ txn = NoProgram
  /\ row' = CASE row[c].attached -> row
              [] row[c].status = "settled" ->
                   [row EXCEPT ![c].cost = Larger(@, op[p].cost), ![c].attached = TRUE]
              [] OTHER ->
                   [row EXCEPT ![c] = [status |-> "settled", cost |-> op[p].cost,
                                       attached |-> TRUE]]
  /\ Close(c)
  /\ Done(p)
  /\ UNCHANGED <<charges, txn, callVars>>

\* releaseBudgetReservation, when the request was never sent: the row first ...
ReleaseInVault(c) ==
  LET p == home[c] IN
  /\ stage[c] = "admitted"
  /\ At(p, "idle")
  /\ txn = NoProgram
  /\ row' = IF row[c].status = "reserved"
              THEN [row EXCEPT ![c].status = "released"] ELSE row
  /\ op' = [op EXCEPT ![p] = [Idle EXCEPT !.step = "release", !.call = c]]
  /\ UNCHANGED <<charges, stage, txn, callVars>>

\* ... then the file.
ReleaseInFile(p) ==
  /\ At(p, "release")
  /\ charges' = ReleasedBeforeCall(op[p].call)
  /\ Close(op[p].call)
  /\ Done(p)
  /\ UNCHANGED <<row, txn, callVars>>

-----------------------------------------------------------------------------
(* External: time passes, processes die *)

Expire(c) ==
  /\ row[c].status = "reserved"
  /\ c \notin expired
  /\ expired' = expired \cup {c}
  /\ UNCHANGED <<charges, legacy, row, stage, started, dead, op, txn, crashes, overtaken, home>>

ProgramDies(p) ==
  LET mine == {c \in Calls : home[c] = p /\ stage[c] # "new"} IN
  /\ ~At(p, "down")
  /\ crashes < MaxCrashes[home][p]
  /\ crashes' = crashes + 1
  /\ op' = [op EXCEPT ![p] = [Idle EXCEPT !.step = "down"]]
  /\ txn' = IF txn = p THEN NoProgram ELSE txn
  /\ dead' = dead \cup mine
  /\ stage' = [c \in Calls |-> IF c \in mine THEN "closed" ELSE stage[c]]
  /\ UNCHANGED <<charges, legacy, row, expired, started, overtaken, home>>

\* A process goes through the method it is in.
Method(p) ==
  \/ ReadAdmitted(p) \/ ReleaseOrphans(p) \/ ImportRows(p)
  \/ ChargeNext(p) \/ ReserveInFile(p) \/ BeginTransaction(p)
  \/ CommitSettlement(p) \/ CommitReservation(p) \/ UndoReserve(p)
  \/ RecordInFile(p) \/ RecordInVault(p) \/ ReleaseInFile(p)

CallStep(c) ==
  \/ BeginReserve(home[c], c)
  \/ StartProvider(c)
  \/ \E cost \in Costs : BeginRecord(c, cost)
  \/ BeginChargeFailed(c)
  \/ ReleaseInVault(c)
  \/ Expire(c)

AccountNext ==
  \/ \E p \in Programs : \/ Method(p) \/ ProgramDies(p)
                          \/ BeginSummary(p) \/ BeginOutstanding(p)
                          \/ \E S \in (SUBSET Calls) \ {{}} : BeginDelete(p, S)
  \/ \E c \in Calls : CallStep(c)

AccountSpec == AccountInit /\ [][AccountNext]_accountVars

\* A method that has begun is synchronous code and ends, and a process that died
\* is started again; reservations expire; somebody goes on looking at the
\* budget, which every reservation does too.
AccountFairness ==
  /\ \A p \in Programs : WF_accountVars(Method(p)) /\ WF_accountVars(BeginSummary(p))
  /\ \A c \in Calls : WF_accountVars(Expire(c))

AccountFairSpec == AccountSpec /\ AccountFairness

-----------------------------------------------------------------------------
(* Properties *)

AccountTypeOK ==
  /\ charges \in [Calls -> [status : {"absent", "reserved", "committed", "released"},
                         actual : Nat]]
  /\ row \in [Calls -> [status : {"none", "reserved", "settled", "released",
                                  "scrubbed", "gone"},
                        cost : Nat, attached : BOOLEAN]]
  /\ legacy \in [Calls -> Nat]
  /\ {expired, started, dead, overtaken} \subseteq SUBSET Calls
  /\ stage \in [Calls -> {"new", "reserving", "admitted", "calling", "closed"}]
  /\ txn \in Programs \cup {NoProgram}
  /\ \A p \in Programs :
       /\ op[p].step \in {"down", "orphans", "import", "idle", "charge",
            "chargeAll", "begin", "settle", "undo", "record", "attach", "release"}
       /\ op[p].call \in Calls \cup {NoCall}
       /\ {op[p].todo, op[p].settling, op[p].deleting} \subseteq SUBSET Calls
       /\ txn = p <=> At(p, "settle")

\* What the vault has recorded as spent is covered by a charge in the shared
\* ledger, so that no crash between the two lets spending escape the cap.
SpendingIsCovered ==
  \A c \in Calls : row[c].status \in {"settled", "scrubbed"} =>
    charges[c].status = "committed" /\ charges[c].actual >= row[c].cost

\* "Without forgiving an uncertain or billable call": no call whose request was
\* sent is given back in the shared ledger.
NoneForgiven == \A c \in started : charges[c].status # "released"

\* Only a call that an opening process overtook is ever given back after it was sent.
ForgivenWasOvertaken == \A c \in started \ overtaken : charges[c].status # "released"

\* The rows of the vault can no longer be charged: an opening process released the
\* reservation of a call that it overtook and whose process died.
Wedged == \E c \in overtaken : charges[c].status = "released" /\ row[c].status = "reserved"

\* Every call whose request was sent is charged in the end, whichever process made
\* it, whoever opened the vault meanwhile and whoever died, unless the vault is wedged.
BillableIsCharged ==
  \A c \in Calls : c \in started ~> charges[c].status = "committed" \/ Wedged

\* "Imports pre-canonical application accounting exactly once": no spending is in
\* the shared ledger twice.
CountedOnce == \A c \in Calls : charges[c].status = "committed" => legacy[c] = 0
=============================================================================

------------------------- MODULE InstallationBudget -------------------------
(***************************************************************************)
(* The machine-local ledger of paid calls that every vault and every       *)
(* evaluation program of an installation shares                            *)
(* (packages/config/src/installation-budget.ts, InstallationBudgetGuard).  *)
(*                                                                         *)
(* An action is one public method: #withLock reads the ledger, applies the *)
(* operation and replaces the file before another process reads it.  How   *)
(* far the lock file justifies that is the subject of BudgetLock.  A       *)
(* method that throws before #write changes nothing and has no step here.  *)
(*                                                                         *)
(* Money is a natural number of credit units, at most MaxCost for a call.  *)
(* A null actualCostUsd is 0: no branch of the code tells them apart once  *)
(* the status is known.  Timestamps, the accounting basis, the essential   *)
(* flag of a stored entry and its reporting-only overrun flag are left     *)
(* out; expiresAt is stored by reserve and read by nothing.                *)
(***************************************************************************)
EXTENDS Integers, FiniteSets

CONSTANTS
  CallIds,              \* the call ids clients may use
  Pids, Scopes,         \* processes, and the vaults they open
  NoOwner,              \* the owner of a reservation made without one
  MaxCost,              \* bound: the largest cost of one call
  HardCap,              \* INSTALLATION_BUDGET_HARD_CAP_USD
  NonessentialStop,     \* NONESSENTIAL_STOP_USD
  Allocation,           \* INSTALLATION_BUDGET_ALLOCATIONS_USD
  HardLimits,           \* the hardLimitUsd values callers pass to reserve
  LegacyImports,        \* the rows reconcileLegacyEntries may be handed
  ConservativeFailures  \* the guard's conservativeFailures option

ALLOCATED_CATEGORIES == DOMAIN Allocation
CATEGORIES == ALLOCATED_CATEGORIES \cup {"application"}

Cost == 0..MaxCost

Owner == [pid : Pids, scope : Scopes] \cup {NoOwner}

STATUSES == {"absent", "reserved", "committed", "released"}

Entry == [status : STATUSES, category : CATEGORIES,
          estimated : Cost, actual : Cost, owner : Owner]

LegacyEntry == [status : {"reserved", "committed"}, category : CATEGORIES,
                estimated : Cost, actual : Cost]

ASSUME CallIdsAssumption == IsFiniteSet(CallIds)
ASSUME MoneyAssumption ==
  /\ MaxCost \in Nat
  /\ HardCap \in Nat
  /\ NonessentialStop \in Nat
  /\ "application" \notin ALLOCATED_CATEGORIES
  /\ Allocation \in [ALLOCATED_CATEGORIES -> Nat]
ASSUME HardLimitsAssumption == HardLimits \subseteq 1..HardCap
ASSUME LegacyAssumption == LegacyImports \subseteq LegacyEntry
ASSUME OptionAssumption == ConservativeFailures \in BOOLEAN

VARIABLES
  entries,   \* ledger.entries, by call id; status "absent" when there is none
  breached,  \* ledger.breached
  alive      \* the processes that are running

budgetVars == <<entries, breached, alive>>

NoEntry == [status |-> "absent", category |-> "application",
            estimated |-> 0, actual |-> 0, owner |-> NoOwner]

-----------------------------------------------------------------------------
(* Sums.  The sum of f over CallIds is the number of units below its graph. *)

Units(f) == {u \in CallIds \X (1..MaxCost) : u[2] <= f[u[1]]}
Sum(f)   == Cardinality(Units(f))

CommittedOf(e) == IF e.status = "committed" THEN e.actual ELSE 0
ReservedOf(e)  == IF e.status = "reserved" THEN e.estimated ELSE 0
UsedOf(e, k)   == IF e.category = k THEN CommittedOf(e) + ReservedOf(e) ELSE 0

CommittedUsd(E) == Sum([c \in CallIds |-> CommittedOf(E[c])])
ReservedUsd(E)  == Sum([c \in CallIds |-> ReservedOf(E[c])])
CategoryUsed(E, k) == Sum([c \in CallIds |-> UsedOf(E[c], k)])
Outstanding(E) == CommittedUsd(E) + ReservedUsd(E)

AllocationOverrun(E, k, delta) ==
  k \in ALLOCATED_CATEGORIES /\ CategoryUsed(E, k) + delta > Allocation[k]

\* What #read demands of the totals before any operation runs.
WithinLimits(E) ==
  /\ Outstanding(E) <= HardCap
  /\ \A k \in ALLOCATED_CATEGORIES : CategoryUsed(E, k) <= Allocation[k]

Readable == breached \/ WithinLimits(entries)

-----------------------------------------------------------------------------
BudgetInit ==
  /\ entries = [c \in CallIds |-> NoEntry]
  /\ breached = FALSE
  /\ alive = Pids

\* reserve: admission of one paid call.
Reserve(c, k, est, essential, owner, limit) ==
  LET projected == Outstanding(entries) + est IN
  /\ Readable
  /\ entries[c].status = "absent"
  /\ ~breached
  /\ projected <= limit
  /\ essential \/ projected < NonessentialStop
  /\ ~AllocationOverrun(entries, k, est)
  /\ owner # NoOwner => owner.pid \in alive
  /\ entries' = [entries EXCEPT ![c] =
                   [status |-> "reserved", category |-> k, estimated |-> est,
                    actual |-> 0, owner |-> owner]]
  /\ UNCHANGED <<breached, alive>>

\* releaseOrphanedBeforeCall: a vault being opened gives back the reservations
\* of dead processes that never reached its own database.
ReleaseOrphanedBeforeCall(scope, admitted) ==
  LET orphaned == {c \in CallIds :
        /\ entries[c].status = "reserved"
        /\ entries[c].category = "application"
        /\ entries[c].owner # NoOwner
        /\ entries[c].owner.scope = scope
        /\ entries[c].owner.pid \notin alive
        /\ c \notin admitted}
  IN
  /\ Readable
  /\ entries' = [c \in CallIds |->
       IF c \in orphaned
         THEN [entries[c] EXCEPT !.status = "released", !.actual = 0]
         ELSE entries[c]]
  /\ UNCHANGED <<breached, alive>>

\* #commitEntry: the reservation becomes a charge; an overrun is recorded.
CommitEntry(c, actual) ==
  LET e == entries[c]
      reservedUsd == ReservedUsd(entries)
      others == IF reservedUsd >= e.estimated THEN reservedUsd - e.estimated
                                              ELSE 0
      capOverrun == CommittedUsd(entries) + others + actual > HardCap
      allocationOverrun ==
        AllocationOverrun(entries, e.category, actual - e.estimated)
  IN
  /\ entries' = [entries EXCEPT ![c].status = "committed", ![c].actual = actual]
  /\ breached' = (breached \/ capOverrun \/ allocationOverrun)

\* commit and commitConservatively.
Commit(c, actual) ==
  /\ Readable
  /\ entries[c].status = "reserved"
  /\ CommitEntry(c, actual)
  /\ UNCHANGED alive

\* Faulty: a late cost is added without looking at the cap.
RaiseChargeUnchecked(c, actual) ==
  /\ actual > entries[c].actual
  /\ entries' = [entries EXCEPT ![c].actual = actual]
  /\ breached' = (breached \/ AllocationOverrun(entries, entries[c].category,
                                                actual - entries[c].actual))

\* reconcileCommitted on a charge that is already there: it only ever rises.
RaiseCharge(c, actual) ==
  LET e == entries[c]
      capOverrun == CommittedUsd(entries) - e.actual + actual > HardCap
      allocationOverrun ==
        AllocationOverrun(entries, e.category, actual - e.actual)
  IN
  /\ actual > e.actual
  /\ entries' = [entries EXCEPT ![c].actual = actual]
  /\ breached' = (breached \/ capOverrun \/ allocationOverrun)

ReconcileCommitted(c, actual) ==
  /\ Readable
  /\ \/ entries[c].status = "reserved"  /\ CommitEntry(c, actual)
     \/ entries[c].status = "committed" /\ RaiseCharge(c, actual)
  /\ UNCHANGED alive

\* release: a failed evaluation call is billed in full unless configured not to.
Release(c) ==
  /\ Readable
  /\ entries[c].status = "reserved"
  /\ entries' =
       IF ConservativeFailures
         THEN [entries EXCEPT ![c].status = "committed",
                              ![c].actual = entries[c].estimated]
         ELSE [entries EXCEPT ![c].status = "released"]
  /\ UNCHANGED <<breached, alive>>

ReleaseBeforeCall(c) ==
  /\ Readable
  /\ entries[c].status = "reserved"
  /\ entries' = [entries EXCEPT ![c].status = "released", ![c].actual = 0]
  /\ UNCHANGED <<breached, alive>>

\* What reconcileLegacyEntries makes of one imported row.
Higher(a, b) == IF a >= b THEN a ELSE b

Imported(e, imported) ==
  LET cost == CommittedOf(e) IN
  IF e.status = "absent" THEN
    [status |-> imported.status, category |-> imported.category,
     estimated |-> imported.estimated,
     actual |-> IF imported.status = "committed" THEN imported.actual ELSE 0,
     owner |-> NoOwner]
  ELSE IF imported.status # "committed"
          \/ (e.status = "committed" /\ cost >= imported.actual) THEN e
  ELSE
    [status |-> "committed", category |-> imported.category,
     estimated |-> Higher(e.estimated, imported.estimated),
     actual |-> Higher(cost, imported.actual), owner |-> e.owner]

\* reconcileLegacyEntries: a batch of rows, one per call id.
ReconcileLegacyEntries(batch) ==
  LET merged == [c \in CallIds |-> IF c \in DOMAIN batch
                                     THEN Imported(entries[c], batch[c])
                                     ELSE entries[c]]
  IN
  /\ Readable
  /\ merged # entries
  /\ entries' = merged
  /\ breached' = (breached \/ ~WithinLimits(merged))
  /\ UNCHANGED alive

\* External: a process ends at any point, and a later one may reuse its pid.
Exit(p) ==
  /\ p \in alive
  /\ alive' = alive \ {p}
  /\ UNCHANGED <<entries, breached>>

Start(p) ==
  /\ p \notin alive
  /\ alive' = alive \cup {p}
  /\ UNCHANGED <<entries, breached>>

EntryStep(c) ==
  \/ \E k \in CATEGORIES, est \in Cost, essential \in BOOLEAN,
        owner \in Owner, limit \in HardLimits :
       Reserve(c, k, est, essential, owner, limit)
  \/ \E actual \in Cost : Commit(c, actual)
  \/ \E actual \in Cost : ReconcileCommitted(c, actual)
  \/ Release(c)
  \/ ReleaseBeforeCall(c)

BudgetNext ==
  \/ \E c \in CallIds : EntryStep(c)
  \/ \E scope \in Scopes, admitted \in SUBSET CallIds :
       ReleaseOrphanedBeforeCall(scope, admitted)
  \/ \E S \in SUBSET CallIds : \E batch \in [S -> LegacyImports] :
       ReconcileLegacyEntries(batch)
  \/ \E p \in Pids : Exit(p) \/ Start(p)

BudgetSpec == BudgetInit /\ [][BudgetNext]_budgetVars
-----------------------------------------------------------------------------
(* Properties *)

\* Every entry has a status the next #read accepts: no cost without a charge,
\* no reservation or owner left behind by an entry that does not exist.
BudgetTypeOK ==
  /\ entries \in [CallIds -> Entry]
  /\ breached \in BOOLEAN
  /\ alive \subseteq Pids
  /\ \A c \in CallIds :
       /\ entries[c].status \in {"absent", "reserved", "released"}
            => entries[c].actual = 0
       /\ entries[c].status = "absent" => entries[c] = NoEntry

\* As long as no overrun is recorded, the credit spent is within the hard cap,
\* whatever mixture of reservations, late charges and imports came before.
CommittedWithinCap == ~breached => CommittedUsd(entries) <= HardCap

\* As long as no overrun is recorded, no evaluation category holds more than
\* its allocation: #categoryUsed is kept by five methods, each with its own
\* arithmetic on the difference.
AllocationsRespected ==
  ~breached => \A k \in ALLOCATED_CATEGORIES :
                 CategoryUsed(entries, k) <= Allocation[k]

\* No operation lowers or forgets a charge: neither a late reconciliation, nor
\* an import of older accounting, nor the release of orphans.
ChargesNeverLowered ==
  [][\A c \in CallIds : CommittedOf(entries'[c]) >= CommittedOf(entries[c])]_budgetVars

\* Recording an overrun blocks every further paid call for the lifetime of the
\* installation, so it is recorded only when a limit really is exceeded.
BreachOnlyOnOverflow ==
  [][~breached /\ breached' => ~WithinLimits(entries')]_budgetVars

\* The ledger a method leaves behind can be read by the next one, with a single
\* exception: raising a charge that was committed earlier, while the credit it
\* had left free is reserved by other calls.
LateRaise ==
  \E c \in CallIds :
    /\ entries[c].status = "committed"
    /\ entries'[c].actual > entries[c].actual
    /\ \E d \in CallIds \ {c} : entries[d].status = "reserved"

WedgedOnlyByLateRaise == [][Readable /\ ~Readable' => LateRaise]_budgetVars

\* The assertion of #read ("exceeds the hard cap without a recorded breach"):
\* an overflow is never left unrecorded.
OverflowIsRecorded == Outstanding(entries) > HardCap => breached
=============================================================================

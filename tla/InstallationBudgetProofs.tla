---------------------- MODULE InstallationBudgetProofs ----------------------
(***************************************************************************)
(* Theorems about InstallationBudget, for any number of calls, processes   *)
(* and vaults and any cap, stop and allocations.                           *)
(*                                                                         *)
(* The sums of the ledger are cardinalities (Units), so a sum over the     *)
(* ledger is reasoned about with the facts on finite sets: SumUpdate says  *)
(* what changing one entry does to a sum, SumMonotone what lowering many.  *)
(***************************************************************************)
EXTENDS InstallationBudget, FiniteSetTheorems, TLAPS

Costs == [CallIds -> Cost]

-----------------------------------------------------------------------------
(* Sums over the calls *)

LEMMA UnitsFinite ==
  ASSUME NEW f
  PROVE  IsFiniteSet(Units(f))
<1>1. IsFiniteSet(1..MaxCost)
  <2>1. MaxCost \in Int /\ 1 \in Int
    BY MoneyAssumption
  <2>2. QED
    BY <2>1, FS_Interval
<1>2. IsFiniteSet(CallIds \X (1..MaxCost))
  BY <1>1, FS_Product, CallIdsAssumption
<1>3. QED
  BY <1>2, FS_Subset DEF Units

\* A sum of costs is a natural number.
LEMMA SumType ==
  ASSUME NEW f
  PROVE  Sum(f) \in Nat
BY UnitsFinite, FS_CardinalityType DEF Sum

\* The units of a sum that one call does not contribute.
OtherUnits(f, c) == {u \in Units(f) : u[1] # c}

LEMMA OtherUnitsType ==
  ASSUME NEW f, NEW c
  PROVE  /\ IsFiniteSet(OtherUnits(f, c))
         /\ Cardinality(OtherUnits(f, c)) \in Nat
<1>1. IsFiniteSet(OtherUnits(f, c))
  BY UnitsFinite, FS_Subset DEF OtherUnits
<1>2. QED
  BY <1>1, FS_CardinalityType

\* One call's cost can be split off a sum.
LEMMA SumSplit ==
  ASSUME NEW f \in Costs, NEW c \in CallIds
  PROVE  Sum(f) = Cardinality(OtherUnits(f, c)) + f[c]
<1> DEFINE own == {c} \X (1..f[c])
<1>1. f[c] \in 0..MaxCost /\ MaxCost \in Nat
  BY MoneyAssumption DEF Costs, Cost
<1>2. Units(f) = OtherUnits(f, c) \cup own
  <2>1. ASSUME NEW u \in Units(f), u[1] = c
        PROVE  u \in own
    BY <2>1, <1>1 DEF Units
  <2>2. ASSUME NEW u \in own
        PROVE  u \in Units(f)
    BY <2>2, <1>1 DEF Units
  <2>3. QED
    BY <2>1, <2>2 DEF OtherUnits
<1>3. OtherUnits(f, c) \cap own = {}
  BY DEF OtherUnits
<1>4. /\ IsFiniteSet(own)
      /\ Cardinality(own) = f[c]
  <2>1. /\ IsFiniteSet({c})
        /\ Cardinality({c}) = 1
    BY FS_Singleton
  <2>2. /\ IsFiniteSet(1..f[c])
        /\ Cardinality(1..f[c]) = IF 1 > f[c] THEN 0 ELSE f[c] - 1 + 1
    <3>1. 1 \in Int /\ f[c] \in Int
      BY <1>1
    <3>2. QED
      BY ONLY <3>1, FS_Interval
  <2>3. Cardinality(1..f[c]) = f[c]
    BY <2>2, <1>1
  <2>4. /\ IsFiniteSet(own)
        /\ Cardinality(own) = Cardinality({c}) * Cardinality(1..f[c])
    BY <2>1, <2>2, FS_Product
  <2>5. QED
    BY <2>1, <2>3, <2>4, <1>1
<1>5. Cardinality(OtherUnits(f, c) \cup own)
        = Cardinality(OtherUnits(f, c)) + Cardinality(own)
          - Cardinality(OtherUnits(f, c) \cap own)
  BY <1>4, OtherUnitsType, FS_Union
<1>6. Cardinality({}) = 0
  BY FS_EmptySet
<1>7. Sum(f) = Cardinality(OtherUnits(f, c)) + f[c] - 0
  BY <1>2, <1>3, <1>4, <1>5, <1>6 DEF Sum
<1>8. QED
  BY <1>1, <1>7, OtherUnitsType

\* A sum holds at least each of its terms.
LEMMA SumMember ==
  ASSUME NEW f \in Costs, NEW c \in CallIds
  PROVE  f[c] <= Sum(f)
<1>1. f[c] \in Nat
  BY MoneyAssumption DEF Costs, Cost
<1>2. QED
  BY <1>1, SumSplit, OtherUnitsType

\* Changing one term changes the sum by the difference.
LEMMA SumUpdate ==
  ASSUME NEW f \in Costs, NEW g \in Costs, NEW c \in CallIds,
         \A d \in CallIds \ {c} : g[d] = f[d]
  PROVE  Sum(g) = Sum(f) - f[c] + g[c]
<1>1. OtherUnits(f, c) = OtherUnits(g, c)
  BY DEF Units, OtherUnits
<1>2. f[c] \in Int /\ g[c] \in Int
  BY MoneyAssumption DEF Costs, Cost
<1>3. /\ Sum(f) = Cardinality(OtherUnits(f, c)) + f[c]
      /\ Sum(g) = Cardinality(OtherUnits(g, c)) + g[c]
      /\ Cardinality(OtherUnits(f, c)) \in Nat
  BY SumSplit, OtherUnitsType
<1>4. QED
  BY <1>1, <1>2, <1>3

\* A sum of smaller terms is smaller.
LEMMA SumMonotone ==
  ASSUME NEW f \in Costs, NEW g \in Costs,
         \A c \in CallIds : f[c] <= g[c]
  PROVE  Sum(f) <= Sum(g)
<1>1. Units(f) \subseteq Units(g)
  <2>1. SUFFICES ASSUME NEW u \in Units(f)
                 PROVE  u \in Units(g)
    OBVIOUS
  <2>2. /\ u \in CallIds \X (1..MaxCost)
        /\ u[1] \in CallIds /\ u[2] \in Int /\ u[2] <= f[u[1]]
    BY DEF Units
  <2>3. f[u[1]] \in Int /\ g[u[1]] \in Int /\ f[u[1]] <= g[u[1]]
    BY <2>2 DEF Costs, Cost
  <2>4. QED
    BY <2>2, <2>3 DEF Units
<1>2. QED
  BY <1>1, UnitsFinite, FS_Subset DEF Sum

\* A sum of zeros is zero.
LEMMA SumOfZeros ==
  ASSUME NEW f \in Costs, \A c \in CallIds : f[c] = 0
  PROVE  Sum(f) = 0
<1>1. Units(f) = {}
  BY MoneyAssumption DEF Units
<1>2. QED
  BY <1>1, FS_EmptySet DEF Sum
-----------------------------------------------------------------------------
(* Sums over the ledger *)

Ledger == [CallIds -> Entry]

CommittedTerms(E) == [c \in CallIds |-> CommittedOf(E[c])]
ReservedTerms(E)  == [c \in CallIds |-> ReservedOf(E[c])]
UsedTerms(E, k)   == [c \in CallIds |-> UsedOf(E[c], k)]

LEMMA TermsType ==
  ASSUME NEW E \in Ledger
  PROVE  /\ CommittedTerms(E) \in Costs
         /\ ReservedTerms(E) \in Costs
         /\ \A k : UsedTerms(E, k) \in Costs
<1>1. \A c \in CallIds : /\ E[c].estimated \in Cost
                         /\ E[c].actual \in Cost
  BY DEF Ledger, Entry
<1>2. 0 \in Cost
  BY MoneyAssumption DEF Cost
<1>3. \A c \in CallIds : CommittedOf(E[c]) \in Cost /\ ReservedOf(E[c]) \in Cost
  BY <1>1, <1>2 DEF CommittedOf, ReservedOf
<1>4. \A c \in CallIds : CommittedOf(E[c]) = 0 \/ ReservedOf(E[c]) = 0
  BY DEF CommittedOf, ReservedOf
<1>5. \A c \in CallIds : CommittedOf(E[c]) + ReservedOf(E[c]) \in Cost
  BY <1>3, <1>4 DEF Cost
<1>6. \A k : \A c \in CallIds : UsedOf(E[c], k) \in Cost
  BY <1>2, <1>5 DEF UsedOf
<1>7. QED
  BY <1>3, <1>6 DEF Costs, CommittedTerms, ReservedTerms, UsedTerms

\* The totals of a ledger are natural numbers.
LEMMA TotalsType ==
  ASSUME NEW E
  PROVE  /\ CommittedUsd(E) \in Nat
         /\ ReservedUsd(E) \in Nat
         /\ \A k : CategoryUsed(E, k) \in Nat
BY SumType DEF CommittedUsd, ReservedUsd, CategoryUsed

\* Replacing one entry changes each total by the difference of its terms.
LEMMA LedgerUpdate ==
  ASSUME NEW E \in Ledger, NEW F \in Ledger, NEW c \in CallIds,
         \A d \in CallIds \ {c} : F[d] = E[d]
  PROVE  /\ CommittedUsd(F)
              = CommittedUsd(E) - CommittedOf(E[c]) + CommittedOf(F[c])
         /\ ReservedUsd(F)
              = ReservedUsd(E) - ReservedOf(E[c]) + ReservedOf(F[c])
         /\ \A k : CategoryUsed(F, k)
              = CategoryUsed(E, k) - UsedOf(E[c], k) + UsedOf(F[c], k)
<1>1. Sum(CommittedTerms(F)) = Sum(CommittedTerms(E))
        - CommittedTerms(E)[c] + CommittedTerms(F)[c]
  <2>1. \A d \in CallIds \ {c} : CommittedTerms(F)[d] = CommittedTerms(E)[d]
    BY DEF CommittedTerms
  <2>2. QED
    BY <2>1, TermsType, SumUpdate
<1>2. Sum(ReservedTerms(F)) = Sum(ReservedTerms(E))
        - ReservedTerms(E)[c] + ReservedTerms(F)[c]
  <2>1. \A d \in CallIds \ {c} : ReservedTerms(F)[d] = ReservedTerms(E)[d]
    BY DEF ReservedTerms
  <2>2. QED
    BY <2>1, TermsType, SumUpdate
<1>3. ASSUME NEW k
      PROVE  Sum(UsedTerms(F, k)) = Sum(UsedTerms(E, k))
               - UsedTerms(E, k)[c] + UsedTerms(F, k)[c]
  <2>1. \A d \in CallIds \ {c} : UsedTerms(F, k)[d] = UsedTerms(E, k)[d]
    BY DEF UsedTerms
  <2>2. UsedTerms(E, k) \in Costs /\ UsedTerms(F, k) \in Costs
    BY TermsType
  <2>3. QED
    BY <2>1, <2>2, SumUpdate
<1>4. \A k : CategoryUsed(F, k)
              = CategoryUsed(E, k) - UsedOf(E[c], k) + UsedOf(F[c], k)
  BY <1>3 DEF CategoryUsed, UsedTerms
<1>5. QED
  BY <1>1, <1>2, <1>4
  DEF CommittedUsd, ReservedUsd, CommittedTerms, ReservedTerms

\* Releasing reservations, any number of them, raises no total.
LEMMA LedgerRelease ==
  ASSUME NEW E \in Ledger, NEW F \in Ledger,
         \A c \in CallIds : \/ F[c] = E[c]
                            \/ E[c].status = "reserved" /\ F[c].status = "released"
  PROVE  /\ CommittedUsd(F) <= CommittedUsd(E)
         /\ ReservedUsd(F) <= ReservedUsd(E)
         /\ \A k : CategoryUsed(F, k) <= CategoryUsed(E, k)
<1>1. \A c \in CallIds : /\ E[c].estimated \in Nat /\ E[c].actual \in Nat
                         /\ F[c].estimated \in Nat /\ F[c].actual \in Nat
  BY MoneyAssumption DEF Ledger, Entry, Cost
<1>2. \A c \in CallIds : /\ CommittedOf(F[c]) <= CommittedOf(E[c])
                         /\ ReservedOf(F[c]) <= ReservedOf(E[c])
  BY <1>1 DEF CommittedOf, ReservedOf
<1>3. ASSUME NEW k
      PROVE  CategoryUsed(F, k) <= CategoryUsed(E, k)
  <2>1. ASSUME NEW c \in CallIds
        PROVE  UsedOf(F[c], k) <= UsedOf(E[c], k)
    <3>1. CASE F[c] = E[c]
      BY <3>1, <1>1 DEF UsedOf, CommittedOf, ReservedOf
    <3>2. CASE E[c].status = "reserved" /\ F[c].status = "released"
      BY <3>2, <1>1 DEF UsedOf, CommittedOf, ReservedOf
    <3>3. QED
      BY <3>1, <3>2
  <2>2. \A c \in CallIds : UsedTerms(F, k)[c] <= UsedTerms(E, k)[c]
    BY <2>1 DEF UsedTerms
  <2>3. UsedTerms(E, k) \in Costs /\ UsedTerms(F, k) \in Costs
    BY TermsType
  <2>4. Sum(UsedTerms(F, k)) <= Sum(UsedTerms(E, k))
    BY <2>2, <2>3, SumMonotone
  <2>5. QED
    BY <2>4 DEF CategoryUsed, UsedTerms
<1>4. Sum(CommittedTerms(F)) <= Sum(CommittedTerms(E))
  <2>1. \A c \in CallIds : CommittedTerms(F)[c] <= CommittedTerms(E)[c]
    BY <1>2 DEF CommittedTerms
  <2>2. QED
    BY <2>1, TermsType, SumMonotone
<1>5. Sum(ReservedTerms(F)) <= Sum(ReservedTerms(E))
  <2>1. \A c \in CallIds : ReservedTerms(F)[c] <= ReservedTerms(E)[c]
    BY <1>2 DEF ReservedTerms
  <2>2. QED
    BY <2>1, TermsType, SumMonotone
<1>6. QED
  BY <1>3, <1>4, <1>5
  DEF CommittedUsd, ReservedUsd, CommittedTerms, ReservedTerms

-----------------------------------------------------------------------------
(* Type correctness *)

LEMMA CallStepType ==
  ASSUME BudgetTypeOK, NEW c \in CallIds, EntryStep(c)
  PROVE  BudgetTypeOK'
<1> USE DEF BudgetTypeOK, Entry
<1>0. /\ entries[c] \in Entry
      /\ 0 \in Cost
  BY MoneyAssumption DEF Cost
<1>1. ASSUME NEW k \in CATEGORIES, NEW est \in Cost, NEW essential \in BOOLEAN,
             NEW owner \in Owner, NEW limit \in HardLimits,
             Reserve(c, k, est, essential, owner, limit)
      PROVE  BudgetTypeOK'
  BY <1>0, <1>1 DEF Reserve, STATUSES, NoEntry
<1>2. ASSUME NEW actual \in Cost, entries[c].status \in {"reserved", "committed"},
             entries' = [entries EXCEPT ![c].status = "committed",
                                        ![c].actual = actual],
             breached' \in BOOLEAN, alive' = alive
      PROVE  BudgetTypeOK'
  BY <1>0, <1>2 DEF STATUSES, NoEntry
<1>3. ASSUME NEW actual \in Cost, Commit(c, actual)
      PROVE  BudgetTypeOK'
  BY <1>2, <1>3 DEF Commit, CommitEntry
<1>4. ASSUME NEW actual \in Cost, ReconcileCommitted(c, actual)
      PROVE  BudgetTypeOK'
  <2>1. CASE entries[c].status = "reserved" /\ CommitEntry(c, actual)
    BY <1>2, <1>4, <2>1 DEF ReconcileCommitted, CommitEntry
  <2>2. CASE entries[c].status = "committed" /\ RaiseCharge(c, actual)
    BY <1>0, <1>4, <2>2 DEF ReconcileCommitted, RaiseCharge, STATUSES, NoEntry
  <2>3. QED
    BY <1>4, <2>1, <2>2 DEF ReconcileCommitted
<1>5. ASSUME Release(c)
      PROVE  BudgetTypeOK'
  <2>1. CASE ConservativeFailures
    BY <1>0, <1>2, <1>5, <2>1 DEF Release
  <2>2. CASE ~ConservativeFailures
    BY <1>0, <1>5, <2>2 DEF Release, STATUSES, NoEntry
  <2>3. QED
    BY <2>1, <2>2
<1>6. ASSUME ReleaseBeforeCall(c)
      PROVE  BudgetTypeOK'
  BY <1>0, <1>6 DEF ReleaseBeforeCall, STATUSES, NoEntry
<1>7. QED
  BY <1>1, <1>3, <1>4, <1>5, <1>6 DEF EntryStep

LEMMA ImportedType ==
  ASSUME NEW e \in Entry, NEW imported \in LegacyEntry
  PROVE  /\ Imported(e, imported) \in Entry
         /\ \/ Imported(e, imported) = e
            \/ Imported(e, imported).status = "committed"
            \/ /\ Imported(e, imported).status = "reserved"
               /\ Imported(e, imported).actual = 0
<1>1. 0 \in Cost /\ NoOwner \in Owner
  BY MoneyAssumption DEF Cost, Owner
<1>2. \A a, b \in Cost : Higher(a, b) \in Cost
  BY DEF Higher
<1>3. CommittedOf(e) \in Cost
  BY <1>1 DEF CommittedOf, Entry
<1>4. QED
  BY <1>1, <1>2, <1>3 DEF Imported, Entry, LegacyEntry, STATUSES

\* The invariant BudgetTypeOK of the specification: every ledger a method writes has
\* the shape #read accepts.
THEOREM TypeCorrect == BudgetSpec => []BudgetTypeOK
<1>1. BudgetInit => BudgetTypeOK
  <2>1. NoEntry \in Entry
    BY MoneyAssumption DEF NoEntry, Entry, STATUSES, CATEGORIES, Cost, Owner
  <2>2. NoEntry.actual = 0
    BY DEF NoEntry
  <2>3. QED
    BY <2>1, <2>2 DEF BudgetInit, BudgetTypeOK
<1>2. BudgetTypeOK /\ [BudgetNext]_budgetVars => BudgetTypeOK'
  <2>1. SUFFICES ASSUME BudgetTypeOK, [BudgetNext]_budgetVars
                 PROVE  BudgetTypeOK'
    OBVIOUS
  <2>2. ASSUME NEW c \in CallIds, EntryStep(c)
        PROVE  BudgetTypeOK'
    BY <2>1, <2>2, CallStepType
  <2>3. ASSUME NEW scope \in Scopes, NEW admitted \in SUBSET CallIds,
               ReleaseOrphanedBeforeCall(scope, admitted)
        PROVE  BudgetTypeOK'
    <3>1. 0 \in Cost
      BY MoneyAssumption DEF Cost
    <3>2. \A c \in CallIds :
            \/ entries'[c] = entries[c]
            \/ entries'[c] = [entries[c] EXCEPT !.status = "released", !.actual = 0]
      BY <2>3 DEF ReleaseOrphanedBeforeCall
    <3>3. entries' \in [CallIds -> Entry]
      BY <2>1, <2>3, <3>1
      DEF ReleaseOrphanedBeforeCall, BudgetTypeOK, Entry, STATUSES
    <3>4. \A c \in CallIds :
            /\ entries'[c].status \in {"absent", "reserved", "released"}
                 => entries'[c].actual = 0
            /\ entries'[c].status = "absent" => entries'[c] = NoEntry
      <4>1. SUFFICES ASSUME NEW c \in CallIds,
                            entries'[c] # entries[c]
                     PROVE  /\ entries'[c].status = "released"
                            /\ entries'[c].actual = 0
        BY <2>1 DEF BudgetTypeOK
      <4>2. entries'[c] = [entries[c] EXCEPT !.status = "released", !.actual = 0]
        BY <3>2, <4>1
      <4>3. entries[c] \in Entry
        BY <2>1 DEF BudgetTypeOK
      <4>4. QED
        BY <4>2, <4>3 DEF Entry
    <3>5. QED
      BY <2>1, <2>3, <3>3, <3>4 DEF ReleaseOrphanedBeforeCall, BudgetTypeOK
  <2>4. ASSUME NEW S \in SUBSET CallIds, NEW batch \in [S -> LegacyImports],
               ReconcileLegacyEntries(batch)
        PROVE  BudgetTypeOK'
    <3>1. \A c \in S : batch[c] \in LegacyEntry
      BY LegacyAssumption
    <3>2. entries' = [c \in CallIds |-> IF c \in S THEN Imported(entries[c], batch[c])
                                                   ELSE entries[c]]
      BY <2>4 DEF ReconcileLegacyEntries
    <3>3. \A c \in CallIds : entries[c] \in Entry
      BY <2>1 DEF BudgetTypeOK
    <3>4. \A c \in CallIds :
            /\ entries'[c] \in Entry
            /\ \/ entries'[c] = entries[c]
               \/ entries'[c].status = "committed"
               \/ entries'[c].status = "reserved" /\ entries'[c].actual = 0
      BY <3>1, <3>2, <3>3, ImportedType
    <3>5. entries' \in [CallIds -> Entry]
      BY <3>2, <3>4
    <3>6. breached' \in BOOLEAN /\ alive' = alive
      BY <2>1, <2>4 DEF ReconcileLegacyEntries, BudgetTypeOK
    <3>7. QED
      BY <2>1, <3>4, <3>5, <3>6 DEF BudgetTypeOK
  <2>5. ASSUME NEW p \in Pids, Exit(p) \/ Start(p)
        PROVE  BudgetTypeOK'
    BY <2>1, <2>5 DEF Exit, Start, BudgetTypeOK
  <2>6. CASE UNCHANGED budgetVars
    BY <2>1, <2>6 DEF budgetVars, BudgetTypeOK
  <2>7. QED
    BY <2>1, <2>2, <2>3, <2>4, <2>5, <2>6 DEF BudgetNext
<1>3. QED
  BY <1>1, <1>2, PTL DEF BudgetSpec
-----------------------------------------------------------------------------
(* What one step does to the limits.  Every method but one writes a ledger   *)
(* whose breached flag is exact; raising a charge is the exception.          *)

RecordsOverflow == breached' <=> breached \/ ~WithinLimits(entries')

RaiseStep(c, actual) ==
  /\ Readable
  /\ entries[c].status = "committed"
  /\ RaiseCharge(c, actual)

\* The change one new entry makes to the totals of the ledger.
LEMMA EntriesUpdate ==
  ASSUME BudgetTypeOK, BudgetTypeOK', NEW c \in CallIds,
         \A d \in CallIds \ {c} : entries'[d] = entries[d]
  PROVE  LET e == entries[c]
             f == entries'[c] IN
         /\ CommittedUsd(entries')
              = CommittedUsd(entries) - CommittedOf(e) + CommittedOf(f)
         /\ ReservedUsd(entries')
              = ReservedUsd(entries) - ReservedOf(e) + ReservedOf(f)
         /\ \A k : CategoryUsed(entries', k)
              = CategoryUsed(entries, k) - UsedOf(e, k) + UsedOf(f, k)
<1>1. entries \in Ledger /\ entries' \in Ledger
  BY DEF BudgetTypeOK, Ledger
<1>2. QED
  BY <1>1, LedgerUpdate

LEMMA EntryTypes ==
  ASSUME BudgetTypeOK, NEW c \in CallIds
  PROVE  /\ entries[c] \in Entry
         /\ entries[c].estimated \in Nat
         /\ entries[c].actual \in Nat
         /\ ReservedOf(entries[c]) <= ReservedUsd(entries)
         /\ CommittedUsd(entries) \in Nat
         /\ ReservedUsd(entries) \in Nat
         /\ \A k : CategoryUsed(entries, k) \in Nat
<1>1. entries[c] \in Entry
  BY DEF BudgetTypeOK
<1>2. entries[c].estimated \in Nat /\ entries[c].actual \in Nat
  BY <1>1, MoneyAssumption DEF Entry, Cost
<1>3. ReservedTerms(entries)[c] <= Sum(ReservedTerms(entries))
  <2>1. entries \in Ledger
    BY DEF BudgetTypeOK, Ledger
  <2>2. QED
    BY <2>1, TermsType, SumMember
<1>4. QED
  BY <1>1, <1>2, <1>3, TotalsType DEF ReservedTerms, ReservedUsd

LEMMA ReserveRecords ==
  ASSUME BudgetTypeOK, BudgetTypeOK', NEW c \in CallIds, NEW k \in CATEGORIES,
         NEW est \in Cost, NEW essential \in BOOLEAN, NEW owner \in Owner,
         NEW limit \in HardLimits, Reserve(c, k, est, essential, owner, limit)
  PROVE  RecordsOverflow
<1>1. /\ entries[c].status = "absent"
      /\ entries'[c] = [status |-> "reserved", category |-> k, estimated |-> est,
                        actual |-> 0, owner |-> owner]
      /\ \A d \in CallIds \ {c} : entries'[d] = entries[d]
  BY DEF Reserve, BudgetTypeOK
<1>2. /\ CommittedOf(entries[c]) = 0 /\ CommittedOf(entries'[c]) = 0
      /\ ReservedOf(entries[c]) = 0 /\ ReservedOf(entries'[c]) = est
      /\ \A j : UsedOf(entries[c], j) = 0
      /\ \A j : UsedOf(entries'[c], j) = IF j = k THEN est ELSE 0
  <2>1. est \in Nat
    BY MoneyAssumption DEF Cost
  <2>2. QED
    BY <1>1, <2>1 DEF CommittedOf, ReservedOf, UsedOf
<1>3. /\ est \in Nat /\ limit \in Int /\ HardCap \in Int /\ limit <= HardCap
      /\ \A j \in ALLOCATED_CATEGORIES : Allocation[j] \in Nat
  BY MoneyAssumption, HardLimitsAssumption DEF Cost
<1>4. /\ CommittedUsd(entries') = CommittedUsd(entries)
      /\ ReservedUsd(entries') = ReservedUsd(entries) + est
      /\ \A j : CategoryUsed(entries', j)
                  = CategoryUsed(entries, j) + (IF j = k THEN est ELSE 0)
  BY <1>1, <1>2, <1>3, EntriesUpdate, EntryTypes
<1>5. Outstanding(entries') <= HardCap
  BY <1>3, <1>4, EntryTypes DEF Reserve, Outstanding
<1>6. ASSUME NEW j \in ALLOCATED_CATEGORIES
      PROVE  CategoryUsed(entries', j) <= Allocation[j]
  <2>0. /\ CategoryUsed(entries, j) \in Nat
        /\ CategoryUsed(entries', j)
             = CategoryUsed(entries, j) + (IF j = k THEN est ELSE 0)
        /\ ~AllocationOverrun(entries, k, est)
        /\ CategoryUsed(entries, j) <= Allocation[j]
    BY <1>4, EntryTypes DEF Reserve, Readable, WithinLimits
  <2>1. CASE j = k
    BY <1>3, <2>0, <2>1 DEF AllocationOverrun
  <2>2. CASE j # k
    BY <1>3, <2>0, <2>2
  <2>3. QED
    BY <2>1, <2>2
<1>7. QED
  BY <1>5, <1>6 DEF Reserve, RecordsOverflow, WithinLimits

\* The arithmetic of #commitEntry is exact: it sets breached if and only if the
\* ledger it writes is over a limit.
LEMMA CommitRecords ==
  ASSUME BudgetTypeOK, BudgetTypeOK', Readable, NEW c \in CallIds, NEW actual \in Cost,
         entries[c].status = "reserved", CommitEntry(c, actual)
  PROVE  RecordsOverflow
<1> DEFINE e == entries[c]
           kind == e.category
<1>1. /\ entries'[c] = [e EXCEPT !.status = "committed", !.actual = actual]
      /\ \A d \in CallIds \ {c} : entries'[d] = entries[d]
      /\ e \in Entry
  BY EntryTypes DEF CommitEntry, BudgetTypeOK
<1>2. /\ entries'[c].status = "committed"
      /\ entries'[c].actual = actual
      /\ entries'[c].category = kind
  BY <1>1 DEF Entry
<1>3. actual \in Nat /\ e.estimated \in Nat /\ HardCap \in Nat
      /\ \A j \in ALLOCATED_CATEGORIES : Allocation[j] \in Nat
  BY MoneyAssumption, EntryTypes DEF Cost
<1>4. /\ CommittedOf(e) = 0 /\ CommittedOf(entries'[c]) = actual
      /\ ReservedOf(e) = e.estimated /\ ReservedOf(entries'[c]) = 0
  BY <1>2 DEF CommittedOf, ReservedOf
<1>5. \A j : /\ UsedOf(e, j) = IF j = kind THEN e.estimated ELSE 0
             /\ UsedOf(entries'[c], j) = IF j = kind THEN actual ELSE 0
  BY <1>2, <1>3, <1>4 DEF UsedOf
<1>6. /\ CommittedUsd(entries') = CommittedUsd(entries) + actual
      /\ ReservedUsd(entries') = ReservedUsd(entries) - e.estimated
      /\ e.estimated <= ReservedUsd(entries)
  BY <1>1, <1>3, <1>4, EntriesUpdate, EntryTypes
<1>7. \A j : CategoryUsed(entries', j) = IF j = kind
               THEN CategoryUsed(entries, j) + (actual - e.estimated)
               ELSE CategoryUsed(entries, j)
  <2>1. \A j : /\ CategoryUsed(entries, j) \in Nat
               /\ CategoryUsed(entries', j) = CategoryUsed(entries, j)
                    - UsedOf(e, j) + UsedOf(entries'[c], j)
    BY <1>1, EntriesUpdate, EntryTypes
  <2>2. QED
    BY <1>3, <1>5, <2>1
<1>8. CommittedUsd(entries)
        + (IF ReservedUsd(entries) >= e.estimated
             THEN ReservedUsd(entries) - e.estimated ELSE 0)
        + actual = Outstanding(entries')
  BY <1>3, <1>6, EntryTypes DEF Outstanding
<1>9. breached' <=> \/ breached
                    \/ Outstanding(entries') > HardCap
                    \/ AllocationOverrun(entries, kind, actual - e.estimated)
  BY <1>8 DEF CommitEntry, BudgetTypeOK
<1>10. AllocationOverrun(entries, kind, actual - e.estimated)
         <=> /\ kind \in ALLOCATED_CATEGORIES
             /\ CategoryUsed(entries', kind) > Allocation[kind]
  BY <1>7 DEF AllocationOverrun
<1>11. Outstanding(entries') \in Nat /\ \A j : CategoryUsed(entries', j) \in Nat
  BY TotalsType DEF Outstanding
<1>12. ASSUME ~breached, NEW j \in ALLOCATED_CATEGORIES, j # kind
       PROVE  CategoryUsed(entries', j) <= Allocation[j]
  BY <1>7, <1>12 DEF Readable, WithinLimits
<1>13. ~breached => (WithinLimits(entries')
         <=> /\ Outstanding(entries') <= HardCap
             /\ ~AllocationOverrun(entries, kind, actual - e.estimated))
  BY <1>3, <1>10, <1>11, <1>12 DEF WithinLimits
<1>14. QED
  BY <1>3, <1>9, <1>11, <1>13 DEF RecordsOverflow

\* Releasing reservations keeps an unbreached ledger within its limits.
LEMMA ReleasesRecord ==
  ASSUME BudgetTypeOK, BudgetTypeOK', Readable, breached' = breached,
         \A c \in CallIds :
           \/ entries'[c] = entries[c]
           \/ entries[c].status = "reserved" /\ entries'[c].status = "released"
  PROVE  RecordsOverflow
<1>1. /\ CommittedUsd(entries') <= CommittedUsd(entries)
      /\ ReservedUsd(entries') <= ReservedUsd(entries)
      /\ \A k : CategoryUsed(entries', k) <= CategoryUsed(entries, k)
  BY LedgerRelease DEF BudgetTypeOK, Ledger
<1>2. /\ CommittedUsd(entries) \in Nat /\ CommittedUsd(entries') \in Nat
      /\ ReservedUsd(entries) \in Nat /\ ReservedUsd(entries') \in Nat
      /\ \A k : CategoryUsed(entries, k) \in Nat /\ CategoryUsed(entries', k) \in Nat
      /\ HardCap \in Nat
      /\ \A k \in ALLOCATED_CATEGORIES : Allocation[k] \in Nat
  BY TotalsType, MoneyAssumption
<1>3. WithinLimits(entries) => WithinLimits(entries')
  BY <1>1, <1>2 DEF WithinLimits, Outstanding
<1>4. QED
  BY <1>3 DEF Readable, RecordsOverflow
\* Billing a failed call its estimate moves credit from reserved to committed.
LEMMA ReleaseRecords ==
  ASSUME BudgetTypeOK, BudgetTypeOK', NEW c \in CallIds, Release(c)
  PROVE  RecordsOverflow
<1>1. CASE ~ConservativeFailures
  <2>1. entries[c] \in Entry
    BY EntryTypes
  <2>2. \A d \in CallIds :
          \/ entries'[d] = entries[d]
          \/ entries[d].status = "reserved" /\ entries'[d].status = "released"
    BY <1>1, <2>1 DEF Release, BudgetTypeOK, Entry
  <2>3. QED
    BY <2>2, ReleasesRecord DEF Release
<1>2. CASE ConservativeFailures
  <2> DEFINE e == entries[c]
  <2>1. /\ e \in Entry
        /\ e.status = "reserved"
        /\ entries'[c] = [e EXCEPT !.status = "committed", !.actual = e.estimated]
        /\ \A d \in CallIds \ {c} : entries'[d] = entries[d]
    BY <1>2, EntryTypes DEF Release, BudgetTypeOK
  <2>2. /\ entries'[c].status = "committed"
        /\ entries'[c].actual = e.estimated
        /\ entries'[c].category = e.category
        /\ e.estimated \in Nat
    BY <2>1, EntryTypes DEF Entry
  <2>3. /\ CommittedOf(e) = 0 /\ CommittedOf(entries'[c]) = e.estimated
        /\ ReservedOf(e) = e.estimated /\ ReservedOf(entries'[c]) = 0
    BY <2>1, <2>2 DEF CommittedOf, ReservedOf
  <2>4. \A k : UsedOf(e, k) = UsedOf(entries'[c], k) /\ UsedOf(e, k) \in Nat
    BY <2>2, <2>3 DEF UsedOf
  <2>5. Outstanding(entries') = Outstanding(entries)
    BY <2>1, <2>2, <2>3, EntriesUpdate, EntryTypes DEF Outstanding
  <2>6. \A k : CategoryUsed(entries', k) = CategoryUsed(entries, k)
    <3>1. \A k : /\ CategoryUsed(entries, k) \in Nat
                 /\ CategoryUsed(entries', k) = CategoryUsed(entries, k)
                      - UsedOf(e, k) + UsedOf(entries'[c], k)
      BY <2>1, EntriesUpdate, EntryTypes
    <3>2. QED
      BY <2>4, <3>1
  <2>7. QED
    BY <2>5, <2>6 DEF Release, Readable, WithinLimits, RecordsOverflow
<1>3. QED
  BY <1>1, <1>2

\* Raising a committed charge moves its totals by the difference.  The method
\* compares the charges alone with the cap, so breached is exact for them and
\* for the allocations, and not for the reservations beside them.
LEMMA RaiseRecords ==
  ASSUME BudgetTypeOK, BudgetTypeOK', NEW c \in CallIds, NEW actual \in Cost,
         RaiseStep(c, actual)
  PROVE  /\ breached' => breached \/ ~WithinLimits(entries')
         /\ ~breached' => /\ CommittedUsd(entries') <= HardCap
                          /\ \A k \in ALLOCATED_CATEGORIES :
                               CategoryUsed(entries', k) <= Allocation[k]
         /\ entries'[c].actual > entries[c].actual
         /\ \A d \in CallIds \ {c} : entries'[d] = entries[d]
         /\ entries'[c].status = "committed"
<1> DEFINE e == entries[c]
           kind == e.category
<1>1. /\ entries'[c] = [e EXCEPT !.actual = actual]
      /\ \A d \in CallIds \ {c} : entries'[d] = entries[d]
      /\ e \in Entry
      /\ e.status = "committed"
      /\ actual > e.actual
  BY EntryTypes DEF RaiseStep, RaiseCharge, BudgetTypeOK
<1>2. /\ entries'[c].status = "committed"
      /\ entries'[c].actual = actual
      /\ entries'[c].category = kind
  BY <1>1 DEF Entry
<1>3. /\ actual \in Nat /\ e.actual \in Nat /\ HardCap \in Nat
      /\ \A j \in ALLOCATED_CATEGORIES : Allocation[j] \in Nat
  BY MoneyAssumption, EntryTypes DEF Cost
<1>4. /\ CommittedOf(e) = e.actual /\ CommittedOf(entries'[c]) = actual
      /\ ReservedOf(e) = 0 /\ ReservedOf(entries'[c]) = 0
  BY <1>1, <1>2 DEF CommittedOf, ReservedOf
<1>5. \A j : /\ UsedOf(e, j) = IF j = kind THEN e.actual ELSE 0
             /\ UsedOf(entries'[c], j) = IF j = kind THEN actual ELSE 0
  BY <1>2, <1>3, <1>4 DEF UsedOf
<1>6. CommittedUsd(entries') = CommittedUsd(entries) - e.actual + actual
  BY <1>1, <1>3, <1>4, EntriesUpdate, EntryTypes
<1>7. \A j : CategoryUsed(entries', j) = IF j = kind
               THEN CategoryUsed(entries, j) + (actual - e.actual)
               ELSE CategoryUsed(entries, j)
  <2>1. \A j : /\ CategoryUsed(entries, j) \in Nat
               /\ CategoryUsed(entries', j) = CategoryUsed(entries, j)
                    - UsedOf(e, j) + UsedOf(entries'[c], j)
    BY <1>1, EntriesUpdate, EntryTypes
  <2>2. QED
    BY <1>3, <1>5, <2>1
<1>8. breached' <=> \/ breached
                    \/ CommittedUsd(entries') > HardCap
                    \/ AllocationOverrun(entries, kind, actual - e.actual)
  BY <1>6 DEF RaiseStep, RaiseCharge, BudgetTypeOK
<1>9. AllocationOverrun(entries, kind, actual - e.actual)
         <=> /\ kind \in ALLOCATED_CATEGORIES
             /\ CategoryUsed(entries', kind) > Allocation[kind]
  BY <1>7 DEF AllocationOverrun
<1>10. /\ CommittedUsd(entries') \in Nat /\ ReservedUsd(entries') \in Nat
       /\ \A j : CategoryUsed(entries', j) \in Nat
  BY TotalsType
<1>11. breached' => breached \/ ~WithinLimits(entries')
  BY <1>3, <1>8, <1>9, <1>10 DEF WithinLimits, Outstanding
<1>12. ASSUME ~breached'
       PROVE  /\ CommittedUsd(entries') <= HardCap
              /\ \A k \in ALLOCATED_CATEGORIES :
                   CategoryUsed(entries', k) <= Allocation[k]
  <2>1. CommittedUsd(entries') <= HardCap
    BY <1>3, <1>8, <1>10, <1>12
  <2>2. ASSUME NEW k \in ALLOCATED_CATEGORIES
        PROVE  CategoryUsed(entries', k) <= Allocation[k]
    <3>1. CASE k = kind
      BY <1>3, <1>8, <1>9, <1>10, <1>12, <3>1
    <3>2. CASE k # kind
      BY <1>7, <1>8, <1>12, <3>2 DEF RaiseStep, Readable, WithinLimits
    <3>3. QED
      BY <3>1, <3>2
  <2>3. QED
    BY <2>1, <2>2
<1>13. QED
  BY <1>1, <1>2, <1>11, <1>12

\* Every step leaves ledger and flag alone, writes an exact flag, or raises a
\* charge.
LEMMA StepCases ==
  ASSUME BudgetTypeOK, BudgetTypeOK', [BudgetNext]_budgetVars
  PROVE  \/ UNCHANGED <<entries, breached>>
         \/ Readable /\ RecordsOverflow
         \/ \E c \in CallIds, actual \in Cost : RaiseStep(c, actual)
<1>1. ASSUME NEW c \in CallIds, EntryStep(c)
      PROVE  \/ Readable /\ RecordsOverflow
             \/ \E actual \in Cost : RaiseStep(c, actual)
  <2>1. ASSUME NEW k \in CATEGORIES, NEW est \in Cost, NEW essential \in BOOLEAN,
               NEW owner \in Owner, NEW limit \in HardLimits,
               Reserve(c, k, est, essential, owner, limit)
        PROVE  Readable /\ RecordsOverflow
    BY <2>1, ReserveRecords DEF Reserve
  <2>2. ASSUME NEW actual \in Cost, Commit(c, actual)
        PROVE  Readable /\ RecordsOverflow
    BY <2>2, CommitRecords DEF Commit
  <2>3. ASSUME NEW actual \in Cost, ReconcileCommitted(c, actual)
        PROVE  \/ Readable /\ RecordsOverflow
               \/ RaiseStep(c, actual)
    BY <2>3, CommitRecords DEF ReconcileCommitted, RaiseStep
  <2>4. ASSUME Release(c)
        PROVE  Readable /\ RecordsOverflow
    BY <2>4, ReleaseRecords DEF Release
  <2>5. ASSUME ReleaseBeforeCall(c)
        PROVE  Readable /\ RecordsOverflow
    <3>1. entries[c] \in Entry
      BY EntryTypes
    <3>2. \A d \in CallIds :
            \/ entries'[d] = entries[d]
            \/ entries[d].status = "reserved" /\ entries'[d].status = "released"
      BY <2>5, <3>1 DEF ReleaseBeforeCall, BudgetTypeOK, Entry
    <3>3. QED
      BY <2>5, <3>2, ReleasesRecord DEF ReleaseBeforeCall
  <2>6. QED
    BY <1>1, <2>1, <2>2, <2>3, <2>4, <2>5 DEF EntryStep
<1>2. ASSUME NEW scope \in Scopes, NEW admitted \in SUBSET CallIds,
             ReleaseOrphanedBeforeCall(scope, admitted)
      PROVE  Readable /\ RecordsOverflow
  <2>1. \A d \in CallIds :
          \/ entries'[d] = entries[d]
          \/ entries[d].status = "reserved" /\ entries'[d].status = "released"
    <3>1. \A d \in CallIds : entries[d] \in Entry
      BY EntryTypes
    <3>2. \A d \in CallIds :
            \/ entries'[d] = entries[d]
            \/ /\ entries[d].status = "reserved"
               /\ entries'[d] = [entries[d] EXCEPT !.status = "released", !.actual = 0]
      BY <1>2 DEF ReleaseOrphanedBeforeCall
    <3>3. QED
      BY <3>1, <3>2 DEF Entry
  <2>2. QED
    BY <1>2, <2>1, ReleasesRecord DEF ReleaseOrphanedBeforeCall
<1>3. ASSUME NEW S \in SUBSET CallIds, NEW batch \in [S -> LegacyImports],
             ReconcileLegacyEntries(batch)
      PROVE  Readable /\ RecordsOverflow
  BY <1>3 DEF ReconcileLegacyEntries, RecordsOverflow
<1>4. ASSUME NEW p \in Pids, Exit(p) \/ Start(p)
      PROVE  UNCHANGED <<entries, breached>>
  BY <1>4 DEF Exit, Start
<1>5. CASE UNCHANGED budgetVars
  BY <1>5 DEF budgetVars
<1>6. QED
  BY <1>1, <1>2, <1>3, <1>4, <1>5 DEF BudgetNext
-----------------------------------------------------------------------------
(* The theorems *)

LimitsHold == CommittedWithinCap /\ AllocationsRespected

LEMMA LimitsFromRecord ==
  ASSUME ~breached => WithinLimits(entries)
  PROVE  LimitsHold
<1>1. /\ CommittedUsd(entries) \in Nat /\ ReservedUsd(entries) \in Nat
      /\ HardCap \in Nat
  BY TotalsType, MoneyAssumption
<1>2. QED
  BY <1>1
  DEF LimitsHold, CommittedWithinCap, AllocationsRespected, WithinLimits,
      Outstanding

LEMMA LimitsInit ==
  ASSUME BudgetInit
  PROVE  LimitsHold
<1>1. \A c \in CallIds : /\ CommittedTerms(entries)[c] = 0
                         /\ ReservedTerms(entries)[c] = 0
                         /\ \A k : UsedTerms(entries, k)[c] = 0
  BY DEF BudgetInit, NoEntry, CommittedTerms, ReservedTerms, UsedTerms,
         CommittedOf, ReservedOf, UsedOf
<1>2. 0 \in Cost
  BY MoneyAssumption DEF Cost
<1>3. /\ CommittedTerms(entries) \in Costs
      /\ ReservedTerms(entries) \in Costs
      /\ \A k : UsedTerms(entries, k) \in Costs
  BY <1>1, <1>2 DEF Costs, CommittedTerms, ReservedTerms, UsedTerms
<1>4. /\ CommittedUsd(entries) = 0
      /\ ReservedUsd(entries) = 0
  BY <1>1, <1>3, SumOfZeros
  DEF CommittedUsd, ReservedUsd, CommittedTerms, ReservedTerms
<1>5. ASSUME NEW k
      PROVE  CategoryUsed(entries, k) = 0
  <2>1. Sum(UsedTerms(entries, k)) = 0
    BY <1>1, <1>3, SumOfZeros
  <2>2. QED
    BY <2>1 DEF CategoryUsed, UsedTerms
<1>6. WithinLimits(entries)
  BY <1>4, <1>5, MoneyAssumption DEF WithinLimits, Outstanding
<1>7. QED
  BY <1>6, LimitsFromRecord

LEMMA LimitsStep ==
  ASSUME BudgetTypeOK, BudgetTypeOK', LimitsHold, [BudgetNext]_budgetVars
  PROVE  LimitsHold'
<1>1. CASE UNCHANGED <<entries, breached>>
  BY <1>1 DEF LimitsHold, CommittedWithinCap, AllocationsRespected
<1>2. CASE Readable /\ RecordsOverflow
  <2>1. /\ CommittedUsd(entries') \in Nat /\ ReservedUsd(entries') \in Nat
        /\ HardCap \in Nat
    BY TotalsType, MoneyAssumption
  <2>2. QED
    BY <1>2, <2>1
    DEF RecordsOverflow, LimitsHold, CommittedWithinCap, AllocationsRespected,
        WithinLimits, Outstanding
<1>3. ASSUME NEW c \in CallIds, NEW actual \in Cost, RaiseStep(c, actual)
      PROVE  LimitsHold'
  BY <1>3, RaiseRecords
  DEF LimitsHold, CommittedWithinCap, AllocationsRespected
<1>4. QED
  BY <1>1, <1>2, <1>3, StepCases

\* Until an overrun is recorded, the charges of an installation stay within the
\* hard cap.
THEOREM SpendingWithinCap == BudgetSpec => []CommittedWithinCap
<1>1. BudgetTypeOK /\ BudgetTypeOK' /\ LimitsHold /\ [BudgetNext]_budgetVars => LimitsHold'
  BY LimitsStep
<1>2. BudgetInit => LimitsHold
  BY LimitsInit
<1>3. LimitsHold => CommittedWithinCap
  BY DEF LimitsHold
<1>4. QED
  BY <1>1, <1>2, <1>3, TypeCorrect, PTL DEF BudgetSpec

\* Until an overrun is recorded, every evaluation category stays within its
\* allocation.
THEOREM CategoriesWithinAllocations == BudgetSpec => []AllocationsRespected
<1>1. BudgetTypeOK /\ BudgetTypeOK' /\ LimitsHold /\ [BudgetNext]_budgetVars => LimitsHold'
  BY LimitsStep
<1>2. BudgetInit => LimitsHold
  BY LimitsInit
<1>3. LimitsHold => AllocationsRespected
  BY DEF LimitsHold
<1>4. QED
  BY <1>1, <1>2, <1>3, TypeCorrect, PTL DEF BudgetSpec

\* An overrun is recorded only in a ledger that is over a limit.
THEOREM BreachIsExact == BudgetSpec => BreachOnlyOnOverflow
<1>1. BudgetTypeOK /\ BudgetTypeOK' /\ [BudgetNext]_budgetVars
        => [~breached /\ breached' => ~WithinLimits(entries')]_budgetVars
  <2>1. SUFFICES ASSUME BudgetTypeOK, BudgetTypeOK', [BudgetNext]_budgetVars, ~breached, breached'
                 PROVE  ~WithinLimits(entries')
    OBVIOUS
  <2>2. ASSUME NEW c \in CallIds, NEW actual \in Cost, RaiseStep(c, actual)
        PROVE  ~WithinLimits(entries')
    BY <2>1, <2>2, RaiseRecords
  <2>3. QED
    BY <2>1, <2>2, StepCases DEF RecordsOverflow
<1>2. QED
  BY <1>1, TypeCorrect, PTL DEF BudgetSpec, BreachOnlyOnOverflow

\* The one way to a ledger that no later method can read is to raise a charge
\* while other calls hold reservations.
THEOREM WedgeHasOneCause == BudgetSpec => WedgedOnlyByLateRaise
<1>1. BudgetTypeOK /\ BudgetTypeOK' /\ [BudgetNext]_budgetVars
        => [Readable /\ ~Readable' => LateRaise]_budgetVars
  <2>1. SUFFICES ASSUME BudgetTypeOK, BudgetTypeOK', [BudgetNext]_budgetVars, Readable, ~Readable'
                 PROVE  LateRaise
    OBVIOUS
  <2>2. ~UNCHANGED <<entries, breached>>
    BY <2>1 DEF Readable
  <2>3. ~RecordsOverflow
    BY <2>1 DEF Readable, RecordsOverflow
  <2>4. PICK c \in CallIds : \E actual \in Cost : RaiseStep(c, actual)
    BY <2>1, <2>2, <2>3, StepCases
  <2>5. /\ entries[c].status = "committed"
        /\ entries'[c].status = "committed"
        /\ entries'[c].actual > entries[c].actual
        /\ \A d \in CallIds \ {c} : entries'[d] = entries[d]
        /\ CommittedUsd(entries') <= HardCap
        /\ ~(Outstanding(entries') <= HardCap)
    BY <2>1, <2>4, RaiseRecords DEF RaiseStep, Readable, WithinLimits
  <2>6. ReservedUsd(entries') # 0
    BY <2>5, TotalsType DEF Outstanding
  <2>7. PICK d \in CallIds : ReservedTerms(entries')[d] # 0
    <3>1. ReservedTerms(entries') \in Costs
      BY <2>1, TermsType DEF BudgetTypeOK, Ledger
    <3>2. Sum(ReservedTerms(entries')) # 0
      BY <2>6 DEF ReservedUsd, ReservedTerms
    <3>3. QED
      BY <3>1, <3>2, SumOfZeros
  <2>8. entries'[d].status = "reserved"
    BY <2>7 DEF ReservedTerms, ReservedOf
  <2>9. QED
    BY <2>5, <2>8 DEF LateRaise
<1>2. QED
  BY <1>1, TypeCorrect, PTL DEF BudgetSpec, WedgedOnlyByLateRaise

\* No method lowers a charge or forgets it.
THEOREM ChargesOnlyGrow == BudgetSpec => ChargesNeverLowered
<1> DEFINE Grows ==
      \A c \in CallIds : CommittedOf(entries'[c]) >= CommittedOf(entries[c])
<1>1. BudgetTypeOK /\ BudgetTypeOK' /\ [BudgetNext]_budgetVars => [Grows]_budgetVars
  <2>1. SUFFICES ASSUME BudgetTypeOK, BudgetTypeOK', [BudgetNext]_budgetVars, NEW c \in CallIds
                 PROVE  CommittedOf(entries'[c]) >= CommittedOf(entries[c])
    OBVIOUS
  <2>2. /\ entries[c] \in Entry /\ entries'[c] \in Entry
        /\ entries[c].actual \in Nat /\ entries'[c].actual \in Nat
        /\ CommittedOf(entries[c]) \in Nat /\ CommittedOf(entries'[c]) \in Nat
    BY <2>1, MoneyAssumption DEF BudgetTypeOK, Entry, Cost, CommittedOf
  <2>3. SUFFICES ASSUME entries[c].status = "committed",
                        entries'[c] # entries[c]
                 PROVE  /\ entries'[c].status = "committed"
                        /\ entries'[c].actual >= entries[c].actual
    BY <2>2 DEF CommittedOf
  <2>4. ASSUME NEW d \in CallIds, EntryStep(d)
        PROVE  \E actual \in Cost : c = d /\ RaiseCharge(c, actual)
    <3>1. \A x \in CallIds \ {d} : entries'[x] = entries[x]
      BY <2>1, <2>4
      DEF EntryStep, Reserve, Commit, CommitEntry, ReconcileCommitted, RaiseCharge,
          Release, ReleaseBeforeCall, BudgetTypeOK
    <3>2. c = d
      BY <2>3, <3>1
    <3>3. QED
      BY <2>3, <2>4, <3>2
      DEF EntryStep, Reserve, Commit, ReconcileCommitted, Release, ReleaseBeforeCall
  <2>5. ASSUME NEW actual \in Cost, RaiseCharge(c, actual)
        PROVE  /\ entries'[c].status = "committed"
               /\ entries'[c].actual >= entries[c].actual
    BY <2>1, <2>2, <2>3, <2>5, MoneyAssumption DEF RaiseCharge, BudgetTypeOK, Entry, Cost
  <2>6. ASSUME NEW scope \in Scopes, NEW admitted \in SUBSET CallIds,
               ReleaseOrphanedBeforeCall(scope, admitted)
        PROVE  FALSE
    BY <2>3, <2>6 DEF ReleaseOrphanedBeforeCall
  <2>7. ASSUME NEW S \in SUBSET CallIds, NEW batch \in [S -> LegacyImports],
               ReconcileLegacyEntries(batch)
        PROVE  /\ entries'[c].status = "committed"
               /\ entries'[c].actual >= entries[c].actual
    <3>1. c \in S /\ entries'[c] = Imported(entries[c], batch[c])
      BY <2>3, <2>7 DEF ReconcileLegacyEntries
    <3>2. batch[c].actual \in Nat
      BY <3>1, LegacyAssumption, MoneyAssumption DEF LegacyEntry, Cost
    <3>3. QED
      BY <2>2, <2>3, <3>1, <3>2 DEF Imported, CommittedOf, Higher
  <2>8. ASSUME NEW p \in Pids, Exit(p) \/ Start(p)
        PROVE  FALSE
    BY <2>3, <2>8 DEF Exit, Start
  <2>9. CASE UNCHANGED budgetVars
    BY <2>3, <2>9 DEF budgetVars
  <2>10. QED
    BY <2>1, <2>4, <2>5, <2>6, <2>7, <2>8, <2>9 DEF BudgetNext
<1>2. QED
  BY <1>1, TypeCorrect, PTL DEF BudgetSpec, ChargesNeverLowered
=============================================================================

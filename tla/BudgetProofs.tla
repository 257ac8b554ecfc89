---------------------------- MODULE BudgetProofs ----------------------------
(***************************************************************************)
(* The lock of the shared ledger and the two stores that account for a     *)
(* call, for any number of processes.                                      *)
(*                                                                         *)
(* The lock: as long as no process dies, the lock file excludes, and the   *)
(* ledger behaves like the one of AtomicLedger.  The inductive invariant   *)
(* says that the file at the path belongs to the one process that is       *)
(* between creating it and unlinking it (LockedBy), that nobody finds it   *)
(* abandoned, and that the ledger this process has read is still the       *)
(* durable one (FreshCopy).                                                *)
(*                                                                         *)
(* The accounts: what a vault has recorded as spent is covered by the      *)
(* shared ledger, for any number of calls, processes and crashes and any   *)
(* way of sharing the calls.                                               *)
(***************************************************************************)
EXTENDS BudgetLock, VaultBudget, FiniteSetTheorems, TLAPS

-----------------------------------------------------------------------------
(* The lock                                                                  *)

NoCrash == Crashable = {}

LockedBy ==
  \A p \in Processes :
    /\ pc[p] # "crashed"
    /\ pc[p] \notin {"compare", "quarantine"}
    /\ pc[p] \in Critical => /\ path # NoInode
                             /\ path = held[p]
                             /\ file[path].pid = p

FreshCopy ==
  \A p \in Processes :
    pc[p] \in {"assert", "confirm", "rename"} =>
      /\ copy[p] = ledger
      /\ p \notin ledger
      /\ Cardinality(ledger) < Allowance

GrantsRecorded ==
  /\ granted \subseteq ledger
  /\ Cardinality(ledger) <= Allowance

IInv == TypeOK /\ LockedBy /\ FreshCopy /\ GrantsRecorded

LEMMA LedgerFinite ==
  ASSUME TypeOK
  PROVE  IsFiniteSet(ledger) /\ Cardinality(ledger) \in Nat
<1>1. IsFiniteSet(ledger)
  BY ProcessesAssumption, FS_Subset DEF TypeOK
<1>2. QED
  BY <1>1, FS_CardinalityType

LEMMA Exclusive ==
  ASSUME IInv
  PROVE  MutualExclusion
BY DEF IInv, LockedBy, MutualExclusion

LEMMA IInvInit ==
  ASSUME Init
  PROVE  IInv
<1>1. TypeOK
  BY InodesAssumption, ProcessesAssumption
  DEF Init, TypeOK, File, Phases, Critical
<1>2. LockedBy /\ FreshCopy
  BY DEF Init, LockedBy, FreshCopy, Critical
<1>3. Cardinality(ledger) = 0 /\ granted = {}
  BY FS_EmptySet DEF Init
<1>4. GrantsRecorded
  BY <1>3, AllowanceAssumption DEF GrantsRecorded
<1>5. QED
  BY <1>1, <1>2, <1>4 DEF IInv

-----------------------------------------------------------------------------
(* Steps that leave the lock and the ledger alone *)

LEMMA WrittenType ==
  ASSUME NEW f \in File
  PROVE  [f EXCEPT !.written = TRUE] \in File
BY DEF File

LEMMA TypeStep ==
  ASSUME TypeOK, LockedBy, NEW p \in Processes, Begin(p) \/ Step(p)
  PROVE  TypeOK'
<1> USE InodesAssumption DEF TypeOK, Phases, Critical, Goto
<1>1. CASE Begin(p)
  BY <1>1 DEF Begin
<1>2. CASE CreateLock(p)
  BY <1>2 DEF CreateLock, File
<1>3. CASE LockExists(p)
  BY <1>3 DEF LockExists
<1>4. CASE WriteLock(p)
  <2>1. \A i \in Inodes : [file[i] EXCEPT !.written = TRUE] \in File
    BY WrittenType
  <2>2. file' = [file EXCEPT ![held[p]] = [file[held[p]] EXCEPT !.written = TRUE]]
    BY <1>4 DEF WriteLock
  <2>3. file' \in [Inodes -> File]
    BY <2>1, <2>2
  <2>4. pc' \in [Processes -> Phases]
    BY <1>4 DEF WriteLock
  <2> QED
    BY <1>4, <2>3, <2>4 DEF WriteLock
<1>5. CASE WriteLockFails(p)
  BY <1>5 DEF WriteLockFails
<1>6. CASE InspectAbandoned(p)
  BY <1>6 DEF InspectAbandoned, Abandoned
<1>7. CASE InspectOther(p)
  BY <1>7 DEF InspectOther
<1>8. CASE ComparePath(p)
  BY <1>8 DEF ComparePath
<1>9. CASE Quarantine(p)
  BY <1>9 DEF Quarantine
<1>10. CASE Retry(p) \/ TimeOut(p)
  BY <1>10 DEF Retry, TimeOut
<1>11. CASE ReadLedger(p)
  BY <1>11 DEF ReadLedger
<1>12. CASE AssertOwnsLock(p) \/ ConfirmOwnsLock(p)
  BY <1>12 DEF AssertOwnsLock, ConfirmOwnsLock
<1>13. CASE RenameLedger(p)
  BY <1>13 DEF RenameLedger
<1>14. CASE ReleaseLock(p)
  BY <1>14 DEF ReleaseLock, Finish
<1>15. CASE UnlinkLock(p)
  BY <1>15 DEF UnlinkLock, Finish
<1>16. QED
  BY <1>1, <1>2, <1>3, <1>4, <1>5, <1>6, <1>7, <1>8, <1>9, <1>10, <1>11,
     <1>12, <1>13, <1>14, <1>15 DEF Step

\* Nobody finds a lock abandoned, so only its holder ever touches the path.
LEMMA LockedByStep ==
  ASSUME TypeOK, TypeOK', LockedBy, NEW p \in Processes, Begin(p) \/ Step(p)
  PROVE  LockedBy'
<1> USE DEF Critical, Goto
<1>1. ASSUME NEW label, pc' = [pc EXCEPT ![p] = label],
             UNCHANGED <<path, file, held>>,
             label \notin {"crashed", "compare", "quarantine"},
             label \in Critical => pc[p] \in Critical
      PROVE  LockedBy'
  BY <1>1 DEF LockedBy, TypeOK
<1>2. CASE Begin(p) \/ LockExists(p) \/ InspectOther(p) \/ Retry(p) \/ TimeOut(p)
  BY <1>1, <1>2 DEF Begin, LockExists, InspectOther, Retry, TimeOut
<1>3. CASE ReadLedger(p) \/ AssertOwnsLock(p) \/ ConfirmOwnsLock(p) \/ RenameLedger(p)
  BY <1>1, <1>3 DEF ReadLedger, AssertOwnsLock, ConfirmOwnsLock, RenameLedger
<1>4. CASE CreateLock(p)
  <2>1. \A q \in Processes : pc[q] \notin Critical
    BY <1>4 DEF CreateLock, LockedBy
  <2>2. QED
    BY <1>4, <2>1, InodesAssumption DEF CreateLock, LockedBy, TypeOK
<1>5. CASE WriteLock(p)
  BY <1>5 DEF WriteLock, LockedBy, TypeOK, File
<1>6. CASE InspectAbandoned(p)
  BY <1>6 DEF InspectAbandoned, Abandoned, Alive, LockedBy, TypeOK, File
<1>7. CASE ComparePath(p) \/ Quarantine(p)
  BY <1>7 DEF ComparePath, Quarantine, LockedBy
<1>8. \A q \in Processes \ {p} : pc[p] \in Critical => pc[q] \notin Critical
  BY DEF LockedBy
<1>9. CASE WriteLockFails(p)
  BY <1>8, <1>9 DEF WriteLockFails, LockedBy, TypeOK
<1>10. CASE ReleaseLock(p)
  BY <1>10 DEF ReleaseLock, OwnsLock, Finish, LockedBy, TypeOK
<1>11. CASE UnlinkLock(p)
  BY <1>8, <1>11 DEF UnlinkLock, Finish, LockedBy, TypeOK
<1>12. QED
  BY <1>2, <1>3, <1>4, <1>5, <1>6, <1>7, <1>9, <1>10, <1>11 DEF Step

\* The ledger changes only by the rename of a process that read it as it is.
LEMMA RenameAdmits ==
  ASSUME IInv, NEW p \in Processes, RenameLedger(p)
  PROVE  /\ ledger' = ledger \cup {p}
         /\ p \notin ledger
         /\ Cardinality(ledger) < Allowance
         /\ Cardinality(ledger') = Cardinality(ledger) + 1
<1>1. /\ ledger' = ledger \cup {p}
      /\ p \notin ledger
      /\ Cardinality(ledger) < Allowance
  BY DEF IInv, FreshCopy, RenameLedger
<1>2. QED
  BY <1>1, LedgerFinite, FS_AddElement DEF IInv

LEMMA LedgerStep ==
  ASSUME IInv, TypeOK', LockedBy', NEW p \in Processes, Begin(p) \/ Step(p)
  PROVE  FreshCopy' /\ GrantsRecorded'
<1>1. CASE RenameLedger(p)
  <2>1. GrantsRecorded'
    BY <1>1, RenameAdmits, LedgerFinite, AllowanceAssumption
    DEF RenameLedger, IInv, GrantsRecorded
  <2>2. \A q \in Processes \ {p} : pc[q] \notin Critical
    BY <1>1 DEF RenameLedger, IInv, LockedBy, Critical
  <2>3. FreshCopy'
    BY <1>1, <2>2 DEF RenameLedger, Goto, FreshCopy, Critical, IInv, TypeOK
  <2>4. QED
    BY <2>1, <2>3
<1>2. CASE ReadLedger(p)
  BY <1>2 DEF ReadLedger, Goto, FreshCopy, GrantsRecorded, IInv, TypeOK
<1>3. CASE AssertOwnsLock(p) \/ ConfirmOwnsLock(p)
  BY <1>3
  DEF AssertOwnsLock, ConfirmOwnsLock, Goto, FreshCopy, GrantsRecorded, IInv, TypeOK
<1>4. ASSUME UNCHANGED <<ledger, granted>>,
             \A q \in Processes : pc'[q] \in {"assert", "confirm", "rename"} =>
                                    pc'[q] = pc[q] /\ copy'[q] = copy[q]
      PROVE  FreshCopy' /\ GrantsRecorded'
  BY <1>4 DEF FreshCopy, GrantsRecorded, IInv
<1>5. CASE Begin(p) \/ CreateLock(p) \/ LockExists(p) \/ WriteLock(p)
             \/ WriteLockFails(p) \/ InspectAbandoned(p) \/ InspectOther(p)
  BY <1>4, <1>5
  DEF Begin, CreateLock, LockExists, WriteLock, WriteLockFails, InspectAbandoned,
      InspectOther, Goto, IInv, TypeOK
<1>6. CASE ComparePath(p) \/ Quarantine(p) \/ Retry(p) \/ TimeOut(p)
  BY <1>4, <1>6
  DEF ComparePath, Quarantine, Retry, TimeOut, Goto, IInv, TypeOK
<1>7. CASE ReleaseLock(p) \/ UnlinkLock(p)
  BY <1>4, <1>7 DEF ReleaseLock, UnlinkLock, Finish, Goto, IInv, TypeOK
<1>8. QED
  BY <1>1, <1>2, <1>3, <1>5, <1>6, <1>7 DEF Step

LEMMA IInvStep ==
  ASSUME NoCrash, IInv, [Next]_vars
  PROVE  IInv'
<1>1. ASSUME NEW p \in Processes, Begin(p) \/ Step(p)
      PROVE  IInv'
  BY <1>1, TypeStep, LockedByStep, LedgerStep DEF IInv
<1>2. ASSUME NEW p \in Processes, Crash(p) \/ Restart(p)
      PROVE  FALSE
  BY <1>2 DEF Crash, Restart, NoCrash, IInv, LockedBy
<1>3. ASSUME NEW i \in Inodes, Age(i)
      PROVE  IInv'
  <2>1. /\ file' = [file EXCEPT ![i].old = TRUE]
        /\ UNCHANGED <<path, ledger, pc, held, seen, copy, granted>>
    BY <1>3 DEF Age
  <2>2. TypeOK'
    BY <2>1 DEF IInv, TypeOK, File
  <2>3. \A j \in Inodes : file'[j].pid = file[j].pid
    BY <2>1 DEF IInv, TypeOK, File
  <2>4. LockedBy'
    BY <2>1, <2>3 DEF IInv, LockedBy, TypeOK
  <2>5. FreshCopy' /\ GrantsRecorded'
    BY <2>1 DEF IInv, FreshCopy, GrantsRecorded
  <2>6. QED
    BY <2>2, <2>4, <2>5 DEF IInv
<1>4. CASE UNCHANGED vars
  BY <1>4
  DEF vars, IInv, TypeOK, LockedBy, FreshCopy, GrantsRecorded
<1>5. QED
  BY <1>1, <1>2, <1>3, <1>4 DEF Next

-----------------------------------------------------------------------------
(* The theorems *)

\* As long as no process dies, no two processes hold the lock.
THEOREM Exclusion == NoCrash => (Spec => []MutualExclusion)
<1> SUFFICES ASSUME NoCrash
             PROVE  Spec => []MutualExclusion
  OBVIOUS
<1>1. Init => IInv
  BY IInvInit
<1>2. IInv /\ [Next]_vars => IInv'
  BY IInvStep
<1>3. IInv => MutualExclusion
  BY Exclusive
<1>4. QED
  BY <1>1, <1>2, <1>3, PTL DEF Spec

\* As long as no process dies, the calls that went ahead fit the allowance.
THEOREM OneAllowance == NoCrash => (Spec => []SingleAllowance)
<1> SUFFICES ASSUME NoCrash
             PROVE  Spec => []SingleAllowance
  OBVIOUS
<1>1. Init => IInv
  BY IInvInit
<1>2. IInv /\ [Next]_vars => IInv'
  BY IInvStep
<1>3. IInv => SingleAllowance
  <2>1. SUFFICES ASSUME IInv
                 PROVE  Cardinality(granted) <= Allowance
    BY DEF SingleAllowance
  <2>2. IsFiniteSet(ledger) /\ Cardinality(ledger) \in Nat
    BY <2>1, LedgerFinite DEF IInv
  <2>3. /\ IsFiniteSet(granted)
        /\ Cardinality(granted) <= Cardinality(ledger)
    BY <2>1, <2>2, FS_Subset DEF IInv, GrantsRecorded
  <2>4. Cardinality(granted) \in Nat
    BY <2>3, FS_CardinalityType
  <2>5. QED
    BY <2>1, <2>2, <2>3, <2>4, AllowanceAssumption DEF IInv, GrantsRecorded
<1>4. QED
  BY <1>1, <1>2, <1>3, PTL DEF Spec

\* As long as no process dies, the lock protocol implements the atomic ledger:
\* the rename is its one visible step.
THEOREM Refinement == NoCrash => (Spec => ImplementsAuthority)
<1> SUFFICES ASSUME NoCrash
             PROVE  Spec => ImplementsAuthority
  OBVIOUS
<1>1. Init => IInv
  BY IInvInit
<1>2. IInv /\ [Next]_vars => IInv'
  BY IInvStep
<1>3. Init => Authority!Init
  BY DEF Init, Authority!Init
<1>4. IInv /\ [Next]_vars => [Authority!Next]_ledger
  <2>1. SUFFICES ASSUME IInv, [Next]_vars, ledger' # ledger
                 PROVE  Authority!Next
    OBVIOUS
  <2>2. PICK p \in Processes : RenameLedger(p)
    BY <2>1
    DEF Next, Begin, Step, CreateLock, LockExists, WriteLock, WriteLockFails,
        InspectAbandoned, InspectOther, ComparePath, Quarantine, Retry, TimeOut,
        ReadLedger, AssertOwnsLock, ConfirmOwnsLock, ReleaseLock, UnlinkLock,
        Age, Crash, Restart, vars
  <2>3. /\ ledger' = ledger \cup {p}
        /\ p \notin ledger
        /\ Cardinality(ledger) < Allowance
    BY <2>1, <2>2, RenameAdmits
  <2>4. Authority!Admit(p)
    BY <2>3 DEF Authority!Admit, Authority!Cardinality, Cardinality
  <2>5. QED
    BY <2>4 DEF Authority!Next
<1>5. QED
  BY <1>1, <1>2, <1>3, <1>4, PTL DEF Spec, ImplementsAuthority, Authority!Spec

-----------------------------------------------------------------------------
(* The accounts                                                              *)

(* The shapes of the records that steps change in part.                        *)
MethodShape(m) ==
  /\ m = [f \in {"step", "call", "todo", "settling", "deleting", "cost"} |-> m[f]]
  /\ m.call \in Calls \cup {NoCall} /\ m.settling \subseteq Calls /\ m.cost \in Nat
EntryShape(e) == e = [f \in {"status", "actual"} |-> e[f]] /\ e.actual \in Nat
RowShape(r) == r = [f \in {"status", "cost", "attached"} |-> r[f]] /\ r.cost \in Nat

Functions ==
  /\ charges = [c \in Calls |-> charges[c]]
  /\ row = [c \in Calls |-> row[c]]
  /\ stage = [c \in Calls |-> stage[c]]
  /\ op = [p \in Programs |-> op[p]]
  /\ home \in [Calls -> Programs]

Covers(e, amount) == e.status = "committed" /\ e.actual >= amount

(* Only a row that is settled costs anything, and the ledger's entry covers it. *)
RowIsSound(e, r) ==
  /\ RowShape(r)
  /\ r.status \notin {"settled", "scrubbed"} => r.cost = 0
  /\ r.status \in {"settled", "scrubbed"} => Covers(e, r.cost)

(* A call has no row before it is admitted.                                    *)
CallIsSound(c) ==
  /\ EntryShape(charges[c]) /\ RowIsSound(charges[c], row[c])
  /\ stage[c] \in {"new", "reserving"} => row[c].status = "none"

(* A method is about a call of its own process; one that reserves finds no row. *)
MethodIsAtHome(p) ==
  /\ MethodShape(op[p])
  /\ op[p].call # NoCall => home[op[p].call] = p
  /\ op[p].step \in {"begin", "undo", "record", "attach", "release"} => op[p].call # NoCall
  /\ op[p].step \in {"charge", "begin", "settle"} /\ op[p].call # NoCall =>
       stage[op[p].call] = "reserving"
  /\ op[p].step = "chargeAll" => op[p].call = NoCall
  /\ op[p].step \in {"charge", "chargeAll", "begin"} => op[p].deleting = {}

(* The rows a transaction settles stay as it found them, and those it has gone  *)
(* through are charged; a row that it deletes is settled before.               *)
TransactionIsSound(p) ==
  /\ txn = p <=> op[p].step = "settle"
  /\ op[p].step = "settle" =>
       /\ \A c \in op[p].settling :
            row[c].status = "reserved" /\ (c \notin op[p].todo => Covers(charges[c], Estimate))
       /\ \A c \in op[p].deleting : row[c].status = "reserved" => c \in op[p].settling

(* A cost is in the file before the row gets it.                               *)
CostIsInFile(p) ==
  op[p].step = "attach" =>
    row[op[p].call].status # "none" /\ Covers(charges[op[p].call], op[p].cost)

MethodIsSound(p) == MethodIsAtHome(p) /\ TransactionIsSound(p) /\ CostIsInFile(p)

AccountInv ==
  /\ Functions
  /\ \A c \in Calls : CallIsSound(c)
  /\ \A p \in Programs : MethodIsSound(p)

(* All of it holds in the beginning.                                           *)
LEMMA AccountsInitially == AccountInit => AccountInv
<1> SUFFICES ASSUME AccountInit PROVE AccountInv
  OBVIOUS
<1>1. Functions
  BY HomesAssumption DEF AccountInit, Functions
<1>2. ASSUME NEW c \in Calls PROVE CallIsSound(c)
  BY <1>2 DEF AccountInit, CallIsSound, EntryShape, RowIsSound, RowShape
<1>3. ASSUME NEW p \in Programs PROVE MethodIsSound(p)
  BY <1>3, NoneAssumption
  DEF AccountInit, MethodIsSound, MethodIsAtHome, TransactionIsSound, CostIsInFile,
      MethodShape, Idle
<1> QED BY <1>1, <1>2, <1>3 DEF AccountInv

(* A charge covers its amount and what was covered before.                     *)
LEMMA ChargesCover ==
  ASSUME NEW e, EntryShape(e), NEW cost \in Nat
  PROVE  /\ EntryShape(Charged(e, cost))
         /\ Covers(Charged(e, cost), cost)
         /\ \A amount \in Nat : Covers(e, amount) => Covers(Charged(e, cost), amount)
BY DEF Charged, Larger, EntryShape, Covers

(* What a step of one process leaves to the others: their methods, their calls  *)
(* and, but for their transactions, the rows; a row that is there is not       *)
(* forgotten, and what the file covers it goes on covering.                    *)
StepOf(p) ==
  /\ UNCHANGED home
  /\ op' = [q \in Programs |-> op'[q]] /\ \A q \in Programs \ {p} : op'[q] = op[q]
  /\ stage' = [c \in Calls |-> stage'[c]]
  /\ \A c \in Calls : home[c] # p => stage'[c] = stage[c]
  /\ \A q \in Programs \ {p} : txn' = q <=> txn = q
  /\ charges' = [c \in Calls |-> charges'[c]]
  /\ \A c \in Calls, amount \in Nat :
       row[c].status # "none" /\ Covers(charges[c], amount) => Covers(charges'[c], amount)
  /\ row' = [c \in Calls |-> row'[c]]
  /\ \A c \in Calls : row[c].status # "none" => row'[c].status # "none"
  /\ row' = row \/ txn \in {NoProgram, p}

(* The methods of the other processes remain sound.                            *)
LEMMA OthersRemainSound ==
  ASSUME AccountInv, NEW p \in Programs, StepOf(p), NEW q \in Programs \ {p}
  PROVE  MethodIsSound(q)'
<1> USE NoneAssumption, CostAssumption DEF StepOf
<1>0. MethodIsSound(q) /\ home \in [Calls -> Programs]
  BY DEF AccountInv, Functions
<1>1. MethodIsAtHome(q)'
  BY <1>0 DEF MethodIsSound, MethodIsAtHome, MethodShape
<1>2. TransactionIsSound(q)'
  BY <1>0 DEF MethodIsSound, MethodIsAtHome, MethodShape, TransactionIsSound
<1>3. CostIsInFile(q)'
  BY <1>0 DEF MethodIsSound, MethodIsAtHome, MethodShape, CostIsInFile
<1> QED BY <1>1, <1>2, <1>3 DEF MethodIsSound

(* So a step of a process has to look after its own method and the calls.       *)
LEMMA StepKeepsAccounts ==
  ASSUME AccountInv, NEW p \in Programs, StepOf(p), MethodIsSound(p)',
         \A c \in Calls : CallIsSound(c)'
  PROVE  AccountInv'
<1>1. Functions'
  BY DEF StepOf, AccountInv, Functions
<1>2. \A q \in Programs : MethodIsSound(q)'
  BY OthersRemainSound
<1> QED BY <1>1, <1>2 DEF AccountInv

(* A released entry keeps its fields.                                         *)
LEMMA ReleasesUncover ==
  ASSUME NEW e, EntryShape(e)
  PROVE  /\ EntryShape([e EXCEPT !.status = "released"])
         /\ ~Covers([e EXCEPT !.status = "released"], 0)
BY DEF EntryShape, Covers

(* Giving a reservation back changes no entry that is committed.               *)
LEMMA Releases ==
  ASSUME Functions, \A c \in Calls : CallIsSound(c), NEW d \in Calls,
         charges' = ReleasedBeforeCall(d)
  PROVE  /\ charges' = [c \in Calls |-> charges'[c]]
         /\ \A c \in Calls : EntryShape(charges'[c]) /\
               (charges[c].status # "reserved" => charges'[c] = charges[c])
<1>1. charges' = [c \in Calls |-> charges'[c]]
  BY DEF Functions, ReleasedBeforeCall
<1>2. ASSUME NEW c \in Calls
      PROVE  \/ charges'[c] = charges[c]
             \/ /\ charges[c].status = "reserved"
                /\ charges'[c] = [charges[c] EXCEPT !.status = "released"]
  BY <1>2 DEF Functions, ReleasedBeforeCall
<1>3. ASSUME NEW c \in Calls PROVE EntryShape(charges'[c])
  <2>1. EntryShape(charges[c])
    BY <1>3 DEF CallIsSound
  <2>2. EntryShape([charges[c] EXCEPT !.status = "released"])
    BY <2>1, ReleasesUncover
  <2> QED BY <1>2, <1>3, <2>1, <2>2
<1> QED BY <1>1, <1>2, <1>3

(* The rows a transaction has gone through are sound when they are settled.      *)
LEMMA SettledRows ==
  ASSUME Functions, \A c \in Calls : CallIsSound(c), NEW p \in Programs,
         MethodIsSound(p), At(p, "settle"), op[p].todo = {}
  PROVE  /\ Settled(p) = [c \in Calls |-> Settled(p)[c]]
         /\ \A c \in Calls : 
           /\ RowIsSound(charges[c], Settled(p)[c])
           /\ row[c].status = "none" <=> Settled(p)[c].status = "none"
<1> USE CostAssumption DEF Settled, At
<1>1. Settled(p) = [c \in Calls |-> Settled(p)[c]]
  OBVIOUS
<1>2. ASSUME NEW c \in Calls
      PROVE  /\ RowIsSound(charges[c], Settled(p)[c])
             /\ row[c].status = "none" <=> Settled(p)[c].status = "none"
  <2>1. CASE c \in op[p].settling
    <3>1. row[c].status = "reserved" /\ Covers(charges[c], Estimate)
      BY <1>2, <2>1 DEF MethodIsSound, TransactionIsSound
    <3> QED BY <1>2, <2>1, <3>1 DEF RowIsSound, RowShape
  <2>2. CASE c \notin op[p].settling
    <3>1. Settled(p)[c] = row[c]
      BY <1>2, <2>2
    <3> QED BY <1>2, <3>1 DEF CallIsSound
  <2> QED BY <2>1, <2>2
<1> QED BY <1>1, <1>2

(* Scrubbing keeps what a row cost, or drops a row that cost nothing.           *)
LEMMA ScrubbedRows ==
  ASSUME NEW e, NEW r, RowIsSound(e, r)
  PROVE  /\ RowIsSound(e, Scrubbed(r))
         /\ r.status # "none" => Scrubbed(r).status # "none"
         /\ r.status = "none" => Scrubbed(r).status = "none"
<1>1. CASE r.status = "none"
  BY <1>1 DEF Scrubbed, RowIsSound, RowShape
<1>2. CASE r.status # "none" /\ r.cost > 0
  <2>1. Scrubbed(r) = [r EXCEPT !.status = "scrubbed"]
    BY <1>2 DEF Scrubbed
  <2> QED BY <1>2, <2>1 DEF RowIsSound, RowShape
<1>3. CASE r.status # "none" /\ ~(r.cost > 0)
  <2>1. Scrubbed(r) = [r EXCEPT !.status = "gone"]
    BY <1>3 DEF Scrubbed
  <2> QED BY <1>3, <2>1 DEF RowIsSound, RowShape
<1> QED BY <1>1, <1>2, <1>3

(* Opening reads the rows.                                                   *)
LEMMA ReadAdmittedKeeps ==
  ASSUME AccountInv, NEW p \in Programs, ReadAdmitted(p)
  PROVE  AccountInv'
<1> USE NoneAssumption, CostAssumption DEF ReadAdmitted, callVars, At
<1>0. /\ Functions /\ MethodIsSound(p) /\ \A c \in Calls : CallIsSound(c)
      /\ p \in Programs
  BY DEF AccountInv, Functions
<1>1. StepOf(p)
  BY <1>0 DEF StepOf, Functions, MethodIsSound, MethodIsAtHome, MethodShape
<1>2. MethodIsAtHome(p)'
  BY <1>0 DEF Functions, MethodIsSound, MethodIsAtHome, MethodShape
<1>3. TransactionIsSound(p)'
  BY <1>0 DEF Functions, MethodIsSound, MethodIsAtHome, TransactionIsSound, MethodShape
<1>4. CostIsInFile(p)'
  BY <1>0 DEF Functions, MethodIsSound, MethodIsAtHome, CostIsInFile, MethodShape
<1>5. ASSUME NEW c \in Calls PROVE CallIsSound(c)'
  BY <1>0, <1>5 DEF Functions, CallIsSound
<1> QED BY <1>0, <1>1, <1>2, <1>3, <1>4, <1>5, StepKeepsAccounts DEF MethodIsSound

(* Only what is merely reserved is released.                                 *)
LEMMA ReleaseOrphansKeeps ==
  ASSUME AccountInv, NEW p \in Programs, ReleaseOrphans(p)
  PROVE  AccountInv'
<1> USE NoneAssumption, CostAssumption DEF ReleaseOrphans, GoOn, callVars, At
<1>0. /\ Functions /\ MethodIsSound(p) /\ \A c \in Calls : CallIsSound(c)
      /\ p \in Programs
  BY DEF AccountInv, Functions
<1>6. ASSUME NEW c \in Calls
      PROVE  \/ charges'[c] = charges[c]
             \/ charges[c].status = "reserved" /\ EntryShape(charges'[c])
  BY <1>0, <1>6, ReleasesUncover DEF CallIsSound
<1>1. StepOf(p)
  BY <1>0, <1>6 DEF StepOf, Functions, MethodIsSound, MethodIsAtHome, MethodShape, Covers
<1>2. MethodIsAtHome(p)'
  BY <1>0 DEF Functions, MethodIsSound, MethodIsAtHome, MethodShape
<1>3. TransactionIsSound(p)'
  BY <1>0 DEF Functions, MethodIsSound, MethodIsAtHome, TransactionIsSound, MethodShape
<1>4. CostIsInFile(p)'
  BY <1>0 DEF Functions, MethodIsSound, MethodIsAtHome, CostIsInFile, MethodShape
<1>5. ASSUME NEW c \in Calls PROVE CallIsSound(c)'
  BY <1>0, <1>5, <1>6 DEF CallIsSound, RowIsSound, Covers
<1> QED BY <1>0, <1>1, <1>2, <1>3, <1>4, <1>5, StepKeepsAccounts DEF MethodIsSound

(* The import charges what is settled and touches no other charge.           *)
LEMMA ImportRowsKeeps ==
  ASSUME AccountInv, NEW p \in Programs, ImportRows(p)
  PROVE  AccountInv'
<1> USE NoneAssumption, CostAssumption DEF ImportRows, Done, Idle, At
<1>0. /\ Functions /\ MethodIsSound(p) /\ \A c \in Calls : CallIsSound(c)
      /\ p \in Programs
  BY DEF AccountInv, Functions
<1>6. ASSUME NEW c \in Calls
      PROVE  \/ charges'[c] = charges[c]
             \/ row[c].status = "settled" /\ charges'[c] = Charged(charges[c], row[c].cost)
             \/ /\ charges[c].status = "absent" /\ row[c].status = "reserved"
                /\ charges'[c] = [status |-> "reserved", actual |-> 0]
  BY <1>0, <1>6
<1>7. ASSUME NEW c \in Calls
      PROVE  EntryShape(charges'[c]) /\ \A amount \in Nat :
               Covers(charges[c], amount) => Covers(charges'[c], amount)
  <2>1. EntryShape(charges[c]) /\ row[c].cost \in Nat
    BY <1>0, <1>7 DEF CallIsSound, RowIsSound, RowShape
  <2> QED BY <1>6, <1>7, <2>1, ChargesCover DEF EntryShape, Covers
<1>1. StepOf(p)
  BY <1>0, <1>7 DEF StepOf, Functions, MethodIsSound, MethodIsAtHome, MethodShape
<1>2. MethodIsAtHome(p)'
  BY <1>0 DEF Functions, MethodIsSound, MethodIsAtHome, MethodShape
<1>3. TransactionIsSound(p)'
  BY <1>0 DEF Functions, MethodIsSound, MethodIsAtHome, TransactionIsSound, MethodShape
<1>4. CostIsInFile(p)'
  BY <1>0 DEF Functions, MethodIsSound, MethodIsAtHome, CostIsInFile, MethodShape
<1>5. ASSUME NEW c \in Calls PROVE CallIsSound(c)'
  BY <1>0, <1>5, <1>7 DEF CallIsSound, RowIsSound, RowShape
<1> QED BY <1>0, <1>1, <1>2, <1>3, <1>4, <1>5, StepKeepsAccounts DEF MethodIsSound

(* A call begins to reserve.                                                 *)
LEMMA BeginReserveKeeps ==
  ASSUME AccountInv, NEW d \in Calls, BeginReserve(home[d], d)
  PROVE  AccountInv'
<1> USE NoneAssumption, CostAssumption
DEF BeginReserve, Idle, ExpiredRows, ReservedRows, callVars, At
<1>0. /\ Functions /\ MethodIsSound(home[d]) /\ \A c \in Calls : CallIsSound(c)
      /\ home[d] \in Programs
  BY DEF AccountInv, Functions
<1>1. StepOf(home[d])
  BY <1>0 DEF StepOf, Functions, MethodIsSound, MethodIsAtHome, MethodShape
<1>2. MethodIsAtHome(home[d])'
  BY <1>0 DEF Functions, MethodIsSound, MethodIsAtHome, MethodShape
<1>3. TransactionIsSound(home[d])'
  BY <1>0 DEF Functions, MethodIsSound, MethodIsAtHome, TransactionIsSound, MethodShape
<1>4. CostIsInFile(home[d])'
  BY <1>0 DEF Functions, MethodIsSound, MethodIsAtHome, CostIsInFile, MethodShape
<1>5. ASSUME NEW c \in Calls PROVE CallIsSound(c)'
  BY <1>0, <1>5 DEF Functions, CallIsSound
<1> QED BY <1>0, <1>1, <1>2, <1>3, <1>4, <1>5, StepKeepsAccounts DEF MethodIsSound

(* Somebody looks at the budget.                                             *)
LEMMA BeginSummaryKeeps ==
  ASSUME AccountInv, NEW p \in Programs, BeginSummary(p)
  PROVE  AccountInv'
<1> USE NoneAssumption, CostAssumption DEF BeginSummary, Idle, callVars, At
<1>0. /\ Functions /\ MethodIsSound(p) /\ \A c \in Calls : CallIsSound(c)
      /\ p \in Programs
  BY DEF AccountInv, Functions
<1>1. StepOf(p)
  BY <1>0 DEF StepOf, Functions, MethodIsSound, MethodIsAtHome, MethodShape
<1>2. MethodIsAtHome(p)'
  BY <1>0 DEF Functions, MethodIsSound, MethodIsAtHome, MethodShape
<1>3. TransactionIsSound(p)'
  BY <1>0 DEF Functions, MethodIsSound, MethodIsAtHome, TransactionIsSound, MethodShape
<1>4. CostIsInFile(p)'
  BY <1>0 DEF Functions, MethodIsSound, MethodIsAtHome, CostIsInFile, MethodShape
<1>5. ASSUME NEW c \in Calls PROVE CallIsSound(c)'
  BY <1>0, <1>5 DEF Functions, CallIsSound
<1> QED BY <1>0, <1>1, <1>2, <1>3, <1>4, <1>5, StepKeepsAccounts DEF MethodIsSound

(* Every reservation is to be charged.                                       *)
LEMMA BeginOutstandingKeeps ==
  ASSUME AccountInv, NEW p \in Programs, BeginOutstanding(p)
  PROVE  AccountInv'
<1> USE NoneAssumption, CostAssumption DEF BeginOutstanding, InMaintenance, Idle, callVars, At
<1>0. /\ Functions /\ MethodIsSound(p) /\ \A c \in Calls : CallIsSound(c)
      /\ p \in Programs
  BY DEF AccountInv, Functions
<1>1. StepOf(p)
  BY <1>0 DEF StepOf, Functions, MethodIsSound, MethodIsAtHome, MethodShape
<1>2. MethodIsAtHome(p)'
  BY <1>0 DEF Functions, MethodIsSound, MethodIsAtHome, MethodShape
<1>3. TransactionIsSound(p)'
  BY <1>0 DEF Functions, MethodIsSound, MethodIsAtHome, TransactionIsSound, MethodShape
<1>4. CostIsInFile(p)'
  BY <1>0 DEF Functions, MethodIsSound, MethodIsAtHome, CostIsInFile, MethodShape
<1>5. ASSUME NEW c \in Calls PROVE CallIsSound(c)'
  BY <1>0, <1>5 DEF Functions, CallIsSound
<1> QED BY <1>0, <1>1, <1>2, <1>3, <1>4, <1>5, StepKeepsAccounts DEF MethodIsSound

(* The rows of runs are to be deleted, or scrubbed.                          *)
LEMMA BeginDeleteKeeps ==
  ASSUME AccountInv, NEW p \in Programs, NEW S \in SUBSET Calls, BeginDelete(p, S)
  PROVE  AccountInv'
<1> USE NoneAssumption, CostAssumption
DEF BeginDelete, InMaintenance, Idle, ReservedRows, callVars, At
<1>0. /\ Functions /\ MethodIsSound(p) /\ \A c \in Calls : CallIsSound(c)
      /\ p \in Programs
  BY DEF AccountInv, Functions
<1>1. StepOf(p)
  BY <1>0 DEF StepOf, Functions, MethodIsSound, MethodIsAtHome, MethodShape
<1>2. MethodIsAtHome(p)'
  BY <1>0 DEF Functions, MethodIsSound, MethodIsAtHome, MethodShape
<1>3. TransactionIsSound(p)'
  BY <1>0 DEF Functions, MethodIsSound, MethodIsAtHome, TransactionIsSound, MethodShape
<1>4. CostIsInFile(p)'
  BY <1>0 DEF Functions, MethodIsSound, MethodIsAtHome, CostIsInFile, MethodShape
<1>5. ASSUME NEW c \in Calls PROVE CallIsSound(c)'
  BY <1>0, <1>5 DEF Functions, CallIsSound
<1> QED BY <1>0, <1>1, <1>2, <1>3, <1>4, <1>5, StepKeepsAccounts DEF MethodIsSound

(* The file reserves for a call that has no row, or refuses.                 *)
LEMMA ReserveInFileKeeps ==
  ASSUME AccountInv, NEW p \in Programs, ReserveInFile(p)
  PROVE  AccountInv'
<1> USE NoneAssumption, CostAssumption DEF ReserveInFile, Done, Idle, GoOn, Close, callVars, At
<1>0. /\ Functions /\ MethodIsSound(p) /\ \A c \in Calls : CallIsSound(c)
      /\ p \in Programs
  BY DEF AccountInv, Functions
<1>1. StepOf(p)
  BY <1>0 DEF StepOf, Functions, MethodIsSound, MethodIsAtHome, MethodShape, CallIsSound
<1>2. MethodIsAtHome(p)'
  BY <1>0 DEF Functions, MethodIsSound, MethodIsAtHome, MethodShape
<1>3. TransactionIsSound(p)'
  BY <1>0 DEF Functions, MethodIsSound, MethodIsAtHome, TransactionIsSound, MethodShape
<1>4. CostIsInFile(p)'
  BY <1>0 DEF Functions, MethodIsSound, MethodIsAtHome, CostIsInFile, MethodShape
<1>5. ASSUME NEW c \in Calls PROVE CallIsSound(c)'
  BY <1>0, <1>5
  DEF Functions, CallIsSound, RowIsSound, EntryShape, MethodIsSound, MethodIsAtHome, MethodShape
<1> QED BY <1>0, <1>1, <1>2, <1>3, <1>4, <1>5, StepKeepsAccounts DEF MethodIsSound

(* A refused reservation is given back.                                      *)
LEMMA UndoReserveKeeps ==
  ASSUME AccountInv, NEW p \in Programs, UndoReserve(p)
  PROVE  AccountInv'
<1> USE NoneAssumption, CostAssumption DEF UndoReserve, Done, Idle, Close, callVars, At
<1>0. /\ Functions /\ MethodIsSound(p) /\ \A c \in Calls : CallIsSound(c)
      /\ p \in Programs
  BY DEF AccountInv, Functions
<1>6. /\ charges' = [c \in Calls |-> charges'[c]]
      /\ \A c \in Calls : EntryShape(charges'[c]) /\
            (charges[c].status # "reserved" => charges'[c] = charges[c])
  BY <1>0, Releases DEF MethodIsSound, MethodIsAtHome, MethodShape
<1>1. StepOf(p)
  BY <1>0, <1>6 DEF StepOf, Functions, MethodIsSound, MethodIsAtHome, MethodShape, Covers
<1>2. MethodIsAtHome(p)'
  BY <1>0 DEF Functions, MethodIsSound, MethodIsAtHome, MethodShape
<1>3. TransactionIsSound(p)'
  BY <1>0 DEF Functions, MethodIsSound, MethodIsAtHome, TransactionIsSound, MethodShape
<1>4. CostIsInFile(p)'
  BY <1>0 DEF Functions, MethodIsSound, MethodIsAtHome, CostIsInFile, MethodShape
<1>5. ASSUME NEW c \in Calls PROVE CallIsSound(c)'
  BY <1>0, <1>5, <1>6 DEF Functions, CallIsSound, RowIsSound, Covers
<1> QED BY <1>0, <1>1, <1>2, <1>3, <1>4, <1>5, StepKeepsAccounts DEF MethodIsSound

(* A reservation that is not needed is given back.                           *)
LEMMA ReleaseInFileKeeps ==
  ASSUME AccountInv, NEW p \in Programs, ReleaseInFile(p)
  PROVE  AccountInv'
<1> USE NoneAssumption, CostAssumption DEF ReleaseInFile, Done, Idle, Close, callVars, At
<1>0. /\ Functions /\ MethodIsSound(p) /\ \A c \in Calls : CallIsSound(c)
      /\ p \in Programs
  BY DEF AccountInv, Functions
<1>6. /\ charges' = [c \in Calls |-> charges'[c]]
      /\ \A c \in Calls : EntryShape(charges'[c]) /\
            (charges[c].status # "reserved" => charges'[c] = charges[c])
  BY <1>0, Releases DEF MethodIsSound, MethodIsAtHome, MethodShape
<1>1. StepOf(p)
  BY <1>0, <1>6 DEF StepOf, Functions, MethodIsSound, MethodIsAtHome, MethodShape, Covers
<1>2. MethodIsAtHome(p)'
  BY <1>0 DEF Functions, MethodIsSound, MethodIsAtHome, MethodShape
<1>3. TransactionIsSound(p)'
  BY <1>0 DEF Functions, MethodIsSound, MethodIsAtHome, TransactionIsSound, MethodShape
<1>4. CostIsInFile(p)'
  BY <1>0 DEF Functions, MethodIsSound, MethodIsAtHome, CostIsInFile, MethodShape
<1>5. ASSUME NEW c \in Calls PROVE CallIsSound(c)'
  BY <1>0, <1>5, <1>6 DEF Functions, CallIsSound, RowIsSound, Covers
<1> QED BY <1>0, <1>1, <1>2, <1>3, <1>4, <1>5, StepKeepsAccounts DEF MethodIsSound

(* The request is sent.                                                      *)
LEMMA StartProviderKeeps ==
  ASSUME AccountInv, NEW d \in Calls, StartProvider(d)
  PROVE  AccountInv'
<1> USE NoneAssumption, CostAssumption DEF StartProvider, At
<1>0. /\ Functions /\ MethodIsSound(home[d]) /\ \A c \in Calls : CallIsSound(c)
      /\ home[d] \in Programs
  BY DEF AccountInv, Functions
<1>1. StepOf(home[d])
  BY <1>0 DEF StepOf, Functions, MethodIsSound, MethodIsAtHome, MethodShape
<1>2. MethodIsAtHome(home[d])'
  BY <1>0 DEF Functions, MethodIsSound, MethodIsAtHome, MethodShape
<1>3. TransactionIsSound(home[d])'
  BY <1>0 DEF Functions, MethodIsSound, MethodIsAtHome, TransactionIsSound, MethodShape
<1>4. CostIsInFile(home[d])'
  BY <1>0 DEF Functions, MethodIsSound, MethodIsAtHome, CostIsInFile, MethodShape
<1>5. ASSUME NEW c \in Calls PROVE CallIsSound(c)'
  BY <1>0, <1>5 DEF Functions, CallIsSound
<1> QED BY <1>0, <1>1, <1>2, <1>3, <1>4, <1>5, StepKeepsAccounts DEF MethodIsSound

(* The call came back with a cost.                                           *)
LEMMA BeginRecordKeeps ==
  ASSUME AccountInv, NEW d \in Calls, NEW cost \in Costs, BeginRecord(d, cost)
  PROVE  AccountInv'
<1> USE NoneAssumption, CostAssumption DEF BeginRecord, Idle, callVars, At
<1>0. /\ Functions /\ MethodIsSound(home[d]) /\ \A c \in Calls : CallIsSound(c)
      /\ home[d] \in Programs
  BY DEF AccountInv, Functions
<1>1. StepOf(home[d])
  BY <1>0 DEF StepOf, Functions, MethodIsSound, MethodIsAtHome, MethodShape
<1>2. MethodIsAtHome(home[d])'
  BY <1>0 DEF Functions, MethodIsSound, MethodIsAtHome, MethodShape
<1>3. TransactionIsSound(home[d])'
  BY <1>0 DEF Functions, MethodIsSound, MethodIsAtHome, TransactionIsSound, MethodShape
<1>4. CostIsInFile(home[d])'
  BY <1>0 DEF Functions, MethodIsSound, MethodIsAtHome, CostIsInFile, MethodShape
<1>5. ASSUME NEW c \in Calls PROVE CallIsSound(c)'
  BY <1>0, <1>5 DEF Functions, CallIsSound
<1> QED BY <1>0, <1>1, <1>2, <1>3, <1>4, <1>5, StepKeepsAccounts DEF MethodIsSound

(* The row is released.                                                      *)
LEMMA ReleaseInVaultKeeps ==
  ASSUME AccountInv, NEW d \in Calls, ReleaseInVault(d)
  PROVE  AccountInv'
<1> USE NoneAssumption, CostAssumption DEF ReleaseInVault, Idle, callVars, At
<1>0. /\ Functions /\ MethodIsSound(home[d]) /\ \A c \in Calls : CallIsSound(c)
      /\ home[d] \in Programs
  BY DEF AccountInv, Functions
<1>6. ASSUME NEW c \in Calls
      PROVE  /\ RowIsSound(charges[c], row'[c])
             /\ row[c].status = "none" <=> row'[c].status = "none"
  <2>1. RowIsSound(charges[c], row[c])
    BY <1>0, <1>6 DEF CallIsSound
  <2>2. \/ row'[c] = row[c]
        \/ row[c].status = "reserved" /\ row'[c] = [row[c] EXCEPT !.status = "released"]
    BY <1>0, <1>6 DEF Functions
  <2> QED BY <2>1, <2>2 DEF RowIsSound, RowShape
<1>7. row' = [c \in Calls |-> row'[c]]
  BY <1>0 DEF Functions
<1>1. StepOf(home[d])
  BY <1>0, <1>6, <1>7 DEF StepOf, Functions, MethodIsSound, MethodIsAtHome, MethodShape
<1>2. MethodIsAtHome(home[d])'
  BY <1>0 DEF Functions, MethodIsSound, MethodIsAtHome, MethodShape
<1>3. TransactionIsSound(home[d])'
  BY <1>0 DEF Functions, MethodIsSound, MethodIsAtHome, TransactionIsSound, MethodShape
<1>4. CostIsInFile(home[d])'
  BY <1>0 DEF Functions, MethodIsSound, MethodIsAtHome, CostIsInFile, MethodShape
<1>5. ASSUME NEW c \in Calls PROVE CallIsSound(c)'
  BY <1>0, <1>5, <1>6 DEF CallIsSound
<1> QED BY <1>0, <1>1, <1>2, <1>3, <1>4, <1>5, StepKeepsAccounts DEF MethodIsSound

(* Time passes.                                                              *)
LEMMA ExpireKeeps ==
  ASSUME AccountInv, NEW d \in Calls, Expire(d)
  PROVE  AccountInv'
<1> USE NoneAssumption, CostAssumption DEF Expire, At
<1>0. /\ Functions /\ MethodIsSound(home[d]) /\ \A c \in Calls : CallIsSound(c)
      /\ home[d] \in Programs
  BY DEF AccountInv, Functions
<1>1. StepOf(home[d])
  BY <1>0 DEF StepOf, Functions, MethodIsSound, MethodIsAtHome, MethodShape
<1>2. MethodIsAtHome(home[d])'
  BY <1>0 DEF Functions, MethodIsSound, MethodIsAtHome, MethodShape
<1>3. TransactionIsSound(home[d])'
  BY <1>0 DEF Functions, MethodIsSound, MethodIsAtHome, TransactionIsSound, MethodShape
<1>4. CostIsInFile(home[d])'
  BY <1>0 DEF Functions, MethodIsSound, MethodIsAtHome, CostIsInFile, MethodShape
<1>5. ASSUME NEW c \in Calls PROVE CallIsSound(c)'
  BY <1>0, <1>5 DEF Functions, CallIsSound
<1> QED BY <1>0, <1>1, <1>2, <1>3, <1>4, <1>5, StepKeepsAccounts DEF MethodIsSound

(* A process dies, and its calls with it.                                    *)
LEMMA ProgramDiesKeeps ==
  ASSUME AccountInv, NEW p \in Programs, ProgramDies(p)
  PROVE  AccountInv'
<1> USE NoneAssumption, CostAssumption DEF ProgramDies, Idle, At
<1>0. /\ Functions /\ MethodIsSound(p) /\ \A c \in Calls : CallIsSound(c)
      /\ p \in Programs
  BY DEF AccountInv, Functions
<1>1. StepOf(p)
  BY <1>0 DEF StepOf, Functions, MethodIsSound, TransactionIsSound, MethodIsAtHome, MethodShape
<1>2. MethodIsAtHome(p)'
  BY <1>0 DEF Functions, MethodIsSound, MethodIsAtHome, MethodShape
<1>3. TransactionIsSound(p)'
  BY <1>0 DEF Functions, MethodIsSound, MethodIsAtHome, TransactionIsSound, MethodShape
<1>4. CostIsInFile(p)'
  BY <1>0 DEF Functions, MethodIsSound, MethodIsAtHome, CostIsInFile, MethodShape
<1>5. ASSUME NEW c \in Calls PROVE CallIsSound(c)'
  BY <1>0, <1>5 DEF Functions, CallIsSound
<1> QED BY <1>0, <1>1, <1>2, <1>3, <1>4, <1>5, StepKeepsAccounts DEF MethodIsSound

(* A method that fails leaves the transaction, the file and the rows.        *)
LEMMA FailKeeps ==
  ASSUME AccountInv, NEW p \in Programs, op[p].step \in {"charge", "chargeAll", "settle"}, Fail(p),
         UNCHANGED <<charges, row, callVars>>
  PROVE  AccountInv'
<1> USE NoneAssumption, CostAssumption DEF callVars, At
<1>0. /\ Functions /\ MethodIsSound(p) /\ \A c \in Calls : CallIsSound(c)
      /\ p \in Programs
  BY DEF AccountInv, Functions
<1>6. /\ txn' = IF txn = p THEN NoProgram ELSE txn
      /\ \/ /\ op[p].call # NoCall /\ txn = p
            /\ op' = [op EXCEPT ![p].step = "undo"] /\ stage' = stage
         \/ /\ op' = [op EXCEPT ![p] = Idle]
            /\ \/ op[p].call # NoCall /\ stage' = [stage EXCEPT ![op[p].call] = "closed"]
               \/ op[p].call = NoCall /\ stage' = stage
  BY DEF Fail, GoOn, Done, Close
<1>1. StepOf(p)
  BY <1>0, <1>6
  DEF StepOf, Functions, MethodIsSound, TransactionIsSound, MethodIsAtHome, MethodShape
<1>2. MethodIsAtHome(p)'
  BY <1>0, <1>6 DEF Functions, MethodIsSound, MethodIsAtHome, MethodShape, Idle
<1>3. TransactionIsSound(p)'
  BY <1>0, <1>6
  DEF Functions, MethodIsSound, MethodIsAtHome, TransactionIsSound, MethodShape, Idle
<1>4. CostIsInFile(p)'
  BY <1>0, <1>6 DEF Functions, MethodIsSound, MethodIsAtHome, CostIsInFile, MethodShape, Idle
<1>5. ASSUME NEW c \in Calls PROVE CallIsSound(c)'
  BY <1>0, <1>5, <1>6 DEF Functions, CallIsSound
<1> QED BY <1>0, <1>1, <1>2, <1>3, <1>4, <1>5, StepKeepsAccounts DEF MethodIsSound

(* A charge of one row.                                                      *)
LEMMA ChargeOneKeeps ==
  ASSUME AccountInv, NEW p \in Programs, NEW d, d \in op[p].todo,
         op[p].step \in {"charge", "chargeAll", "settle"},
         charges' = [charges EXCEPT ![d] = Charged(charges[d], Estimate)],
         op' = [op EXCEPT ![p].todo = @ \ {d}],
         UNCHANGED <<row, stage, txn, callVars>>
  PROVE  AccountInv'
<1> USE NoneAssumption, CostAssumption DEF callVars
<1>0. /\ Functions /\ MethodIsSound(p) /\ \A c \in Calls : CallIsSound(c)
      /\ p \in Programs
  BY DEF AccountInv, Functions
<1>6. ASSUME NEW c \in Calls
      PROVE  /\ EntryShape(charges'[c])
             /\ c = d => Covers(charges'[c], Estimate)
             /\ \A amount \in Nat : Covers(charges[c], amount) => Covers(charges'[c], amount)
  <2>1. charges'[c] = IF c = d THEN Charged(charges[c], Estimate) ELSE charges[c]
    BY <1>0, <1>6 DEF Functions
  <2>2. EntryShape(charges[c])
    BY <1>0, <1>6 DEF CallIsSound
  <2> QED BY <2>1, <2>2, ChargesCover
<1>1. StepOf(p)
  BY <1>0, <1>6 DEF StepOf, Functions, MethodIsSound, MethodIsAtHome, MethodShape
<1>2. MethodIsAtHome(p)'
  BY <1>0 DEF Functions, MethodIsSound, MethodIsAtHome, MethodShape
<1>3. TransactionIsSound(p)'
  BY <1>0, <1>6
  DEF Functions, MethodIsSound, MethodIsAtHome, TransactionIsSound, MethodShape
<1>4. CostIsInFile(p)'
  BY <1>0 DEF Functions, MethodIsSound, MethodIsAtHome, CostIsInFile, MethodShape
<1>5. ASSUME NEW c \in Calls PROVE CallIsSound(c)'
  BY <1>0, <1>5, <1>6 DEF Functions, CallIsSound, RowIsSound, RowShape
<1> QED BY <1>0, <1>1, <1>2, <1>3, <1>4, <1>5, StepKeepsAccounts DEF MethodIsSound

(* The next row is charged, or the method fails.                               *)
LEMMA ChargeNextKeeps ==
  ASSUME AccountInv, NEW p \in Programs, ChargeNext(p)
  PROVE  AccountInv'
<1>1. PICK d \in op[p].todo :
        IF Chargeable(d)
          THEN /\ charges' = [charges EXCEPT ![d] = Charged(charges[d], Estimate)]
               /\ op' = [op EXCEPT ![p].todo = @ \ {d}]
               /\ UNCHANGED <<stage, txn>>
          ELSE Fail(p) /\ UNCHANGED charges
  BY DEF ChargeNext
<1>2. op[p].step \in {"charge", "chargeAll", "settle"} /\ UNCHANGED <<row, callVars>>
  BY DEF ChargeNext
<1>3. CASE Chargeable(d)
  BY <1>1, <1>2, <1>3, ChargeOneKeeps
<1>4. CASE ~Chargeable(d)
  BY <1>1, <1>2, <1>4, FailKeeps
<1> QED BY <1>3, <1>4

(* The transaction begins by reading the rows that are still reserved.       *)
LEMMA BeginTransactionKeeps ==
  ASSUME AccountInv, NEW p \in Programs, BeginTransaction(p)
  PROVE  AccountInv'
<1> USE NoneAssumption, CostAssumption DEF callVars
<1>0. /\ Functions /\ MethodIsSound(p) /\ \A c \in Calls : CallIsSound(c)
      /\ p \in Programs
  BY DEF AccountInv, Functions
<1>6. /\ op[p].step = "begin" \/ op[p].call = NoCall
      /\ op[p].step \in {"begin", "charge", "chargeAll"}
      /\ txn = NoProgram /\ txn' = p
      /\ UNCHANGED <<charges, row, stage, callVars>>
  <2>1. \/ op[p].step \in {"begin", "chargeAll"}
        \/ op[p].step = "charge" /\ op[p].call = NoCall
    BY Zenon DEF BeginTransaction, At
  <2>2. op[p].step = "begin" \/ op[p].call = NoCall
    BY <1>0, <2>1 DEF MethodIsSound, MethodIsAtHome
  <2>3. txn = NoProgram /\ txn' = p /\ UNCHANGED <<charges, row, stage, callVars>>
    BY DEF BeginTransaction
  <2> QED BY <2>1, <2>2, <2>3
<1>7. PICK rows \in SUBSET ReservedRows :
        op' = [op EXCEPT ![p].step = "settle", ![p].todo = rows, ![p].settling = rows]
  <2>1. CASE At(p, "chargeAll")
    BY <2>1 DEF BeginTransaction
  <2>2. CASE ~At(p, "chargeAll")
    <3>1. op' = [op EXCEPT ![p].step = "settle", ![p].todo = ExpiredRows,
                           ![p].settling = ExpiredRows]
      BY <2>2 DEF BeginTransaction
    <3> QED BY <3>1 DEF ExpiredRows
  <2> QED BY <2>1, <2>2
<1>8. /\ op'[p] = [op[p] EXCEPT !.step = "settle", !.todo = rows, !.settling = rows]
      /\ \A q \in Programs \ {p} : op'[q] = op[q]
      /\ op' = [q \in Programs |-> op'[q]]
  BY <1>0, <1>7 DEF Functions
<1>9. /\ MethodShape(op'[p])
      /\ op'[p].step = "settle" /\ op'[p].call = op[p].call /\ op'[p].settling = rows
      /\ op'[p].todo = rows /\ op'[p].deleting = op[p].deleting
  BY <1>0, <1>7, <1>8 DEF MethodIsSound, MethodIsAtHome, MethodShape, ReservedRows
<1>1. StepOf(p)
  BY <1>0, <1>6, <1>8 DEF StepOf, Functions
<1>2. MethodIsAtHome(p)'
  BY <1>0, <1>6, <1>9 DEF MethodIsSound, MethodIsAtHome
<1>3. TransactionIsSound(p)'
  BY <1>0, <1>6, <1>7, <1>9
  DEF MethodIsSound, MethodIsAtHome, TransactionIsSound, ReservedRows
<1>4. CostIsInFile(p)'
  BY <1>9 DEF CostIsInFile
<1>5. ASSUME NEW c \in Calls PROVE CallIsSound(c)'
  BY <1>0, <1>5, <1>6 DEF Functions, CallIsSound
<1> QED BY <1>0, <1>1, <1>2, <1>3, <1>4, <1>5, StepKeepsAccounts DEF MethodIsSound

(* Rows are settled and deleted in one transaction.                          *)
LEMMA CommitSettlementKeeps ==
  ASSUME AccountInv, NEW p \in Programs, CommitSettlement(p)
  PROVE  AccountInv'
<1> USE NoneAssumption, CostAssumption DEF CommitSettlement, Done, Idle, callVars, At
<1>0. /\ Functions /\ MethodIsSound(p) /\ \A c \in Calls : CallIsSound(c)
      /\ p \in Programs
  BY DEF AccountInv, Functions
<1>6. ASSUME NEW c \in Calls
      PROVE  /\ RowIsSound(charges[c], row'[c])
             /\ row[c].status = "none" <=> row'[c].status = "none"
  <2>1. row'[c] \in {Settled(p)[c], Scrubbed(Settled(p)[c])}
    BY <1>6
  <2>2. /\ RowIsSound(charges[c], Settled(p)[c])
        /\ row[c].status = "none" <=> Settled(p)[c].status = "none"
    BY <1>0, <1>6, SettledRows
  <2> QED BY <2>1, <2>2, ScrubbedRows
<1>1. StepOf(p)
  BY <1>0, <1>6
  DEF StepOf, Functions, MethodIsSound, TransactionIsSound, MethodIsAtHome, MethodShape
<1>2. MethodIsAtHome(p)'
  BY <1>0 DEF Functions, MethodIsSound, MethodIsAtHome, MethodShape
<1>3. TransactionIsSound(p)'
  BY <1>0 DEF Functions, MethodIsSound, MethodIsAtHome, TransactionIsSound, MethodShape
<1>4. CostIsInFile(p)'
  BY <1>0 DEF Functions, MethodIsSound, MethodIsAtHome, CostIsInFile, MethodShape
<1>5. ASSUME NEW c \in Calls PROVE CallIsSound(c)'
  BY <1>0, <1>5, <1>6 DEF CallIsSound
<1> QED BY <1>0, <1>1, <1>2, <1>3, <1>4, <1>5, StepKeepsAccounts DEF MethodIsSound

(* The call gets its row, in the transaction that settles others, or is refused. *)
LEMMA CommitReservationKeeps ==
  ASSUME AccountInv, NEW p \in Programs, CommitReservation(p)
  PROVE  AccountInv'
<1> USE NoneAssumption, CostAssumption DEF callVars, At
<1>0. /\ Functions /\ MethodIsSound(p) /\ \A c \in Calls : CallIsSound(c)
      /\ At(p, "settle") /\ op[p].todo = {} /\ op[p].call # NoCall
      /\ UNCHANGED <<charges, expired, started, dead, crashes, legacy, home>>
  BY DEF AccountInv, CommitReservation
<1>1. CASE Fail(p) /\ UNCHANGED <<row, overtaken>>
  BY <1>0, <1>1, FailKeeps
<1>2. CASE /\ row' = [Settled(p) EXCEPT ![op[p].call].status = "reserved"]
           /\ txn' = NoProgram
           /\ stage' = [stage EXCEPT ![op[p].call] = "admitted"]
           /\ Done(p)
  <2>1. /\ op[p].call \in Calls /\ home[op[p].call] = p /\ txn = p
        /\ stage[op[p].call] = "reserving"
    BY <1>0 DEF MethodIsSound, MethodIsAtHome, MethodShape, TransactionIsSound
  <2>2. row' = [c \in Calls |-> row'[c]]
    BY <1>0, <1>2, SettledRows
  <2>3. ASSUME NEW c \in Calls
        PROVE  /\ RowIsSound(charges[c], row'[c])
               /\ row[c].status # "none" => row'[c].status # "none"
               /\ c # op[p].call /\ row[c].status = "none" => row'[c].status = "none"
    <3>1. /\ RowIsSound(charges[c], Settled(p)[c])
          /\ row[c].status = "none" <=> Settled(p)[c].status = "none"
      BY <1>0, <2>3, SettledRows
    <3>2. CASE c = op[p].call
      <4>1. row'[c] = [Settled(p)[c] EXCEPT !.status = "reserved"]
        BY <1>0, <1>2, <2>3, <3>2, SettledRows
      <4>2. row[c].status = "none"
        BY <1>0, <2>1, <2>3, <3>2 DEF CallIsSound
      <4> QED BY <3>1, <3>2, <4>1, <4>2 DEF RowIsSound, RowShape
    <3>3. CASE c # op[p].call
      <4>1. row'[c] = Settled(p)[c]
        BY <1>0, <1>2, <2>3, <3>3, SettledRows
      <4> QED BY <3>1, <4>1
    <3> QED BY <3>2, <3>3
  <2>4. op' = [op EXCEPT ![p] = Idle] /\ op'[p] = Idle
    BY <1>0, <1>2 DEF Done, Functions
  <2>5. StepOf(p)
    BY <1>0, <1>2, <2>1, <2>2, <2>3, <2>4 DEF StepOf, Functions
  <2>6. MethodIsSound(p)'
    <3>1. txn' = NoProgram
      BY <1>2
    <3> QED BY <2>4, <3>1
        DEF MethodIsSound, MethodIsAtHome, TransactionIsSound, CostIsInFile, MethodShape, Idle
  <2>7. ASSUME NEW c \in Calls PROVE CallIsSound(c)'
    BY <1>0, <1>2, <2>1, <2>3, <2>7 DEF CallIsSound, Functions
  <2> QED BY <2>5, <2>6, <2>7, StepKeepsAccounts
<1> QED BY <1>1, <1>2 DEF CommitReservation

(* A failed call is recorded at its estimate, if its row is not settled yet.     *)
LEMMA BeginChargeFailedKeeps ==
  ASSUME AccountInv, NEW d \in Calls, BeginChargeFailed(d)
  PROVE  AccountInv'
<1> USE NoneAssumption, CostAssumption DEF callVars, At
<1>0. /\ Functions /\ home[d] \in Programs /\ MethodIsSound(home[d])
      /\ \A c \in Calls : CallIsSound(c)
      /\ stage[d] = "calling" /\ At(home[d], "idle")
      /\ UNCHANGED <<charges, row, txn, callVars>>
  BY DEF AccountInv, BeginChargeFailed, Functions
<1>1. CASE row[d].status = "reserved"
  <2> DEFINE begun == [Idle EXCEPT !.step = "record", !.call = d, !.cost = Estimate]
  <2>1. op' = [op EXCEPT ![home[d]] = begun] /\ UNCHANGED stage
    BY <1>1 DEF BeginChargeFailed
  <2>2. /\ MethodShape(begun) /\ begun.step = "record" /\ begun.call = d
    BY DEF MethodShape, Idle
  <2> HIDE DEF begun
  <2>3. StepOf(home[d])
    BY <1>0, <2>1 DEF StepOf, Functions
  <2>4. MethodIsSound(home[d])'
    BY <1>0, <2>1, <2>2
    DEF MethodIsSound, MethodIsAtHome, TransactionIsSound, CostIsInFile, Functions
  <2>5. ASSUME NEW c \in Calls PROVE CallIsSound(c)'
    BY <1>0, <2>1, <2>5 DEF CallIsSound
  <2> QED BY <1>0, <2>3, <2>4, <2>5, StepKeepsAccounts
<1>2. CASE row[d].status # "reserved"
  <2>1. stage' = [stage EXCEPT ![d] = "closed"] /\ UNCHANGED op
    BY <1>2 DEF BeginChargeFailed, Close
  <2>3. StepOf(home[d])
    BY <1>0, <2>1 DEF StepOf, Functions
  <2>4. MethodIsSound(home[d])'
    BY <1>0, <2>1
    DEF MethodIsSound, MethodIsAtHome, TransactionIsSound, CostIsInFile, MethodShape
  <2>5. ASSUME NEW c \in Calls PROVE CallIsSound(c)'
    BY <1>0, <2>1, <2>5 DEF CallIsSound, Functions
  <2> QED BY <1>0, <2>3, <2>4, <2>5, StepKeepsAccounts
<1> QED BY <1>1, <1>2

(* The cost is charged to the file, or the call has nothing to charge.           *)
LEMMA RecordInFileKeeps ==
  ASSUME AccountInv, NEW p \in Programs, RecordInFile(p)
  PROVE  AccountInv'
<1> USE NoneAssumption, CostAssumption DEF callVars, At
<1>0. /\ Functions /\ MethodIsSound(p) /\ \A c \in Calls : CallIsSound(c)
      /\ At(p, "record") /\ UNCHANGED <<row, txn, callVars>>
      /\ op[p].call \in Calls /\ home[op[p].call] = p /\ op[p].cost \in Nat
  BY DEF AccountInv, RecordInFile, MethodIsSound, MethodIsAtHome, MethodShape
<1>1. CASE row[op[p].call].status \in {"reserved", "settled"} /\ Chargeable(op[p].call)
  <2>1. /\ charges' = [charges EXCEPT ![op[p].call] = Charged(charges[op[p].call], op[p].cost)]
        /\ op' = [op EXCEPT ![p].step = "attach"] /\ UNCHANGED stage
    BY <1>1 DEF RecordInFile, GoOn
  <2>2. ASSUME NEW c \in Calls
        PROVE  /\ EntryShape(charges'[c])
               /\ c = op[p].call => Covers(charges'[c], op[p].cost)
               /\ \A amount \in Nat : Covers(charges[c], amount) => Covers(charges'[c], amount)
    <3>1. charges'[c] = IF c = op[p].call THEN Charged(charges[c], op[p].cost) ELSE charges[c]
      BY <1>0, <2>1, <2>2 DEF Functions
    <3>2. EntryShape(charges[c])
      BY <1>0, <2>2 DEF CallIsSound
    <3> QED BY <1>0, <3>1, <3>2, ChargesCover
  <2>3. StepOf(p)
    BY <1>0, <2>1, <2>2 DEF StepOf, Functions
  <2>4. MethodIsAtHome(p)' /\ TransactionIsSound(p)'
    BY <1>0, <2>1 DEF MethodIsSound, MethodIsAtHome, TransactionIsSound, MethodShape, Functions
  <2>5. CostIsInFile(p)'
    BY <1>0, <1>1, <2>1, <2>2
    DEF CostIsInFile, MethodIsSound, MethodIsAtHome, MethodShape, Functions
  <2>6. ASSUME NEW c \in Calls PROVE CallIsSound(c)'
    BY <1>0, <2>1, <2>2, <2>6 DEF CallIsSound, RowIsSound, RowShape
  <2> QED BY <2>3, <2>4, <2>5, <2>6, StepKeepsAccounts DEF MethodIsSound
<1>2. CASE ~(row[op[p].call].status \in {"reserved", "settled"} /\ Chargeable(op[p].call))
  <2>1. /\ op' = [op EXCEPT ![p] = Idle] /\ UNCHANGED charges
        /\ stage' = [stage EXCEPT ![op[p].call] = "closed"]
    BY <1>2 DEF RecordInFile, Done, Close
  <2>2. op'[p] = Idle
    BY <1>0, <2>1 DEF Functions
  <2>3. StepOf(p)
    BY <1>0, <2>1 DEF StepOf, Functions
  <2>4. MethodIsSound(p)'
    BY <1>0, <2>2
    DEF MethodIsSound, MethodIsAtHome, TransactionIsSound, CostIsInFile, MethodShape, Idle
  <2>5. ASSUME NEW c \in Calls PROVE CallIsSound(c)'
    BY <1>0, <2>1, <2>5 DEF CallIsSound, Functions
  <2> QED BY <2>3, <2>4, <2>5, StepKeepsAccounts
<1> QED BY <1>1, <1>2

(* What the transaction does to the row.                                       *)
LEMMA RowTakesCost ==
  ASSUME NEW p \in Programs, RecordInVault(p)
  PROVE  \/ row' = row
         \/ /\ row[op[p].call].status = "settled"
            /\ row' = [row EXCEPT ![op[p].call].cost = Larger(@, op[p].cost),
                                 ![op[p].call].attached = TRUE]
         \/ row' = [row EXCEPT ![op[p].call] = [status |-> "settled", cost |-> op[p].cost,
                                               attached |-> TRUE]]
BY DEF RecordInVault

(* The row takes the cost that the file has, or the larger one it had.           *)
LEMMA RecordInVaultKeeps ==
  ASSUME AccountInv, NEW p \in Programs, RecordInVault(p)
  PROVE  AccountInv'
<1> USE NoneAssumption, CostAssumption DEF callVars, At
<1>0. /\ Functions /\ MethodIsSound(p) /\ \A c \in Calls : CallIsSound(c)
      /\ At(p, "attach") /\ UNCHANGED <<charges, txn, callVars>>
      /\ op[p].call \in Calls /\ home[op[p].call] = p /\ op[p].cost \in Nat
      /\ row[op[p].call].status # "none" /\ Covers(charges[op[p].call], op[p].cost)
      /\ txn = NoProgram
  BY DEF AccountInv, RecordInVault, MethodIsSound, MethodIsAtHome, MethodShape, CostIsInFile
<1>1. /\ op' = [op EXCEPT ![p] = Idle]
      /\ stage' = [stage EXCEPT ![op[p].call] = "closed"]
  BY DEF RecordInVault, Done, Close
<1>2. /\ row' = [c \in Calls |-> row'[c]]
      /\ \A c \in Calls \ {op[p].call} : row'[c] = row[c]
  BY <1>0, RowTakesCost DEF Functions
<1>3. /\ RowIsSound(charges[op[p].call], row'[op[p].call])
      /\ row'[op[p].call].status # "none"
  <2>1. RowIsSound(charges[op[p].call], row[op[p].call])
    BY <1>0 DEF CallIsSound
  <2>2. CASE row' = row
    BY <1>0, <2>1, <2>2
  <2>3. CASE /\ row[op[p].call].status = "settled"
             /\ row' = [row EXCEPT ![op[p].call].cost = Larger(@, op[p].cost),
                                  ![op[p].call].attached = TRUE]
    <3> DEFINE c == op[p].call
               x == Larger(row[op[p].call].cost, op[p].cost)
    <3>0. c \in Calls /\ row' = [row EXCEPT ![c].cost = x, ![c].attached = TRUE]
      BY <1>0, <2>3
    <3>1. /\ x \in Nat /\ x \in {row[c].cost, op[p].cost}
          /\ row[c].status = "settled" /\ RowIsSound(charges[c], row[c])
          /\ Covers(charges[c], row[c].cost) /\ Covers(charges[c], op[p].cost)
      BY <1>0, <2>1, <2>3 DEF RowIsSound, RowShape, Larger
    <3> HIDE DEF c, x
    <3>2. row'[c] = [row[c] EXCEPT !.cost = x, !.attached = TRUE]
      BY <1>0, <3>0 DEF Functions
    <3>3. RowIsSound(charges[c], row'[c]) /\ row'[c].status = "settled"
      BY <3>1, <3>2 DEF RowIsSound, RowShape
    <3> QED BY <3>3 DEF c
  <2>4. CASE row' = [row EXCEPT ![op[p].call] = [status |-> "settled", cost |-> op[p].cost,
                                                 attached |-> TRUE]]
    <3>1. row'[op[p].call] = [status |-> "settled", cost |-> op[p].cost, attached |-> TRUE]
      BY <1>0, <2>4 DEF Functions
    <3> QED BY <1>0, <3>1 DEF RowIsSound, RowShape
  <2> QED BY RowTakesCost, <2>2, <2>3, <2>4
<1>4. op'[p] = Idle
  BY <1>0, <1>1 DEF Functions
<1>5. StepOf(p)
  BY <1>0, <1>1, <1>2, <1>3 DEF StepOf, Functions
<1>6. MethodIsSound(p)'
  BY <1>0, <1>4
  DEF MethodIsSound, MethodIsAtHome, TransactionIsSound, CostIsInFile, MethodShape, Idle
<1>7. ASSUME NEW c \in Calls PROVE CallIsSound(c)'
  BY <1>0, <1>1, <1>2, <1>3, <1>7 DEF CallIsSound, Functions
<1> QED BY <1>5, <1>6, <1>7, StepKeepsAccounts

(* Every step keeps the accounts sound.                                      *)
LEMMA AccountsStay ==
  ASSUME AccountInv, [AccountNext]_accountVars
  PROVE  AccountInv'
<1>1. CASE UNCHANGED accountVars
  <2>1. Functions'
    BY <1>1 DEF accountVars, AccountInv, Functions
  <2>2. ASSUME NEW c \in Calls PROVE CallIsSound(c)'
    BY <1>1, <2>2 DEF accountVars, AccountInv, CallIsSound
  <2>3. ASSUME NEW p \in Programs PROVE MethodIsSound(p)'
    BY <1>1, <2>3
    DEF accountVars, AccountInv, MethodIsSound, MethodIsAtHome, TransactionIsSound, CostIsInFile
  <2> QED BY <2>1, <2>2, <2>3 DEF AccountInv
<1>2. ASSUME NEW p \in Programs, Method(p) PROVE AccountInv'
  BY <1>2, ReadAdmittedKeeps, ReleaseOrphansKeeps, ImportRowsKeeps, ChargeNextKeeps,
     ReserveInFileKeeps, BeginTransactionKeeps, CommitSettlementKeeps, CommitReservationKeeps,
     UndoReserveKeeps, RecordInFileKeeps, RecordInVaultKeeps, ReleaseInFileKeeps
  DEF Method
<1>3. ASSUME NEW p \in Programs, ProgramDies(p) PROVE AccountInv'
  BY <1>3, ProgramDiesKeeps
<1>4. ASSUME NEW p \in Programs,
             \/ BeginSummary(p) \/ BeginOutstanding(p)
             \/ \E S \in (SUBSET Calls) \ {{}} : BeginDelete(p, S)
      PROVE  AccountInv'
  BY <1>4, BeginSummaryKeeps, BeginOutstandingKeeps, BeginDeleteKeeps
<1>5. ASSUME NEW c \in Calls, CallStep(c) PROVE AccountInv'
  BY <1>5, BeginReserveKeeps, StartProviderKeeps, BeginRecordKeeps, BeginChargeFailedKeeps,
     ReleaseInVaultKeeps, ExpireKeeps
  DEF CallStep
<1> QED BY <1>1, <1>2, <1>3, <1>4, <1>5 DEF AccountNext

-----------------------------------------------------------------------------
(* Who may be forgiven                                                       *)

\* The call's process has released its row and goes on to the file.
BeingReleased(c) == op[home[c]].step = "release" /\ op[home[c]].call = c

\* The request of such a call was sent, or may be.
Due(c) == c \in started \/ (stage[c] = "admitted" /\ ~BeingReleased(c))

Committed(c) == charges[c].status = "committed"

(* A due call has a row, which is reserved until the file has the charge; the file *)
(* can still be charged for it, unless an opening process overtook the call.       *)
CallIsPlaced(c) ==
  /\ c \in started => stage[c] \in {"calling", "closed"}
  /\ c \in dead => stage[c] = "closed"
  /\ Due(c) => /\ row[c].status # "none" /\ (row[c].status = "reserved" \/ Committed(c))
               /\ c \in overtaken \/ Chargeable(c)

(* What is given back was not sent, what is inserted was reserved in the file, and *)
(* the rows an opening process has not read were inserted behind its back.         *)
MethodIsPlaced(p) ==
  /\ op[p].step = "undo" => stage[op[p].call] = "reserving"
  /\ op[p].step = "release" => stage[op[p].call] = "admitted"
  /\ op[p].step \in {"begin", "settle"} /\ op[p].call # NoCall => Chargeable(op[p].call)
  /\ op[p].step = "orphans" =>
       \A c \in Calls \ op[p].todo :
         row[c].status = "reserved" => c \in overtaken \/ Committed(c)

(* Both, for calls and methods that exist.                                         *)
PlaceInv ==
  /\ started \subseteq Calls
  /\ \A c \in Calls : CallIsPlaced(c)
  /\ \A p \in Programs : MethodIsPlaced(p)

(* What a step of one process leaves to the methods of the others.             *)
LeavesOthers(p) ==
  /\ UNCHANGED home /\ overtaken \subseteq overtaken' /\ started' \subseteq Calls
  /\ \A q \in Programs \ {p} : op'[q] = op[q]
  /\ \A c \in Calls :
       /\ home[c] # p => /\ stage'[c] = stage[c]
                         /\ Chargeable(c) => Chargeable(c)' \/ stage[c] = "closed"
       /\ row[c].status # "none" /\ Committed(c) => Committed(c)'
       /\ row'[c].status = "reserved" =>
            \/ row[c].status = "reserved" \/ c \in overtaken'
            \/ \A q \in Programs : op[q].step # "orphans"

(* What nearly every step leaves to a call.                                    *)
LeavesCall(c) ==
  /\ c \in started' => c \in started
  /\ overtaken \subseteq overtaken'
  /\ c \in dead' => c \in dead \/ stage'[c] = "closed"
  /\ \/ stage'[c] \in {stage[c], "closed"}
     \/ stage[c] = "new" /\ stage'[c] = "reserving"
  /\ BeingReleased(c) => BeingReleased(c)' \/ stage'[c] # "admitted"
  /\ row[c].status # "none" =>
       row'[c].status # "none" /\ (Committed(c) => Committed(c)')
  /\ Due(c)' /\ row[c].status = "reserved" => row'[c].status = "reserved" \/ Committed(c)'
  /\ Chargeable(c) =>
       Chargeable(c)' \/ (stage'[c] = "closed" /\ (c \in started => c \in overtaken))

(* A step has to look after the method of its process and the calls it disturbs. *)
LEMMA StepKeepsPlaces ==
  ASSUME AccountInv, PlaceInv, NEW p \in Programs, LeavesOthers(p), MethodIsPlaced(p)',
         \A c \in Calls : LeavesCall(c) \/ CallIsPlaced(c)'
  PROVE  PlaceInv'
<1>1. ASSUME NEW c \in Calls, LeavesCall(c) PROVE CallIsPlaced(c)'
  <2>1. CallIsPlaced(c)
    BY <1>1 DEF PlaceInv
  <2>2. Due(c)' => Due(c)
    BY <1>1 DEF LeavesCall, Due
  <2>3. Due(c)' => row'[c].status # "none" /\ (row'[c].status = "reserved" \/ Committed(c)')
    BY <1>1, <2>1, <2>2 DEF LeavesCall, CallIsPlaced
  <2>4. Due(c)' => c \in overtaken' \/ Chargeable(c)'
    <3>1. stage'[c] = "closed" /\ Due(c)' => c \in started
      BY <1>1 DEF LeavesCall, Due
    <3> QED BY <1>1, <2>1, <2>2, <3>1 DEF LeavesCall, CallIsPlaced
  <2> QED BY <1>1, <2>1, <2>3, <2>4 DEF LeavesCall, CallIsPlaced
<1>2. ASSUME NEW q \in Programs \ {p} PROVE MethodIsPlaced(q)'
  <2>1. /\ MethodIsPlaced(q) /\ op'[q] = op[q] /\ MethodIsSound(q)
        /\ q \in Programs /\ q # p
    BY <1>2 DEF PlaceInv, AccountInv, LeavesOthers
  <2>2. op[q].call # NoCall =>
          /\ op[q].call \in Calls /\ stage'[op[q].call] = stage[op[q].call]
          /\ stage[op[q].call] = "reserving" /\ Chargeable(op[q].call) =>
               Chargeable(op[q].call)'
    BY <1>2, <2>1 DEF MethodIsSound, MethodIsAtHome, MethodShape, LeavesOthers
  <2>3. /\ op[q].step \in {"undo", "release"} => op[q].call # NoCall
        /\ op[q].step \in {"begin", "settle"} /\ op[q].call # NoCall =>
             stage[op[q].call] = "reserving"
    BY <2>1 DEF MethodIsSound, MethodIsAtHome
  <2>4. /\ op'[q].step = "undo" => stage'[op'[q].call] = "reserving"
        /\ op'[q].step = "release" => stage'[op'[q].call] = "admitted"
    BY <2>1, <2>2, <2>3 DEF MethodIsPlaced
  <2>5. op'[q].step \in {"begin", "settle"} /\ op'[q].call # NoCall =>
          Chargeable(op[q].call)'
    BY <2>1, <2>2, <2>3 DEF MethodIsPlaced
  <2>6. ASSUME op'[q].step = "orphans", NEW c \in Calls \ op'[q].todo,
               row'[c].status = "reserved"
        PROVE  c \in overtaken' \/ Committed(c)'
    BY <2>1, <2>6 DEF LeavesOthers, MethodIsPlaced
  <2> QED BY <2>1, <2>4, <2>5, <2>6 DEF MethodIsPlaced
<1> QED BY <1>1, <1>2 DEF PlaceInv, LeavesOthers

(* A step that writes no row; what it gives back in the file was not sent, or was    *)
(* overtaken, and its call is over.                                                  *)
WritesNoRow(p) ==
  /\ UNCHANGED <<row, home, started, overtaken>>
  /\ \A q \in Programs \ {p} : op'[q] = op[q]
  /\ \A c \in Calls :
       /\ home[c] # p => stage'[c] = stage[c]
       /\ \/ stage'[c] \in {stage[c], "closed"}
          \/ stage[c] = "new" /\ stage'[c] = "reserving"
       /\ c \in dead' => c \in dead \/ stage'[c] = "closed"
       /\ BeingReleased(c) => BeingReleased(c)' \/ stage'[c] = "closed"
       /\ row[c].status # "none" /\ Committed(c) => Committed(c)'
       /\ Chargeable(c) => \/ Chargeable(c)'
                           \/ stage'[c] = "closed" /\ (c \in started => c \in overtaken)

LEMMA NoRowKeepsPlaces ==
  ASSUME AccountInv, PlaceInv, NEW p \in Programs, WritesNoRow(p), MethodIsPlaced(p)'
  PROVE  PlaceInv'
<1>1. LeavesOthers(p)
  BY DEF WritesNoRow, LeavesOthers, PlaceInv
<1>2. ASSUME NEW c \in Calls PROVE LeavesCall(c)
  BY <1>2 DEF WritesNoRow, LeavesCall
<1> QED BY <1>1, <1>2, StepKeepsPlaces

(* The rows that are not there yet are not reserved.                         *)
LEMMA ReadAdmittedKeepsPlaces ==
  ASSUME AccountInv, PlaceInv, NEW p \in Programs, ReadAdmitted(p)
  PROVE  PlaceInv'
<1> USE NoneAssumption DEF ReadAdmitted, callVars, At
<1>0. /\ Functions /\ MethodIsSound(p) /\ MethodIsPlaced(p) /\ p \in Programs
      /\ \A c \in Calls : CallIsPlaced(c)
  BY DEF AccountInv, PlaceInv, Functions
<1>1. WritesNoRow(p)
  BY <1>0 DEF WritesNoRow, BeingReleased, Chargeable, Committed, Functions
<1>2. MethodIsPlaced(p)'
  BY <1>0 DEF MethodIsPlaced, Functions, MethodIsSound, MethodIsAtHome, MethodShape
<1> QED BY <1>0, <1>1, <1>2, NoRowKeepsPlaces

(* The call was new.                                                         *)
LEMMA BeginReserveKeepsPlaces ==
  ASSUME AccountInv, PlaceInv, NEW d \in Calls, BeginReserve(home[d], d)
  PROVE  PlaceInv'
<1> USE NoneAssumption DEF BeginReserve, Idle, callVars, At
<1>0. /\ Functions /\ MethodIsSound(home[d]) /\ MethodIsPlaced(home[d]) /\ home[d] \in Programs
      /\ \A c \in Calls : CallIsPlaced(c)
  BY DEF AccountInv, PlaceInv, Functions
<1>1. WritesNoRow(home[d])
  BY <1>0 DEF WritesNoRow, BeingReleased, Chargeable, Committed, Functions
<1>2. MethodIsPlaced(home[d])'
  BY <1>0 DEF MethodIsPlaced, Functions, MethodIsSound, MethodIsAtHome, MethodShape
<1> QED BY <1>0, <1>1, <1>2, NoRowKeepsPlaces

(* Nobody is disturbed by a look at the budget.                              *)
LEMMA BeginSummaryKeepsPlaces ==
  ASSUME AccountInv, PlaceInv, NEW p \in Programs, BeginSummary(p)
  PROVE  PlaceInv'
<1> USE NoneAssumption DEF BeginSummary, Idle, callVars, At
<1>0. /\ Functions /\ MethodIsSound(p) /\ MethodIsPlaced(p) /\ p \in Programs
      /\ \A c \in Calls : CallIsPlaced(c)
  BY DEF AccountInv, PlaceInv, Functions
<1>1. WritesNoRow(p)
  BY <1>0 DEF WritesNoRow, BeingReleased, Chargeable, Committed, Functions
<1>2. MethodIsPlaced(p)'
  BY <1>0 DEF MethodIsPlaced, Functions, MethodIsSound, MethodIsAtHome, MethodShape
<1> QED BY <1>0, <1>1, <1>2, NoRowKeepsPlaces

(* Nor by the charging of every reservation ...                              *)
LEMMA BeginOutstandingKeepsPlaces ==
  ASSUME AccountInv, PlaceInv, NEW p \in Programs, BeginOutstanding(p)
  PROVE  PlaceInv'
<1> USE NoneAssumption DEF BeginOutstanding, InMaintenance, Idle, callVars, At
<1>0. /\ Functions /\ MethodIsSound(p) /\ MethodIsPlaced(p) /\ p \in Programs
      /\ \A c \in Calls : CallIsPlaced(c)
  BY DEF AccountInv, PlaceInv, Functions
<1>1. WritesNoRow(p)
  BY <1>0 DEF WritesNoRow, BeingReleased, Chargeable, Committed, Functions
<1>2. MethodIsPlaced(p)'
  BY <1>0 DEF MethodIsPlaced, Functions, MethodIsSound, MethodIsAtHome, MethodShape
<1> QED BY <1>0, <1>1, <1>2, NoRowKeepsPlaces

(* ... or by a deletion, as long as nothing is written.                      *)
LEMMA BeginDeleteKeepsPlaces ==
  ASSUME AccountInv, PlaceInv, NEW p \in Programs, NEW S \in SUBSET Calls, BeginDelete(p, S)
  PROVE  PlaceInv'
<1> USE NoneAssumption DEF BeginDelete, InMaintenance, Idle, callVars, At
<1>0. /\ Functions /\ MethodIsSound(p) /\ MethodIsPlaced(p) /\ p \in Programs
      /\ \A c \in Calls : CallIsPlaced(c)
  BY DEF AccountInv, PlaceInv, Functions
<1>1. WritesNoRow(p)
  BY <1>0 DEF WritesNoRow, BeingReleased, Chargeable, Committed, Functions
<1>2. MethodIsPlaced(p)'
  BY <1>0 DEF MethodIsPlaced, Functions, MethodIsSound, MethodIsAtHome, MethodShape
<1> QED BY <1>0, <1>1, <1>2, NoRowKeepsPlaces

(* What the file reserved it still holds when the transaction begins.        *)
LEMMA BeginTransactionKeepsPlaces ==
  ASSUME AccountInv, PlaceInv, NEW p \in Programs, BeginTransaction(p)
  PROVE  PlaceInv'
<1> USE NoneAssumption DEF BeginTransaction, callVars, At
<1>0. /\ Functions /\ MethodIsSound(p) /\ MethodIsPlaced(p) /\ p \in Programs
      /\ \A c \in Calls : CallIsPlaced(c)
  BY DEF AccountInv, PlaceInv, Functions
<1>1. WritesNoRow(p)
  BY <1>0 DEF WritesNoRow, BeingReleased, Chargeable, Committed, Functions
<1>2. MethodIsPlaced(p)'
  <2>1. /\ op[p].step \in {"begin", "charge", "chargeAll"}
        /\ op[p].step = "begin" \/ op[p].call = NoCall
    BY <1>0 DEF MethodIsSound, MethodIsAtHome
  <2>2. op'[p].step = "settle" /\ op'[p].call = op[p].call /\ UNCHANGED charges
    BY <1>0 DEF Functions, MethodIsSound, MethodIsAtHome, MethodShape
  <2> QED BY <1>0, <2>1, <2>2 DEF MethodIsPlaced, Chargeable
<1> QED BY <1>0, <1>1, <1>2, NoRowKeepsPlaces

(* The answer came.                                                          *)
LEMMA BeginRecordKeepsPlaces ==
  ASSUME AccountInv, PlaceInv, NEW d \in Calls, NEW cost \in Costs, BeginRecord(d, cost)
  PROVE  PlaceInv'
<1> USE NoneAssumption DEF BeginRecord, Idle, callVars, At
<1>0. /\ Functions /\ MethodIsSound(home[d]) /\ MethodIsPlaced(home[d]) /\ home[d] \in Programs
      /\ \A c \in Calls : CallIsPlaced(c)
  BY DEF AccountInv, PlaceInv, Functions
<1>1. WritesNoRow(home[d])
  BY <1>0 DEF WritesNoRow, BeingReleased, Chargeable, Committed, Functions
<1>2. MethodIsPlaced(home[d])'
  BY <1>0 DEF MethodIsPlaced, Functions, MethodIsSound, MethodIsAtHome, MethodShape
<1> QED BY <1>0, <1>1, <1>2, NoRowKeepsPlaces

(* The call failed.                                                          *)
LEMMA BeginChargeFailedKeepsPlaces ==
  ASSUME AccountInv, PlaceInv, NEW d \in Calls, BeginChargeFailed(d)
  PROVE  PlaceInv'
<1> USE NoneAssumption DEF BeginChargeFailed, Close, Idle, callVars, At
<1>0. /\ Functions /\ MethodIsSound(home[d]) /\ MethodIsPlaced(home[d]) /\ home[d] \in Programs
      /\ \A c \in Calls : CallIsPlaced(c)
  BY DEF AccountInv, PlaceInv, Functions
<1>1. WritesNoRow(home[d])
  BY <1>0 DEF WritesNoRow, BeingReleased, Chargeable, Committed, Functions
<1>2. MethodIsPlaced(home[d])'
  BY <1>0 DEF MethodIsPlaced, Functions
<1> QED BY <1>0, <1>1, <1>2, NoRowKeepsPlaces

(* Time passes.                                                              *)
LEMMA ExpireKeepsPlaces ==
  ASSUME AccountInv, PlaceInv, NEW d \in Calls, Expire(d)
  PROVE  PlaceInv'
<1> USE NoneAssumption DEF Expire, At
<1>0. /\ Functions /\ MethodIsSound(home[d]) /\ MethodIsPlaced(home[d]) /\ home[d] \in Programs
      /\ \A c \in Calls : CallIsPlaced(c)
  BY DEF AccountInv, PlaceInv, Functions
<1>1. WritesNoRow(home[d])
  BY <1>0 DEF WritesNoRow, BeingReleased, Chargeable, Committed, Functions
<1>2. MethodIsPlaced(home[d])'
  BY <1>0 DEF MethodIsPlaced, Chargeable, Committed
<1> QED BY <1>0, <1>1, <1>2, NoRowKeepsPlaces

(* A process dies, and its calls with it.                                    *)
LEMMA ProgramDiesKeepsPlaces ==
  ASSUME AccountInv, PlaceInv, NEW p \in Programs, ProgramDies(p)
  PROVE  PlaceInv'
<1> USE NoneAssumption DEF ProgramDies, Idle, At
<1>0. /\ Functions /\ MethodIsSound(p) /\ MethodIsPlaced(p) /\ p \in Programs
      /\ \A c \in Calls : CallIsPlaced(c)
  BY DEF AccountInv, PlaceInv, Functions
<1>1. WritesNoRow(p)
  <2>1. ASSUME NEW c \in Calls, BeingReleased(c), home[c] = p PROVE stage'[c] = "closed"
    BY <1>0, <2>1 DEF BeingReleased, MethodIsPlaced
  <2> QED BY <1>0, <2>1 DEF WritesNoRow, BeingReleased, Chargeable, Committed, Functions
<1>2. MethodIsPlaced(p)'
  BY <1>0 DEF MethodIsPlaced, Functions, MethodIsSound, MethodIsAtHome, MethodShape
<1> QED BY <1>0, <1>1, <1>2, NoRowKeepsPlaces

(* A method fails before its call is admitted.                               *)
LEMMA FailKeepsPlaces ==
  ASSUME AccountInv, PlaceInv, NEW p \in Programs,
         op[p].step \in {"charge", "chargeAll", "settle"}, Fail(p),
         UNCHANGED <<charges, row, callVars>>
  PROVE  PlaceInv'
<1> USE NoneAssumption DEF callVars
<1>0. /\ Functions /\ MethodIsSound(p) /\ MethodIsPlaced(p) /\ p \in Programs
      /\ \A c \in Calls : CallIsPlaced(c)
  BY DEF AccountInv, PlaceInv, Functions
<1>1. \/ /\ op[p].call # NoCall /\ txn = p
         /\ op' = [op EXCEPT ![p].step = "undo"] /\ stage' = stage
      \/ /\ op' = [op EXCEPT ![p] = Idle]
         /\ \/ op[p].call # NoCall /\ stage' = [stage EXCEPT ![op[p].call] = "closed"]
            \/ op[p].call = NoCall /\ stage' = stage
  BY DEF Fail, GoOn, Done, Close
<1>2. WritesNoRow(p)
  BY <1>0, <1>1
  DEF WritesNoRow, BeingReleased, Chargeable, Committed, Functions, MethodIsSound,
      MethodIsAtHome, MethodShape
<1>3. MethodIsPlaced(p)'
  <2>1. op'[p].step = "undo" =>
          /\ txn = p /\ op[p].call # NoCall /\ op'[p].call = op[p].call /\ stage' = stage
    BY <1>0, <1>1 DEF Functions, Idle, MethodIsSound, MethodIsAtHome, MethodShape
  <2>2. op'[p].step \in {"undo", "idle"}
    BY <1>0, <1>1 DEF Functions, Idle, MethodIsSound, MethodIsAtHome, MethodShape
  <2>3. txn = p /\ op[p].call # NoCall => stage[op[p].call] = "reserving"
    BY <1>0 DEF MethodIsSound, MethodIsAtHome, TransactionIsSound
  <2> QED BY <2>1, <2>2, <2>3 DEF MethodIsPlaced
<1> QED BY <1>2, <1>3, NoRowKeepsPlaces

(* A charge of one row gives nothing back.                                   *)
LEMMA ChargeNextKeepsPlaces ==
  ASSUME AccountInv, PlaceInv, NEW p \in Programs, ChargeNext(p)
  PROVE  PlaceInv'
<1> USE DEF callVars
<1>0. /\ Functions /\ MethodIsSound(p) /\ MethodIsPlaced(p) /\ p \in Programs
      /\ \A c \in Calls : CallIsPlaced(c)
  BY DEF AccountInv, PlaceInv, Functions
<1>1. PICK d \in op[p].todo :
        IF Chargeable(d)
          THEN /\ charges' = [charges EXCEPT ![d] = Charged(charges[d], Estimate)]
               /\ op' = [op EXCEPT ![p].todo = @ \ {d}]
               /\ UNCHANGED <<stage, txn>>
          ELSE Fail(p) /\ UNCHANGED charges
  BY DEF ChargeNext
<1>2. op[p].step \in {"charge", "chargeAll", "settle"} /\ UNCHANGED <<row, callVars>>
  BY DEF ChargeNext
<1>3. CASE Chargeable(d)
  <2>1. /\ \A q \in Programs \ {p} : op'[q] = op[q]
        /\ op'[p].step = op[p].step /\ op'[p].call = op[p].call
    BY <1>0, <1>1, <1>3 DEF Functions, MethodIsSound, MethodIsAtHome, MethodShape
  <2>2. ASSUME NEW c \in Calls PROVE charges'[c] = charges[c] \/ Committed(c)'
    BY <1>0, <1>1, <1>3, <2>2 DEF Functions, Charged, Committed
  <2>3. WritesNoRow(p)
    BY <1>0, <1>1, <1>2, <1>3, <2>1, <2>2
    DEF WritesNoRow, BeingReleased, Chargeable, Committed, Functions
  <2>4. MethodIsPlaced(p)'
    BY <1>0, <1>1, <1>2, <1>3, <2>1, <2>2
    DEF MethodIsPlaced, Chargeable, Committed, MethodIsSound, MethodIsAtHome, MethodShape
  <2> QED BY <2>3, <2>4, NoRowKeepsPlaces
<1>4. CASE ~Chargeable(d)
  BY <1>1, <1>2, <1>4, FailKeepsPlaces
<1> QED BY <1>3, <1>4

(* Nor does the import of the rows.                                          *)
LEMMA ImportRowsKeepsPlaces ==
  ASSUME AccountInv, PlaceInv, NEW p \in Programs, ImportRows(p)
  PROVE  PlaceInv'
<1> USE NoneAssumption DEF ImportRows, Done, Idle, At
<1>0. /\ Functions /\ MethodIsSound(p) /\ MethodIsPlaced(p) /\ p \in Programs
      /\ \A c \in Calls : CallIsPlaced(c)
  BY DEF AccountInv, PlaceInv, Functions
<1>1. ASSUME NEW c \in Calls
      PROVE  \/ charges'[c] = charges[c] \/ Committed(c)'
             \/ charges[c].status = "absent"
  BY <1>1 DEF Charged, Committed
<1>2. WritesNoRow(p)
  BY <1>0, <1>1 DEF WritesNoRow, BeingReleased, Chargeable, Committed, Functions
<1>3. MethodIsPlaced(p)'
  BY <1>0 DEF MethodIsPlaced, Functions
<1> QED BY <1>2, <1>3, NoRowKeepsPlaces

(* What an opening process gives back was not sent, or was inserted behind its back. *)
LEMMA ReleaseOrphansKeepsPlaces ==
  ASSUME AccountInv, PlaceInv, NEW p \in Programs, ReleaseOrphans(p)
  PROVE  PlaceInv'
<1> USE DEF ReleaseOrphans, GoOn, callVars, At
<1>0. /\ Functions /\ MethodIsSound(p) /\ MethodIsPlaced(p) /\ p \in Programs
      /\ \A c \in Calls : CallIsPlaced(c)
  BY DEF AccountInv, PlaceInv, Functions
<1>1. ASSUME NEW c \in Calls
      PROVE  \/ charges'[c] = charges[c]
             \/ charges[c].status = "reserved" /\ c \in dead /\ c \notin op[p].todo
  BY <1>1
<1>2. ASSUME NEW c \in Calls, charges[c].status = "reserved", c \in dead,
             c \notin op[p].todo
      PROVE  stage'[c] = "closed" /\ (c \in started => c \in overtaken)
  BY <1>0, <1>2 DEF CallIsPlaced, Due, MethodIsPlaced, Committed
<1>3. WritesNoRow(p)
  BY <1>0, <1>1, <1>2 DEF WritesNoRow, BeingReleased, Chargeable, Committed, Functions
<1>4. MethodIsPlaced(p)'
  BY <1>0 DEF MethodIsPlaced, Functions, MethodIsSound, MethodIsAtHome, MethodShape
<1> QED BY <1>3, <1>4, NoRowKeepsPlaces

(* The file reserves for a call that is not due yet.                           *)
LEMMA ReserveInFileKeepsPlaces ==
  ASSUME AccountInv, PlaceInv, NEW p \in Programs, ReserveInFile(p)
  PROVE  PlaceInv'
<1> USE NoneAssumption DEF ReserveInFile, Done, Idle, GoOn, Close, callVars, At
<1>0. /\ Functions /\ MethodIsSound(p) /\ MethodIsPlaced(p) /\ p \in Programs
      /\ \A c \in Calls : CallIsPlaced(c)
  BY DEF AccountInv, PlaceInv, Functions
<1>1. /\ op[p].call \in Calls /\ op[p].step = "charge" /\ home[op[p].call] = p
      /\ row[op[p].call].status = "none"
  BY DEF AccountInv, MethodIsSound, MethodIsAtHome, MethodShape, CallIsSound
<1>2. \A c \in Calls : charges'[c] = charges[c] \/ (c = op[p].call /\ Chargeable(c)')
  BY <1>0, <1>1 DEF Functions, Chargeable
<1>3. WritesNoRow(p)
  BY <1>0, <1>1, <1>2 DEF WritesNoRow, BeingReleased, Chargeable, Committed, Functions
<1>4. MethodIsPlaced(p)'
  BY <1>0, <1>1
  DEF MethodIsPlaced, Chargeable, Functions, MethodIsSound, MethodIsAtHome, MethodShape
<1> QED BY <1>3, <1>4, NoRowKeepsPlaces

(* A call that was refused was not sent ...                                  *)
LEMMA UndoReserveKeepsPlaces ==
  ASSUME AccountInv, PlaceInv, NEW p \in Programs, UndoReserve(p)
  PROVE  PlaceInv'
<1> USE NoneAssumption DEF UndoReserve, Done, Idle, Close, callVars, At
<1>0. /\ Functions /\ MethodIsSound(p) /\ MethodIsPlaced(p) /\ p \in Programs
      /\ \A c \in Calls : CallIsPlaced(c)
  BY DEF AccountInv, PlaceInv, Functions
<1>1. /\ op[p].call \in Calls /\ home[op[p].call] = p
      /\ stage[op[p].call] = "reserving" /\ op[p].call \notin started
  BY <1>0
  DEF MethodIsSound, MethodIsAtHome, MethodShape, MethodIsPlaced, CallIsPlaced
<1>2. \A c \in Calls :
        charges'[c] = charges[c] \/ (c = op[p].call /\ charges[c].status = "reserved")
  BY <1>0, <1>1 DEF Functions, ReleasedBeforeCall
<1>3. WritesNoRow(p)
  BY <1>0, <1>1, <1>2 DEF WritesNoRow, BeingReleased, Chargeable, Committed, Functions
<1>4. MethodIsPlaced(p)'
  BY <1>0 DEF MethodIsPlaced, Functions
<1> QED BY <1>3, <1>4, NoRowKeepsPlaces

(* ... nor was one that is released.                                         *)
LEMMA ReleaseInFileKeepsPlaces ==
  ASSUME AccountInv, PlaceInv, NEW p \in Programs, ReleaseInFile(p)
  PROVE  PlaceInv'
<1> USE NoneAssumption DEF ReleaseInFile, Done, Idle, Close, callVars, At
<1>0. /\ Functions /\ MethodIsSound(p) /\ MethodIsPlaced(p) /\ p \in Programs
      /\ \A c \in Calls : CallIsPlaced(c)
  BY DEF AccountInv, PlaceInv, Functions
<1>1. /\ op[p].call \in Calls /\ home[op[p].call] = p
      /\ stage[op[p].call] = "admitted" /\ op[p].call \notin started
  BY <1>0
  DEF MethodIsSound, MethodIsAtHome, MethodShape, MethodIsPlaced, CallIsPlaced
<1>2. \A c \in Calls :
        charges'[c] = charges[c] \/ (c = op[p].call /\ charges[c].status = "reserved")
  BY <1>0, <1>1 DEF Functions, ReleasedBeforeCall
<1>3. WritesNoRow(p)
  BY <1>0, <1>1, <1>2 DEF WritesNoRow, BeingReleased, Chargeable, Committed, Functions
<1>4. MethodIsPlaced(p)'
  BY <1>0 DEF MethodIsPlaced, Functions
<1> QED BY <1>3, <1>4, NoRowKeepsPlaces

(* What a call cost is charged.                                              *)
LEMMA RecordInFileKeepsPlaces ==
  ASSUME AccountInv, PlaceInv, NEW p \in Programs, RecordInFile(p)
  PROVE  PlaceInv'
<1> USE NoneAssumption DEF RecordInFile, Done, Idle, GoOn, Close, callVars, At
<1>0. /\ Functions /\ MethodIsSound(p) /\ MethodIsPlaced(p) /\ p \in Programs
      /\ \A c \in Calls : CallIsPlaced(c)
  BY DEF AccountInv, PlaceInv, Functions
<1>1. op[p].call \in Calls /\ home[op[p].call] = p /\ op[p].step = "record"
  BY <1>0 DEF MethodIsSound, MethodIsAtHome, MethodShape
<1>2. \A c \in Calls : charges'[c] = charges[c] \/ Committed(c)'
  BY <1>0, <1>1 DEF Functions, Charged, Committed
<1>3. WritesNoRow(p)
  BY <1>0, <1>1, <1>2 DEF WritesNoRow, BeingReleased, Chargeable, Committed, Functions
<1>4. MethodIsPlaced(p)'
  BY <1>0, <1>1 DEF MethodIsPlaced, Functions, MethodIsSound, MethodIsAtHome, MethodShape
<1> QED BY <1>3, <1>4, NoRowKeepsPlaces

(* What the transaction writes into the row of a charged call.                 *)
LEMMA RecordInVaultKeepsPlaces ==
  ASSUME AccountInv, PlaceInv, NEW p \in Programs, RecordInVault(p)
  PROVE  PlaceInv'
<1> USE NoneAssumption DEF callVars
<1>0. /\ Functions /\ MethodIsSound(p) /\ MethodIsPlaced(p) /\ p \in Programs
      /\ started \subseteq Calls /\ \A c \in Calls : CallIsPlaced(c)
  BY DEF AccountInv, PlaceInv, Functions
<1>1. /\ op[p].call \in Calls /\ home[op[p].call] = p /\ op[p].step = "attach"
      /\ row[op[p].call].status # "none" /\ Committed(op[p].call)
      /\ op' = [op EXCEPT ![p] = Idle] /\ stage' = [stage EXCEPT ![op[p].call] = "closed"]
      /\ UNCHANGED <<charges, txn, callVars>>
  BY <1>0
  DEF MethodIsSound, MethodIsAtHome, MethodShape, CostIsInFile, Covers, Committed,
      RecordInVault, Done, Close, At
<1>2. ASSUME NEW c \in Calls
      PROVE  \/ row'[c] = row[c]
             \/ c = op[p].call /\ row'[c].status = "settled"
  <2>1. RowShape(row[op[p].call])
    BY <1>1 DEF AccountInv, CallIsSound, RowIsSound
  <2>2. CASE c # op[p].call
    BY <1>0, <1>1, <1>2, <2>2, RowTakesCost DEF Functions
  <2>3. CASE c = op[p].call
    <3>1. CASE \/ row' = row
               \/ row' = [row EXCEPT ![op[p].call] = [status |-> "settled", cost |-> op[p].cost,
                                                    attached |-> TRUE]]
      BY <1>0, <1>1, <2>3, <3>1 DEF Functions
    <3>2. CASE /\ row[c].status = "settled"
               /\ row' = [row EXCEPT ![op[p].call].cost = Larger(@, op[p].cost),
                                    ![op[p].call].attached = TRUE]
      <4>1. PICK x : row' = [row EXCEPT ![c].cost = x, ![c].attached = TRUE]
        BY <2>3, <3>2
      <4>2. row'[c] = [row[c] EXCEPT !.cost = x, !.attached = TRUE]
        BY <1>0, <1>2, <4>1 DEF Functions
      <4> QED BY <2>1, <2>3, <3>2, <4>2 DEF RowShape
    <3> QED BY <2>3, <3>1, <3>2, RowTakesCost
  <2> QED BY <2>2, <2>3
<1>3. LeavesOthers(p)
  BY <1>0, <1>1, <1>2 DEF LeavesOthers, Committed, Chargeable, Functions
<1>4. ASSUME NEW c \in Calls PROVE LeavesCall(c)
  BY <1>0, <1>1, <1>2, <1>4 DEF LeavesCall, BeingReleased, Committed, Chargeable, Functions
<1>5. MethodIsPlaced(p)'
  BY <1>0, <1>1 DEF MethodIsPlaced, Functions, Idle
<1> QED BY <1>3, <1>4, <1>5, StepKeepsPlaces

(* A call whose row is released is not sent any more.                          *)
LEMMA ReleaseInVaultKeepsPlaces ==
  ASSUME AccountInv, PlaceInv, NEW d \in Calls, ReleaseInVault(d)
  PROVE  PlaceInv'
<1> USE NoneAssumption DEF ReleaseInVault, Idle, callVars, At
<1>0. /\ Functions /\ MethodIsSound(home[d]) /\ MethodIsPlaced(home[d]) /\ home[d] \in Programs
      /\ started \subseteq Calls /\ \A c \in Calls : CallIsPlaced(c)
  BY DEF AccountInv, PlaceInv, Functions
<1>1. d \notin started
  BY <1>0 DEF CallIsPlaced
<1>2. ASSUME NEW c \in Calls
      PROVE  \/ row'[c] = row[c]
             \/ c = d /\ row'[c].status = "released" /\ row[c].status = "reserved"
  <2>1. RowShape(row[d])
    BY DEF AccountInv, CallIsSound, RowIsSound
  <2> QED BY <1>0, <1>2, <2>1 DEF Functions, RowShape
<1>3. BeingReleased(d)' /\ \A c \in Calls : ~(BeingReleased(c) /\ home[c] = home[d])
  BY <1>0 DEF BeingReleased, Functions
<1>4. LeavesOthers(home[d])
  BY <1>0, <1>2 DEF LeavesOthers, Committed, Chargeable, Functions
<1>5. ASSUME NEW c \in Calls PROVE LeavesCall(c)
  <2>1. Due(d)' => FALSE
    BY <1>1, <1>3 DEF Due
  <2>2. BeingReleased(c) => BeingReleased(c)'
    BY <1>0, <1>3, <1>5 DEF BeingReleased, Functions
  <2> QED BY <1>2, <1>5, <2>1, <2>2 DEF LeavesCall, Committed, Chargeable
<1>6. MethodIsPlaced(home[d])'
  BY <1>0 DEF MethodIsPlaced, Functions
<1> QED BY <1>0, <1>4, <1>5, <1>6, StepKeepsPlaces

(* Scrubbing makes no reservation.                                           *)
LEMMA ScrubbedIsNotReserved ==
  ASSUME NEW r, RowShape(r), r.status # "reserved"
  PROVE  Scrubbed(r).status # "reserved"
<1>1. \/ Scrubbed(r) = r
      \/ Scrubbed(r) = [r EXCEPT !.status = "scrubbed"]
      \/ Scrubbed(r) = [r EXCEPT !.status = "gone"]
  BY DEF Scrubbed
<1> QED BY <1>1 DEF RowShape

(* A transaction settles what is charged, and deletes what is settled.         *)
LEMMA SettledIsCommitted ==
  ASSUME AccountInv, NEW p \in Programs, At(p, "settle"), op[p].todo = {}, NEW c \in Calls,
         NEW r, r = Settled(p)[c] \/ (c \in op[p].deleting /\ r = Scrubbed(Settled(p)[c]))
  PROVE  /\ row[c].status # "none" => r.status # "none"
         /\ r.status = "reserved" => row[c].status = "reserved"
         /\ row[c].status = "reserved" => r.status = "reserved" \/ Committed(c)
<1>0. /\ MethodIsSound(p) /\ RowIsSound(charges[c], Settled(p)[c])
      /\ row[c].status = "none" <=> Settled(p)[c].status = "none"
  BY SettledRows DEF AccountInv
<1>1. row[c].status # "none" => r.status # "none"
  BY <1>0, ScrubbedRows
<1>2. CASE c \in op[p].settling
  <2>1. row[c].status = "reserved" /\ Committed(c)
    BY <1>0, <1>2 DEF MethodIsSound, TransactionIsSound, Covers, Committed, At
  <2> QED BY <1>1, <2>1
<1>3. CASE c \notin op[p].settling
  <2>1. Settled(p)[c] = row[c]
    BY <1>3 DEF Settled
  <2>2. c \in op[p].deleting => row[c].status # "reserved"
    BY <1>0, <1>3 DEF MethodIsSound, TransactionIsSound, At
  <2>3. RowShape(row[c])
    BY <1>0, <2>1 DEF RowIsSound
  <2> QED BY <1>1, <2>1, <2>2, <2>3, ScrubbedIsNotReserved
<1> QED BY <1>2, <1>3

(* Rows are settled and deleted in one transaction.                          *)
LEMMA CommitSettlementKeepsPlaces ==
  ASSUME AccountInv, PlaceInv, NEW p \in Programs, CommitSettlement(p)
  PROVE  PlaceInv'
<1> USE NoneAssumption DEF CommitSettlement, Done, Idle, callVars, At
<1>0. /\ Functions /\ MethodIsSound(p) /\ MethodIsPlaced(p) /\ p \in Programs
      /\ started \subseteq Calls /\ \A c \in Calls : CallIsPlaced(c)
  BY DEF AccountInv, PlaceInv, Functions
<1>1. ASSUME NEW c \in Calls
      PROVE  /\ row[c].status # "none" => row'[c].status # "none"
             /\ row'[c].status = "reserved" => row[c].status = "reserved"
             /\ row[c].status = "reserved" => row'[c].status = "reserved" \/ Committed(c)
  <2>1. \/ row'[c] = Settled(p)[c]
        \/ c \in op[p].deleting /\ row'[c] = Scrubbed(Settled(p)[c])
    BY <1>1
  <2> QED BY <1>1, <2>1, SettledIsCommitted
<1>2. LeavesOthers(p)
  BY <1>0, <1>1 DEF LeavesOthers, Committed, Chargeable
<1>3. ASSUME NEW c \in Calls PROVE LeavesCall(c)
  BY <1>0, <1>1, <1>3 DEF LeavesCall, BeingReleased, Committed, Chargeable, Functions
<1>4. MethodIsPlaced(p)'
  BY <1>0 DEF MethodIsPlaced, Functions
<1> QED BY <1>2, <1>3, <1>4, StepKeepsPlaces

(* The row is inserted of a call that the file has reserved, before the eyes of all *)
(* who open the vault or behind their backs.                                       *)
LEMMA CommitReservationKeepsPlaces ==
  ASSUME AccountInv, PlaceInv, NEW p \in Programs, CommitReservation(p)
  PROVE  PlaceInv'
<1> USE NoneAssumption DEF callVars, At
<1>0. /\ Functions /\ MethodIsSound(p) /\ MethodIsPlaced(p) /\ p \in Programs
      /\ started \subseteq Calls /\ \A c \in Calls : CallIsPlaced(c)
  BY DEF AccountInv, PlaceInv, Functions
<1>1. /\ op[p].step = "settle" /\ op[p].todo = {} /\ op[p].call # NoCall
      /\ UNCHANGED <<charges, expired, started, dead, crashes, legacy, home>>
  BY DEF CommitReservation
<1>2. CASE Fail(p) /\ UNCHANGED <<row, overtaken>>
  BY <1>1, <1>2, FailKeepsPlaces
<1>3. CASE /\ row' = [Settled(p) EXCEPT ![op[p].call].status = "reserved"]
           /\ stage' = [stage EXCEPT ![op[p].call] = "admitted"]
           /\ overtaken' = IF \E q \in Programs : At(q, "orphans")
                             THEN overtaken \cup {op[p].call} ELSE overtaken
           /\ Done(p)
  <2>1. PICK d \in Calls :
          /\ d = op[p].call /\ home[d] = p /\ stage[d] = "reserving" /\ Chargeable(d)
          /\ d \notin started /\ d \notin dead
    BY <1>0, <1>1 DEF MethodIsSound, MethodIsAtHome, MethodShape, MethodIsPlaced, CallIsPlaced
  <2>2. row'[d].status = "reserved"
    <3>1. /\ Settled(p) = [c \in Calls |-> Settled(p)[c]]
          /\ RowShape(Settled(p)[d])
      BY <1>0, <1>1, <2>1, SettledRows DEF AccountInv, RowIsSound
    <3>2. row'[d] = [Settled(p)[d] EXCEPT !.status = "reserved"]
      BY <1>3, <2>1, <3>1
    <3> QED BY <3>1, <3>2 DEF RowShape
  <2>3. ASSUME NEW c \in Calls \ {d}
        PROVE  /\ row[c].status # "none" => row'[c].status # "none"
               /\ row'[c].status = "reserved" => row[c].status = "reserved"
               /\ row[c].status = "reserved" => row'[c].status = "reserved" \/ Committed(c)
    <3>1. Settled(p) = [e \in Calls |-> Settled(p)[e]]
      BY DEF Settled
    <3>2. row'[c] = Settled(p)[c]
      BY <1>3, <2>1, <2>3, <3>1
    <3> QED BY <1>1, <2>3, <3>2, SettledIsCommitted
  <2>4. op' = [op EXCEPT ![p] = Idle] /\ op'[p] = Idle
    BY <1>0, <1>3 DEF Done, Functions
  <2>5. overtaken \subseteq overtaken' /\ (d \in overtaken' \/
                                        \A q \in Programs : op[q].step # "orphans")
    BY <1>3, <2>1
  <2>6. LeavesOthers(p)
    BY <1>0, <1>1, <1>3, <2>1, <2>2, <2>3, <2>4, <2>5
    DEF LeavesOthers, Committed, Chargeable, Functions
  <2>7. ASSUME NEW c \in Calls \ {d} PROVE LeavesCall(c)
    BY <1>0, <1>1, <1>3, <2>1, <2>3, <2>4, <2>5, <2>7
    DEF LeavesCall, BeingReleased, Committed, Chargeable, Functions
  <2>8. CallIsPlaced(d)'
    BY <1>0, <1>1, <1>3, <2>1, <2>2 DEF CallIsPlaced, Chargeable, Functions
  <2>9. MethodIsPlaced(p)'
    BY <2>4 DEF MethodIsPlaced, Idle
  <2> QED BY <2>6, <2>7, <2>8, <2>9, StepKeepsPlaces
<1> QED BY <1>2, <1>3 DEF CommitReservation

(* The request that is sent is that of a due call.                             *)
LEMMA StartProviderKeepsPlaces ==
  ASSUME AccountInv, PlaceInv, NEW d \in Calls, StartProvider(d)
  PROVE  PlaceInv'
<1> USE NoneAssumption DEF StartProvider, At
<1>0. /\ Functions /\ MethodIsSound(home[d]) /\ MethodIsPlaced(home[d]) /\ home[d] \in Programs
      /\ started \subseteq Calls /\ \A c \in Calls : CallIsPlaced(c)
  BY DEF AccountInv, PlaceInv, Functions
<1>1. LeavesOthers(home[d])
  BY <1>0 DEF LeavesOthers, Committed, Chargeable, Functions
<1>2. ASSUME NEW c \in Calls \ {d} PROVE LeavesCall(c)
  BY <1>0, <1>2 DEF LeavesCall, BeingReleased, Committed, Chargeable, Functions
<1>3. CallIsPlaced(d)'
  <2>1. Due(d) /\ d \notin dead
    BY <1>0 DEF Due, BeingReleased, CallIsPlaced
  <2> QED BY <1>0, <2>1 DEF CallIsPlaced, Committed, Chargeable, Functions
<1>4. MethodIsPlaced(home[d])'
  BY <1>0 DEF MethodIsPlaced
<1> QED BY <1>0, <1>1, <1>2, <1>3, <1>4, StepKeepsPlaces

(* Every step leaves calls and methods in their places.                        *)
LEMMA PlacesStay ==
  ASSUME AccountInv, PlaceInv, [AccountNext]_accountVars
  PROVE  PlaceInv'
<1>1. CASE UNCHANGED accountVars
  <2>1. ASSUME NEW c \in Calls PROVE CallIsPlaced(c)'
    BY <1>1, <2>1
    DEF accountVars, PlaceInv, CallIsPlaced, Due, BeingReleased, Committed, Chargeable
  <2>2. ASSUME NEW p \in Programs PROVE MethodIsPlaced(p)'
    BY <1>1, <2>2 DEF accountVars, PlaceInv, MethodIsPlaced, Committed, Chargeable
  <2> QED BY <1>1, <2>1, <2>2 DEF PlaceInv, accountVars
<1>2. ASSUME NEW p \in Programs, Method(p) PROVE PlaceInv'
  BY <1>2, ReadAdmittedKeepsPlaces, ReleaseOrphansKeepsPlaces, ImportRowsKeepsPlaces,
     ChargeNextKeepsPlaces, ReserveInFileKeepsPlaces, BeginTransactionKeepsPlaces,
     CommitSettlementKeepsPlaces, CommitReservationKeepsPlaces, UndoReserveKeepsPlaces,
     RecordInFileKeepsPlaces, RecordInVaultKeepsPlaces, ReleaseInFileKeepsPlaces
  DEF Method
<1>3. ASSUME NEW p \in Programs, ProgramDies(p) PROVE PlaceInv'
  BY <1>3, ProgramDiesKeepsPlaces
<1>4. ASSUME NEW p \in Programs,
             \/ BeginSummary(p) \/ BeginOutstanding(p)
             \/ \E S \in (SUBSET Calls) \ {{}} : BeginDelete(p, S)
      PROVE  PlaceInv'
  BY <1>4, BeginSummaryKeepsPlaces, BeginOutstandingKeepsPlaces, BeginDeleteKeepsPlaces
<1>5. ASSUME NEW c \in Calls, CallStep(c) PROVE PlaceInv'
  BY <1>5, BeginReserveKeepsPlaces, StartProviderKeepsPlaces, BeginRecordKeepsPlaces,
     BeginChargeFailedKeepsPlaces, ReleaseInVaultKeepsPlaces, ExpireKeepsPlaces
  DEF CallStep
<1> QED BY <1>1, <1>2, <1>3, <1>4, <1>5 DEF AccountNext

-----------------------------------------------------------------------------
(* The theorems about the accounts *)

(* What a vault has recorded as spent is covered by a committed charge of the   *)
(* shared ledger, at any moment between the writes to the two, whichever       *)
(* process makes the call and wherever one dies.                               *)
THEOREM SpendingStaysCovered == AccountSpec => []SpendingIsCovered
<1>1. AccountInit => AccountInv
  BY AccountsInitially
<1>2. AccountInv /\ [AccountNext]_accountVars => AccountInv'
  BY AccountsStay
<1>3. AccountInv => SpendingIsCovered
  BY DEF AccountInv, CallIsSound, RowIsSound, Covers, SpendingIsCovered
<1> QED BY <1>1, <1>2, <1>3, PTL DEF AccountSpec

(* A call whose request was sent is given back in the shared ledger only when its  *)
(* row was inserted behind the back of a process that opened the vault (the race of *)
(* #releaseOrphanedInstallationReservations), however many processes there are and *)
(* wherever they die.                                                              *)
THEOREM OnlyTheOvertakenAreForgiven == AccountSpec => []ForgivenWasOvertaken
<1>1. AccountInit => AccountInv /\ PlaceInv
  <2>1. AccountInit => PlaceInv
    BY DEF AccountInit, PlaceInv, CallIsPlaced, MethodIsPlaced, Due, Idle
  <2> QED BY <2>1, AccountsInitially
<1>2. AccountInv /\ PlaceInv /\ [AccountNext]_accountVars => (AccountInv /\ PlaceInv)'
  BY AccountsStay, PlacesStay
<1>3. PlaceInv => ForgivenWasOvertaken
  BY DEF PlaceInv, CallIsPlaced, Due, Chargeable, ForgivenWasOvertaken
<1> QED BY <1>1, <1>2, <1>3, PTL DEF AccountSpec
=============================================================================

----------------------------- MODULE BudgetLock -----------------------------
(***************************************************************************)
(* The lock file beside the installation-budget ledger: #withLock,         *)
(* #removeAbandonedLock, #lockAtPathMatches and #write of                  *)
(* packages/config/src/installation-budget.ts, one step per file-system    *)
(* call whose outcome another process can change.                          *)
(*                                                                         *)
(* The operation under the lock is reserve of one call of unit cost; the   *)
(* call of process p is called p, and a process that is refused or already *)
(* admitted reads the ledger and writes nothing.  An inode is not reused   *)
(* while it is at the path or open.  Temporary and quarantined files have  *)
(* unique names and are never read, so they are left out.                  *)
(***************************************************************************)
EXTENDS Integers, FiniteSets

CONSTANTS
  Processes,   \* processes of the installation, by pid
  Crashable,   \* those that may die
  Inodes,      \* bound: files that can exist at the lock path at once
  NoInode,
  Allowance    \* the calls the ledger may admit

ASSUME InodesAssumption == NoInode \notin Inodes
ASSUME CrashableAssumption == Crashable \subseteq Processes
ASSUME AllowanceAssumption == Allowance \in Nat
ASSUME ProcessesAssumption == IsFiniteSet(Processes) /\ Processes # {}

VARIABLES
  path,    \* the inode at lockPath, or NoInode
  file,    \* what each inode holds: pid, whether written, whether over 1 s old
  ledger,  \* the durable ledger: the calls in it
  pc,      \* where each process is
  held,    \* #activeLock: the inode a process believes is its lock
  seen,    \* the inode a waiter has open in #removeAbandonedLock
  copy,    \* the ledger a process has read
  granted  \* the calls whose reserve returned normally

vars == <<path, file, ledger, pc, held, seen, copy, granted>>

Phases == {"idle", "open", "writeLock", "inspect", "compare", "quarantine",
           "wait", "read", "assert", "confirm", "rename", "release", "unlink",
           "crashed"}

File == [pid : Processes, written : BOOLEAN, old : BOOLEAN]

Alive(p) == pc[p] # "crashed"

Goto(p, label) == pc' = [pc EXCEPT ![p] = label]

InUse == {path} \cup {held[p] : p \in Processes} \cup {seen[p] : p \in Processes}

Init ==
  /\ path = NoInode
  /\ file = [i \in Inodes |-> [pid |-> CHOOSE p \in Processes : TRUE,
                              written |-> FALSE, old |-> FALSE]]
  /\ ledger = {}
  /\ pc = [p \in Processes |-> "idle"]
  /\ held = [p \in Processes |-> NoInode]
  /\ seen = [p \in Processes |-> NoInode]
  /\ copy = [p \in Processes |-> {}]
  /\ granted = {}

-----------------------------------------------------------------------------
(* Acquiring the lock *)

Begin(p) ==
  /\ pc[p] = "idle"
  /\ Goto(p, "open")
  /\ UNCHANGED <<path, file, ledger, held, seen, copy, granted>>

\* openSync(lockPath, "wx") creates the file when there is none.
CreateLock(p) ==
  /\ pc[p] = "open"
  /\ path = NoInode
  /\ \E i \in Inodes \ InUse :
       /\ path' = i
       /\ file' = [file EXCEPT ![i] = [pid |-> p, written |-> FALSE, old |-> FALSE]]
       /\ held' = [held EXCEPT ![p] = i]
  /\ Goto(p, "writeLock")
  /\ UNCHANGED <<ledger, seen, copy, granted>>

\* EEXIST: somebody holds the lock, or died holding it.
LockExists(p) ==
  /\ pc[p] = "open"
  /\ path # NoInode
  /\ Goto(p, "inspect")
  /\ UNCHANGED <<path, file, ledger, held, seen, copy, granted>>

WriteLock(p) ==
  /\ pc[p] = "writeLock"
  /\ file' = [file EXCEPT ![held[p]].written = TRUE]
  /\ Goto(p, "read")
  /\ UNCHANGED <<path, ledger, held, seen, copy, granted>>

\* External: writing the lock fails.  The handler unlinks whatever is there.
WriteLockFails(p) ==
  /\ pc[p] = "writeLock"
  /\ path' = NoInode
  /\ held' = [held EXCEPT ![p] = NoInode]
  /\ Goto(p, "idle")
  /\ UNCHANGED <<file, ledger, seen, copy, granted>>

-----------------------------------------------------------------------------
(* #removeAbandonedLock *)

\* Faulty: the age is compared the wrong way around.
AbandonedYoung(i) ==
  i # NoInode /\ file[i].written /\ ~file[i].old /\ ~Alive(file[i].pid)

\* The lock is abandoned: complete, over a second old, its process gone.
Abandoned(i) ==
  i # NoInode /\ file[i].written /\ file[i].old /\ ~Alive(file[i].pid)

InspectAbandoned(p) ==
  /\ pc[p] = "inspect"
  /\ Abandoned(path)
  /\ seen' = [seen EXCEPT ![p] = path]
  /\ Goto(p, "compare")
  /\ UNCHANGED <<path, file, ledger, held, copy, granted>>

InspectOther(p) ==
  /\ pc[p] = "inspect"
  /\ ~Abandoned(path)
  /\ Goto(p, "wait")
  /\ UNCHANGED <<path, file, ledger, held, seen, copy, granted>>

\* lstatSync(lockPath): is it still the file that was read?
ComparePath(p) ==
  /\ pc[p] = "compare"
  /\ IF path = seen[p]
       THEN Goto(p, "quarantine") /\ UNCHANGED seen
       ELSE Goto(p, "wait") /\ seen' = [seen EXCEPT ![p] = NoInode]
  /\ UNCHANGED <<path, file, ledger, held, copy, granted>>

\* renameSync(lockPath, quarantine) and its unlink move whatever is there now.
Quarantine(p) ==
  /\ pc[p] = "quarantine"
  /\ path' = NoInode
  /\ seen' = [seen EXCEPT ![p] = NoInode]
  /\ Goto(p, "wait")
  /\ UNCHANGED <<file, ledger, held, copy, granted>>

\* wait(25) and the next attempt, or the five-second deadline.
Retry(p) ==
  /\ pc[p] = "wait"
  /\ Goto(p, "open")
  /\ UNCHANGED <<path, file, ledger, held, seen, copy, granted>>

TimeOut(p) ==
  /\ pc[p] = "wait"
  /\ Goto(p, "idle")
  /\ UNCHANGED <<path, file, ledger, held, seen, copy, granted>>

-----------------------------------------------------------------------------
(* The operation, and #write *)

\* Faulty: admission stops one call too late.
ReadLedgerOffByOne(p) ==
  /\ pc[p] = "read"
  /\ copy' = [copy EXCEPT ![p] = ledger]
  /\ Goto(p, IF p \notin ledger /\ Cardinality(ledger) <= Allowance
               THEN "assert" ELSE "release")
  /\ UNCHANGED <<path, file, ledger, held, seen, granted>>

ReadLedger(p) ==
  /\ pc[p] = "read"
  /\ copy' = [copy EXCEPT ![p] = ledger]
  /\ Goto(p, IF p \notin ledger /\ Cardinality(ledger) < Allowance
               THEN "assert" ELSE "release")
  /\ UNCHANGED <<path, file, ledger, held, seen, granted>>

OwnsLock(p) == held[p] # NoInode /\ path = held[p]

\* #assertOwnsLock before the temporary file is written ...
AssertOwnsLock(p) ==
  /\ pc[p] = "assert"
  /\ Goto(p, IF OwnsLock(p) THEN "confirm" ELSE "release")
  /\ UNCHANGED <<path, file, ledger, held, seen, copy, granted>>

\* ... and again before it takes the ledger's place.
ConfirmOwnsLock(p) ==
  /\ pc[p] = "confirm"
  /\ Goto(p, IF OwnsLock(p) THEN "rename" ELSE "release")
  /\ UNCHANGED <<path, file, ledger, held, seen, copy, granted>>

RenameLedger(p) ==
  /\ pc[p] = "rename"
  /\ ledger' = copy[p] \cup {p}
  /\ granted' = granted \cup {p}
  /\ Goto(p, "release")
  /\ UNCHANGED <<path, file, held, seen, copy>>

-----------------------------------------------------------------------------
(* Releasing the lock: #lockAtPathMatches, then unlinkSync *)

Finish(p) ==
  /\ held' = [held EXCEPT ![p] = NoInode]
  /\ copy' = [copy EXCEPT ![p] = {}]

ReleaseLock(p) ==
  /\ pc[p] = "release"
  /\ IF OwnsLock(p)
       THEN Goto(p, "unlink") /\ UNCHANGED <<held, copy>>
       ELSE Goto(p, "idle") /\ Finish(p)
  /\ UNCHANGED <<path, file, ledger, seen, granted>>

UnlinkLock(p) ==
  /\ pc[p] = "unlink"
  /\ path' = NoInode
  /\ Finish(p)
  /\ Goto(p, "idle")
  /\ UNCHANGED <<file, ledger, seen, granted>>

-----------------------------------------------------------------------------
(* External: time passes, processes die, later ones reuse their pids *)

Age(i) ==
  /\ path = i
  /\ ~file[i].old
  /\ file' = [file EXCEPT ![i].old = TRUE]
  /\ UNCHANGED <<path, ledger, pc, held, seen, copy, granted>>

Crash(p) ==
  /\ p \in Crashable
  /\ Alive(p)
  /\ Goto(p, "crashed")
  /\ held' = [held EXCEPT ![p] = NoInode]
  /\ seen' = [seen EXCEPT ![p] = NoInode]
  /\ copy' = [copy EXCEPT ![p] = {}]
  /\ UNCHANGED <<path, file, ledger, granted>>

Restart(p) ==
  /\ pc[p] = "crashed"
  /\ Goto(p, "idle")
  /\ UNCHANGED <<path, file, ledger, held, seen, copy, granted>>

\* A process that has called the guard runs to the end of the call.
Step(p) ==
  \/ CreateLock(p) \/ LockExists(p) \/ WriteLock(p) \/ WriteLockFails(p)
  \/ InspectAbandoned(p) \/ InspectOther(p) \/ ComparePath(p) \/ Quarantine(p)
  \/ Retry(p) \/ TimeOut(p)
  \/ ReadLedger(p) \/ AssertOwnsLock(p) \/ ConfirmOwnsLock(p) \/ RenameLedger(p)
  \/ ReleaseLock(p) \/ UnlinkLock(p)

Next ==
  \/ \E p \in Processes : Begin(p) \/ Step(p) \/ Crash(p) \/ Restart(p)
  \/ \E i \in Inodes : Age(i)

Spec == Init /\ [][Next]_vars

\* The calls are synchronous code, so a live process takes its next step; time
\* passes; and the processes that cannot die keep calling.
Fairness ==
  /\ \A p \in Processes : WF_vars(Step(p))
  /\ \A p \in Processes \ Crashable : WF_vars(Begin(p))
  /\ \A i \in Inodes : WF_vars(Age(i))

FairSpec == Spec /\ Fairness
-----------------------------------------------------------------------------
(* Properties *)

\* The phases in which a process has created the lock and not given it back.
Critical == {"writeLock", "read", "assert", "confirm", "rename", "release",
             "unlink"}

\* #activeLock is set exactly while a process is between creating the lock and
\* giving it up, and a waiter's descriptor is open exactly between its two
\* looks at the path.
TypeOK ==
  /\ path \in Inodes \cup {NoInode}
  /\ file \in [Inodes -> File]
  /\ ledger \subseteq Processes
  /\ pc \in [Processes -> Phases]
  /\ held \in [Processes -> Inodes \cup {NoInode}]
  /\ seen \in [Processes -> Inodes \cup {NoInode}]
  /\ copy \in [Processes -> SUBSET Processes]
  /\ granted \subseteq Processes
  /\ \A p \in Processes :
       /\ held[p] # NoInode <=> pc[p] \in Critical
       /\ seen[p] # NoInode <=> pc[p] \in {"compare", "quarantine"}

\* "Its file lock covers read, admission, mutation, fsync, and atomic
\* replacement": no two processes are between taking and releasing the lock.
MutualExclusion ==
  \A p, q \in Processes : pc[p] \in Critical /\ pc[q] \in Critical => p = q

\* "a SQLite transaction in another vault can never create a second independent
\* USD 100 allowance": the calls that were told to go ahead fit one allowance.
SingleAllowance == Cardinality(granted) <= Allowance

\* Whatever the processes do with the lock file, the ledger changes like that
\* of one authority.
Authority == INSTANCE AtomicLedger WITH Calls <- Processes
ImplementsAuthority == Authority!Spec

\* The lock of a dead process does not shut the survivors out: as long as they
\* keep calling, it goes (or its pid is in use again).
StaleLockRecovered ==
  \A i \in Inodes :
    path = i /\ file[i].written /\ ~Alive(file[i].pid)
      ~> path # i \/ Alive(file[i].pid)
=============================================================================

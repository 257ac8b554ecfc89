---------------------------- MODULE WorkerProofs -----------------------------
(***************************************************************************)
(* What the worker's queue promises, and what its jobs make the vault take *)
(* for true: the claims about one slot, the graph of entities and the      *)
(* links of a topic's parts, for any number of jobs, workers, claims,      *)
(* sources, values, entities, merges and parts.                            *)
(*                                                                         *)
(* The queue: a lease is owned exactly while its job runs, by a worker     *)
(* that is processing that very job (LeaseDiscipline).                     *)
(*                                                                         *)
(* The claims: one is current at most, and the user's last word stands     *)
(* unless somebody overrules it.  The inductive invariant, LedgerInv,      *)
(* relates what the worker read of the slot to the rows as they are when   *)
(* it writes: they still say what was read, nothing was said since unless  *)
(* somebody corrected a claim, and a reading nobody interfered with is the *)
(* slot as it is (FreshIsNow).                                             *)
(*                                                                         *)
(* The graph: evidence that was deleted never comes back, although a merge *)
(* that is reversed writes again what it kept.                             *)
(*                                                                         *)
(* The links: they chain the parts of a topic in their order, although a   *)
(* repair changes the links beside one part at a time.  In the middle      *)
(* every link is right but those that wait for a part in the repair's list *)
(* (LinksFit), and a link waits only if its part is on that list or comes  *)
(* right before one that is, or was: this is what ChainInv says.           *)
(***************************************************************************)
EXTENDS JobQueue, ClaimLedger, EntityMerge, ShardChain, FiniteSetTheorems, WellFoundedInduction,
        TLAPS

-----------------------------------------------------------------------------
(* The queue                                                                 *)

(* A lease is owned exactly while the job runs, and a worker that is recorded *)
(* as an owner is processing that very job: this is what makes the properties *)
(* of JobQueue inductive.                                                     *)
LeaseDiscipline ==
  \A j \in Jobs :
    /\ job[j].owner # NoWorker <=> job[j].status = "running"
    /\ job[j].owner \in Workers =>
         /\ worker[job[j].owner].pc = "processing"
         /\ worker[job[j].owner].job = j

ProcessingHasJob ==
  \A w \in Workers : worker[w].pc = "processing" => worker[w].job \in Jobs

IInv ==
  /\ TypeOK
  /\ ProcessingHasJob
  /\ LeaseDiscipline
  /\ HolderIsLatestAttempt
  /\ NoLeaseInMaintenance

(* An abbreviation of what an action on a row does to the type of the rows.   *)
RowType ==
  [status : {"absent", "queued", "running", "complete", "failed", "cancelled"},
   attempts : 0..RaisedAttempts,
   max : {MaxAttempts, RaisedAttempts},
   owner : Workers \cup {NoWorker, Departed},
   created : 0..MaxEnqueues]

WorkerType == [pc : {"down", "idle", "leasing", "processing"},
               job : Jobs \cup {NoJob}, attempt : 0..RaisedAttempts]

LEMMA Initially == Init => IInv
  BY NoneAssumption, AttemptsAssumption, BoundsAssumption
  DEF Init, IInv, TypeOK, ProcessingHasJob, LeaseDiscipline, HolderIsLatestAttempt,
      NoLeaseInMaintenance, NoRow, Row, Resting, Holds, Running

LEMMA EnqueueKeeps == \A j \in Jobs : IInv /\ Enqueue(j) => IInv'
<1> SUFFICES ASSUME NEW j \in Jobs, IInv, Enqueue(j) PROVE IInv'
  OBVIOUS
<1> USE NoneAssumption, AttemptsAssumption, BoundsAssumption DEF IInv, Enqueue, NoRow, Row
<1>1. TypeOK' BY DEF TypeOK
<1>2. ProcessingHasJob' BY DEF ProcessingHasJob
<1>3. LeaseDiscipline' BY DEF LeaseDiscipline, TypeOK
<1>4. HolderIsLatestAttempt'
  BY DEF HolderIsLatestAttempt, ProcessingHasJob, Holds, Running, TypeOK
<1>5. NoLeaseInMaintenance' BY DEF NoLeaseInMaintenance, Running, TypeOK
<1> QED BY <1>1, <1>2, <1>3, <1>4, <1>5

LEMMA RowsOfJobsKeep ==
  \A j \in Jobs : IInv /\ (RaiseAttempts(j) \/ CancelQueued(j) \/ RetryJob(j)) => IInv'
<1> SUFFICES ASSUME NEW j \in Jobs, IInv,
                    RaiseAttempts(j) \/ CancelQueued(j) \/ RetryJob(j)
             PROVE  IInv'
  OBVIOUS
<1> USE NoneAssumption, AttemptsAssumption, BoundsAssumption
    DEF IInv, RaiseAttempts, CancelQueued, RetryJob, bounds
<1>1. TypeOK' BY DEF TypeOK
<1>2. ProcessingHasJob' BY DEF ProcessingHasJob
<1>3. LeaseDiscipline' BY DEF LeaseDiscipline, TypeOK
<1>4. HolderIsLatestAttempt'
  BY DEF HolderIsLatestAttempt, ProcessingHasJob, LeaseDiscipline, Holds, Running, TypeOK
<1>5. NoLeaseInMaintenance' BY DEF NoLeaseInMaintenance, Running, TypeOK
<1> QED BY <1>1, <1>2, <1>3, <1>4, <1>5

LEMMA WorkerMovesKeep ==
  \A w \in Workers :
    IInv /\ (Tick(w) \/ LeaseNothing(w) \/ LeaseConflict(w) \/ StartWorker(w)) => IInv'
<1> SUFFICES ASSUME NEW w \in Workers, IInv,
                    Tick(w) \/ LeaseNothing(w) \/ LeaseConflict(w) \/ StartWorker(w)
             PROVE  IInv'
  OBVIOUS
<1>0. /\ worker[w].pc # "processing" /\ worker'[w].pc # "processing"
      /\ worker' = [worker EXCEPT ![w] = worker'[w]]
      /\ worker'[w] \in WorkerType
      /\ UNCHANGED <<jobVars, maintenance, bounds>>
  BY NoneAssumption, AttemptsAssumption
  DEF IInv, TypeOK, Tick, LeaseNothing, LeaseConflict, StartWorker, Resting, WorkerType
<1> USE <1>0 DEF IInv, jobVars, bounds
<1>1. TypeOK' BY DEF TypeOK, WorkerType
<1>2. ProcessingHasJob' BY DEF ProcessingHasJob, TypeOK
<1>3. LeaseDiscipline' BY DEF LeaseDiscipline, TypeOK
<1>4. HolderIsLatestAttempt'
  BY DEF HolderIsLatestAttempt, ProcessingHasJob, Holds, Running, TypeOK
<1>5. NoLeaseInMaintenance' BY DEF NoLeaseInMaintenance, Running
<1> QED BY <1>1, <1>2, <1>3, <1>4, <1>5

LEMMA LeaseKeeps == \A w \in Workers : IInv /\ LeaseJob(w) => IInv'
<1> SUFFICES ASSUME NEW w \in Workers, IInv, LeaseJob(w) PROVE IInv'
  OBVIOUS
<1>0. PICK j \in Jobs :
        /\ NextJob(j)
        /\ job' = [job EXCEPT ![j].status = "running",
                              ![j].attempts = job[j].attempts + 1, ![j].owner = w]
        /\ attemptRows' = [attemptRows EXCEPT ![j] = @ \cup {job[j].attempts + 1}]
        /\ expired' = expired \ {j}
        /\ worker' = [worker EXCEPT ![w] = [pc |-> "processing", job |-> j,
                                            attempt |-> job[j].attempts + 1]]
  BY DEF LeaseJob
<1>a. /\ worker[w].pc = "leasing" /\ maintenance = "open"
      /\ UNCHANGED <<due, maintenance, bounds>>
  BY DEF LeaseJob, LeaseAdmitted, Locked
<1>b. job[j].attempts < job[j].max
  BY <1>0 DEF NextJob, Eligible
<1>c. \A k \in Jobs : job[k] \in RowType
  BY DEF IInv, TypeOK, RowType
<1>d. job[j].attempts + 1 \in 1..RaisedAttempts
  BY <1>b, <1>c, AttemptsAssumption DEF RowType
<1>e. \A k \in Jobs : job[k].owner # w
  BY <1>a DEF IInv, LeaseDiscipline
<1> USE NoneAssumption, <1>0, <1>a DEF IInv, bounds
<1>1. TypeOK'
  <2>1. job' \in [Jobs -> RowType]
    BY <1>c, <1>d DEF RowType, TypeOK
  <2>2. \A k \in Jobs : job'[k].attempts <= job'[k].max
    BY <1>b, <1>c, <1>d, AttemptsAssumption DEF TypeOK, RowType
  <2>3. worker' \in [Workers -> WorkerType]
    BY <1>d DEF WorkerType, TypeOK
  <2>4. attemptRows' \in [Jobs -> SUBSET (1..RaisedAttempts)]
    BY <1>d DEF TypeOK
  <2> QED BY <2>1, <2>2, <2>3, <2>4 DEF TypeOK, RowType, WorkerType
<1>2. ProcessingHasJob' BY DEF ProcessingHasJob, TypeOK
<1>3. LeaseDiscipline'
  BY <1>c DEF LeaseDiscipline, TypeOK, RowType
<1>4. HolderIsLatestAttempt'
  BY <1>c, <1>e DEF HolderIsLatestAttempt, ProcessingHasJob, Holds, Running, TypeOK, RowType
<1>5. NoLeaseInMaintenance' BY DEF NoLeaseInMaintenance
<1> QED BY <1>1, <1>2, <1>3, <1>4, <1>5

LEMMA EndOfJobKeeps ==
  \A w \in Workers : IInv /\ (CompleteJob(w) \/ FailJob(w)) => IInv'
<1> SUFFICES ASSUME NEW w \in Workers, IInv, CompleteJob(w) \/ FailJob(w) PROVE IInv'
  OBVIOUS
<1> DEFINE k == worker[w].job
<1>0. /\ worker[w].pc = "processing" /\ k \in Jobs
      /\ worker' = [worker EXCEPT ![w] = Resting("idle")]
      /\ UNCHANGED <<attemptRows, expired, maintenance, bounds>>
  BY DEF CompleteJob, FailJob, IInv, ProcessingHasJob
<1>a. \/ job[k].owner # w /\ job' = job
      \/ /\ job[k].owner = w
         /\ \E s \in {"complete", "failed", "queued"} :
              job' = [job EXCEPT ![k].status = s, ![k].owner = NoWorker]
  BY <1>0 DEF CompleteJob, FailJob, Holds, Completed, FailedRow, IInv, TypeOK
<1>b. due' \subseteq Jobs
  BY <1>0 DEF CompleteJob, FailJob, IInv, TypeOK
<1>c. \A i \in Jobs : i # k => job'[i] = job[i] /\ job[i].owner # w
  BY <1>0, <1>a, NoneAssumption DEF IInv, LeaseDiscipline, TypeOK
<1>d. \A i \in Jobs : job[i] \in RowType
  BY DEF IInv, TypeOK, RowType
<1> HIDE DEF k
<1> USE NoneAssumption, <1>0 DEF IInv, bounds
<1>1. TypeOK'
  <2>1. job' \in [Jobs -> RowType]
    BY <1>a, <1>d DEF RowType, TypeOK
  <2>2. \A i \in Jobs : job'[i].attempts <= job'[i].max
    BY <1>a, <1>d DEF TypeOK, RowType
  <2>3. worker' \in [Workers -> WorkerType]
    BY AttemptsAssumption DEF WorkerType, TypeOK, Resting
  <2> QED BY <1>b, <2>1, <2>2, <2>3 DEF TypeOK, RowType, WorkerType
<1>2. ProcessingHasJob' BY DEF ProcessingHasJob, TypeOK, Resting
<1>3. LeaseDiscipline'
  <2> SUFFICES ASSUME NEW i \in Jobs
               PROVE  /\ job'[i].owner # NoWorker <=> job'[i].status = "running"
                      /\ job'[i].owner \in Workers =>
                           /\ worker'[job'[i].owner].pc = "processing"
                           /\ worker'[job'[i].owner].job = i
    BY DEF LeaseDiscipline
  <2>1. CASE i = k
    BY <2>1, <1>a, <1>d DEF LeaseDiscipline, TypeOK, RowType, k
  <2>2. CASE i # k
    BY <2>2, <1>c DEF LeaseDiscipline, TypeOK
  <2> QED BY <2>1, <2>2
<1>4. HolderIsLatestAttempt'
  <2> SUFFICES ASSUME NEW v \in Workers, Holds(v)'
               PROVE  (/\ worker[v].job \in Running
                       /\ job[worker[v].job].attempts = worker[v].attempt
                       /\ worker[v].attempt \in attemptRows[worker[v].job])'
    BY DEF HolderIsLatestAttempt
  <2>1. v # w /\ worker'[v] = worker[v]
    BY DEF Holds, TypeOK, Resting
  <2>2. worker[v].pc = "processing" /\ worker[v].job \in Jobs
    BY <2>1 DEF Holds, ProcessingHasJob
  <2>3. Holds(v) /\ job'[worker[v].job] = job[worker[v].job]
    BY <2>1, <2>2, <1>a, <1>d DEF Holds, TypeOK, RowType
  <2> QED BY <2>1, <2>2, <2>3 DEF HolderIsLatestAttempt, Running
<1>5. NoLeaseInMaintenance' BY <1>a, <1>d DEF NoLeaseInMaintenance, Running, RowType, TypeOK
<1> QED BY <1>1, <1>2, <1>3, <1>4, <1>5

LEMMA CrashKeeps == \A w \in Workers : IInv /\ CrashWorker(w) => IInv'
<1> SUFFICES ASSUME NEW w \in Workers, IInv, CrashWorker(w) PROVE IInv'
  OBVIOUS
<1> USE NoneAssumption, AttemptsAssumption, BoundsAssumption
    DEF IInv, CrashWorker, Resting
<1>0. \A i \in Jobs :
        /\ job'[i].owner = IF job[i].owner = w THEN Departed ELSE job[i].owner
        /\ job'[i].status = job[i].status
        /\ job'[i].attempts = job[i].attempts
        /\ job'[i].max = job[i].max
  BY DEF TypeOK
<1>1. TypeOK' BY <1>0 DEF TypeOK
<1>2. ProcessingHasJob' BY DEF ProcessingHasJob, TypeOK
<1>3. LeaseDiscipline' BY <1>0 DEF LeaseDiscipline, TypeOK
<1>4. HolderIsLatestAttempt'
  BY <1>0 DEF HolderIsLatestAttempt, ProcessingHasJob, Holds, Running, TypeOK
<1>5. NoLeaseInMaintenance' BY <1>0 DEF NoLeaseInMaintenance, Running
<1> QED BY <1>1, <1>2, <1>3, <1>4, <1>5

LEMMA TimeKeeps ==
  /\ \A w \in Workers : IInv /\ Heartbeat(w) => IInv'
  /\ \A j \in Jobs : IInv /\ (BackoffEnds(j) \/ LeaseExpires(j)) => IInv'
<1> SUFFICES ASSUME IInv,
                    /\ due' \subseteq Jobs /\ expired' \subseteq Jobs
                    /\ UNCHANGED <<job, attemptRows, worker, maintenance, bounds>>
             PROVE  IInv'
  BY DEF IInv, TypeOK, Heartbeat, BackoffEnds, LeaseExpires
<1> QED BY DEF IInv, TypeOK, ProcessingHasJob, LeaseDiscipline, HolderIsLatestAttempt,
               NoLeaseInMaintenance, Holds, Running, bounds

LEMMA MaintenanceKeeps ==
  IInv /\ (BeginMaintenance \/ EnterMaintenance \/ StartApi \/ Unlock) => IInv'
<1> SUFFICES ASSUME IInv, BeginMaintenance \/ EnterMaintenance \/ StartApi \/ Unlock
             PROVE  IInv'
  OBVIOUS
<1>0. UNCHANGED <<jobVars, worker, enqueues, retries, crashes>>
  BY DEF BeginMaintenance, EnterMaintenance, StartApi, Unlock, GiveUpMaintenance,
         EndMaintenance, FinishStartup, MoveMaintenance
<1>1. TypeOK'
  BY <1>0, BoundsAssumption
  DEF IInv, TypeOK, jobVars, BeginMaintenance, EnterMaintenance, StartApi, Unlock,
      GiveUpMaintenance, EndMaintenance, FinishStartup, MoveMaintenance
<1>2. /\ ProcessingHasJob' /\ LeaseDiscipline' /\ HolderIsLatestAttempt'
  BY <1>0 DEF IInv, ProcessingHasJob, LeaseDiscipline, HolderIsLatestAttempt, Holds,
              Running, jobVars
<1>3. NoLeaseInMaintenance'
  BY <1>0 DEF IInv, NoLeaseInMaintenance, Running, jobVars, BeginMaintenance,
      EnterMaintenance, Drained, StartApi, Unlock, GiveUpMaintenance, EndMaintenance,
      FinishStartup, MoveMaintenance
<1> QED BY <1>1, <1>2, <1>3 DEF IInv

LEMMA PurgeKeeps == \A j \in Jobs : IInv /\ PurgeJob(j) => IInv'
<1> SUFFICES ASSUME NEW j \in Jobs, IInv, PurgeJob(j) PROVE IInv'
  OBVIOUS
<1> USE NoneAssumption, AttemptsAssumption, BoundsAssumption
    DEF IInv, PurgeJob, NoRow, Row, bounds
<1>1. TypeOK' BY DEF TypeOK
<1>2. ProcessingHasJob' BY DEF ProcessingHasJob
<1>3. LeaseDiscipline' BY DEF LeaseDiscipline, TypeOK
<1>4. HolderIsLatestAttempt'
  BY DEF HolderIsLatestAttempt, ProcessingHasJob, Holds, Running, TypeOK
<1>5. NoLeaseInMaintenance' BY DEF NoLeaseInMaintenance, Running, TypeOK
<1> QED BY <1>1, <1>2, <1>3, <1>4, <1>5

LEMMA StutterKeeps == IInv /\ UNCHANGED vars => IInv'
  BY DEF IInv, TypeOK, ProcessingHasJob, LeaseDiscipline, HolderIsLatestAttempt,
         NoLeaseInMaintenance, Holds, Running, vars, jobVars, bounds

LEMMA StepKeeps == IInv /\ [Next]_vars => IInv'
  BY EnqueueKeeps, RowsOfJobsKeep, WorkerMovesKeep, LeaseKeeps, EndOfJobKeeps, CrashKeeps,
     TimeKeeps, MaintenanceKeeps, PurgeKeeps, StutterKeeps
  DEF Next, WorkerStep

LEMMA Invariance == Spec => []IInv
  BY Initially, StepKeeps, PTL DEF Spec

-----------------------------------------------------------------------------
(* Types: rows, workers and counters stay in their sets, and no job is        *)
(* attempted more often than its maximum_attempts (leaseJob's WHERE clause).  *)
THEOREM TypeCorrect == Spec => []TypeOK
<1>1. IInv => TypeOK BY DEF IInv
<1> QED BY <1>1, Invariance, PTL

(* A worker that still holds its job is the latest attempt at it, so that     *)
(* completeJob and failJob close the attempt they belong to.                  *)
THEOREM HolderIsCurrent == Spec => []HolderIsLatestAttempt
<1>1. IInv => HolderIsLatestAttempt BY DEF IInv
<1> QED BY <1>1, Invariance, PTL

(* leaseJob reads the maintenance lock in the transaction that takes the job, *)
(* so that no job runs once maintenance has seen none running.                *)
THEOREM NoneLeasedInMaintenance == Spec => []NoLeaseInMaintenance
<1>1. IInv => NoLeaseInMaintenance BY DEF IInv
<1> QED BY <1>1, Invariance, PTL

LEMMA TerminalStep ==
  IInv /\ [Next]_vars =>
    \A j \in Jobs : job[j].status \in {"complete", "cancelled"} =>
      job'[j].status \in {job[j].status, "absent"}
<1> SUFFICES ASSUME IInv, [Next]_vars, NEW j \in Jobs,
                    job[j].status \in {"complete", "cancelled"}
             PROVE  job'[j].status \in {job[j].status, "absent"}
  OBVIOUS
<1>a. job \in [Jobs -> RowType] /\ job[j].status # "running" /\ job[j].owner = NoWorker
  BY DEF IInv, TypeOK, LeaseDiscipline, RowType
<1>1. ASSUME NEW k \in Jobs, Enqueue(k) \/ RaiseAttempts(k) \/ CancelQueued(k) \/ RetryJob(k)
             \/ PurgeJob(k) \/ BackoffEnds(k) \/ LeaseExpires(k)
      PROVE  job'[j].status \in {job[j].status, "absent"}
  BY <1>1, <1>a DEF RowType, NoRow, Row, Enqueue, RaiseAttempts, CancelQueued, RetryJob, PurgeJob,
                    BackoffEnds, LeaseExpires
<1>2. ASSUME NEW w \in Workers, LeaseJob(w)
      PROVE  job'[j].status = job[j].status
  BY <1>2, <1>a DEF LeaseJob, NextJob, Eligible, Running, RowType
<1>3. ASSUME NEW w \in Workers, CompleteJob(w) \/ FailJob(w)
      PROVE  job'[j].status = job[j].status
  <2>1. Holds(w) => worker[w].job # j
    BY <1>a, NoneAssumption DEF Holds
  <2> QED BY <1>3, <2>1, <1>a DEF CompleteJob, FailJob, RowType
<1>4. ASSUME NEW w \in Workers, CrashWorker(w)
      PROVE  job'[j].status = job[j].status
  BY <1>4, <1>a, NoneAssumption DEF CrashWorker, RowType
<1>5. ASSUME NEW w \in Workers, Tick(w) \/ LeaseNothing(w) \/ LeaseConflict(w) \/ StartWorker(w)
             \/ Heartbeat(w)
      PROVE  job' = job
  BY <1>5 DEF Tick, LeaseNothing, LeaseConflict, StartWorker, Heartbeat, jobVars
<1>6. ASSUME BeginMaintenance \/ EnterMaintenance \/ StartApi \/ Unlock
      PROVE  job' = job
  BY <1>6 DEF BeginMaintenance, EnterMaintenance, StartApi, Unlock, GiveUpMaintenance,
              EndMaintenance, FinishStartup, MoveMaintenance, jobVars
<1>7. ASSUME UNCHANGED vars PROVE job' = job
  BY <1>7 DEF vars, jobVars
<1> QED BY <1>1, <1>2, <1>3, <1>4, <1>5, <1>6, <1>7 DEF Next, WorkerStep

(* A job that completed or was cancelled stays so until it is deleted: a      *)
(* worker whose lease was taken over can neither requeue nor redo it.         *)
THEOREM CompletionIsFinal == Spec => TerminalIsFinal
  BY Invariance, TerminalStep, PTL DEF Spec, TerminalIsFinal

-----------------------------------------------------------------------------
(* With one worker nobody can take a lease over while it processes.           *)
OneWorker == \E u : Workers = {u}

NeverTakenOver == \A w \in Workers : worker[w].pc = "processing" => Holds(w)

LEMMA StepKeepsLease ==
  OneWorker /\ IInv /\ NeverTakenOver /\ [Next]_vars => NeverTakenOver'
<1> SUFFICES ASSUME OneWorker, IInv, NeverTakenOver, [Next]_vars,
                    NEW v \in Workers, worker'[v].pc = "processing"
             PROVE  job'[worker'[v].job].owner = v
  BY DEF NeverTakenOver, Holds
<1>a. /\ job \in [Jobs -> RowType] /\ worker \in [Workers -> WorkerType]
      /\ \A w \in Workers : w = v
  BY DEF IInv, TypeOK, OneWorker, RowType, WorkerType
<1>b. worker[v].pc = "processing" =>
        worker[v].job \in Running /\ job[worker[v].job].owner = v
  BY DEF IInv, NeverTakenOver, HolderIsLatestAttempt, Holds
<1> USE <1>a, <1>b
<1>1. ASSUME NEW j \in Jobs, Enqueue(j) \/ RaiseAttempts(j) \/ CancelQueued(j) \/ RetryJob(j)
             \/ BackoffEnds(j) \/ LeaseExpires(j)
      PROVE  job'[worker'[v].job].owner = v
  BY <1>1 DEF RowType, Running, Enqueue, RaiseAttempts, CancelQueued, RetryJob, BackoffEnds,
              LeaseExpires
<1>2. ASSUME NEW j \in Jobs, PurgeJob(j)
      PROVE  job'[worker'[v].job].owner = v
  BY <1>2 DEF PurgeJob, IInv, NoLeaseInMaintenance
<1>3. ASSUME NEW w \in Workers, LeaseJob(w)
      PROVE  job'[worker'[v].job].owner = v
  <2>1. w = v
    OBVIOUS
  <2> QED BY <1>3, <2>1 DEF LeaseJob, RowType
<1>4. ASSUME NEW w \in Workers, CompleteJob(w) \/ FailJob(w) \/ CrashWorker(w) \/ Tick(w)
             \/ LeaseNothing(w) \/ LeaseConflict(w) \/ StartWorker(w)
      PROVE  FALSE
  <2>1. w = v
    OBVIOUS
  <2>2. CASE Tick(v)
    BY <2>2 DEF Tick, WorkerType
  <2>3. CASE ~Tick(v)
    <3>1. \E pc \in {"idle", "down"} : worker' = [worker EXCEPT ![v] = Resting(pc)]
      BY <1>4, <2>1, <2>3 DEF CompleteJob, FailJob, CrashWorker, LeaseNothing, LeaseConflict,
                              StartWorker
    <3> QED BY <3>1 DEF Resting
  <2> QED BY <2>2, <2>3
<1>5. ASSUME \/ \E w \in Workers : Heartbeat(w)
             \/ BeginMaintenance \/ EnterMaintenance \/ StartApi \/ Unlock
             \/ UNCHANGED vars
      PROVE  job'[worker'[v].job].owner = v
  <2>1. job' = job /\ worker' = worker
    BY <1>5 DEF Heartbeat, BeginMaintenance, EnterMaintenance, StartApi, Unlock,
                GiveUpMaintenance, EndMaintenance, FinishStartup, MoveMaintenance, jobVars, vars
  <2> QED BY <2>1
<1> QED BY <1>1, <1>2, <1>3, <1>4, <1>5 DEF Next, WorkerStep

(* scripts/start.ts launches one worker.  Then nothing is being processed     *)
(* while maintenance replaces, exports or deletes the vault's content.        *)
THEOREM QuietMaintenance == OneWorker => (Spec => []MaintenanceIsQuiet)
<1>1. Init => NeverTakenOver
  BY DEF Init, NeverTakenOver, Resting
<1>2. IInv /\ NeverTakenOver => MaintenanceIsQuiet
  BY DEF IInv, NeverTakenOver, HolderIsLatestAttempt, NoLeaseInMaintenance, MaintenanceIsQuiet
<1>3. OneWorker => (Spec => []NeverTakenOver)
  <2> SUFFICES ASSUME OneWorker PROVE Spec => []NeverTakenOver
    OBVIOUS
  <2>1. IInv /\ IInv' /\ NeverTakenOver /\ [Next]_vars => NeverTakenOver'
    BY StepKeepsLease
  <2> QED BY <1>1, <2>1, Invariance, PTL DEF Spec
<1> QED BY <1>2, <1>3, Invariance, PTL

-----------------------------------------------------------------------------
(* One slot                                                                  *)

Claim == [value : Sayings, by : Sources, correction : BOOLEAN,
          arrived : {"current", "historical", "stale"},
          status : {"current", "conflicted", "superseded", "historical", "expired"},
          said : Nat, at : Nat]

LedgerTyped ==
  /\ ledger \in Seq(Claim) /\ spoken \in Nat /\ shown \in Answers2
  /\ mixed \in BOOLEAN /\ overruled \in BOOLEAN
  /\ \A i \in Rows : ledger[i].said <= spoken

\* What is being persisted was compared with rows that have kept what they say.
ReadingTyped ==
  reading # NoReading =>
    /\ reading = [f \in {"claim", "slot", "fresh"} |-> reading[f]]
    /\ reading.claim \in Claim /\ reading.fresh \in BOOLEAN /\ reading.claim.said <= spoken
    /\ reading.claim.arrived = "stale" => reading.claim.by = "tool"
    /\ DOMAIN reading.slot \subseteq Rows
    /\ \A i \in DOMAIN reading.slot :
         /\ reading.slot[i] \in Claim /\ reading.slot[i].value = ledger[i].value
         /\ reading.slot[i].by = ledger[i].by
         /\ reading.slot[i].said = ledger[i].said
         /\ reading.slot[i].arrived = ledger[i].arrived
         /\ Open(reading.slot[i])

\* Nothing has interfered.
FreshIsNow ==
  reading # NoReading /\ reading.fresh => reading.slot = [i \in Relevant |-> ledger[i]]

CurrentAreEqual ==
  ~mixed => \A i, j \in Relevant :
              ledger[i].status = "current" /\ ledger[j].status = "current" => i = j

\* A claim that is being persisted is the last thing that was said, and what it was compared
\* with stands or went out of date; or somebody has corrected a claim since and has the last word.
SaidLast ==
  reading # NoReading =>
    \/ /\ reading.claim.said = spoken
       /\ \A i \in DOMAIN reading.slot : Open(ledger[i]) \/ ledger[i].status = "expired"
    \/ /\ Len(ledger) \in Rows \ DOMAIN reading.slot
       /\ ledger[Len(ledger)].by = "user" /\ ledger[Len(ledger)].arrived = "current"
       /\ ledger[Len(ledger)].said = spoken /\ Open(ledger[Len(ledger)])

LedgerInv ==
  LedgerTyped /\ ReadingTyped /\ FreshIsNow /\ CurrentAreEqual /\ SaidLast /\ LastWordStands


\* What Append makes of a sequence whose elements were changed.
LEMMA AppendedIs ==
  ASSUME NEW S, NEW s \in Seq(S), NEW e \in S, NEW t,
         t = [i \in DOMAIN s |-> t[i]], \A i \in DOMAIN s : t[i] \in S
  PROVE  /\ Append(t, e) \in Seq(S)
         /\ Len(Append(t, e)) = Len(s) + 1
         /\ Append(t, e)[Len(s) + 1] = e
         /\ \A i \in DOMAIN s : Append(t, e)[i] = t[i]
         /\ DOMAIN Append(t, e) = DOMAIN s \cup {Len(s) + 1}
         /\ DOMAIN s = 1..Len(s) /\ Len(s) \in Nat
<1>1. DOMAIN s = 1..Len(s) /\ Len(s) \in Nat
  OBVIOUS
<1>2. t \in Seq(S) /\ Len(t) = Len(s)
  BY <1>1
<1> QED BY <1>1, <1>2

\* reconcileClaim stores the claim, and what it was compared with stays, gives way as a whole,
\* or is in conflict as a whole.
LEMMA ReconciledIs ==
  ASSUME NEW c \in Claim, NEW slot, \A i \in DOMAIN slot : slot[i] \in Claim
  PROVE  LET r == Reconciled(c, slot)
         IN /\ r.new \in Claim
            /\ r.new.value = c.value /\ r.new.by = c.by /\ r.new.said = c.said
            /\ r.new.arrived = c.arrived
            /\ \/ /\ r.new.status = "historical"
                  /\ c.arrived = "historical" \/ SameValue(c, slot)
                  /\ \A i \in DOMAIN slot : r.old[i] = slot[i]
               \/ /\ DOMAIN slot = {} /\ c.arrived # "historical"
                  /\ r.new.status = IF c.arrived = "stale" THEN "expired" ELSE "current"
               \/ /\ r.new.status = "current" /\ c.arrived # "historical"
                  /\ \A i \in DOMAIN slot :
                       r.old[i] = [slot[i] EXCEPT !.status = "superseded"]
               \/ /\ r.new.status = "conflicted" /\ c.arrived # "historical"
                  /\ \/ \A i \in DOMAIN slot : r.old[i] = slot[i]
                     \/ \A i \in DOMAIN slot :
                          r.old[i] = [slot[i] EXCEPT !.status = "conflicted"]
<1>1. \A status \in {"current", "conflicted", "historical", "expired"} :
        LET n == Stored(c, status)
        IN n \in Claim /\ n.value = c.value /\ n.by = c.by /\ n.said = c.said
             /\ n.arrived = c.arrived /\ n.status = status
  BY DEF Stored, Claim
<1>2. CASE c.arrived = "historical" \/ SameValue(c, slot)
  BY <1>1, <1>2 DEF Reconciled
<1>3. CASE ~(c.arrived = "historical" \/ SameValue(c, slot)) /\ DOMAIN slot = {}
  BY <1>1, <1>3 DEF Reconciled
<1>4. CASE ~(c.arrived = "historical" \/ SameValue(c, slot)) /\ DOMAIN slot # {}
             /\ Dominates(c, slot)
  BY <1>1, <1>4 DEF Reconciled, Superseded
<1>5. CASE ~(c.arrived = "historical" \/ SameValue(c, slot)) /\ DOMAIN slot # {}
             /\ ~Dominates(c, slot)
  BY <1>1, <1>5 DEF Reconciled
<1> QED BY <1>2, <1>3, <1>4, <1>5

Says(c, d) == c.value = d.value /\ c.by = d.by /\ c.said = d.said /\ c.arrived = d.arrived

\* What Persist does to the rows, whatever happened since the slot was read.
LEMMA PersistIs ==
  ASSUME LedgerTyped, ReadingTyped, Persist
  PROVE  LET n == Len(ledger) + 1
             c == reading.claim
             slot == reading.slot
         IN /\ ledger' \in Seq(Claim) /\ Rows' = Rows \cup {n} /\ n \notin Rows
            /\ \A i \in Rows : Says(ledger'[i], ledger[i])
            /\ Says(ledger'[n], c)
            /\ \A i \in Rows \ DOMAIN slot : ledger'[i] = ledger[i]
            /\ \/ /\ ledger'[n].status = "historical"
                  /\ c.arrived = "historical" \/ SameValue(c, slot)
                  /\ \A i \in Rows : ledger'[i] = ledger[i]
               \/ /\ DOMAIN slot = {} /\ c.arrived # "historical"
                  /\ ledger'[n].status = IF c.arrived = "stale" THEN "expired" ELSE "current"
               \/ /\ ledger'[n].status = "current" /\ c.arrived # "historical"
                  /\ \A i \in DOMAIN slot : ledger'[i].status = "superseded"
               \/ /\ ledger'[n].status = "conflicted" /\ c.arrived # "historical"
                  /\ \A i \in DOMAIN slot :
                       ledger'[i] = ledger[i] \/ ledger'[i].status = "conflicted"
            /\ overruled' \in BOOLEAN
            /\ ~overruled' =>
                 /\ ~overruled
                 /\ c.by # "user" => \A i \in DOMAIN slot : slot[i].value \in UserValues =>
                      ledger'[i] = ledger[i] \/ ledger'[i].status # "superseded"
            /\ mixed' = (mixed \/ ~reading.fresh) /\ reading' = NoReading
            /\ UNCHANGED <<spoken, shown, switches>>
<1> DEFINE n == Len(ledger) + 1
           c == reading.claim
           slot == reading.slot
           r == Reconciled(c, slot)
           changed == {i \in DOMAIN slot : r.old[i] # slot[i]}
           t == [i \in Rows |-> IF i \in changed THEN r.old[i] ELSE ledger[i]]
<1>1. /\ reading # NoReading /\ c \in Claim /\ DOMAIN slot \subseteq Rows /\ ledger \in Seq(Claim)
      /\ \A i \in DOMAIN slot : slot[i] \in Claim /\ Says(slot[i], ledger[i]) /\ Open(slot[i])
  BY DEF Persist, LedgerTyped, ReadingTyped, Says
<1>2. /\ ledger' = Append(t, r.new)
      /\ overruled' = (overruled \/ (/\ c.by # "user"
                                     /\ \E i \in changed : slot[i].value \in UserValues
                                                           /\ r.old[i].status = "superseded"))
      /\ mixed' = (mixed \/ ~reading.fresh) /\ reading' = NoReading
      /\ UNCHANGED <<spoken, shown, switches>>
  BY DEF Persist
<1>3. /\ r.new \in Claim
      /\ Says(r.new, c)
      /\ \/ /\ r.new.status = "historical"
            /\ c.arrived = "historical" \/ SameValue(c, slot)
            /\ \A i \in DOMAIN slot : r.old[i] = slot[i]
         \/ /\ DOMAIN slot = {} /\ c.arrived # "historical"
            /\ r.new.status = IF c.arrived = "stale" THEN "expired" ELSE "current"
         \/ /\ r.new.status = "current" /\ c.arrived # "historical"
            /\ \A i \in DOMAIN slot : r.old[i] = [slot[i] EXCEPT !.status = "superseded"]
         \/ /\ r.new.status = "conflicted" /\ c.arrived # "historical"
            /\ \/ \A i \in DOMAIN slot : r.old[i] = slot[i]
               \/ \A i \in DOMAIN slot : r.old[i] = [slot[i] EXCEPT !.status = "conflicted"]
  BY <1>1, ReconciledIs DEF Says
<1> HIDE DEF r
<1>4. \A i \in DOMAIN slot : /\ r.old[i] \in Claim /\ Says(r.old[i], slot[i])
                             /\ r.old[i] = slot[i] \/ r.old[i].status \in {"superseded", "conflicted"}
  <2>1. \A i \in DOMAIN slot :
          \/ r.old[i] = slot[i]
          \/ r.old[i] = [slot[i] EXCEPT !.status = "superseded"]
          \/ r.old[i] = [slot[i] EXCEPT !.status = "conflicted"]
    BY <1>3
  <2>2. \A d \in Claim, s \in {"superseded", "conflicted"} :
          /\ [d EXCEPT !.status = s] \in Claim /\ Says([d EXCEPT !.status = s], d)
          /\ [d EXCEPT !.status = s].status = s
    BY DEF Claim, Says
  <2>3. \A d : Says(d, d)
    BY DEF Says
  <2>4. \A i \in DOMAIN slot :
          /\ [slot[i] EXCEPT !.status = "superseded"] \in Claim
          /\ Says([slot[i] EXCEPT !.status = "superseded"], slot[i])
          /\ [slot[i] EXCEPT !.status = "superseded"].status = "superseded"
    BY <1>1, <2>2
  <2>5. \A i \in DOMAIN slot :
          /\ [slot[i] EXCEPT !.status = "conflicted"] \in Claim
          /\ Says([slot[i] EXCEPT !.status = "conflicted"], slot[i])
          /\ [slot[i] EXCEPT !.status = "conflicted"].status = "conflicted"
    BY <1>1, <2>2
  <2> QED BY <1>1, <2>1, <2>3, <2>4, <2>5
<1>5. /\ \A i \in Rows : t[i] \in Claim /\ Says(t[i], ledger[i])
      /\ \A i \in Rows : i \notin changed => t[i] = ledger[i]
      /\ \A i \in changed : t[i] = r.old[i]
      /\ DOMAIN t = Rows
  BY <1>1, <1>4 DEF Says, Rows
<1>6. t = [i \in DOMAIN ledger |-> t[i]]
  BY DEF Rows
<1> HIDE DEF t
<1>7. /\ Append(t, r.new) \in Seq(Claim)
      /\ Append(t, r.new)[n] = r.new
      /\ \A i \in Rows : Append(t, r.new)[i] = t[i]
      /\ DOMAIN Append(t, r.new) = Rows \cup {n}
      /\ n \notin Rows
  BY <1>1, <1>3, <1>5, <1>6, AppendedIs DEF Rows
<1>8. /\ ledger' \in Seq(Claim) /\ Rows' = Rows \cup {n} /\ n \notin Rows /\ ledger'[n] = r.new
      /\ \A i \in Rows : ledger'[i] = t[i]
  BY <1>2, <1>7 DEF Rows
<1>9. \A i \in Rows : Says(ledger'[i], ledger[i])
  BY <1>5, <1>8
<1>10. \A i \in Rows \ DOMAIN slot : ledger'[i] = ledger[i]
  BY <1>5, <1>8
<1>11. \A i \in DOMAIN slot : (r.old[i] = slot[i] /\ ledger'[i] = ledger[i])
                             \/ (i \in changed /\ ledger'[i] = r.old[i])
  BY <1>1, <1>5, <1>8
<1>12. \/ /\ ledger'[n].status = "historical"
          /\ c.arrived = "historical" \/ SameValue(c, slot)
          /\ \A i \in Rows : ledger'[i] = ledger[i]
       \/ /\ DOMAIN slot = {} /\ c.arrived # "historical"
          /\ ledger'[n].status = IF c.arrived = "stale" THEN "expired" ELSE "current"
       \/ /\ ledger'[n].status = "current" /\ c.arrived # "historical"
          /\ \A i \in DOMAIN slot : ledger'[i].status = "superseded"
       \/ /\ ledger'[n].status = "conflicted" /\ c.arrived # "historical"
          /\ \A i \in DOMAIN slot : ledger'[i] = ledger[i] \/ ledger'[i].status = "conflicted"
  <2>1. \A i \in DOMAIN slot : r.old[i] = [slot[i] EXCEPT !.status = "superseded"]
                                 => ledger'[i].status = "superseded"
    BY <1>1, <1>11 DEF Claim, Open
  <2>2. \A i \in DOMAIN slot : r.old[i] = [slot[i] EXCEPT !.status = "conflicted"]
                                 => ledger'[i] = ledger[i] \/ ledger'[i].status = "conflicted"
    BY <1>1, <1>11 DEF Claim
  <2>3. \A i \in DOMAIN slot : r.old[i] = slot[i] => ledger'[i] = ledger[i]
    BY <1>11
  <2> QED BY <1>3, <1>8, <1>10, <2>1, <2>2, <2>3
<1>13. ~overruled' =>
         /\ ~overruled
         /\ c.by # "user" => \A i \in DOMAIN slot : slot[i].value \in UserValues =>
              ledger'[i] = ledger[i] \/ ledger'[i].status # "superseded"
  BY <1>2, <1>11
<1>14. overruled' \in BOOLEAN
  BY <1>2 DEF LedgerTyped
<1> HIDE DEF changed
<1> QED BY <1>2, <1>3, <1>8, <1>9, <1>10, <1>12, <1>13, <1>14

\* Nobody but the worker writes what is being persisted: rows were added at the end, none
\* changed what it says.
LEMMA InterferedIs ==
  ASSUME LedgerTyped, ReadingTyped, Interferes, ledger' \in Seq(Claim), spoken' \in Nat,
         spoken <= spoken', Rows \subseteq Rows', \A i \in Rows : Says(ledger'[i], ledger[i])
  PROVE  /\ ReadingTyped'
         /\ FreshIsNow'
         /\ reading' # NoReading => /\ reading # NoReading
                                   /\ reading'.slot = reading.slot /\ reading'.claim = reading.claim
<1>1. CASE reading = NoReading
  BY <1>1 DEF Interferes, ReadingTyped, FreshIsNow
<1>2. CASE reading # NoReading
  <2>1. /\ reading = [f \in {"claim", "slot", "fresh"} |-> reading[f]]
        /\ reading' = [reading EXCEPT !.fresh = FALSE]
    BY <1>2 DEF Interferes, ReadingTyped
  <2>2. /\ reading' = [f \in {"claim", "slot", "fresh"} |-> reading'[f]]
        /\ reading'.claim = reading.claim /\ reading'.slot = reading.slot /\ reading'.fresh = FALSE
    BY <2>1
  <2>3. ReadingTyped'
    <3>1. reading'.claim \in Claim /\ reading'.fresh \in BOOLEAN /\ reading'.claim.said <= spoken'
          /\ (reading'.claim.arrived = "stale" => reading'.claim.by = "tool")
      <4>1. /\ reading.claim \in Claim /\ reading.claim.said <= spoken
            /\ (reading.claim.arrived = "stale" => reading.claim.by = "tool")
        BY <1>2 DEF ReadingTyped
      <4>2. reading.claim.said \in Nat
        BY <4>1 DEF Claim
      <4>3. spoken \in Nat
        BY DEF LedgerTyped
      <4>4. reading'.claim.said <= spoken'
        BY <2>2, <4>1, <4>2, <4>3
      <4>5. reading'.fresh \in BOOLEAN
        BY <2>2
      <4> QED BY <2>2, <4>1, <4>4, <4>5
    <3>2. \A i \in DOMAIN reading'.slot :
            /\ i \in Rows' /\ reading'.slot[i] \in Claim
            /\ reading'.slot[i].value = ledger'[i].value
            /\ reading'.slot[i].by = ledger'[i].by
            /\ reading'.slot[i].said = ledger'[i].said
            /\ reading'.slot[i].arrived = ledger'[i].arrived
            /\ Open(reading'.slot[i])
      BY <1>2, <2>2 DEF ReadingTyped, Says
    <3> QED BY <2>2, <3>1, <3>2 DEF ReadingTyped
  <2>4. FreshIsNow'
    BY <2>2 DEF FreshIsNow
  <2> QED BY <1>2, <2>2, <2>3, <2>4
<1> QED BY <1>1, <1>2

LEMMA PersistKeeps ==
  ASSUME LedgerInv, Persist
  PROVE  LedgerInv'
<1> DEFINE n == Len(ledger) + 1
           c == reading.claim
           slot == reading.slot
<1>1. LedgerTyped /\ ReadingTyped /\ FreshIsNow /\ CurrentAreEqual /\ SaidLast /\ LastWordStands
  BY DEF LedgerInv
<1>2. reading # NoReading /\ c \in Claim /\ DOMAIN slot \subseteq Rows /\ c.said <= spoken
      /\ (c.arrived = "stale" => c.by = "tool") /\ ledger \in Seq(Claim)
      /\ \A i \in DOMAIN slot : slot[i] \in Claim /\ Says(slot[i], ledger[i]) /\ Open(slot[i])
  BY <1>1 DEF Persist, ReadingTyped, LedgerTyped, Says
<1>3. /\ ledger' \in Seq(Claim) /\ Rows' = Rows \cup {n} /\ n \notin Rows
      /\ \A i \in Rows : Says(ledger'[i], ledger[i])
      /\ Says(ledger'[n], c)
      /\ \A i \in Rows \ DOMAIN slot : ledger'[i] = ledger[i]
      /\ overruled' \in BOOLEAN
      /\ mixed' = (mixed \/ ~reading.fresh) /\ reading' = NoReading
      /\ UNCHANGED <<spoken, shown, switches>>
  BY <1>1, PersistIs
<1>4. \/ /\ ledger'[n].status = "historical"
         /\ c.arrived = "historical" \/ SameValue(c, slot)
         /\ \A i \in Rows : ledger'[i] = ledger[i]
      \/ /\ DOMAIN slot = {} /\ c.arrived # "historical"
         /\ ledger'[n].status = IF c.arrived = "stale" THEN "expired" ELSE "current"
      \/ /\ ledger'[n].status = "current" /\ c.arrived # "historical"
         /\ \A i \in DOMAIN slot : ledger'[i].status = "superseded"
      \/ /\ ledger'[n].status = "conflicted" /\ c.arrived # "historical"
         /\ \A i \in DOMAIN slot : ledger'[i] = ledger[i] \/ ledger'[i].status = "conflicted"
  BY <1>1, PersistIs
<1>5. ~overruled' =>
         /\ ~overruled
         /\ c.by # "user" => \A i \in DOMAIN slot : slot[i].value \in UserValues =>
              ledger'[i] = ledger[i] \/ ledger'[i].status # "superseded"
  BY <1>1, PersistIs
<1>6. LedgerTyped'
  <2>1. \A i \in Rows' : ledger'[i].said <= spoken'
    BY <1>1, <1>2, <1>3 DEF LedgerTyped, Says
  <2> QED BY <1>1, <1>3, <2>1 DEF LedgerTyped
<1>7. ReadingTyped' /\ FreshIsNow' /\ SaidLast'
  BY <1>3 DEF ReadingTyped, FreshIsNow, SaidLast
<1>8. CurrentAreEqual'
  <2> SUFFICES ASSUME ~mixed', NEW i \in Relevant', NEW j \in Relevant',
                      ledger'[i].status = "current", ledger'[j].status = "current"
               PROVE  i = j
    BY DEF CurrentAreEqual
  <2>1. ~mixed /\ slot = [k \in Relevant |-> ledger[k]]
    BY <1>1, <1>2, <1>3 DEF FreshIsNow, LedgerTyped, ReadingTyped
  <2>2. DOMAIN slot = Relevant /\ \A k \in Relevant : slot[k] = ledger[k]
    BY <2>1
  <2>3. \A k \in Rows : Supported(ledger[k])' <=> Supported(ledger[k])
    BY <1>3 DEF Supported, Says
  <2>4. \A k \in Relevant' \ {n} : ledger'[k].status = "current" =>
           k \in Relevant /\ ledger'[k] = ledger[k]
    <3> TAKE k \in Relevant' \ {n}
    <3>1. k \in Rows /\ Open(ledger'[k]) /\ Supported(ledger[k])
      BY <1>3, <2>3 DEF Relevant
    <3>2. CASE k \notin DOMAIN slot
      BY <3>1, <3>2, <1>3, <2>2 DEF Relevant
    <3>3. CASE k \in DOMAIN slot
      BY <3>1, <3>3, <1>4, <2>2
    <3> QED BY <3>2, <3>3
  <2>5. CASE i # n /\ j # n
    BY <2>1, <2>4, <2>5, <1>1 DEF CurrentAreEqual
  <2>6. ledger'[n].status = "current" =>
          \A k \in Relevant' \ {n} : ledger'[k].status # "current"
    BY <1>4, <2>2, <2>4
  <2> QED BY <2>5, <2>6
<1>9. LastWordStands'
  <2> SUFFICES ASSUME ~overruled', LastWords' # {}
               PROVE  \E i \in LastWords' : \E j \in Rows' :
                        /\ ledger'[j].value = ledger'[i].value
                        /\ Open(ledger'[j]) \/ ledger'[j].status = "expired"
    BY DEF LastWordStands
  <2>1. \A i \in Rows : i \in LastWords' => i \in LastWords
    BY <1>3 DEF LastWords, Says
  <2>2. CASE c.by # "user"
    <3>1. LastWords' = LastWords
      BY <1>3, <2>2 DEF LastWords, Says
    <3>2. PICK i \in LastWords : \E j \in Rows :
             /\ ledger[j].value = ledger[i].value
             /\ Open(ledger[j]) \/ ledger[j].status = "expired"
      BY <1>1, <1>5, <3>1 DEF LastWordStands
    <3>3. PICK j \in Rows :
             /\ ledger[j].value = ledger[i].value
             /\ Open(ledger[j]) \/ ledger[j].status = "expired"
      BY <3>2
    <3>4. i \in Rows /\ ledger[i].by = "user"
      BY <3>2 DEF LastWords
    <3>5. ledger'[i].value = ledger[i].value /\ ledger'[j].value = ledger[j].value
      BY <1>3, <3>4 DEF Says
    <3>6. Open(ledger'[j]) \/ ledger'[j].status = "expired"
      <4>1. CASE j \notin DOMAIN slot
        BY <4>1, <1>3, <3>3
      <4>2. CASE j \in DOMAIN slot
        <5>1. slot[j].value \in UserValues
          BY <1>2, <4>2, <3>3, <3>4 DEF UserValues, Says
        <5>2. ledger'[j] = ledger[j] \/ ledger'[j].status # "superseded"
          BY <5>1, <4>2, <1>5, <2>2
        <5> QED BY <5>2, <4>2, <3>3, <1>4 DEF Open
      <4> QED BY <4>1, <4>2
    <3> QED BY <1>3, <3>1, <3>3, <3>5, <3>6
  <2>3. CASE c.by = "user" /\ c.arrived = "historical"
    <3>1. LastWords' \subseteq LastWords
      BY <1>3, <2>1, <2>3 DEF LastWords, Says
    <3>2. PICK l \in LastWords' : TRUE
      OBVIOUS
    <3>3. \A i \in LastWords : ledger[i].said = ledger[l].said
      <4>1. \A i \in Rows : ledger[i].said \in Nat
        <5>1. \A i \in Rows : ledger[i] \in Claim
          BY <1>2 DEF Rows
        <5> QED BY <5>1 DEF Claim
      <4>2. \A i \in LastWords : /\ ledger[i].said <= ledger[l].said
                                 /\ ledger[l].said <= ledger[i].said
                                 /\ i \in Rows /\ l \in Rows
        BY <3>1, <3>2 DEF LastWords
      <4> QED BY <4>1, <4>2
    <3>4. LastWords \subseteq LastWords'
      <4> SUFFICES ASSUME NEW i \in LastWords PROVE i \in LastWords'
        OBVIOUS
      <4>1. i \in Rows /\ l \in Rows /\ ledger'[i].said = ledger'[l].said
        BY <3>1, <3>2, <3>3, <1>3 DEF LastWords, Says
      <4>2. ledger'[i].by = "user" /\ ledger'[i].arrived # "historical" /\ i \in Rows'
        BY <4>1, <1>3, <3>1 DEF LastWords, Says
      <4> QED BY <4>1, <4>2, <3>2 DEF LastWords
    <3>5. PICK i \in LastWords : \E j \in Rows :
             /\ ledger[j].value = ledger[i].value
             /\ Open(ledger[j]) \/ ledger[j].status = "expired"
      BY <1>1, <1>5, <3>1 DEF LastWordStands
    <3>6. \A j \in Rows : ledger'[j] = ledger[j]
      BY <1>4, <2>3
    <3> QED BY <1>3, <3>4, <3>5, <3>6 DEF LastWords
  <2>4. CASE c.by = "user" /\ c.arrived # "historical"
    <3>1. c.arrived = "current"
      BY <1>2, <2>4 DEF Claim
    <3>2. CASE c.said = spoken /\ \A i \in DOMAIN slot : Open(ledger[i]) \/ ledger[i].status = "expired"
      <4>1. n \in LastWords'
        <5>1. \A j \in Rows' : ledger'[j].said <= spoken'
          BY <1>6 DEF LedgerTyped
        <5> QED BY <5>1, <1>3, <3>2, <2>4 DEF LastWords, Says
      <4>2. CASE ledger'[n].status = "historical"
        <5>1. PICK i \in DOMAIN slot : slot[i].value = c.value
          BY <1>4, <4>2, <2>4 DEF SameValue
        <5>2. ledger'[i] = ledger[i] /\ i \in Rows'
          BY <1>2, <1>3, <1>4, <4>2
        <5>3. ledger'[i].value = ledger'[n].value
          BY <1>2, <1>3, <5>1, <5>2 DEF Says
        <5> QED BY <3>2, <4>1, <5>2, <5>3
      <4>3. CASE ledger'[n].status # "historical"
        BY <1>3, <1>4, <3>1, <4>1, <4>3 DEF Open
      <4> QED BY <4>2, <4>3
    <3>3. CASE /\ Len(ledger) \in Rows \ DOMAIN slot
               /\ ledger[Len(ledger)].by = "user" /\ ledger[Len(ledger)].arrived = "current"
               /\ ledger[Len(ledger)].said = spoken /\ Open(ledger[Len(ledger)])
      <4> DEFINE l == Len(ledger)
      <4>1. ledger'[l] = ledger[l] /\ l \in Rows'
        BY <1>3, <3>3
      <4> HIDE DEF l
      <4>2. l \in LastWords'
        <5>1. \A j \in Rows' : ledger'[j].said <= spoken'
          BY <1>6 DEF LedgerTyped
        <5> QED BY <5>1, <1>3, <3>3, <4>1 DEF LastWords, l
      <4> QED BY <3>3, <4>1, <4>2 DEF l
    <3> QED BY <1>1, <1>2, <3>2, <3>3 DEF SaidLast
  <2> QED BY <2>2, <2>3, <2>4
<1> QED BY <1>6, <1>7, <1>8, <1>9 DEF LedgerInv

LEMMA ExtractKeeps ==
  ASSUME LedgerInv, NEW value \in Sayings, NEW s \in Statements, NEW again \in BOOLEAN,
         Extract(value, s, again)
  PROVE  LedgerInv'
<1> DEFINE c == Arriving(value, s, spoken')
           slot == [i \in Relevant |-> ledger[i]]
<1>1. LedgerTyped /\ ReadingTyped /\ FreshIsNow /\ CurrentAreEqual /\ SaidLast /\ LastWordStands
  BY DEF LedgerInv
<1>2. /\ reading' = [claim |-> c, slot |-> slot, fresh |-> TRUE]
      /\ spoken' = (IF again THEN spoken ELSE spoken + 1)
      /\ UNCHANGED <<ledger, shown, switches, mixed, overruled>>
  BY DEF Extract
<1>3. spoken' \in Nat /\ spoken <= spoken'
  BY <1>1, <1>2 DEF LedgerTyped
<1>4. c \in Claim /\ c.said = spoken' /\ (c.arrived = "stale" => c.by = "tool")
  BY <1>3, StatementsAssumption DEF Extract, Heard, Arriving, Claim
<1>5. /\ DOMAIN slot = Relevant /\ Relevant \subseteq Rows
      /\ \A i \in Relevant : slot[i] = ledger[i] /\ ledger[i] \in Claim /\ Open(ledger[i])
  BY <1>1 DEF Relevant, LedgerTyped, Rows
<1> HIDE DEF c, slot
<1>6. LedgerTyped'
  <2>1. \A i \in Rows : ledger[i].said \in Nat
    <3>1. \A i \in Rows : ledger[i] \in Claim
      BY <1>1 DEF LedgerTyped, Rows
    <3> QED BY <3>1 DEF Claim
  <2> QED BY <1>1, <1>2, <1>3, <2>1 DEF LedgerTyped, Rows
<1>7. /\ reading' = [f \in {"claim", "slot", "fresh"} |-> reading'[f]]
      /\ reading'.claim = c /\ reading'.slot = slot /\ reading'.fresh = TRUE
  BY <1>2
<1>8. ReadingTyped'
  <2>1. c.said <= spoken'
    BY <1>3, <1>4
  <2> QED BY <1>2, <1>4, <1>5, <1>7, <2>1 DEF ReadingTyped, Rows
<1>9. FreshIsNow'
  BY <1>2, <1>7 DEF FreshIsNow, Relevant, Rows, Open, Supported, slot
<1>10. CurrentAreEqual' /\ LastWordStands'
  BY <1>1, <1>2 DEF CurrentAreEqual, LastWordStands, LastWords, Relevant, Rows, Open, Supported
<1>11. SaidLast'
  BY <1>2, <1>4, <1>5, <1>7 DEF SaidLast, Rows, Open
<1> QED BY <1>6, <1>8, <1>9, <1>10, <1>11 DEF LedgerInv

LEMMA CorrectKeeps ==
  ASSUME LedgerInv, NEW i \in Rows, NEW value \in Sayings, Correct(i, value)
  PROVE  LedgerInv'
<1> DEFINE n == Len(ledger) + 1
           c == Arriving(value, [by |-> "user", correction |-> FALSE, arrived |-> "current",
                                 ago |-> FALSE], spoken')
           t == [ledger EXCEPT ![i].status = "superseded"]
<1>1. LedgerTyped /\ ReadingTyped /\ FreshIsNow /\ CurrentAreEqual /\ SaidLast /\ LastWordStands
  BY DEF LedgerInv
<1>2. /\ ledger' = Append(t, c) /\ spoken' = spoken + 1 /\ Interferes
      /\ mixed' = (mixed \/ \E j \in Relevant \ {i} : ledger[j].status = "current")
      /\ UNCHANGED <<shown, switches, overruled>>
  BY DEF Correct
<1>3. spoken' \in Nat /\ spoken < spoken'
  BY <1>1, <1>2 DEF LedgerTyped
<1>4. c \in Claim /\ c.said = spoken' /\ c.by = "user" /\ c.arrived = "current" /\ c.status = "current"
  BY <1>3 DEF Arriving, Claim, Sources
<1>5. ledger \in Seq(Claim) /\ \A k \in Rows : ledger[k] \in Claim
  BY <1>1 DEF LedgerTyped, Rows
<1>6. /\ \A k \in Rows : t[k] \in Claim
      /\ \A k \in Rows : Says(t[k], ledger[k])
      /\ \A k \in Rows : k # i => t[k] = ledger[k]
      /\ t[i].status = "superseded"
  <2>1. /\ t[i] = [ledger[i] EXCEPT !.status = "superseded"]
        /\ \A k \in Rows : k # i => t[k] = ledger[k]
    BY DEF Rows
  <2>2. \A d \in Claim : /\ [d EXCEPT !.status = "superseded"] \in Claim
                         /\ Says([d EXCEPT !.status = "superseded"], d)
                         /\ [d EXCEPT !.status = "superseded"].status = "superseded"
    BY DEF Claim, Says
  <2>3. t[i] \in Claim /\ Says(t[i], ledger[i]) /\ t[i].status = "superseded"
    BY <1>5, <2>1, <2>2
  <2> QED BY <1>5, <2>1, <2>3 DEF Says
<1>6a. t = [k \in DOMAIN ledger |-> t[k]]
  OBVIOUS
<1> HIDE DEF t, c
<1>7. /\ ledger' \in Seq(Claim) /\ Rows' = Rows \cup {n} /\ n \notin Rows
      /\ ledger'[n] = c /\ Len(ledger') = n /\ n \in Nat
      /\ \A k \in Rows : ledger'[k] = t[k]
  <2>1. \A k \in DOMAIN ledger : t[k] \in Claim
    BY <1>6 DEF Rows
  <2>2. /\ Append(t, c) \in Seq(Claim) /\ Len(Append(t, c)) = n /\ Append(t, c)[n] = c
        /\ \A k \in DOMAIN ledger : Append(t, c)[k] = t[k]
        /\ DOMAIN Append(t, c) = DOMAIN ledger \cup {n}
        /\ DOMAIN ledger = 1..Len(ledger) /\ Len(ledger) \in Nat
    BY <1>4, <1>5, <1>6a, <2>1, AppendedIs
  <2> QED BY <1>2, <2>2 DEF Rows
<1>8. \A k \in Rows : Says(ledger'[k], ledger[k])
  BY <1>6, <1>7
<1>9. \A k \in Rows : ledger[k].said \in Nat /\ ledger[k].said <= spoken
  BY <1>1, <1>5 DEF LedgerTyped, Claim
<1>10. LedgerTyped'
  <2>1. \A k \in Rows' : ledger'[k].said <= spoken'
    <3>1. \A k \in Rows : ledger'[k].said <= spoken'
      <4>1. \A k \in Rows : ledger'[k].said = ledger[k].said
        BY <1>8 DEF Says
      <4>2. spoken \in Nat
        BY <1>1 DEF LedgerTyped
      <4> QED BY <1>3, <1>9, <4>1, <4>2
    <3> QED BY <1>3, <1>4, <1>7, <3>1
  <2> QED BY <1>1, <1>2, <1>3, <1>7, <2>1 DEF LedgerTyped
<1>11. /\ ReadingTyped' /\ FreshIsNow'
       /\ reading' # NoReading => /\ reading # NoReading
                                 /\ reading'.slot = reading.slot /\ reading'.claim = reading.claim
  <2>1. spoken <= spoken' /\ Rows \subseteq Rows'
    BY <1>1, <1>2, <1>7 DEF LedgerTyped
  <2> QED BY <1>1, <1>2, <1>3, <1>7, <1>8, <2>1, InterferedIs
<1>12. CurrentAreEqual'
  <2> SUFFICES ASSUME ~mixed', NEW j \in Relevant', NEW k \in Relevant',
                      ledger'[j].status = "current", ledger'[k].status = "current"
               PROVE  j = k
    BY DEF CurrentAreEqual
  <2>1. \A m \in Relevant' \ {n} : ledger'[m].status # "current"
    <3> SUFFICES ASSUME NEW m \in Relevant' \ {n}, ledger'[m].status = "current" PROVE FALSE
      OBVIOUS
    <3>1. m \in Rows /\ Supported(ledger[m])'
      BY <1>7 DEF Relevant
    <3>2. m # i /\ ledger'[m] = ledger[m]
      BY <3>1, <1>6, <1>7
    <3>3. m \in Relevant
      BY <1>2, <3>1, <3>2 DEF Relevant, Open, Supported
    <3> QED BY <1>2, <3>2, <3>3
  <2> QED BY <2>1
<1>13. Len(ledger') \in Rows' /\ ledger'[Len(ledger')] = c
  BY <1>7
<1>14. SaidLast'
  <2>1. reading' # NoReading => Len(ledger') \notin DOMAIN reading'.slot
    BY <1>1, <1>7, <1>11 DEF ReadingTyped
  <2> QED BY <1>4, <1>13, <2>1 DEF SaidLast, Open
<1>15. LastWordStands'
  <2>1. n \in LastWords'
    <3>1. \A k \in Rows' : ledger'[k].said <= spoken'
      BY <1>10 DEF LedgerTyped
    <3> QED BY <1>4, <1>7, <3>1 DEF LastWords
  <2>2. Open(ledger'[n])
    BY <1>4, <1>7 DEF Open
  <2> QED BY <1>7, <2>1, <2>2 DEF LastWordStands
<1> QED BY <1>10, <1>11, <1>12, <1>14, <1>15 DEF LedgerInv

LEMMA ExpireKeeps ==
  ASSUME LedgerInv, NEW i \in Rows, Expire(i)
  PROVE  LedgerInv'
<1>1. LedgerTyped /\ ReadingTyped /\ FreshIsNow /\ CurrentAreEqual /\ SaidLast /\ LastWordStands
  BY DEF LedgerInv
<1>2. /\ ledger[i].by = "tool" /\ Open(ledger[i])
      /\ ledger' = [ledger EXCEPT ![i].status = "expired"] /\ Interferes
      /\ UNCHANGED <<spoken, shown, switches, mixed, overruled>>
  BY DEF Expire
<1>3. ledger \in Seq(Claim) /\ \A k \in Rows : ledger[k] \in Claim
  BY <1>1 DEF LedgerTyped, Rows
<1>4. /\ ledger' \in Seq(Claim) /\ Rows' = Rows /\ Len(ledger') = Len(ledger)
      /\ \A k \in Rows : Says(ledger'[k], ledger[k]) /\ (k # i => ledger'[k] = ledger[k])
      /\ ledger'[i].status = "expired"
  <2>1. [ledger[i] EXCEPT !.status = "expired"] \in Claim
    BY <1>3 DEF Claim
  <2>2. ledger' \in Seq(Claim) /\ Rows' = Rows /\ Len(ledger') = Len(ledger)
    BY <1>2, <1>3, <2>1 DEF Rows
  <2>3. \A k \in Rows : k # i => ledger'[k] = ledger[k]
    BY <1>2 DEF Rows
  <2>4. ledger'[i] = [ledger[i] EXCEPT !.status = "expired"]
    BY <1>2 DEF Rows
  <2>5. Says(ledger'[i], ledger[i]) /\ ledger'[i].status = "expired"
    BY <1>3, <2>4 DEF Says, Claim
  <2> QED BY <2>2, <2>3, <2>5 DEF Says
<1>5. LedgerTyped'
  BY <1>1, <1>2, <1>4 DEF LedgerTyped, Says
<1>6. /\ ReadingTyped' /\ FreshIsNow'
      /\ reading' # NoReading => /\ reading # NoReading
                                /\ reading'.slot = reading.slot /\ reading'.claim = reading.claim
  <2>1. spoken <= spoken' /\ spoken' \in Nat
    BY <1>1, <1>2 DEF LedgerTyped
  <2> QED BY <1>1, <1>2, <1>4, <2>1, InterferedIs
<1>7. CurrentAreEqual'
  <2> SUFFICES ASSUME ~mixed', NEW j \in Relevant', NEW k \in Relevant',
                      ledger'[j].status = "current", ledger'[k].status = "current"
               PROVE  j = k
    BY DEF CurrentAreEqual
  <2>1. \A m \in Relevant' : ledger'[m].status = "current" => m \in Relevant /\ ledger'[m] = ledger[m]
    BY <1>2, <1>4 DEF Relevant, Open, Supported
  <2> QED BY <1>1, <1>2, <2>1 DEF CurrentAreEqual
<1>8. SaidLast'
  BY <1>1, <1>2, <1>4, <1>6 DEF SaidLast, ReadingTyped
<1>9. LastWordStands'
  <2>1. LastWords' = LastWords
    BY <1>4 DEF LastWords, Says
  <2> QED BY <1>1, <1>2, <1>4, <2>1 DEF LastWordStands, LastWords, Says
<1> QED BY <1>5, <1>6, <1>7, <1>8, <1>9 DEF LedgerInv

LEMMA SwitchKeeps ==
  ASSUME LedgerInv, SwitchAnswer
  PROVE  LedgerInv'
<1>1. LedgerTyped /\ ReadingTyped /\ FreshIsNow /\ CurrentAreEqual /\ SaidLast /\ LastWordStands
  BY DEF LedgerInv
<1>2. /\ shown' = (CHOOSE a \in Answers2 : a # shown) /\ Interferes
      /\ mixed' = (mixed \/ \E i \in Rows : ledger[i].by = shown' /\ ledger[i].status = "current")
      /\ UNCHANGED <<ledger, spoken, overruled>>
  BY DEF SwitchAnswer
<1>3. shown' \in Answers2
  <2>1. \E a \in Answers2 : a # shown
    BY DEF Answers2
  <2> QED BY <1>2, <2>1
<1>4. LedgerTyped'
  BY <1>1, <1>2, <1>3 DEF LedgerTyped, Rows
<1>5. /\ ReadingTyped' /\ FreshIsNow'
      /\ reading' # NoReading => /\ reading # NoReading
                                /\ reading'.slot = reading.slot /\ reading'.claim = reading.claim
  <2>1. /\ spoken <= spoken' /\ spoken' \in Nat /\ ledger' \in Seq(Claim) /\ Rows' = Rows
        /\ \A i \in Rows : Says(ledger'[i], ledger[i])
    BY <1>1, <1>2 DEF LedgerTyped, Rows, Says
  <2> QED BY <1>1, <1>2, <2>1, InterferedIs
<1>6. CurrentAreEqual'
  <2> SUFFICES ASSUME ~mixed', NEW j \in Relevant', NEW k \in Relevant',
                      ledger'[j].status = "current", ledger'[k].status = "current"
               PROVE  j = k
    BY DEF CurrentAreEqual
  <2>1. \A m \in Relevant' : ledger'[m].status = "current" => m \in Relevant
    BY <1>2 DEF Relevant, Open, Supported, Rows
  <2> QED BY <1>1, <1>2, <2>1 DEF CurrentAreEqual
<1>7. SaidLast' /\ LastWordStands'
  BY <1>1, <1>2, <1>5 DEF SaidLast, LastWordStands, LastWords, Rows, Open
<1> QED BY <1>4, <1>5, <1>6, <1>7 DEF LedgerInv

LEMMA LedgerInvHolds == LedgerSpec => []LedgerInv
<1>1. LedgerInit => LedgerInv
  <2> SUFFICES ASSUME LedgerInit PROVE LedgerInv
    OBVIOUS
  <2>1. Rows = {} /\ Relevant = {} /\ LastWords = {}
    BY DEF LedgerInit, Rows, Relevant, LastWords
  <2>2. LedgerTyped
    <3>1. ledger \in Seq(Claim)
      BY DEF LedgerInit
    <3>2. mixed \in BOOLEAN /\ overruled \in BOOLEAN
      BY DEF LedgerInit
    <3>3. spoken \in Nat /\ shown \in Answers2
      BY DEF LedgerInit, Answers2
    <3> QED BY <2>1, <3>1, <3>2, <3>3 DEF LedgerTyped
  <2>3. ReadingTyped /\ FreshIsNow /\ SaidLast
    BY DEF LedgerInit, ReadingTyped, FreshIsNow, SaidLast
  <2>4. CurrentAreEqual /\ LastWordStands
    BY <2>1 DEF CurrentAreEqual, LastWordStands
  <2> QED BY <2>2, <2>3, <2>4 DEF LedgerInv
<1>2. LedgerInv /\ [LedgerNext]_ledgerVars => LedgerInv'
  <2> SUFFICES ASSUME LedgerInv, [LedgerNext]_ledgerVars PROVE LedgerInv'
    OBVIOUS
  <2>1. CASE \E value \in Sayings, s \in Statements, again \in BOOLEAN : Extract(value, s, again)
    BY <2>1, ExtractKeeps
  <2>2. CASE Persist
    BY <2>2, PersistKeeps
  <2>3. CASE \E i \in Rows : Expire(i) \/ \E value \in Sayings : Correct(i, value)
    BY <2>3, ExpireKeeps, CorrectKeeps
  <2>4. CASE SwitchAnswer
    BY <2>4, SwitchKeeps
  <2>5. CASE UNCHANGED ledgerVars
    BY <2>5 DEF ledgerVars, LedgerInv, LedgerTyped, ReadingTyped, FreshIsNow, CurrentAreEqual,
                SaidLast, LastWordStands, LastWords, Relevant, Rows, Open, Supported
  <2> QED BY <2>1, <2>2, <2>3, <2>4, <2>5 DEF LedgerNext
<1> QED BY <1>1, <1>2, PTL DEF LedgerSpec

\* Whatever is said, corrected, expired or extracted again, in whatever order it is persisted,
\* the slot has one current value at most (reconcileClaim), unless the API put one beside it.
THEOREM SlotsHaveOneValue == LedgerSpec => []OneCurrent
<1>1. LedgerInv => OneCurrent
  <2> SUFFICES ASSUME LedgerInv, ~mixed
               PROVE  Cardinality({i \in Relevant : ledger[i].status = "current"}) <= 1
    BY DEF OneCurrent
  <2> DEFINE S == {i \in Relevant : ledger[i].status = "current"}
  <2>1. \A i, j \in S : i = j
    BY DEF LedgerInv, CurrentAreEqual
  <2>2. CASE S = {}
    BY <2>2, FS_EmptySet
  <2>3. CASE S # {}
    <3>1. PICK i \in S : TRUE
      BY <2>3
    <3>2. S = {i}
      BY <2>1, <3>1
    <3>3. Cardinality(S) = 1
      BY <3>2, FS_Singleton
    <3> QED BY <3>3
  <2> QED BY <2>2, <2>3
<1> QED BY <1>1, LedgerInvHolds, PTL

\* What the user said last is current, in conflict or out of date with the tool's claim that it
\* repeats, however late it is persisted, unless somebody else's claim took its place.
THEOREM LastWordIsKept == LedgerSpec => []LastWordStands
<1>1. LedgerInv => LastWordStands
  BY DEF LedgerInv
<1> QED BY <1>1, LedgerInvHolds, PTL

-----------------------------------------------------------------------------
(* Evidence that is gone                                                     *)

EdgeShape(x) == x = [f \in {"id", "from", "to", "evidence"} |-> x[f]]
NameShape(n) == n = [f \in {"entity", "name", "source"} |-> n[f]]
MergeShape(m) == m = [f \in {"source", "target", "status", "before", "after"} |-> m[f]]
IsSequence(s) == \E S : s \in Seq(S)

CleanEdges(E, lost) == \A x \in E : EdgeShape(x) /\ x.evidence \cap lost = {}
CleanNames(N, lost) == \A n \in N : NameShape(n) /\ n.source \notin lost

\* A merge that can be reversed keeps nothing that is gone, and the worker writes nothing of it.
CleanMerge(m, lost) ==
  /\ MergeShape(m)
  /\ m.status = "merged" => CleanEdges(m.before.edges, lost) /\ CleanNames(m.before.names, lost)

GoneInv ==
  /\ CleanEdges(edges, gone) /\ CleanNames(names, gone)
  /\ IsSequence(merges)
  /\ \A i \in DOMAIN merges : CleanMerge(merges[i], gone)
  /\ resolved # Nothing =>
       /\ resolved = [f \in {"from", "to", "source", "new"} |-> resolved[f]]
       /\ resolved.source \notin gone

LEMMA AppendedTo ==
  ASSUME NEW s, IsSequence(s), NEW e
  PROVE  /\ IsSequence(Append(s, e))
         /\ \A i \in DOMAIN Append(s, e) :
              (i \in DOMAIN s /\ Append(s, e)[i] = s[i]) \/ Append(s, e)[i] = e
<1>1. PICK S : s \in Seq(S)
  BY DEF IsSequence
<1> DEFINE T == S \cup {e}
<1>2. s \in Seq(T) /\ e \in T
  BY <1>1
<1> HIDE DEF T
<1>3. Append(s, e) \in Seq(T)
  BY <1>2
<1>4. \A i \in DOMAIN Append(s, e) :
         (i \in DOMAIN s /\ Append(s, e)[i] = s[i]) \/ Append(s, e)[i] = e
  BY <1>2
<1> QED BY <1>3, <1>4 DEF IsSequence

\* A merge gives relations other ends, and none other evidence than the relations had.
LEMMA RewrittenIsClean ==
  ASSUME NEW a \in Entities, NEW b \in Entities, CleanEdges(edges, gone)
  PROVE  CleanEdges(Rewritten(a, b), gone)
<1> DEFINE old == {x \in edges : Joins(x, {a})}
           moved == {y \in {[x EXCEPT !.from = Renamed(@, a, b), !.to = Renamed(@, a, b)] : x \in old} :
                       y.from # y.to}
           rest == edges \ old
           new == {y \in moved : \A x \in rest : x.from # y.from \/ x.to # y.to}
           number(y) == nextEdge + Cardinality({z \in new : z.id < y.id})
<1>1. Rewritten(a, b) = {Combined(x, moved) : x \in rest} \cup {[y EXCEPT !.id = number(y)] : y \in new}
  BY DEF Rewritten
<1>2. ASSUME NEW x, EdgeShape(x), NEW from, NEW to
      PROVE  LET y == [x EXCEPT !.from = from, !.to = to]
             IN EdgeShape(y) /\ y.evidence = x.evidence
  BY <1>2 DEF EdgeShape
<1>3. CleanEdges(moved, gone)
  <2> SUFFICES ASSUME NEW y \in moved PROVE EdgeShape(y) /\ y.evidence \cap gone = {}
    BY DEF CleanEdges
  <2>1. PICK x \in edges : y = [x EXCEPT !.from = Renamed(@, a, b), !.to = Renamed(@, a, b)]
    OBVIOUS
  <2>2. EdgeShape(x) /\ x.evidence \cap gone = {}
    BY DEF CleanEdges
  <2>3. y = [x EXCEPT !.from = Renamed(x.from, a, b), !.to = Renamed(x.to, a, b)]
    BY <2>1, <2>2 DEF EdgeShape
  <2> QED BY <1>2, <2>2, <2>3
<1>4. CleanEdges(rest, gone) /\ CleanEdges(new, gone)
  BY <1>3 DEF CleanEdges
<1> HIDE DEF moved, rest, new, number
<1>5. ASSUME NEW y \in new PROVE LET z == [y EXCEPT !.id = number(y)]
                                 IN EdgeShape(z) /\ z.evidence \cap gone = {}
  BY <1>4, <1>5 DEF CleanEdges, EdgeShape
<1>6. ASSUME NEW x \in rest PROVE EdgeShape(Combined(x, moved)) /\ Combined(x, moved).evidence \cap gone = {}
  <2> DEFINE more == UNION {y.evidence : y \in {z \in moved : z.from = x.from /\ z.to = x.to}}
  <2>1. more \cap gone = {}
    BY <1>3 DEF CleanEdges
  <2>2. EdgeShape(x) /\ x.evidence \cap gone = {}
    BY <1>4, <1>6 DEF CleanEdges
  <2>3. Combined(x, moved) = [x EXCEPT !.evidence = x.evidence \cup more]
    BY <2>2 DEF Combined, EdgeShape
  <2> HIDE DEF more
  <2>4. EdgeShape(Combined(x, moved)) /\ Combined(x, moved).evidence = x.evidence \cup more
    BY <2>2, <2>3 DEF EdgeShape
  <2> QED BY <2>1, <2>2, <2>4
<1> QED BY <1>1, <1>5, <1>6 DEF CleanEdges

LEMMA RenamingIsClean ==
  ASSUME NEW a \in Entities, NEW b \in Entities, CleanNames(names, gone)
  PROVE  CleanNames(Renaming(a, b), gone)
<1>1. ASSUME NEW n \in names
      PROVE  LET m == [n EXCEPT !.entity = b] IN NameShape(m) /\ m.source \notin gone
  BY <1>1 DEF CleanNames, NameShape
<1> QED BY <1>1 DEF CleanNames, Renaming

LEMMA MergeIsClean ==
  ASSUME GoneInv, NEW a \in Entities, NEW b \in Entities, Merge(a, b)
  PROVE  GoneInv'
<1> DEFINE m == [source |-> a, target |-> b, status |-> "merged",
                 before |-> Fingerprint(a, b), after |-> Fingerprint(a, b)']
<1>1. /\ names' = Renaming(a, b) /\ edges' = Rewritten(a, b) /\ merges' = Append(merges, m)
      /\ UNCHANGED <<resolved, gone>>
  BY DEF Merge
<1>2. CleanEdges(edges', gone) /\ CleanNames(names', gone)
  BY <1>1, RewrittenIsClean, RenamingIsClean DEF GoneInv
<1>3. CleanMerge(m, gone)
  <2>1. MergeShape(m) /\ m.before = Fingerprint(a, b)
    BY DEF MergeShape
  <2>2. CleanEdges(Fingerprint(a, b).edges, gone) /\ CleanNames(Fingerprint(a, b).names, gone)
    BY DEF GoneInv, CleanEdges, CleanNames, Fingerprint
  <2> HIDE DEF m
  <2> QED BY <2>1, <2>2 DEF CleanMerge
<1> HIDE DEF m
<1>4. IsSequence(merges') /\ \A i \in DOMAIN merges' : CleanMerge(merges'[i], gone)
  BY <1>1, <1>3, AppendedTo DEF GoneInv
<1> QED BY <1>1, <1>2, <1>4 DEF GoneInv

LEMMA ReversalIsClean ==
  ASSUME GoneInv, NEW i \in DOMAIN merges, ReverseMerge(i)
  PROVE  GoneInv'
<1> DEFINE m == merges[i]
           both == {m.source, m.target}
           spent == Spent(m, "reversed")
<1>1. /\ m.status = "merged" /\ CleanMerge(m, gone)
      /\ names' = {n \in names : n.entity \notin both} \cup m.before.names
      /\ edges' = {x \in edges : ~Joins(x, both)} \cup m.before.edges
      /\ merges' = [merges EXCEPT ![i] = spent]
      /\ UNCHANGED <<resolved, gone>>
  BY DEF ReverseMerge, GoneInv
<1>2. CleanEdges(m.before.edges, gone) /\ CleanNames(m.before.names, gone)
  BY <1>1 DEF CleanMerge
<1>3. CleanEdges(edges', gone) /\ CleanNames(names', gone)
  BY <1>1, <1>2 DEF GoneInv, CleanEdges, CleanNames
<1>4. CleanMerge(spent, gone)
  BY <1>1 DEF CleanMerge, MergeShape, Spent
<1> HIDE DEF spent, m
<1>5. IsSequence(merges') /\ \A j \in DOMAIN merges' : CleanMerge(merges'[j], gone)
  <2>1. PICK S : merges \in Seq(S)
    BY DEF GoneInv, IsSequence
  <2> DEFINE T == S \cup {spent}
  <2>2. merges \in Seq(T) /\ spent \in T
    BY <2>1
  <2> HIDE DEF T
  <2>3. merges' \in Seq(T) /\ DOMAIN merges' = DOMAIN merges
    BY <1>1, <2>2
  <2>4. \A j \in DOMAIN merges : merges'[j] = IF j = i THEN spent ELSE merges[j]
    BY <1>1
  <2> QED BY <1>4, <2>3, <2>4 DEF GoneInv, IsSequence
<1> QED BY <1>1, <1>3, <1>5 DEF GoneInv

LEMMA DeletionIsClean ==
  ASSUME GoneInv, NEW source \in Evidence, DeleteEvidence(source)
  PROVE  GoneInv'
<1> DEFINE lost == gone \cup {source}
           changed(m) == IF m.status = "merged" /\ Mentions(m, source) THEN Spent(m, "removed") ELSE m
<1>1. /\ edges' = {y \in {[x EXCEPT !.evidence = @ \ {source}] : x \in edges} : y.evidence # {}}
      /\ names' = {n \in names : n.source # source}
      /\ merges' = [i \in DOMAIN merges |-> changed(merges[i])]
      /\ gone' = lost /\ resolved = Nothing /\ resolved' = resolved
  BY DEF DeleteEvidence
<1>2. CleanEdges(edges', lost)
  <2> SUFFICES ASSUME NEW y \in edges' PROVE EdgeShape(y) /\ y.evidence \cap lost = {}
    BY DEF CleanEdges
  <2>1. PICK x \in edges : y = [x EXCEPT !.evidence = @ \ {source}]
    BY <1>1
  <2>2. EdgeShape(x) /\ x.evidence \cap gone = {}
    BY DEF GoneInv, CleanEdges
  <2>3. EdgeShape(y) /\ y.evidence = x.evidence \ {source}
    BY <2>1, <2>2 DEF EdgeShape
  <2> QED BY <2>2, <2>3
<1>3. CleanNames(names', lost)
  BY <1>1 DEF GoneInv, CleanNames
<1>4. ASSUME NEW m, CleanMerge(m, gone) PROVE CleanMerge(changed(m), lost)
  <2>1. CASE m.status = "merged" /\ Mentions(m, source)
    <3>1. changed(m) = [m EXCEPT !.status = "removed", !.before = Nothing, !.after = Nothing]
      BY <2>1 DEF Spent
    <3>2. MergeShape(changed(m)) /\ changed(m).status = "removed"
      BY <1>4, <3>1 DEF CleanMerge, MergeShape
    <3> HIDE DEF changed
    <3> QED BY <3>2 DEF CleanMerge
  <2>2. CASE m.status = "merged" /\ ~Mentions(m, source)
    <3>1. CleanEdges(m.before.edges, lost) /\ CleanNames(m.before.names, lost)
      BY <1>4, <2>2 DEF CleanMerge, CleanEdges, CleanNames, Mentions
    <3> QED BY <1>4, <2>2, <3>1 DEF CleanMerge
  <2>3. CASE m.status # "merged"
    BY <1>4, <2>3 DEF CleanMerge
  <2> QED BY <2>1, <2>2, <2>3
<1> HIDE DEF changed
<1>5. IsSequence(merges') /\ \A i \in DOMAIN merges' : CleanMerge(merges'[i], lost)
  <2>1. PICK S : merges \in Seq(S)
    BY DEF GoneInv, IsSequence
  <2> DEFINE T == {changed(merges[i]) : i \in DOMAIN merges}
  <2>2. \A i \in DOMAIN merges : merges'[i] = changed(merges[i]) /\ changed(merges[i]) \in T
    BY <1>1
  <2>3. merges' = [i \in 1..Len(merges) |-> merges'[i]] /\ DOMAIN merges = 1..Len(merges) /\ Len(merges) \in Nat
    BY <1>1, <2>1
  <2> HIDE DEF T
  <2>4. merges' \in Seq(T)
    BY <2>2, <2>3
  <2>5. \A i \in DOMAIN merges' : CleanMerge(merges'[i], lost)
    BY <1>1, <1>4, <2>2 DEF GoneInv
  <2> QED BY <2>4, <2>5 DEF IsSequence
<1> QED BY <1>1, <1>2, <1>3, <1>5 DEF GoneInv

LEMMA WorkerIsClean ==
  ASSUME GoneInv,
         \/ \E from, to \in Entities, source \in Evidence : Resolve(from, to, source)
         \/ \E e \in Entities : Create(e)
         \/ Relate
  PROVE  GoneInv'
<1>1. CASE \E from, to \in Entities, source \in Evidence : Resolve(from, to, source)
  <2>1. PICK from \in Entities, to \in Entities, source \in Evidence : Resolve(from, to, source)
    BY <1>1
  <2>2. /\ resolved' = [from |-> from, to |-> to, source |-> source,
                        new |-> {e \in {from, to} : lifecycle[e] = "none"}]
        /\ source \notin gone
        /\ UNCHANGED <<edges, names, merges, gone>>
    BY <2>1 DEF Resolve
  <2>3. resolved' = [f \in {"from", "to", "source", "new"} |-> resolved'[f]] /\ resolved'.source = source
    BY <2>2
  <2> QED BY <2>2, <2>3 DEF GoneInv
<1>2. CASE \E e \in Entities : Create(e)
  <2>1. PICK e \in Entities : Create(e)
    BY <1>2
  <2> DEFINE n == [entity |-> e, name |-> e, source |-> resolved.source]
  <2>2. /\ names' = names \cup {n} /\ resolved' = [resolved EXCEPT !.new = @ \ {e}]
        /\ resolved # Nothing /\ UNCHANGED <<edges, merges, gone>>
    BY <2>1 DEF Create
  <2>3. NameShape(n) /\ n.source \notin gone
    BY <2>2 DEF NameShape, GoneInv
  <2> HIDE DEF n
  <2>4. resolved' = [f \in {"from", "to", "source", "new"} |-> resolved'[f]] /\ resolved'.source \notin gone
    BY <2>2 DEF GoneInv
  <2> QED BY <2>2, <2>3, <2>4 DEF GoneInv, CleanNames
<1>3. CASE Relate
  <2> DEFINE source == resolved.source
  <2>1. /\ edges' = edges \/ edges' = Upserted(resolved.from, resolved.to, source)
        /\ resolved' = Nothing /\ source \notin gone /\ UNCHANGED <<names, merges, gone>>
    BY <1>3 DEF Relate, GoneInv
  <2>2. ASSUME NEW id, NEW from, NEW to
        PROVE  LET x == [id |-> id, from |-> from, to |-> to, evidence |-> {source}]
               IN EdgeShape(x) /\ x.evidence \cap gone = {}
    BY <2>1 DEF EdgeShape
  <2>3. CleanEdges(Upserted(resolved.from, resolved.to, source), gone)
    BY <2>2 DEF Upserted, CleanEdges, GoneInv
  <2> QED BY <2>1, <2>3 DEF GoneInv
<1> QED BY <1>1, <1>2, <1>3

\* What was deleted is in no relation and no name, whichever merges are made and taken back.
THEOREM DeletedEvidenceStaysGone == EntitiesSpec => []GoneStaysGone
<1>1. EntitiesInit => GoneInv
  <2> SUFFICES ASSUME EntitiesInit PROVE GoneInv
    OBVIOUS
  <2>1. merges \in Seq({}) /\ DOMAIN merges = {}
    BY DEF EntitiesInit
  <2>2. IsSequence(merges)
    BY <2>1 DEF IsSequence
  <2> QED BY <2>1, <2>2 DEF EntitiesInit, GoneInv, CleanEdges, CleanNames
<1>2. GoneInv /\ [EntitiesNext]_entityVars => GoneInv'
  <2>1. GoneInv /\ UNCHANGED entityVars => GoneInv'
    BY DEF GoneInv, entityVars
  <2> QED BY <2>1, WorkerIsClean, MergeIsClean, ReversalIsClean, DeletionIsClean DEF EntitiesNext
<1>3. GoneInv => GoneStaysGone
  BY DEF GoneInv, GoneStaysGone, CleanEdges, CleanNames
<1> QED BY <1>1, <1>2, <1>3, PTL DEF EntitiesSpec

-----------------------------------------------------------------------------
(* The chain of the parts of a topic *)

\* A set of numbers without a first one is empty.
LEMMA NoneIsFirst ==
  ASSUME NEW S, S \subseteq Nat, \A n \in S : \E m \in S : m < n
  PROVE  S = {}
<1> SUFFICES ASSUME S # {} PROVE FALSE
  OBVIOUS
<1> DEFINE R == OpToRel(<, Nat)
<1>1. IsWellFoundedOn(R, Nat)
  BY NatLessThanWellFounded
<1>2. PICK x \in S : \A y \in S : ~(<<y, x>> \in R)
  BY <1>1, WFMin
<1>3. \A y \in S : ~(y < x)
  BY <1>2 DEF OpToRel
<1> QED
  BY <1>3

\* A finite set in an order has a first element.
LEMMA OneIsFirst ==
  ASSUME NEW S, IsFiniteSet(S), S # {}, NEW R,
         \A x \in S : <<x, x>> \notin R,
         \A x, y, z \in S : <<x, y>> \in R /\ <<y, z>> \in R => <<x, z>> \in R,
         \A x, y \in S : x = y \/ <<x, y>> \in R \/ <<y, x>> \in R
  PROVE  \E x \in S : \A y \in S : y = x \/ <<x, y>> \in R
<1> SUFFICES ASSUME \A x \in S : \E y \in S : y # x /\ <<x, y>> \notin R PROVE FALSE
  OBVIOUS
<1> DEFINE Sooner(x) == {y \in S : <<y, x>> \in R}
           counts == {Cardinality(Sooner(x)) : x \in S}
<1>1. ASSUME NEW x \in S
      PROVE  IsFiniteSet(Sooner(x)) /\ Cardinality(Sooner(x)) \in Nat
  <2>1. IsFiniteSet(Sooner(x))
    BY FS_Subset
  <2> HIDE DEF Sooner
  <2> QED
    BY <2>1, FS_CardinalityType
<1>2. ASSUME NEW x \in S
      PROVE  \E y \in S : Cardinality(Sooner(y)) < Cardinality(Sooner(x))
  <2>1. PICK y \in S : <<y, x>> \in R
    OBVIOUS
  <2>2. Sooner(y) \subseteq Sooner(x) /\ y \in Sooner(x) /\ y \notin Sooner(y)
    BY <2>1
  <2>3. IsFiniteSet(Sooner(x)) /\ IsFiniteSet(Sooner(y))
        /\ Cardinality(Sooner(x)) \in Nat /\ Cardinality(Sooner(y)) \in Nat
    BY <1>1
  <2> HIDE DEF Sooner
  <2>4. Cardinality(Sooner(y)) <= Cardinality(Sooner(x))
        /\ (Cardinality(Sooner(x)) = Cardinality(Sooner(y)) => Sooner(x) = Sooner(y))
    BY <2>2, <2>3, FS_Subset
  <2> QED
    BY <2>2, <2>3, <2>4
<1> HIDE DEF Sooner
<1>3. \A n \in counts : \E m \in counts : m < n
  BY <1>2
<1>4. counts \subseteq Nat /\ counts # {}
  BY <1>1
<1> HIDE DEF counts
<1> QED
  BY <1>3, <1>4, NoneIsFirst

\* Places are in one order, in either direction.
Places == Nat \X Nat \X Nat
Precedes(way, p, q) == IF way = "next" THEN Earlier(p, q) ELSE Earlier(q, p)

LEMMA PlacesAreOrdered ==
  ASSUME NEW way
  PROVE  /\ \A p \in Places : ~Precedes(way, p, p)
         /\ \A p, q, r \in Places : Precedes(way, p, q) /\ Precedes(way, q, r) => Precedes(way, p, r)
         /\ \A p, q \in Places : p = q \/ Precedes(way, p, q) \/ Precedes(way, q, p)
         /\ \A p, q \in Places : ~(Precedes(way, p, q) /\ Precedes(way, q, p))
<1>1. \A p, q \in Places : p = q \/ Earlier(p, q) \/ Earlier(q, p)
  <2> SUFFICES ASSUME NEW p \in Places, NEW q \in Places, ~Earlier(p, q), ~Earlier(q, p)
               PROVE  p = q
    OBVIOUS
  <2>1. p[1] \in Nat /\ p[2] \in Nat /\ p[3] \in Nat /\ q[1] \in Nat /\ q[2] \in Nat /\ q[3] \in Nat
    BY DEF Places
  <2>2. p = <<p[1], p[2], p[3]>> /\ q = <<q[1], q[2], q[3]>>
    BY DEF Places
  <2>3. p[1] = q[1] /\ p[2] = q[2] /\ p[3] = q[3]
    BY <2>1 DEF Earlier
  <2> QED
    BY <2>2, <2>3
<1>2. \A p, q, r \in Places : Earlier(p, q) /\ Earlier(q, r) => Earlier(p, r)
  <2> SUFFICES ASSUME NEW p \in Places, NEW q \in Places, NEW r \in Places,
                      Earlier(p, q), Earlier(q, r)
               PROVE  Earlier(p, r)
    OBVIOUS
  <2>1. /\ p[1] \in Nat /\ p[2] \in Nat /\ p[3] \in Nat
        /\ q[1] \in Nat /\ q[2] \in Nat /\ q[3] \in Nat
        /\ r[1] \in Nat /\ r[2] \in Nat /\ r[3] \in Nat
    BY DEF Places
  <2> QED
    BY <2>1 DEF Earlier
<1>3. \A p \in Places : ~Earlier(p, p)
  BY DEF Places, Earlier
<1> QED
  BY <1>1, <1>2, <1>3, Zenon DEF Precedes

ShardIds == {"overview", "current_state", "history", "evidence"} \X Nat
IsShards(shards) ==
  /\ IsFiniteSet(DOMAIN shards)
  /\ DOMAIN shards \subseteq ShardIds
  /\ \A s \in DOMAIN shards :
       /\ shards[s] = [f \in {"last", "claims"} |-> shards[s][f]]
       /\ shards[s].last \in Nat /\ shards[s].claims \subseteq Facts

LEMMA PlacesDiffer ==
  ASSUME NEW s \in ShardIds, NEW t \in ShardIds, NEW k \in Nat, NEW l \in Nat
  PROVE  Place(s, k) \in Places /\ (Place(s, k) = Place(t, l) => s = t)
<1>1. s = <<s[1], s[2]>> /\ t = <<t[1], t[2]>> /\ s[2] \in Nat /\ t[2] \in Nat
      /\ s[1] \in {"overview", "current_state", "history", "evidence"}
      /\ t[1] \in {"overview", "current_state", "history", "evidence"}
  BY DEF ShardIds
<1>2. SectionAt(s[1]) \in Nat /\ (SectionAt(s[1]) = SectionAt(t[1]) => s[1] = t[1])
  BY <1>1 DEF SectionAt
<1>3. Place(s, k) = <<SectionAt(s[1]), k, s[2]>> /\ Place(t, l) = <<SectionAt(t[1]), l, t[2]>>
  BY DEF Place
<1>4. Place(s, k) \in Places
  BY <1>1, <1>2, <1>3 DEF Places
<1>5. Place(s, k) = Place(t, l) => SectionAt(s[1]) = SectionAt(t[1]) /\ s[2] = t[2]
  BY <1>3
<1> QED
  BY <1>1, <1>2, <1>4, <1>5

LEMMA PlacesOfShards ==
  ASSUME NEW d, IsShards(d)
  PROVE  /\ \A s \in DOMAIN d : PlaceOf(s, d) \in Places
         /\ \A s, t \in DOMAIN d : PlaceOf(s, d) = PlaceOf(t, d) => s = t
BY PlacesDiffer DEF IsShards, PlaceOf

\* The shard next to a place, and that on the other side.
Ahead(way, p, d) == IF way = "next" THEN PartAfter(p, d) ELSE PartBefore(p, d)
Back(way, p, d) == IF way = "next" THEN PartBefore(p, d) ELSE PartAfter(p, d)
Between(way, p, q, d) ==
  \E u \in DOMAIN d : Precedes(way, p, PlaceOf(u, d)) /\ Precedes(way, PlaceOf(u, d), q)

LEMMA AheadFacts ==
  ASSUME NEW d, IsShards(d), NEW way \in {"next", "previous"}, NEW p \in Places, NEW t
  PROVE  /\ t \in Ahead(way, p, d) <=> /\ t \in DOMAIN d /\ Precedes(way, p, PlaceOf(t, d))
                                       /\ ~Between(way, p, PlaceOf(t, d), d)
         /\ t \in Back(way, p, d) <=> /\ t \in DOMAIN d /\ Precedes(way, PlaceOf(t, d), p)
                                      /\ ~Between(way, PlaceOf(t, d), p, d)
<1>1. t \in PartAfter(p, d) <=>
        /\ t \in DOMAIN d /\ Earlier(p, PlaceOf(t, d))
        /\ \A u \in DOMAIN d : Earlier(p, PlaceOf(u, d)) =>
             u = t \/ Earlier(PlaceOf(t, d), PlaceOf(u, d))
  BY Zenon DEF PartAfter
<1>2. t \in PartBefore(p, d) <=>
        /\ t \in DOMAIN d /\ Earlier(PlaceOf(t, d), p)
        /\ \A u \in DOMAIN d : Earlier(PlaceOf(u, d), p) =>
             u = t \/ Earlier(PlaceOf(u, d), PlaceOf(t, d))
  BY Zenon DEF PartBefore
<1>3. \A u, v \in DOMAIN d : u = v \/ Earlier(PlaceOf(u, d), PlaceOf(v, d))
                              \/ Earlier(PlaceOf(v, d), PlaceOf(u, d))
  <2>1. \A a, b \in Places : a = b \/ Earlier(a, b) \/ Earlier(b, a)
    BY PlacesAreOrdered DEF Precedes
  <2> QED
    BY <2>1, PlacesOfShards
<1>4. \A u, v \in DOMAIN d : ~(Earlier(PlaceOf(u, d), PlaceOf(v, d))
                               /\ Earlier(PlaceOf(v, d), PlaceOf(u, d)))
  <2>1. \A a, b \in Places : ~(Earlier(a, b) /\ Earlier(b, a))
    <3>1. \A a, b \in Places : ~(Precedes("next", a, b) /\ Precedes("next", b, a))
      BY PlacesAreOrdered
    <3> QED
      BY <3>1 DEF Precedes
  <2> QED
    BY <2>1, PlacesOfShards
<1>5. t \in PartAfter(p, d) <=>
        /\ t \in DOMAIN d /\ Earlier(p, PlaceOf(t, d))
        /\ ~\E u \in DOMAIN d : Earlier(p, PlaceOf(u, d)) /\ Earlier(PlaceOf(u, d), PlaceOf(t, d))
  BY <1>1, <1>3, <1>4
<1>6. t \in PartBefore(p, d) <=>
        /\ t \in DOMAIN d /\ Earlier(PlaceOf(t, d), p)
        /\ ~\E u \in DOMAIN d : Earlier(PlaceOf(t, d), PlaceOf(u, d)) /\ Earlier(PlaceOf(u, d), p)
  BY <1>2, <1>3, <1>4
<1>7. CASE way = "next"
  BY <1>5, <1>6, <1>7 DEF Ahead, Back, Between, Precedes
<1>8. CASE way = "previous"
  BY <1>5, <1>6, <1>8 DEF Ahead, Back, Between, Precedes
<1> QED
  BY <1>7, <1>8

\* A shard that waits for its links: where it is, or where it was.
SpotOf(x, d) == IF x[1] \in DOMAIN d THEN PlaceOf(x[1], d) ELSE Place(x[1], x[2])
Spots == ShardIds \X Nat

\* Except where somebody waits, each shard's link leads to the one next to it.
LinksFit(way, links, d, waiting) ==
  /\ \A l \in links : l = <<l[1], l[2]>> /\ l[1] \in DOMAIN d
  /\ \A t \in DOMAIN d :
       (\A x \in waiting : t # x[1] /\ t \notin Back(way, SpotOf(x, d), d)) =>
         \A u : <<t, u>> \in links <=> u \in Ahead(way, PlaceOf(t, d), d)

LEMMA SpotsArePlaces ==
  ASSUME NEW d, IsShards(d), NEW x \in Spots
  PROVE  /\ SpotOf(x, d) \in Places
         /\ x[1] \notin DOMAIN d => \A s \in DOMAIN d : PlaceOf(s, d) # SpotOf(x, d)
<1>1. x[1] \in ShardIds /\ x[2] \in Nat
  BY DEF Spots
<1>2. Place(x[1], x[2]) \in Places
  BY <1>1, PlacesDiffer
<1>3. ASSUME NEW s \in DOMAIN d, x[1] \notin DOMAIN d PROVE PlaceOf(s, d) # Place(x[1], x[2])
  BY <1>1, <1>3, PlacesDiffer DEF PlaceOf, IsShards
<1> QED
  BY <1>2, <1>3, PlacesOfShards DEF SpotOf

\* refreshProjectionNeighbors sets the links of those that waited for one shard.
Relinked(way, links, d, x) ==
  LET back == Back(way, SpotOf(x, d), d)
      ahead == Ahead(way, SpotOf(x, d), d)
      self == IF x[1] \in DOMAIN d THEN {x[1]} ELSE {}
      made == IF x[1] \in DOMAIN d THEN (back \X {x[1]}) \cup ({x[1]} \X ahead) ELSE back \X ahead
  IN {l \in links : l[1] \notin back \cup self} \cup made

LEMMA LinkingFits ==
  ASSUME NEW way \in {"next", "previous"}, NEW d, IsShards(d), NEW links, NEW waiting,
         NEW x \in Spots, LinksFit(way, links, d, waiting \cup {x})
  PROVE  LinksFit(way, Relinked(way, links, d, x), d, waiting)
<1> DEFINE back == Back(way, SpotOf(x, d), d)
           ahead == Ahead(way, SpotOf(x, d), d)
           self == IF x[1] \in DOMAIN d THEN {x[1]} ELSE {}
           made == IF x[1] \in DOMAIN d THEN (back \X {x[1]}) \cup ({x[1]} \X ahead)
                                          ELSE back \X ahead
           more == {l \in links : l[1] \notin back \cup self} \cup made
<1>7. more = Relinked(way, links, d, x)
  BY DEF Relinked
<1> DEFINE p == SpotOf(x, d)
           Of(t) == PlaceOf(t, d)
<1>1. /\ p \in Places /\ \A t \in DOMAIN d : Of(t) \in Places
      /\ x[1] \notin DOMAIN d => \A t \in DOMAIN d : Of(t) # p
      /\ x[1] \in DOMAIN d => p = Of(x[1])
      /\ \A s, t \in DOMAIN d : Of(s) = Of(t) => s = t
  BY SpotsArePlaces, PlacesOfShards DEF SpotOf
<1>2. /\ \A t : t \in back <=> /\ t \in DOMAIN d /\ Precedes(way, Of(t), p)
                               /\ ~Between(way, Of(t), p, d)
      /\ \A t : t \in ahead <=> /\ t \in DOMAIN d /\ Precedes(way, p, Of(t))
                                /\ ~Between(way, p, Of(t), d)
  BY <1>1, AheadFacts
<1>3. \A t \in DOMAIN d : \A u : u \in Ahead(way, Of(t), d) <=>
        /\ u \in DOMAIN d /\ Precedes(way, Of(t), Of(u)) /\ ~Between(way, Of(t), Of(u), d)
  BY <1>1, AheadFacts
<1> HIDE DEF p, Of, back, ahead
<1>4. \A a, b : Between(way, a, b, d) <=>
        \E u \in DOMAIN d : Precedes(way, a, Of(u)) /\ Precedes(way, Of(u), b)
  BY DEF Between, Of
<1>5. \A l \in more : l = <<l[1], l[2]>> /\ l[1] \in DOMAIN d
  <2>1. \A l \in made : l = <<l[1], l[2]>> /\ l[1] \in DOMAIN d
    BY <1>2
  <2> QED
    BY <2>1 DEF LinksFit
<1>6. ASSUME NEW t \in DOMAIN d, \A y \in waiting : t # y[1] /\ t \notin Back(way, SpotOf(y, d), d),
             NEW u
      PROVE  <<t, u>> \in more <=> u \in Ahead(way, Of(t), d)
  <2>1. CASE t = x[1]
    <3>1. t \notin back
      BY <1>1, <1>2, <2>1, PlacesAreOrdered
    <3>2. <<t, u>> \in more <=> u \in ahead
      BY <2>1, <3>1
    <3> QED
      BY <1>1, <1>2, <1>3, <2>1, <3>2
  <2>2. CASE t \in back /\ x[1] \in DOMAIN d /\ t # x[1]
    <3>1. <<t, u>> \in more <=> u = x[1]
      BY <2>2
    <3>2. x[1] \in Ahead(way, Of(t), d)
      BY <1>1, <1>2, <1>3, <2>2
    <3>3. ASSUME u \in Ahead(way, Of(t), d) PROVE u = x[1]
      <4>1. /\ u \in DOMAIN d /\ Precedes(way, Of(t), Of(u)) /\ Precedes(way, Of(t), p)
            /\ ~Precedes(way, Of(u), p) /\ ~Precedes(way, p, Of(u))
        BY <1>1, <1>2, <1>3, <1>4, <2>2, <3>3
      <4>2. Of(u) = p
        BY <1>1, <4>1, PlacesAreOrdered
      <4> QED
        BY <1>1, <2>2, <4>1, <4>2
    <3> QED
      BY <3>1, <3>2, <3>3
  <2>3. CASE t \in back /\ x[1] \notin DOMAIN d
    <3>1. <<t, u>> \in more <=> u \in ahead
      BY <2>3
    <3>2. Precedes(way, Of(t), p) /\ ~Between(way, Of(t), p, d)
      BY <1>2, <2>3
    <3>3. ASSUME NEW v \in DOMAIN d
          PROVE  Precedes(way, Of(t), Of(v)) <=> Precedes(way, p, Of(v))
      <4>1. ~Precedes(way, Of(t), Of(v)) \/ ~Precedes(way, Of(v), p)
        BY <1>4, <3>2
      <4>2. Of(v) # p /\ Of(v) \in Places /\ Of(t) \in Places /\ p \in Places
        BY <1>1, <2>3
      <4> QED
        BY <3>2, <4>1, <4>2, PlacesAreOrdered
    <3> QED
      BY <1>2, <1>3, <1>4, <3>1, <3>3
  <2>4. CASE t \notin back /\ t # x[1]
    <3>1. <<t, u>> \in more <=> <<t, u>> \in links
      BY <2>4
    <3>2. \A y \in waiting \cup {x} : t # y[1] /\ t \notin Back(way, SpotOf(y, d), d)
      BY <1>6, <2>4 DEF back
    <3> QED
      BY <3>1, <3>2 DEF LinksFit, Of
  <2> QED
    BY <2>1, <2>2, <2>3, <2>4
<1>8. LinksFit(way, more, d, waiting)
  <2> HIDE DEF more
  <2> QED
    BY <1>5, <1>6 DEF LinksFit, Of
<1> QED
  BY <1>7, <1>8

\* What two tables of shards have in common: the places of the shards that are in both.
Alike(d, e, s) ==
  \A t \in (DOMAIN d) \cap (DOMAIN e) : t # s => PlaceOf(t, d) = PlaceOf(t, e)

\* A shard that is new waits for its links.
LEMMA AddingFits ==
  ASSUME NEW way \in {"next", "previous"}, NEW d, IsShards(d), NEW e, IsShards(e),
         NEW s, s \notin DOMAIN d, DOMAIN e = (DOMAIN d) \cup {s}, Alike(d, e, s),
         NEW links, NEW waiting, waiting \subseteq Spots, \A x \in waiting : x[1] \in DOMAIN d,
         LinksFit(way, links, d, waiting), NEW z \in Spots, z[1] = s
  PROVE  LinksFit(way, links, e, waiting \cup {z})
<1> DEFINE Of(t) == PlaceOf(t, e)
<1>1. /\ \A t \in DOMAIN e : Of(t) \in Places
      /\ \A t \in DOMAIN d : PlaceOf(t, d) = Of(t)
  <2>1. \A t \in DOMAIN e : Of(t) \in Places
    BY PlacesOfShards
  <2> QED
    BY <2>1 DEF Alike
<1>2. /\ SpotOf(z, e) = Of(s)
      /\ \A x \in waiting : SpotOf(x, e) = Of(x[1]) /\ SpotOf(x, d) = Of(x[1])
  BY <1>1 DEF SpotOf
<1>3. ASSUME NEW t \in DOMAIN d, NEW v \in DOMAIN d
      PROVE  t \in Back(way, Of(v), d) <=>
               Precedes(way, Of(t), Of(v))
               /\ ~\E u \in DOMAIN d : Precedes(way, Of(t), Of(u)) /\ Precedes(way, Of(u), Of(v))
  <2>1. Of(v) \in Places
    BY <1>1
  <2>2. t \in Back(way, Of(v), d) <=>
          Precedes(way, PlaceOf(t, d), Of(v)) /\ ~Between(way, PlaceOf(t, d), Of(v), d)
    BY <2>1, AheadFacts
  <2> QED
    BY <1>1, <2>2 DEF Between
<1>4. ASSUME NEW t \in DOMAIN e, NEW v \in DOMAIN e
      PROVE  t \in Back(way, Of(v), e) <=>
               Precedes(way, Of(t), Of(v))
               /\ ~\E u \in DOMAIN e : Precedes(way, Of(t), Of(u)) /\ Precedes(way, Of(u), Of(v))
  BY <1>1, AheadFacts DEF Between
<1>5. ASSUME NEW t \in DOMAIN d, NEW v
      PROVE  v \in Ahead(way, PlaceOf(t, d), d) <=>
               /\ v \in DOMAIN d /\ Precedes(way, Of(t), Of(v))
               /\ ~\E u \in DOMAIN d : Precedes(way, Of(t), Of(u)) /\ Precedes(way, Of(u), Of(v))
  <2>1. Of(t) \in Places
    BY <1>1
  <2>2. v \in Ahead(way, Of(t), d) <=>
          v \in DOMAIN d /\ Precedes(way, Of(t), PlaceOf(v, d))
          /\ ~Between(way, Of(t), PlaceOf(v, d), d)
    BY <2>1, AheadFacts
  <2>3. PlaceOf(t, d) = Of(t)
    BY <1>1
  <2> QED
    BY <1>1, <2>2, <2>3 DEF Between
<1>6. ASSUME NEW t \in DOMAIN e, NEW v
      PROVE  v \in Ahead(way, Of(t), e) <=>
               /\ v \in DOMAIN e /\ Precedes(way, Of(t), Of(v))
               /\ ~\E u \in DOMAIN e : Precedes(way, Of(t), Of(u)) /\ Precedes(way, Of(u), Of(v))
  BY <1>1, AheadFacts DEF Between
<1> HIDE DEF Of
<1>7. ASSUME NEW t \in DOMAIN e,
             \A x \in waiting \cup {z} : t # x[1] /\ t \notin Back(way, SpotOf(x, e), e),
             NEW v
      PROVE  <<t, v>> \in links <=> v \in Ahead(way, Of(t), e)
  <2>1. /\ t \in DOMAIN d /\ s \in DOMAIN e
        /\ \/ ~Precedes(way, Of(t), Of(s))
           \/ \E u \in DOMAIN e : Precedes(way, Of(t), Of(u)) /\ Precedes(way, Of(u), Of(s))
    BY <1>2, <1>4, <1>7
  <2>2. \/ ~Precedes(way, Of(t), Of(s))
        \/ \E u \in DOMAIN d : Precedes(way, Of(t), Of(u)) /\ Precedes(way, Of(u), Of(s))
    <3>1. ~Precedes(way, Of(s), Of(s))
      BY <1>1, <2>1, PlacesAreOrdered
    <3> QED
      BY <2>1, <3>1
  <2>3. ASSUME NEW u \in DOMAIN e
        PROVE  (\E w \in DOMAIN e : Precedes(way, Of(t), Of(w)) /\ Precedes(way, Of(w), Of(u)))
               <=> (\E w \in DOMAIN d : Precedes(way, Of(t), Of(w)) /\ Precedes(way, Of(w), Of(u)))
    <3>1. ASSUME Precedes(way, Of(t), Of(s)), Precedes(way, Of(s), Of(u))
          PROVE  \E w \in DOMAIN d : Precedes(way, Of(t), Of(w)) /\ Precedes(way, Of(w), Of(u))
      <4>1. PICK w \in DOMAIN d : Precedes(way, Of(t), Of(w)) /\ Precedes(way, Of(w), Of(s))
        BY <2>2, <3>1
      <4>2. Precedes(way, Of(w), Of(u))
        BY <1>1, <2>1, <3>1, <4>1, PlacesAreOrdered
      <4> QED
        BY <4>1, <4>2
    <3> QED
      BY <3>1
  <2>4. \A x \in waiting : t # x[1] /\ t \notin Back(way, SpotOf(x, d), d)
    <3> SUFFICES ASSUME NEW x \in waiting PROVE t # x[1] /\ t \notin Back(way, SpotOf(x, d), d)
      OBVIOUS
    <3>1. t # x[1] /\ t \notin Back(way, Of(x[1]), e) /\ x[1] \in DOMAIN d
      BY <1>2, <1>7
    <3> QED
      BY <1>2, <1>3, <1>4, <2>1, <2>3, <3>1
  <2>5. <<t, v>> \in links <=> v \in Ahead(way, PlaceOf(t, d), d)
    BY <2>1, <2>4 DEF LinksFit
  <2>6. v = s => ~(v \in Ahead(way, Of(t), e))
    BY <1>6, <2>1, <2>2
  <2> QED
    BY <1>5, <1>6, <2>1, <2>3, <2>5, <2>6
<1>8. \A l \in links : l = <<l[1], l[2]>> /\ l[1] \in DOMAIN e
  BY DEF LinksFit
<1> QED
  BY <1>7, <1>8 DEF LinksFit, Of

\* A shard that goes leaves the one before it waiting.
LEMMA RemovingFits ==
  ASSUME NEW way \in {"next", "previous"}, NEW d, IsShards(d), NEW e, IsShards(e),
         NEW s \in DOMAIN d, DOMAIN e = (DOMAIN d) \ {s}, Alike(d, e, s),
         NEW links, LinksFit(way, links, d, {}), NEW z, z = <<s, d[s].last>>
  PROVE  LinksFit(way, Without(links, s), e, {z})
<1> DEFINE Of(t) == PlaceOf(t, d)
<1>1. /\ \A t \in DOMAIN d : Of(t) \in Places
      /\ \A t \in DOMAIN e : PlaceOf(t, e) = Of(t)
  <2>1. \A t \in DOMAIN d : Of(t) \in Places
    BY PlacesOfShards
  <2> QED
    BY <2>1 DEF Alike
<1>2. SpotOf(z, e) = Of(s) /\ z[1] = s
  BY DEF SpotOf, PlaceOf
<1>3. ASSUME NEW t \in DOMAIN e
      PROVE  t \in Back(way, Of(s), e) <=>
               Precedes(way, Of(t), Of(s))
               /\ ~\E u \in DOMAIN e : Precedes(way, Of(t), Of(u)) /\ Precedes(way, Of(u), Of(s))
  <2>1. Of(s) \in Places
    BY <1>1
  <2>2. t \in Back(way, Of(s), e) <=>
          Precedes(way, PlaceOf(t, e), Of(s)) /\ ~Between(way, PlaceOf(t, e), Of(s), e)
    BY <2>1, AheadFacts
  <2> QED
    BY <1>1, <2>2 DEF Between
<1>4. ASSUME NEW t \in DOMAIN d, NEW v
      PROVE  v \in Ahead(way, Of(t), d) <=>
               /\ v \in DOMAIN d /\ Precedes(way, Of(t), Of(v))
               /\ ~\E u \in DOMAIN d : Precedes(way, Of(t), Of(u)) /\ Precedes(way, Of(u), Of(v))
  BY <1>1, AheadFacts DEF Between
<1>5. ASSUME NEW t \in DOMAIN e, NEW v
      PROVE  v \in Ahead(way, PlaceOf(t, e), e) <=>
               /\ v \in DOMAIN e /\ Precedes(way, Of(t), Of(v))
               /\ ~\E u \in DOMAIN e : Precedes(way, Of(t), Of(u)) /\ Precedes(way, Of(u), Of(v))
  <2>1. Of(t) \in Places /\ PlaceOf(t, e) = Of(t)
    BY <1>1
  <2>2. v \in Ahead(way, Of(t), e) <=>
          v \in DOMAIN e /\ Precedes(way, Of(t), PlaceOf(v, e))
          /\ ~Between(way, Of(t), PlaceOf(v, e), e)
    BY <2>1, AheadFacts
  <2> QED
    BY <1>1, <2>1, <2>2 DEF Between
<1> HIDE DEF Of
<1>6. ASSUME NEW t \in DOMAIN e, t \notin Back(way, Of(s), e), NEW v
      PROVE  <<t, v>> \in Without(links, s) <=> v \in Ahead(way, PlaceOf(t, e), e)
  <2>1. <<t, v>> \in links <=> v \in Ahead(way, Of(t), d)
    BY DEF LinksFit, Of
  <2>2. \/ ~Precedes(way, Of(t), Of(s))
        \/ \E u \in DOMAIN e : Precedes(way, Of(t), Of(u)) /\ Precedes(way, Of(u), Of(s))
    BY <1>3, <1>6
  <2>3. ASSUME NEW u \in DOMAIN d
        PROVE  (\E w \in DOMAIN e : Precedes(way, Of(t), Of(w)) /\ Precedes(way, Of(w), Of(u)))
               <=> (\E w \in DOMAIN d : Precedes(way, Of(t), Of(w)) /\ Precedes(way, Of(w), Of(u)))
    <3>1. ASSUME Precedes(way, Of(t), Of(s)), Precedes(way, Of(s), Of(u))
          PROVE  \E w \in DOMAIN e : Precedes(way, Of(t), Of(w)) /\ Precedes(way, Of(w), Of(u))
      <4>1. PICK w \in DOMAIN e : Precedes(way, Of(t), Of(w)) /\ Precedes(way, Of(w), Of(s))
        BY <2>2, <3>1
      <4>2. Precedes(way, Of(w), Of(u))
        BY <1>1, <3>1, <4>1, PlacesAreOrdered
      <4> QED
        BY <4>1, <4>2
    <3> QED
      BY <3>1
  <2>4. <<t, v>> \in Without(links, s) <=> <<t, v>> \in links /\ v # s
    BY DEF Without
  <2> QED
    BY <1>4, <1>5, <2>1, <2>3, <2>4
<1>7. \A l \in Without(links, s) : l = <<l[1], l[2]>> /\ l[1] \in DOMAIN e
  BY DEF LinksFit, Without
<1> QED
  BY <1>2, <1>6, <1>7 DEF LinksFit

\* Of the shards before a place, if there are any, one is the last.
LEMMA SomePartBefore ==
  ASSUME NEW d, IsShards(d), NEW p \in Places, NEW t \in DOMAIN d, Earlier(PlaceOf(t, d), p)
  PROVE  PartBefore(p, d) # {}
<1> DEFINE S == {u \in DOMAIN d : Earlier(PlaceOf(u, d), p)}
           R == {r \in S \X S : Earlier(PlaceOf(r[2], d), PlaceOf(r[1], d))}
<1>1. /\ \A a, b \in Places : a = b \/ Earlier(a, b) \/ Earlier(b, a)
      /\ \A a, b, c \in Places : Earlier(a, b) /\ Earlier(b, c) => Earlier(a, c)
      /\ \A a \in Places : ~Earlier(a, a)
  <2>1. /\ \A a, b \in Places : a = b \/ Precedes("next", a, b) \/ Precedes("next", b, a)
        /\ \A a, b, c \in Places :
             Precedes("next", a, b) /\ Precedes("next", b, c) => Precedes("next", a, c)
        /\ \A a \in Places : ~Precedes("next", a, a)
    BY PlacesAreOrdered
  <2> QED
    BY <2>1 DEF Precedes
<1>2. /\ \A u \in DOMAIN d : PlaceOf(u, d) \in Places
      /\ \A u, v \in DOMAIN d : PlaceOf(u, d) = PlaceOf(v, d) => u = v
  BY PlacesOfShards
<1>3. IsFiniteSet(S)
  BY FS_Subset DEF IsShards
<1>4. /\ S # {} /\ \A u \in S : u \in DOMAIN d
      /\ \A x, y \in S : <<x, y>> \in R <=> Earlier(PlaceOf(y, d), PlaceOf(x, d))
  OBVIOUS
<1> HIDE DEF R
<1>5. /\ \A x \in S : <<x, x>> \notin R
      /\ \A x, y, z \in S : <<x, y>> \in R /\ <<y, z>> \in R => <<x, z>> \in R
      /\ \A x, y \in S : x = y \/ <<x, y>> \in R \/ <<y, x>> \in R
  <2> HIDE DEF S
  <2>1. \A x \in S : <<x, x>> \notin R
    BY <1>1, <1>2, <1>4
  <2>2. \A x, y \in S : x = y \/ <<x, y>> \in R \/ <<y, x>> \in R
    BY <1>1, <1>2, <1>4
  <2>3. ASSUME NEW x \in S, NEW y \in S, NEW z \in S, <<x, y>> \in R, <<y, z>> \in R
        PROVE  <<x, z>> \in R
    <3>1. /\ PlaceOf(x, d) \in Places /\ PlaceOf(y, d) \in Places /\ PlaceOf(z, d) \in Places
          /\ Earlier(PlaceOf(y, d), PlaceOf(x, d)) /\ Earlier(PlaceOf(z, d), PlaceOf(y, d))
      BY <1>2, <1>4, <2>3
    <3>2. Earlier(PlaceOf(z, d), PlaceOf(x, d))
      BY <1>1, <3>1
    <3> QED
      BY <1>4, <3>2
  <2> QED
    BY <2>1, <2>2, <2>3
<1>6. \E x \in S : \A y \in S : y = x \/ <<x, y>> \in R
  <2> HIDE DEF S
  <2> QED
    BY <1>3, <1>4, <1>5, OneIsFirst
<1>7. PICK x \in S : \A y \in S : y = x \/ Earlier(PlaceOf(y, d), PlaceOf(x, d))
  BY <1>4, <1>6
<1>8. x \in PartBefore(p, d)
  BY <1>7 DEF PartBefore
<1> QED
  BY <1>8

\* A shard that is stored again, and has the same shard before it, has its place in the order.
LEMMA SameOrder ==
  ASSUME NEW d, IsShards(d), NEW e, IsShards(e), NEW s \in DOMAIN d, DOMAIN e = DOMAIN d,
         Alike(d, e, s), PartBefore(PlaceOf(s, d), d) = PartBefore(PlaceOf(s, e), e),
         NEW way \in {"next", "previous"}, NEW t \in DOMAIN d, NEW u \in DOMAIN d
  PROVE  Precedes(way, PlaceOf(t, d), PlaceOf(u, d)) <=> Precedes(way, PlaceOf(t, e), PlaceOf(u, e))
<1>1. /\ \A a, b \in Places : a = b \/ Earlier(a, b) \/ Earlier(b, a)
      /\ \A a, b, c \in Places : Earlier(a, b) /\ Earlier(b, c) => Earlier(a, c)
      /\ \A a \in Places : ~Earlier(a, a)
  <2>1. /\ \A a, b \in Places : a = b \/ Precedes("next", a, b) \/ Precedes("next", b, a)
        /\ \A a, b, c \in Places :
             Precedes("next", a, b) /\ Precedes("next", b, c) => Precedes("next", a, c)
        /\ \A a \in Places : ~Precedes("next", a, a)
    BY PlacesAreOrdered
  <2> QED
    BY <2>1 DEF Precedes
<1>2. /\ \A v \in DOMAIN d : PlaceOf(v, d) \in Places /\ PlaceOf(v, e) \in Places
      /\ \A v, w \in DOMAIN d : PlaceOf(v, d) = PlaceOf(w, d) \/ PlaceOf(v, e) = PlaceOf(w, e) => v = w
      /\ \A v \in DOMAIN d : v # s => PlaceOf(v, d) = PlaceOf(v, e)
  <2>1. /\ \A v \in DOMAIN d : PlaceOf(v, d) \in Places
        /\ \A v, w \in DOMAIN d : PlaceOf(v, d) = PlaceOf(w, d) => v = w
    BY PlacesOfShards
  <2>2. /\ \A v \in DOMAIN e : PlaceOf(v, e) \in Places
        /\ \A v, w \in DOMAIN e : PlaceOf(v, e) = PlaceOf(w, e) => v = w
    BY PlacesOfShards
  <2> QED
    BY <2>1, <2>2 DEF Alike
<1>3. ASSUME NEW v \in DOMAIN d, v # s
      PROVE  Earlier(PlaceOf(v, d), PlaceOf(s, d)) <=> Earlier(PlaceOf(v, e), PlaceOf(s, e))
  <2>1. CASE PartBefore(PlaceOf(s, d), d) = {}
    BY <1>2, <2>1, SomePartBefore
  <2>2. CASE PartBefore(PlaceOf(s, d), d) # {}
    <3>1. PICK b : b \in PartBefore(PlaceOf(s, d), d) /\ b \in PartBefore(PlaceOf(s, e), e)
      BY <2>2
    <3>2. /\ b \in DOMAIN d /\ Earlier(PlaceOf(b, d), PlaceOf(s, d))
          /\ Earlier(PlaceOf(b, e), PlaceOf(s, e))
          /\ Earlier(PlaceOf(v, d), PlaceOf(s, d)) =>
               v = b \/ Earlier(PlaceOf(v, d), PlaceOf(b, d))
          /\ Earlier(PlaceOf(v, e), PlaceOf(s, e)) =>
               v = b \/ Earlier(PlaceOf(v, e), PlaceOf(b, e))
      BY <3>1 DEF PartBefore
    <3>3. b # s /\ PlaceOf(b, d) = PlaceOf(b, e) /\ PlaceOf(v, d) = PlaceOf(v, e)
      BY <1>1, <1>2, <1>3, <3>2
    <3> QED
      BY <1>1, <1>2, <3>2, <3>3
  <2> QED
    BY <2>1, <2>2
<1>4. ASSUME NEW v \in DOMAIN d, v # s
      PROVE  Earlier(PlaceOf(s, d), PlaceOf(v, d)) <=> Earlier(PlaceOf(s, e), PlaceOf(v, e))
  BY <1>1, <1>2, <1>3, <1>4
<1>5. ASSUME NEW v \in DOMAIN d, NEW w \in DOMAIN d
      PROVE  Earlier(PlaceOf(v, d), PlaceOf(w, d)) <=> Earlier(PlaceOf(v, e), PlaceOf(w, e))
  <2>1. CASE v = s /\ w = s
    BY <1>1, <1>2, <2>1
  <2>2. CASE v # s /\ w # s
    BY <1>2, <2>2
  <2> QED
    BY <1>3, <1>4, <2>1, <2>2
<1> QED
  BY <1>5 DEF Precedes

LEMMA KeepingFits ==
  ASSUME NEW way \in {"next", "previous"}, NEW d, IsShards(d), NEW e, IsShards(e),
         NEW s \in DOMAIN d, DOMAIN e = DOMAIN d, Alike(d, e, s),
         PartBefore(PlaceOf(s, d), d) = PartBefore(PlaceOf(s, e), e),
         NEW links, NEW waiting, \A x \in waiting : x[1] \in DOMAIN d,
         LinksFit(way, links, d, waiting), NEW z
  PROVE  LinksFit(way, links, e, waiting \cup {z})
<1>1. \A v, w \in DOMAIN d :
        Precedes(way, PlaceOf(v, d), PlaceOf(w, d)) <=> Precedes(way, PlaceOf(v, e), PlaceOf(w, e))
  BY SameOrder
<1>2. \A v \in DOMAIN d : PlaceOf(v, d) \in Places /\ PlaceOf(v, e) \in Places
  <2>1. \A v \in DOMAIN d : PlaceOf(v, d) \in Places
    BY PlacesOfShards
  <2>2. \A v \in DOMAIN e : PlaceOf(v, e) \in Places
    BY PlacesOfShards
  <2> QED
    BY <2>1, <2>2
<1>3. ASSUME NEW t \in DOMAIN d, NEW u \in DOMAIN d
      PROVE  Between(way, PlaceOf(t, d), PlaceOf(u, d), d)
               <=> Between(way, PlaceOf(t, e), PlaceOf(u, e), e)
  BY <1>1 DEF Between
<1>4. ASSUME NEW t \in DOMAIN d, NEW u
      PROVE  /\ u \in Ahead(way, PlaceOf(t, d), d) <=> u \in Ahead(way, PlaceOf(t, e), e)
             /\ u \in Back(way, PlaceOf(t, d), d) <=> u \in Back(way, PlaceOf(t, e), e)
  <2>1. /\ u \in Ahead(way, PlaceOf(t, d), d) <=>
             /\ u \in DOMAIN d /\ Precedes(way, PlaceOf(t, d), PlaceOf(u, d))
             /\ ~Between(way, PlaceOf(t, d), PlaceOf(u, d), d)
        /\ u \in Back(way, PlaceOf(t, d), d) <=>
             /\ u \in DOMAIN d /\ Precedes(way, PlaceOf(u, d), PlaceOf(t, d))
             /\ ~Between(way, PlaceOf(u, d), PlaceOf(t, d), d)
    BY <1>2, AheadFacts
  <2>2. /\ u \in Ahead(way, PlaceOf(t, e), e) <=>
             /\ u \in DOMAIN e /\ Precedes(way, PlaceOf(t, e), PlaceOf(u, e))
             /\ ~Between(way, PlaceOf(t, e), PlaceOf(u, e), e)
        /\ u \in Back(way, PlaceOf(t, e), e) <=>
             /\ u \in DOMAIN e /\ Precedes(way, PlaceOf(u, e), PlaceOf(t, e))
             /\ ~Between(way, PlaceOf(u, e), PlaceOf(t, e), e)
    BY <1>2, AheadFacts
  <2> QED
    BY <1>1, <1>3, <2>1, <2>2
<1>5. \A x \in waiting : SpotOf(x, d) = PlaceOf(x[1], d) /\ SpotOf(x, e) = PlaceOf(x[1], e)
  BY DEF SpotOf
<1>6. ASSUME NEW t \in DOMAIN e,
             \A x \in waiting \cup {z} : t # x[1] /\ t \notin Back(way, SpotOf(x, e), e), NEW u
      PROVE  <<t, u>> \in links <=> u \in Ahead(way, PlaceOf(t, e), e)
  <2>1. \A x \in waiting : t # x[1] /\ t \notin Back(way, SpotOf(x, d), d)
    BY <1>4, <1>5, <1>6
  <2>2. <<t, u>> \in links <=> u \in Ahead(way, PlaceOf(t, d), d)
    BY <2>1 DEF LinksFit
  <2> QED
    BY <1>4, <2>2
<1>7. \A l \in links : l = <<l[1], l[2]>> /\ l[1] \in DOMAIN e
  BY DEF LinksFit
<1> QED
  BY <1>6, <1>7 DEF LinksFit

\* Links that all fit are the chain.
LEMMA ChainFits ==
  ASSUME NEW d, IsShards(d)
  PROVE  /\ \A links : LinksFit("next", links, d, {}) <=> links = Chain(d)
         /\ \A links : LinksFit("previous", links, d, {}) <=> links = Reversed(Chain(d))
<1> DEFINE Of(t) == PlaceOf(t, d)
<1>1. \A t \in DOMAIN d : Of(t) \in Places
  BY PlacesOfShards
<1>2. \A t, u : <<t, u>> \in Chain(d) <=> t \in DOMAIN d /\ u \in PartAfter(Of(t), d)
  BY DEF Chain, PartAfter
<1>3. \A l \in Chain(d) : l = <<l[1], l[2]>> /\ l[1] \in DOMAIN d /\ l[2] \in DOMAIN d
  BY DEF Chain
<1>4. \A t, u \in DOMAIN d : u \in PartAfter(Of(t), d) <=> t \in PartBefore(Of(u), d)
  <2> TAKE t \in DOMAIN d, u \in DOMAIN d
  <2>1. /\ u \in Ahead("next", Of(t), d) <=>
             Precedes("next", Of(t), Of(u)) /\ ~Between("next", Of(t), Of(u), d)
        /\ t \in Back("next", Of(u), d) <=>
             Precedes("next", Of(t), Of(u)) /\ ~Between("next", Of(t), Of(u), d)
    BY <1>1, AheadFacts
  <2> QED
    BY <2>1 DEF Ahead, Back
<1>5. \A t, u : <<t, u>> \in Reversed(Chain(d)) <=> t \in DOMAIN d /\ u \in PartBefore(Of(t), d)
  <2>1. \A t, u : <<t, u>> \in Reversed(Chain(d)) <=> <<u, t>> \in Chain(d)
    BY <1>3 DEF Reversed
  <2>2. \A t, u : u \in PartBefore(Of(t), d) => u \in DOMAIN d
    BY DEF PartBefore
  <2>3. \A t, u : u \in PartAfter(Of(t), d) => u \in DOMAIN d
    BY DEF PartAfter
  <2> QED
    BY <1>2, <1>4, <2>1, <2>2, <2>3
<1>6. \A l \in Reversed(Chain(d)) : l = <<l[1], l[2]>> /\ l[1] \in DOMAIN d
  BY <1>3 DEF Reversed
<1>7. ASSUME NEW links
      PROVE  LinksFit("next", links, d, {}) <=> links = Chain(d)
  <2>1. LinksFit("next", links, d, {}) <=>
          /\ \A l \in links : l = <<l[1], l[2]>> /\ l[1] \in DOMAIN d
          /\ \A t \in DOMAIN d : \A u : <<t, u>> \in links <=> u \in PartAfter(Of(t), d)
    BY DEF LinksFit, Ahead
  <2> HIDE DEF Of
  <2> QED
    BY <1>2, <1>3, <2>1
<1>8. ASSUME NEW links
      PROVE  LinksFit("previous", links, d, {}) <=> links = Reversed(Chain(d))
  <2>1. LinksFit("previous", links, d, {}) <=>
          /\ \A l \in links : l = <<l[1], l[2]>> /\ l[1] \in DOMAIN d
          /\ \A t \in DOMAIN d : \A u : <<t, u>> \in links <=> u \in PartBefore(Of(t), d)
    BY DEF LinksFit, Ahead
  <2> HIDE DEF Of
  <2> QED
    BY <1>5, <1>6, <2>1
<1> QED
  BY <1>7, <1>8

\* What the model computes are shards: finitely many, each with a key and claims.
LEMMA ImageIsFinite ==
  ASSUME NEW S, IsFiniteSet(S), NEW f, f = [x \in S |-> f[x]]
  PROVE  IsFiniteSet({f[x] : x \in S})
<1> DEFINE T == {f[x] : x \in S}
<1>1. f \in [S -> T]
  OBVIOUS
<1>2. \A t \in T : \E x \in S : f[x] = t
  OBVIOUS
<1> HIDE DEF T
<1>3. f \in Surjection(S, T)
  BY <1>1, <1>2 DEF Surjection
<1>4. IsFiniteSet(T)
  BY <1>3, FS_Surjection
<1> QED
  BY <1>4 DEF T

LEMMA SomeIsGreatest ==
  ASSUME NEW S, S \subseteq Nat, IsFiniteSet(S), S # {}
  PROVE  \E k \in S : \A l \in S : l <= k
<1> DEFINE R == {r \in S \X S : r[2] < r[1]}
<1>1. \A x, y \in S : <<x, y>> \in R <=> y < x
  OBVIOUS
<1> HIDE DEF R
<1>2. /\ \A x \in S : <<x, x>> \notin R
      /\ \A x, y, z \in S : <<x, y>> \in R /\ <<y, z>> \in R => <<x, z>> \in R
      /\ \A x, y \in S : x = y \/ <<x, y>> \in R \/ <<y, x>> \in R
  BY <1>1
<1>3. PICK x \in S : \A y \in S : y = x \/ <<x, y>> \in R
  BY <1>2, OneIsFirst
<1>4. ASSUME NEW y \in S PROVE y <= x
  <2>1. y = x \/ y < x
    BY <1>1, <1>3
  <2>2. x \in Nat /\ y \in Nat
    OBVIOUS
  <2> QED
    BY <2>1, <2>2
<1> QED
  BY <1>4

LEMMA FactsAreFinite ==
  /\ IsFiniteSet(Facts) /\ Facts \subseteq Nat
  /\ \A S : S \subseteq Facts => IsFiniteSet(S)
<1>1. ClaimCount \in Nat
  BY ShardChainAssumption
<1>2. IsFiniteSet(1 .. ClaimCount)
  BY <1>1, FS_Interval
<1>3. Facts \subseteq Nat
  BY <1>1 DEF Facts
<1> QED
  BY <1>2, <1>3, FS_Subset DEF Facts

LEMMA LastKeyIsNat ==
  ASSUME NEW claims, claims \subseteq Facts, NEW section, NEW ends \in [Facts -> Nat]
  PROVE  LastKey(claims, section, ends) \in Nat
<1> DEFINE f == [c \in claims |-> SortKey(c, section, ends)]
           keys == {SortKey(c, section, ends) : c \in claims}
<1>1. ASSUME NEW c \in claims PROVE SortKey(c, section, ends) \in Nat
  <2>1. c \in Nat /\ ends[c] \in Nat /\ ClaimCount + 1 \in Nat
    BY FactsAreFinite, ShardChainAssumption
  <2> DEFINE time == IF section = "history" /\ ends[c] # 0 THEN ends[c] ELSE c
  <2>2. time \in Nat
    BY <2>1
  <2>3. SortKey(c, section, ends) = (ClaimCount + 1) * time + c
    BY DEF SortKey
  <2> HIDE DEF time
  <2> DEFINE n == ClaimCount + 1
  <2>4. n \in Nat
    BY <2>1
  <2>5. SortKey(c, section, ends) = n * time + c
    BY <2>3
  <2> HIDE DEF n
  <2>6. n * time \in Nat
    BY <2>2, <2>4
  <2> QED
    BY <2>1, <2>5, <2>6
<1>2. keys = {f[c] : c \in claims}
  OBVIOUS
<1>3. IsFiniteSet({f[c] : c \in claims})
  <2>1. IsFiniteSet(claims)
    BY FactsAreFinite
  <2>2. f = [c \in claims |-> f[c]]
    OBVIOUS
  <2> HIDE DEF f
  <2> QED
    BY <2>1, <2>2, ImageIsFinite
<1>4. keys \subseteq Nat /\ IsFiniteSet(keys)
  BY <1>1, <1>2, <1>3
<1>5. LastKey(claims, section, ends) =
        IF keys = {} THEN 0 ELSE CHOOSE k \in keys : \A l \in keys : l <= k
  BY DEF LastKey
<1> HIDE DEF keys, f
<1>6. ASSUME keys # {} PROVE (CHOOSE k \in keys : \A l \in keys : l <= k) \in keys
  <2>1. \E k \in keys : \A l \in keys : l <= k
    BY <1>4, <1>6, SomeIsGreatest
  <2> QED
    BY <2>1
<1>7. CASE keys = {}
  BY <1>5, <1>7
<1>8. CASE keys # {}
  <2>1. LastKey(claims, section, ends) \in keys
    BY <1>5, <1>6, <1>8, Zenon
  <2> QED
    BY <1>4, <2>1
<1> QED
  BY <1>7, <1>8

LEMMA CutIs ==
  ASSUME NEW claims, claims \subseteq Facts, NEW section, NEW ends, NEW size \in Nat \ {0}
  PROVE  /\ Cut(claims, section, ends, size) \in Seq(SUBSET claims)
         /\ IsFiniteSet(DOMAIN Cut(claims, section, ends, size))
         /\ DOMAIN Cut(claims, section, ends, size) \subseteq Nat
<1> DEFINE n == Cardinality(claims) + size - 1
           m == n \div size
           Part(i) == {c \in claims : Cardinality({d \in claims :
                         SortKey(d, section, ends) < SortKey(c, section, ends)}) \div size = i - 1}
<1>1. n \in Nat
  <2>1. Cardinality(claims) \in Nat
    BY FactsAreFinite, FS_CardinalityType
  <2> QED
    BY <2>1
<1>2. Cut(claims, section, ends, size) = [i \in 1 .. m |-> Part(i)]
  BY DEF Cut
<1> HIDE DEF n
<1>3. m \in Nat
  BY <1>1
<1>4. \A i : Part(i) \in SUBSET claims
  OBVIOUS
<1> HIDE DEF m, Part
<1>5. [i \in 1 .. m |-> Part(i)] \in Seq(SUBSET claims)
  BY <1>3, <1>4
<1>6. IsFiniteSet(1 .. m)
  BY <1>3, FS_Interval
<1>7. DOMAIN [i \in 1 .. m |-> Part(i)] = 1 .. m /\ 1 .. m \subseteq Nat
  BY <1>3
<1> QED
  BY <1>2, <1>5, <1>6, <1>7

LEMMA RowIsShard ==
  ASSUME NEW claims, claims \subseteq Facts, NEW section, NEW ends \in [Facts -> Nat]
  PROVE  LET row == ShardRow(claims, section, ends)
         IN  /\ row = [f \in {"last", "claims"} |-> row[f]]
             /\ row.last \in Nat /\ row.claims \subseteq Facts
<1>1. LastKey(claims, section, ends) \in Nat
  BY LastKeyIsNat
<1> QED
  BY <1>1 DEF ShardRow

LEMMA LayoutIsShards ==
  ASSUME NEW kinds, NEW ends \in [Facts -> Nat]
  PROVE  IsShards(Layout(kinds, ends))
<1> DEFINE Of(section) == {c \in Facts : Belongs(c, section, kinds)}
           Parts(section) == Cut(Of(section), section, ends, PackedRoom)
           Ids(section) == {<<section, i>> : i \in DOMAIN Parts(section)}
           ids == (UNION {Ids(section) : section \in Sections})
                  \cup (IF Of("current_state") = {} THEN {} ELSE {Overview})
           SectionRow(s) == ShardRow(IF s = Overview THEN Latest ELSE Parts(s[1])[s[2]], s[1], ends)
<1>1. Layout(kinds, ends) = [s \in ids |-> SectionRow(s)]
  BY DEF Layout
<1>2. ASSUME NEW section
      PROVE  /\ Parts(section) \in Seq(SUBSET Facts) /\ IsFiniteSet(DOMAIN Parts(section))
             /\ DOMAIN Parts(section) \subseteq Nat
  <2>1. Of(section) \subseteq Facts
    OBVIOUS
  <2>2. PackedRoom \in Nat \ {0}
    BY ShardChainAssumption
  <2> HIDE DEF Of
  <2>3. /\ Parts(section) \in Seq(SUBSET Of(section)) /\ IsFiniteSet(DOMAIN Parts(section))
        /\ DOMAIN Parts(section) \subseteq Nat
    BY <2>1, <2>2, CutIs
  <2> HIDE DEF Parts
  <2> QED
    BY <2>1, <2>3
<1> HIDE DEF Parts, Of
<1>3. ASSUME NEW section
      PROVE  IsFiniteSet(Ids(section))
  <2> DEFINE f == [i \in DOMAIN Parts(section) |-> <<section, i>>]
  <2>1. IsFiniteSet({f[i] : i \in DOMAIN Parts(section)})
    <3>1. f = [i \in DOMAIN Parts(section) |-> f[i]]
      OBVIOUS
    <3> HIDE DEF f
    <3> QED
      BY <1>2, <3>1, ImageIsFinite
  <2>2. Ids(section) = {f[i] : i \in DOMAIN Parts(section)}
    OBVIOUS
  <2> QED
    BY <2>1, <2>2
<1>4. \A s \in ids : s = Overview \/ \E section \in Sections : \E i \in DOMAIN Parts(section) : s = <<section, i>>
  <2>1. \A section \in Sections : \A s \in Ids(section) : \E i \in DOMAIN Parts(section) : s = <<section, i>>
    OBVIOUS
  <2> HIDE DEF Ids
  <2>2. \A s \in ids : s = Overview \/ \E section \in Sections : s \in Ids(section)
    OBVIOUS
  <2> HIDE DEF ids
  <2> QED
    BY <2>1, <2>2
<1>5. ids \subseteq ShardIds
  BY <1>2, <1>4 DEF ShardIds, Sections, Overview
<1>6. IsFiniteSet(ids)
  <2>1. UNION {Ids(section) : section \in Sections} =
          Ids("current_state") \cup Ids("history") \cup Ids("evidence")
    BY DEF Sections
  <2>2. IsFiniteSet(Ids("current_state")) /\ IsFiniteSet(Ids("history")) /\ IsFiniteSet(Ids("evidence"))
    BY <1>3
  <2>3. IsFiniteSet(IF Of("current_state") = {} THEN {} ELSE {Overview})
    BY FS_EmptySet, FS_Singleton
  <2> HIDE DEF Ids
  <2>4. IsFiniteSet(Ids("current_state") \cup Ids("history"))
    BY <2>2, FS_Union
  <2>5. IsFiniteSet(Ids("current_state") \cup Ids("history") \cup Ids("evidence"))
    BY <2>2, <2>4, FS_Union
  <2> DEFINE A == UNION {Ids(section) : section \in Sections}
             B == IF Of("current_state") = {} THEN {} ELSE {Overview}
  <2>6. ids = A \cup B
    OBVIOUS
  <2>7. IsFiniteSet(A) /\ IsFiniteSet(B)
    BY <2>1, <2>3, <2>5
  <2> HIDE DEF A, B, ids
  <2>8. IsFiniteSet(A \cup B)
    BY <2>7, FS_Union
  <2> QED
    BY <2>6, <2>8
<1>7. ASSUME NEW s \in ids
      PROVE  /\ SectionRow(s) = [f \in {"last", "claims"} |-> SectionRow(s)[f]]
             /\ SectionRow(s).last \in Nat /\ SectionRow(s).claims \subseteq Facts
  <2> DEFINE claims == IF s = Overview THEN Latest ELSE Parts(s[1])[s[2]]
  <2>1. claims \subseteq Facts
    <3>1. CASE s = Overview
      BY <3>1 DEF Latest
    <3>2. CASE s # Overview
      <4>1. PICK section \in Sections : \E i \in DOMAIN Parts(section) : s = <<section, i>>
        BY <1>4, <3>2
      <4>2. s[2] \in DOMAIN Parts(section) /\ s[1] = section
        BY <4>1
      <4> QED
        BY <1>2, <3>2, <4>2
    <3> QED
      BY <3>1, <3>2
  <2> HIDE DEF claims
  <2>2. LET row == ShardRow(claims, s[1], ends)
        IN  /\ row = [f \in {"last", "claims"} |-> row[f]]
            /\ row.last \in Nat /\ row.claims \subseteq Facts
    BY <2>1, RowIsShard
  <2> QED
    BY <2>2 DEF claims
<1> HIDE DEF ids, SectionRow
<1> QED
  BY <1>1, <1>5, <1>6, <1>7 DEF IsShards

LEMMA NoShardsAreShards == IsShards(NoShards)
<1>1. DOMAIN NoShards = {}
  BY DEF NoShards
<1> QED
  BY <1>1, FS_EmptySet DEF IsShards

LEMMA OrdinalIsNat ==
  ASSUME IsShards(rows), NEW section
  PROVE  NextOrdinal(section) \in Nat
<1> DEFINE S == InSection(section)
           f == [s \in S |-> s[2]]
           ordinals == {0} \cup {s[2] : s \in S}
<1>1. IsFiniteSet(S) /\ \A s \in S : s[2] \in Nat
  <2>1. S \subseteq DOMAIN rows
    BY DEF InSection
  <2> HIDE DEF S
  <2>2. \A s \in ShardIds : s[2] \in Nat
    BY DEF ShardIds
  <2> QED
    BY <2>1, <2>2, FS_Subset DEF IsShards
<1>2. {s[2] : s \in S} = {f[s] : s \in S} /\ f = [s \in S |-> f[s]]
  OBVIOUS
<1>3. IsFiniteSet({f[s] : s \in S})
  <2> HIDE DEF f, S
  <2> QED
    BY <1>1, <1>2, ImageIsFinite
<1>4. IsFiniteSet(ordinals) /\ ordinals \subseteq Nat /\ ordinals # {}
  <2>1. IsFiniteSet({0})
    BY FS_Singleton
  <2> DEFINE A == {f[s] : s \in S}
  <2>2. IsFiniteSet(A) /\ ordinals = {0} \cup A
    BY <1>2, <1>3, Zenon
  <2>3. A \subseteq Nat
    BY <1>1
  <2> HIDE DEF A, f, ordinals
  <2>4. IsFiniteSet({0} \cup A)
    BY <2>1, <2>2, FS_Union
  <2> QED
    BY <2>2, <2>3, <2>4
<1>5. \E n \in ordinals : \A s \in S : s[2] <= n
  <2>1. \E n \in ordinals : \A l \in ordinals : l <= n
    <3> HIDE DEF ordinals
    <3> QED
      BY <1>4, SomeIsGreatest
  <2> QED
    BY <2>1
<1>6. NextOrdinal(section) = 1 + (CHOOSE n \in ordinals : \A s \in S : s[2] <= n)
  BY DEF NextOrdinal
<1> HIDE DEF ordinals, S, f
<1>7. (CHOOSE n \in ordinals : \A s \in S : s[2] <= n) \in ordinals
  BY <1>5
<1> DEFINE n == CHOOSE k \in ordinals : \A s \in S : s[2] <= k
<1>8. n \in Nat
  BY <1>4, <1>7
<1> HIDE DEF n
<1>9. NextOrdinal(section) = 1 + n
  BY <1>6 DEF n
<1> QED
  BY <1>8, <1>9

\* What the worker is doing, and which links it has yet to set.
Waits(links) == {links[i] : i \in DOMAIN links}
RepairShape(r) ==
  r = [f \in {"at", "job", "changed", "shards", "adds", "groups", "into", "parts", "links",
              "before", "ends", "kinds"} |-> r[f]]
RepairFits(r, d) ==
  /\ RepairShape(r)
  /\ r.into \in ShardIds /\ r.parts \in Seq(SUBSET Facts) /\ r.links \in Seq(Spots)
  /\ r.parts # <<>> \/ r.at = "compile" => r.ends \in [Facts -> Nat]
  /\ r.parts # <<>> => \A x \in Waits(r.links) : x[1] \in DOMAIN d
  /\ r.shards \subseteq DOMAIN d /\ r.adds \subseteq Sections \X Facts
  /\ \A g \in r.groups : g[1] \in Sections /\ g[2] \subseteq DOMAIN d /\ g[3] \subseteq Facts
  /\ r.shards # {} => r.groups = {}
BothFit(n, p, d, waiting) ==
  LinksFit("next", n, d, waiting) /\ LinksFit("previous", p, d, waiting)
ChainInv ==
  /\ ended \in [Facts -> Nat] /\ dirty \subseteq Facts
  /\ IsShards(rows)
  /\ RepairFits(repair, rows)
  /\ ~frayed => BothFit(next, previous, rows, Waits(repair.links))

\* A step that leaves pages and links alone keeps the invariant if what is to be done is right.
LEMMA SamePages ==
  ASSUME ChainInv, UNCHANGED <<rows, next, previous, frayed>>, repair'.links = repair.links,
         RepairFits(repair', rows), ended' \in [Facts -> Nat], dirty' \subseteq Facts
  PROVE  ChainInv'
<1>1. RepairFits(repair', rows') /\ IsShards(rows')
  <2>1. rows' = rows
    OBVIOUS
  <2> QED
    BY <2>1 DEF ChainInv
<1>2. ~frayed' => BothFit(next', previous', rows', Waits(repair'.links))
  <2>1. rows' = rows /\ next' = next /\ previous' = previous /\ frayed' = frayed
    OBVIOUS
  <2> QED
    BY <2>1 DEF ChainInv
<1> QED
  BY <1>1, <1>2 DEF ChainInv

LEMMA NothingFits ==
  ASSUME NEW d
  PROVE  RepairFits(NoRepair, d) /\ NoRepair.links = <<>> /\ NoRepair.parts = <<>> /\ Waits(<<>>) = {}
<1>1. Overview \in ShardIds
  BY DEF Overview, ShardIds
<1>2. RepairShape(NoRepair)
  BY DEF NoRepair, RepairShape
<1>3. /\ NoRepair.at = "idle" /\ NoRepair.shards = {} /\ NoRepair.adds = {} /\ NoRepair.groups = {}
      /\ NoRepair.into = Overview /\ NoRepair.parts = <<>> /\ NoRepair.links = <<>>
  BY DEF NoRepair
<1>4. Waits(<<>>) = {} /\ <<>> \in Seq(SUBSET Facts) /\ <<>> \in Seq(Spots)
  BY DEF Waits
<1> QED
  BY <1>1, <1>2, <1>3, <1>4 DEF RepairFits

\* What is learned or corrected touches no page.
LEMMA LedgerKeepsChain ==
  ASSUME ChainInv,
         \/ \E c \in Facts : Learn(c) \/ LearnAgain(c) \/ Leave(c)
         \/ \E c, new \in Facts : Supersede(c, new)
  PROVE  ChainInv'
<1>1. UNCHANGED <<rows, next, previous, frayed, repair>>
  BY DEF Learn, LearnAgain, Leave, Supersede, Marked
<1>2. \A c \in Facts : c \in Nat
  BY FactsAreFinite
<1>3. ended' \in [Facts -> Nat] /\ dirty' \subseteq Facts
  <2>1. CASE \E c \in Facts : Learn(c)
    <3>1. PICK c \in Facts : Learn(c)
      BY <2>1
    <3>2. PICK old \in {{}} \cup {{d} : d \in {d \in Facts : d < c /\ kind[d] = "current"}} :
            ended' = [d \in Facts |-> IF d \in old THEN c ELSE ended[d]] /\ Marked({c} \cup old)
      BY <3>1 DEF Learn
    <3>3. ended' \in [Facts -> Nat]
      BY <1>2, <3>2 DEF ChainInv
    <3>4. dirty' = dirty \cup ({c} \cup old) /\ old \subseteq Facts
      BY <3>2 DEF Marked
    <3> QED
      BY <3>3, <3>4 DEF ChainInv
  <2>2. CASE \E c \in Facts : LearnAgain(c) \/ Leave(c)
    BY <2>2 DEF LearnAgain, Leave, Marked, ChainInv
  <2>3. CASE \E c, new \in Facts : Supersede(c, new)
    BY <1>2, <2>3 DEF Supersede, ChainInv
  <2> QED
    BY <2>1, <2>2, <2>3
<1>4. RepairFits(repair', rows)
  BY <1>1 DEF ChainInv
<1> QED
  BY <1>1, <1>3, <1>4, SamePages

LEMMA BeginningFits ==
  ASSUME ChainInv, NEW task
  PROVE  /\ RepairFits(Begun(task), rows) /\ Begun(task).links = <<>>
         /\ LET r == [NoRepair EXCEPT !.at = "compile", !.job = task, !.changed = dirty,
                                      !.ends = ended, !.kinds = kind]
            IN RepairFits(r, rows) /\ r.links = <<>>
         /\ LET r == [NoRepair EXCEPT !.at = "compile", !.job = "rebuild",
                                      !.ends = ended, !.kinds = kind]
            IN RepairFits(r, rows) /\ r.links = <<>>
<1>1. RepairFits(NoRepair, rows) /\ NoRepair.links = <<>> /\ NoRepair.parts = <<>> /\ RepairShape(NoRepair)
  BY NothingFits DEF RepairFits
<1>2. RepairFits(Begun(task), rows) /\ Begun(task).links = <<>>
  <2> DEFINE shards == (UNION {Holding(c) : c \in dirty}) \ {Overview}
             adds == {a \in Sections \X dirty :
                        Belongs(a[2], a[1], kind) /\ \A s \in Holding(a[2]) : s[1] # a[1]}
             before == Snapshot(rows, Listed)
  <2>1. Begun(task) = [NoRepair EXCEPT !.at = "shards", !.job = task, !.changed = dirty,
                          !.shards = shards, !.adds = adds, !.before = before,
                          !.ends = ended, !.kinds = kind]
    BY DEF Begun
  <2>2. shards \subseteq DOMAIN rows
    BY DEF Holding
  <2>3. adds \subseteq Sections \X Facts
    BY DEF ChainInv
  <2> HIDE DEF shards, adds, before
  <2>4. /\ Begun(task).at = "shards" /\ Begun(task).shards = shards /\ Begun(task).adds = adds
        /\ Begun(task).ends = ended /\ Begun(task).into = NoRepair.into
        /\ Begun(task).parts = NoRepair.parts /\ Begun(task).links = NoRepair.links
        /\ Begun(task).groups = NoRepair.groups /\ RepairShape(Begun(task))
    BY <1>1, <2>1 DEF RepairShape
  <2>5. NoRepair.groups = {}
    BY DEF NoRepair
  <2> QED
    BY <1>1, <2>2, <2>3, <2>4, <2>5 DEF RepairFits, ChainInv
<1>3. ASSUME NEW r, NEW changed, NEW its,
             r = [NoRepair EXCEPT !.at = "compile", !.job = its, !.changed = changed,
                                  !.ends = ended, !.kinds = kind]
      PROVE  RepairFits(r, rows) /\ r.links = <<>>
  <2>1. /\ r.at = "compile" /\ r.shards = NoRepair.shards /\ r.adds = NoRepair.adds
        /\ r.ends = ended /\ r.into = NoRepair.into
        /\ r.parts = NoRepair.parts /\ r.links = NoRepair.links
        /\ r.groups = NoRepair.groups /\ RepairShape(r)
    BY <1>1, <1>3 DEF RepairShape
  <2> QED
    BY <1>1, <2>1 DEF RepairFits, ChainInv
<1>4. [NoRepair EXCEPT !.at = "compile", !.job = "rebuild", !.ends = ended, !.kinds = kind] =
        [NoRepair EXCEPT !.at = "compile", !.job = "rebuild", !.changed = NoRepair.changed,
                         !.ends = ended, !.kinds = kind]
  BY <1>1 DEF RepairShape
<1> QED
  BY <1>2, <1>3, <1>4, Zenon

LEMMA BeginningKeepsChain ==
  ASSUME ChainInv, BeginRepair \/ BeginRebuild \/ CompleteRepair
  PROVE  ChainInv'
<1>1. UNCHANGED <<rows, next, previous, frayed, ended>> /\ dirty' \subseteq dirty /\ repair.links = <<>>
  BY NothingFits DEF BeginRepair, BeginRebuild, CompleteRepair, pageRows, ledgerRows, Working
<1>2. RepairFits(repair', rows) /\ repair'.links = <<>>
  <2>1. CASE BeginRepair
    BY <2>1, BeginningFits, Zenon DEF BeginRepair
  <2>2. CASE BeginRebuild
    BY <2>2, BeginningFits, Zenon DEF BeginRebuild
  <2>3. CASE CompleteRepair
    BY <2>3, BeginningFits, NothingFits, Zenon DEF CompleteRepair
  <2> QED
    BY <2>1, <2>2, <2>3
<1>3. ended' \in [Facts -> Nat] /\ dirty' \subseteq Facts
  BY <1>1 DEF ChainInv
<1> QED
  BY <1>1, <1>2, <1>3, SamePages

\* Parts of a shard are claims; they wait to be stored and nobody waits for a link yet.
LEMMA PartsFit ==
  ASSUME NEW r, NEW q, NEW d, RepairFits(r, d), r.links = <<>>,
         RepairShape(q), q.links = r.links, q.into \in ShardIds,
         q.parts \in Seq(SUBSET Facts), q.ends \in [Facts -> Nat],
         q.shards \subseteq r.shards, q.adds = r.adds, q.groups \subseteq r.groups
  PROVE  RepairFits(q, d)
<1>1. Waits(q.links) = {}
  BY NothingFits
<1> QED
  BY <1>1 DEF RepairFits

LEMMA BoundedKeepsChain ==
  ASSUME ChainInv, NEW s \in repair.shards, NEW claims, claims \subseteq Facts,
         Working("shards"), Bounded(s, claims),
         UNCHANGED <<ledgerRows, dirty, rebuilding, shardDeaths, frayed>>
  PROVE  ChainInv'
<1> DEFINE parts == Cut(claims, s[1], ended, Room)
<1>1. /\ repair' = [repair EXCEPT !.into = s, !.ends = ended, !.shards = @ \ {s}, !.parts = parts]
      /\ UNCHANGED <<rows, next, previous, frayed, ended, dirty>> /\ repair.links = <<>>
  BY DEF Bounded, pageRows, ledgerRows, Working
<1>2. parts \in Seq(SUBSET Facts)
  <2>1. Room \in Nat \ {0}
    BY ShardChainAssumption
  <2>2. parts \in Seq(SUBSET claims)
    BY <2>1, CutIs
  <2> HIDE DEF parts
  <2> QED
    BY <2>2
<1> HIDE DEF parts
<1>3. /\ RepairShape(repair') /\ repair'.links = repair.links /\ repair'.into = s
      /\ repair'.parts = parts /\ repair'.ends = ended
      /\ repair'.shards = repair.shards \ {s} /\ repair'.adds = repair.adds
      /\ repair'.groups = repair.groups
  BY <1>1 DEF ChainInv, RepairFits, RepairShape
<1>4. s \in ShardIds /\ ended \in [Facts -> Nat]
  BY DEF ChainInv, RepairFits, IsShards
<1>5. RepairFits(repair', rows)
  BY <1>1, <1>2, <1>3, <1>4, PartsFit DEF ChainInv
<1> QED
  BY <1>1, <1>3, <1>5, SamePages DEF ChainInv

LEMMA ArchiveKeepsChain ==
  ASSUME ChainInv, NEW s \in repair.shards, Working("shards"), Archive(s),
         UNCHANGED <<ledgerRows, dirty, rebuilding, shardDeaths, frayed>>
  PROVE  ChainInv'
<1> DEFINE z == <<s, rows[s].last>>
           links == <<z>>
<1>1. /\ rows' = [t \in DOMAIN rows \ {s} |-> rows[t]]
      /\ next' = Without(next, s) /\ previous' = Without(previous, s)
      /\ repair' = [repair EXCEPT !.shards = @ \ {s}, !.links = links]
      /\ UNCHANGED <<ended, dirty, frayed>> /\ repair.links = <<>> /\ repair.parts = <<>>
      /\ repair.at = "shards"
  BY DEF Archive, ledgerRows, Working
<1>2. /\ IsShards(rows) /\ s \in DOMAIN rows /\ RepairFits(repair, rows)
      /\ ended \in [Facts -> Nat] /\ dirty \subseteq Facts
  BY DEF ChainInv, RepairFits
<1>3. z \in Spots
  BY <1>2 DEF IsShards, Spots
<1>4. Waits(links) = {z} /\ links \in Seq(Spots)
  <2> HIDE DEF z
  <2> QED
    BY <1>3 DEF Waits
<1>5. ~frayed => BothFit(next, previous, rows, {})
  BY <1>1, NothingFits DEF ChainInv
<1> HIDE DEF z, links
<1>6. /\ RepairShape(repair') /\ repair'.links = links /\ repair'.into = repair.into
      /\ repair'.parts = <<>> /\ repair'.at = "shards"
      /\ repair'.shards = repair.shards \ {s} /\ repair'.adds = repair.adds
      /\ repair'.groups = repair.groups
  BY <1>1, <1>2 DEF RepairFits, RepairShape
<1>7. IsShards(rows') /\ DOMAIN rows' = (DOMAIN rows) \ {s} /\ Alike(rows, rows', s)
  <2>1. DOMAIN rows' = (DOMAIN rows) \ {s} /\ \A t \in DOMAIN rows' : rows'[t] = rows[t]
    BY <1>1
  <2>2. IsFiniteSet(DOMAIN rows')
    BY <1>2, <2>1, FS_Subset DEF IsShards
  <2> QED
    BY <1>2, <2>1, <2>2 DEF IsShards, Alike, PlaceOf
<1>8. ~frayed' => BothFit(next', previous', rows', Waits(repair'.links))
  <2>5. Waits(repair'.links) = {z}
    BY <1>4, <1>6
  <2>6. ~frayed' => ~frayed
    BY <1>1
  <2> SUFFICES ASSUME ~frayed PROVE BothFit(next', previous', rows', {z})
    BY <2>5, <2>6
  <2>1. LinksFit("next", next, rows, {}) /\ LinksFit("previous", previous, rows, {})
    BY <1>5 DEF BothFit
  <2>2. z = <<s, rows[s].last>>
    BY DEF z
  <2>3. LinksFit("next", Without(next, s), rows', {z})
    BY <1>2, <1>7, <2>1, <2>2, RemovingFits
  <2>4. LinksFit("previous", Without(previous, s), rows', {z})
    BY <1>2, <1>7, <2>1, <2>2, RemovingFits
  <2> QED
    BY <1>1, <2>3, <2>4 DEF BothFit
<1>9. RepairFits(repair', rows')
  <2>1. repair'.groups = {}
    BY <1>2, <1>6 DEF RepairFits
  <2>2. repair'.shards \subseteq DOMAIN rows'
    BY <1>2, <1>6, <1>7 DEF RepairFits
  <2>3. <<>> \in Seq(SUBSET Facts)
    OBVIOUS
  <2> QED
    BY <1>2, <1>4, <1>6, <2>1, <2>2, <2>3 DEF RepairFits
<1> QED
  BY <1>1, <1>2, <1>7, <1>8, <1>9 DEF ChainInv

LEMMA TakingKeepsChain ==
  ASSUME ChainInv, TakeShard
  PROVE  ChainInv'
<1>1. PICK s \in repair.shards :
        LET removed == {c \in repair.changed : repair.kinds[c] = "gone"}
        IN IF Kept(s) \ removed = {} THEN Archive(s) ELSE Bounded(s, Kept(s) \ removed)
  BY DEF TakeShard
<1>2. Working("shards") /\ UNCHANGED <<ledgerRows, dirty, rebuilding, shardDeaths, frayed>>
  BY DEF TakeShard
<1>3. Kept(s) \subseteq Facts
  BY DEF ChainInv, RepairFits, IsShards, Kept
<1> DEFINE claims == Kept(s) \ {c \in repair.changed : repair.kinds[c] = "gone"}
<1>4. claims \subseteq Facts /\ (Archive(s) \/ Bounded(s, claims))
  BY <1>1, <1>3
<1> HIDE DEF claims
<1>5. CASE Archive(s)
  BY <1>2, <1>5, ArchiveKeepsChain
<1>6. CASE Bounded(s, claims)
  BY <1>2, <1>4, <1>6, BoundedKeepsChain
<1> QED
  BY <1>4, <1>5, <1>6

\* Additions go to the shard they are routed to, or to none.
LEMMA RoutingKeepsChain ==
  ASSUME ChainInv, RouteAdditions
  PROVE  ChainInv'
<1>1. PICK section \in {a[1] : a \in repair.adds} :
        LET added == {a[2] : a \in {b \in repair.adds : b[1] = section}}
            shards(c) == Route(section, SortKey(c, section, repair.ends))
        IN repair' = [repair EXCEPT
             !.groups = {<<section, shards(c), {d \in added : shards(d) = shards(c)}>> : c \in added},
             !.adds = {a \in @ : a[1] # section}]
  BY DEF RouteAdditions
<1> DEFINE added == {a[2] : a \in {b \in repair.adds : b[1] = section}}
           shards(c) == Route(section, SortKey(c, section, repair.ends))
           groups == {<<section, shards(c), {d \in added : shards(d) = shards(c)}>> : c \in added}
           adds == {a \in repair.adds : a[1] # section}
<1>2. /\ repair' = [repair EXCEPT !.groups = groups, !.adds = adds]
      /\ repair.shards = {} /\ UNCHANGED <<rows, next, previous, frayed, ended, dirty>>
  BY <1>1 DEF RouteAdditions, ledgerRows, pageRows
<1>3. section \in Sections /\ added \subseteq Facts /\ adds \subseteq Sections \X Facts
  BY DEF ChainInv, RepairFits
<1>4. \A c : shards(c) \subseteq DOMAIN rows
  BY DEF Route, InSection
<1>5. \A g \in groups : g[1] \in Sections /\ g[2] \subseteq DOMAIN rows /\ g[3] \subseteq Facts
  <2> HIDE DEF shards, added
  <2> QED
    BY <1>3, <1>4
<1> HIDE DEF shards, added, groups, adds
<1>6. /\ RepairShape(repair') /\ repair'.links = repair.links /\ repair'.into = repair.into
      /\ repair'.parts = repair.parts /\ repair'.at = repair.at /\ repair'.ends = repair.ends
      /\ repair'.shards = repair.shards /\ repair'.adds = adds /\ repair'.groups = groups
  BY <1>2 DEF ChainInv, RepairFits, RepairShape
<1>7. RepairFits(repair', rows)
  BY <1>2, <1>3, <1>5, <1>6 DEF ChainInv, RepairFits
<1> QED
  BY <1>2, <1>6, <1>7, SamePages DEF ChainInv

LEMMA GroupKeepsChain ==
  ASSUME ChainInv, TakeGroup
  PROVE  ChainInv'
<1>1. PICK g \in repair.groups :
        LET into == IF g[2] = {} THEN <<g[1], 0>> ELSE CHOOSE s \in g[2] : TRUE
            held == IF g[2] = {} THEN {} ELSE Kept(into)
        IN repair' = [repair EXCEPT !.groups = @ \ {g}, !.into = into, !.ends = ended,
                                    !.parts = Cut(held \cup g[3], g[1], ended, Room)]
  BY DEF TakeGroup
<1> DEFINE into == IF g[2] = {} THEN <<g[1], 0>> ELSE CHOOSE s \in g[2] : TRUE
           held == IF g[2] = {} THEN {} ELSE Kept(into)
           claims == held \cup g[3]
           parts == Cut(claims, g[1], ended, Room)
<1>2. /\ repair' = [repair EXCEPT !.groups = @ \ {g}, !.into = into, !.ends = ended, !.parts = parts]
      /\ UNCHANGED <<rows, next, previous, frayed, ended, dirty>> /\ repair.links = <<>>
  BY <1>1 DEF TakeGroup, Working, ledgerRows, pageRows
<1>3. g[1] \in Sections /\ g[2] \subseteq DOMAIN rows /\ g[3] \subseteq Facts
  BY DEF ChainInv, RepairFits
<1>4. into \in ShardIds /\ claims \subseteq Facts
  <2>1. CASE g[2] = {}
    BY <1>3, <2>1 DEF ShardIds, Sections
  <2>2. CASE g[2] # {}
    <3>1. into \in g[2]
      BY <2>2
    <3>2. into \in DOMAIN rows
      BY <1>3, <3>1
    <3> HIDE DEF into
    <3>3. Kept(into) \subseteq Facts /\ into \in ShardIds
      BY <3>2 DEF Kept, ChainInv, IsShards
    <3> QED
      BY <1>3, <2>2, <3>3
  <2> QED
    BY <2>1, <2>2
<1> HIDE DEF claims
<1>5. parts \in Seq(SUBSET Facts)
  <2>1. Room \in Nat \ {0}
    BY ShardChainAssumption
  <2>2. parts \in Seq(SUBSET claims)
    BY <1>4, <2>1, CutIs
  <2> HIDE DEF parts
  <2> QED
    BY <1>4, <2>2
<1> HIDE DEF into, parts
<1>6. /\ RepairShape(repair') /\ repair'.links = repair.links /\ repair'.into = into
      /\ repair'.parts = parts /\ repair'.ends = ended
      /\ repair'.shards = repair.shards /\ repair'.adds = repair.adds
      /\ repair'.groups = repair.groups \ {g}
  BY <1>2 DEF ChainInv, RepairFits, RepairShape
<1>7. RepairFits(repair', rows)
  <2>1. ended \in [Facts -> Nat] /\ RepairFits(repair, rows)
    BY DEF ChainInv
  <2> QED
    BY <1>2, <1>4, <1>5, <1>6, <2>1, PartsFit
<1> QED
  BY <1>2, <1>6, <1>7, SamePages DEF ChainInv

LEMMA OverviewKeepsChain ==
  ASSUME ChainInv, StoreOverview \/ RefreshIndex
  PROVE  ChainInv'
<1>1. UNCHANGED <<rows, next, previous, frayed, ended, dirty>> /\ repair.links = <<>> /\ repair.parts = <<>>
  BY DEF StoreOverview, RefreshIndex, Working, ledgerRows, pageRows
<1>2. ended \in [Facts -> Nat] /\ RepairFits(repair, rows)
  BY DEF ChainInv
<1>3. CASE StoreOverview
  <2> DEFINE parts == <<Latest>>
  <2>1. repair' = [repair EXCEPT !.at = "index", !.into = Overview, !.ends = ended, !.parts = parts]
    BY <1>3 DEF StoreOverview
  <2>2. Latest \subseteq Facts /\ Overview \in ShardIds
    BY DEF Latest, Overview, ShardIds
  <2>3. parts \in Seq(SUBSET Facts)
    BY <2>2
  <2> HIDE DEF parts
  <2>4. /\ RepairShape(repair') /\ repair'.links = repair.links /\ repair'.into = Overview
        /\ repair'.parts = parts /\ repair'.ends = ended
        /\ repair'.shards = repair.shards /\ repair'.adds = repair.adds
        /\ repair'.groups = repair.groups
    BY <1>2, <2>1 DEF RepairFits, RepairShape
  <2>5. RepairFits(repair', rows)
    BY <1>1, <1>2, <2>2, <2>3, <2>4, PartsFit
  <2> QED
    BY <1>1, <2>4, <2>5, SamePages DEF ChainInv
<1>4. CASE RefreshIndex
  <2>1. repair' = [repair EXCEPT !.at = "complete"]
    BY <1>4 DEF RefreshIndex
  <2>2. /\ RepairShape(repair') /\ repair'.links = repair.links /\ repair'.into = repair.into
        /\ repair'.parts = repair.parts /\ repair'.ends = repair.ends /\ repair'.at = "complete"
        /\ repair'.shards = repair.shards /\ repair'.adds = repair.adds
        /\ repair'.groups = repair.groups
    BY <1>2, <2>1 DEF RepairFits, RepairShape
  <2>3. RepairFits(repair', rows)
    BY <1>1, <1>2, <2>2 DEF RepairFits
  <2> QED
    BY <1>1, <2>2, <2>3, SamePages DEF ChainInv
<1> QED
  BY <1>3, <1>4

\* A part that is stored has its place, and it and the part before it wait for their links.
LEMMA StoringKeepsChain ==
  ASSUME ChainInv, StorePart
  PROVE  ChainInv'
<1> DEFINE section == repair.into[1]
           s == <<section, IF repair.into[2] = 0 THEN NextOrdinal(section) ELSE repair.into[2]>>
           claims == Head(repair.parts)
           row == ShardRow(claims, section, repair.ends)
           z == <<s, row.last>>
           links == Append(repair.links, z)
           moved == s \in DOMAIN rows
                    /\ PartBefore(PlaceOf(s, rows), rows) # PartBefore(PlaceOf(s, rows'), rows')
<1>1. /\ repair.parts # <<>>
      /\ rows' = [t \in DOMAIN rows \cup {s} |-> IF t = s THEN row ELSE rows[t]]
      /\ repair' = [repair EXCEPT !.parts = Tail(@), !.into = <<section, 0>>, !.links = links]
      /\ frayed' = (frayed \/ moved)
      /\ UNCHANGED <<ended, dirty, next, previous>>
  BY DEF StorePart, ledgerRows
<1>2. /\ ended \in [Facts -> Nat] /\ dirty \subseteq Facts /\ IsShards(rows)
      /\ RepairFits(repair, rows) /\ (~frayed => BothFit(next, previous, rows, Waits(repair.links)))
  BY DEF ChainInv
<1>3. section \in {"overview", "current_state", "history", "evidence"} /\ repair.into[2] \in Nat
  BY <1>2 DEF RepairFits, ShardIds
<1>4. s \in ShardIds /\ <<section, 0>> \in ShardIds
  <2>1. NextOrdinal(section) \in Nat
    BY <1>2, OrdinalIsNat
  <2> QED
    BY <1>3, <2>1 DEF ShardIds
<1>5. claims \subseteq Facts /\ repair.ends \in [Facts -> Nat]
  BY <1>1, <1>2 DEF RepairFits
<1> HIDE DEF claims, section
<1>6. row = [f \in {"last", "claims"} |-> row[f]] /\ row.last \in Nat /\ row.claims \subseteq Facts
  BY <1>5, RowIsShard
<1> HIDE DEF row, s
<1>7. z \in Spots /\ z[1] = s
  BY <1>4, <1>6 DEF Spots
<1> HIDE DEF z
<1>8. links \in Seq(Spots) /\ Waits(links) = Waits(repair.links) \cup {z} /\ Waits(repair.links) \subseteq Spots
  <2>1. repair.links \in Seq(Spots)
    BY <1>2 DEF RepairFits
  <2> DEFINE l == repair.links
  <2>2. l \in Seq(Spots)
    BY <2>1
  <2> HIDE DEF l
  <2>3. Append(l, z) \in Seq(Spots) /\ Waits(Append(l, z)) = Waits(l) \cup {z} /\ Waits(l) \subseteq Spots
    BY <1>7, <2>2 DEF Waits
  <2> QED
    BY <2>3 DEF l
<1> HIDE DEF links, moved
<1>9. /\ RepairShape(repair') /\ repair'.links = links /\ repair'.into = <<section, 0>>
      /\ repair'.parts = Tail(repair.parts) /\ repair'.ends = repair.ends
      /\ repair'.shards = repair.shards /\ repair'.adds = repair.adds
      /\ repair'.groups = repair.groups
  BY <1>1, <1>2 DEF RepairFits, RepairShape
<1>10. /\ DOMAIN rows' = (DOMAIN rows) \cup {s} /\ rows'[s] = row
       /\ \A t \in DOMAIN rows : t # s => rows'[t] = rows[t]
  BY <1>1
<1>11. IsShards(rows') /\ Alike(rows, rows', s)
  <2>1. IsFiniteSet((DOMAIN rows) \cup {s})
    <3>1. IsFiniteSet(DOMAIN rows) /\ IsFiniteSet({s})
      BY <1>2, FS_Singleton DEF IsShards
    <3> QED
      BY <3>1, FS_Union
  <2>2. DOMAIN rows' \subseteq ShardIds
    BY <1>2, <1>4, <1>10 DEF IsShards
  <2>3. ASSUME NEW t \in DOMAIN rows'
        PROVE  /\ rows'[t] = [f \in {"last", "claims"} |-> rows'[t][f]]
               /\ rows'[t].last \in Nat /\ rows'[t].claims \subseteq Facts
    <3>1. CASE t = s
      BY <1>6, <1>10, <3>1
    <3>2. CASE t # s
      BY <1>2, <1>10, <3>2 DEF IsShards
    <3> QED
      BY <3>1, <3>2
  <2>4. Alike(rows, rows', s)
    BY <1>10 DEF Alike, PlaceOf
  <2> QED
    BY <1>10, <2>1, <2>2, <2>3, <2>4 DEF IsShards
<1>12. \A x \in Waits(repair.links) : x[1] \in DOMAIN rows
  BY <1>1, <1>2 DEF RepairFits
<1>13. RepairFits(repair', rows')
  <2>1. Tail(repair.parts) \in Seq(SUBSET Facts)
    BY <1>1, <1>2 DEF RepairFits
  <2>2. \A x \in Waits(links) : x[1] \in DOMAIN rows'
    BY <1>7, <1>8, <1>10, <1>12
  <2> QED
    BY <1>2, <1>4, <1>5, <1>8, <1>9, <1>10, <2>1, <2>2 DEF RepairFits
<1>14. ~frayed' => BothFit(next', previous', rows', Waits(repair'.links))
  <2> SUFFICES ASSUME ~frayed, ~moved
               PROVE  BothFit(next, previous, rows', Waits(repair.links) \cup {z})
    <3>1. Waits(repair'.links) = Waits(repair.links) \cup {z} /\ next' = next /\ previous' = previous
      BY <1>1, <1>8, <1>9
    <3>2. ~frayed' => ~frayed /\ ~moved
      BY <1>1, Zenon
    <3> QED
      BY <3>1, <3>2, Zenon
  <2>1. /\ LinksFit("next", next, rows, Waits(repair.links))
        /\ LinksFit("previous", previous, rows, Waits(repair.links))
    BY <1>2, Zenon DEF BothFit
  <2>2. CASE s \notin DOMAIN rows
    <3>1. LinksFit("next", next, rows', Waits(repair.links) \cup {z})
      BY <1>2, <1>7, <1>8, <1>10, <1>11, <1>12, <2>1, <2>2, AddingFits
    <3>2. LinksFit("previous", previous, rows', Waits(repair.links) \cup {z})
      BY <1>2, <1>7, <1>8, <1>10, <1>11, <1>12, <2>1, <2>2, AddingFits
    <3> QED
      BY <3>1, <3>2 DEF BothFit
  <2>3. CASE s \in DOMAIN rows
    <3>1. PartBefore(PlaceOf(s, rows), rows) = PartBefore(PlaceOf(s, rows'), rows')
      BY <2>3, Zenon DEF moved
    <3>2. DOMAIN rows' = DOMAIN rows
      BY <1>10, <2>3
    <3>3. LinksFit("next", next, rows', Waits(repair.links) \cup {z})
      BY <1>2, <1>11, <1>12, <2>1, <2>3, <3>1, <3>2, KeepingFits
    <3>4. LinksFit("previous", previous, rows', Waits(repair.links) \cup {z})
      BY <1>2, <1>11, <1>12, <2>1, <2>3, <3>1, <3>2, KeepingFits
    <3> QED
      BY <3>3, <3>4 DEF BothFit
  <2> QED
    BY <2>2, <2>3
<1> QED
  BY <1>1, <1>2, <1>11, <1>13, <1>14 DEF ChainInv

LEMMA ReversedIs ==
  /\ \A S, T : Reversed(S \X T) = T \X S
  /\ \A A, B : Reversed(A \cup B) = Reversed(A) \cup Reversed(B)
<1>1. ASSUME NEW S, NEW T, NEW a PROVE a \in Reversed(S \X T) <=> a \in T \X S
  <2>1. ASSUME a \in T \X S PROVE a \in Reversed(S \X T)
    <3>1. <<a[2], a[1]>> \in S \X T /\ a = <<a[1], a[2]>>
      BY <2>1
    <3>2. a = << <<a[2], a[1]>>[2], <<a[2], a[1]>>[1] >>
      BY <3>1
    <3> QED
      BY <3>1, <3>2 DEF Reversed
  <2>2. ASSUME a \in Reversed(S \X T) PROVE a \in T \X S
    BY <2>2 DEF Reversed
  <2> QED
    BY <2>1, <2>2
<1>2. ASSUME NEW A, NEW B PROVE Reversed(A \cup B) = Reversed(A) \cup Reversed(B)
  BY DEF Reversed
<1>3. ASSUME NEW S, NEW T PROVE Reversed(S \X T) = T \X S
  BY <1>1
<1> QED
  BY <1>2, <1>3

\* The links of a part are set as they belong, in both directions.
LEMMA LinkingKeepsChain ==
  ASSUME ChainInv, LinkPart
  PROVE  ChainInv'
<1> DEFINE x == Head(repair.links)
           s == x[1]
           here == s \in DOMAIN rows
           place == IF here THEN PlaceOf(s, rows) ELSE Place(s, x[2])
           left == PartBefore(place, rows)
           right == PartAfter(place, rows)
           made == IF here THEN (left \X {s}) \cup ({s} \X right) ELSE left \X right
           self == IF here THEN {s} ELSE {}
           waiting == Waits(Tail(repair.links))
<1>1. /\ repair.parts = <<>> /\ repair.links # <<>>
      /\ next' = {l \in next : l[1] \notin left \cup self} \cup made
      /\ previous' = {l \in previous : l[1] \notin right \cup self} \cup Reversed(made)
      /\ repair' = [repair EXCEPT !.links = Tail(@)]
      /\ UNCHANGED <<ended, dirty, rows, frayed>>
  BY Zenon DEF LinkPart, Linked, ledgerRows
<1>2. /\ ended \in [Facts -> Nat] /\ dirty \subseteq Facts /\ IsShards(rows)
      /\ RepairFits(repair, rows) /\ (~frayed => BothFit(next, previous, rows, Waits(repair.links)))
  BY DEF ChainInv
<1>3. /\ x \in Spots /\ Tail(repair.links) \in Seq(Spots)
      /\ Waits(repair.links) = waiting \cup {x}
  <2> DEFINE l == repair.links
  <2>1. l \in Seq(Spots) /\ l # <<>>
    BY <1>1, <1>2 DEF RepairFits
  <2> HIDE DEF l
  <2>2. Head(l) \in Spots /\ Tail(l) \in Seq(Spots)
    BY <2>1
  <2>3. Waits(l) = Waits(Tail(l)) \cup {Head(l)}
    <3>1. Len(l) \in Nat \ {0} /\ DOMAIN l = 1 .. Len(l) /\ DOMAIN Tail(l) = 1 .. Len(l) - 1
          /\ Head(l) = l[1] /\ \A i \in 1 .. Len(l) - 1 : Tail(l)[i] = l[i + 1]
      BY <2>1
    <3>2. \A i \in DOMAIN l : i = 1 \/ (i - 1 \in DOMAIN Tail(l) /\ l[i] = Tail(l)[i - 1])
      BY <3>1
    <3>3. \A i \in DOMAIN Tail(l) : i + 1 \in DOMAIN l /\ Tail(l)[i] = l[i + 1]
      BY <3>1
    <3>4. 1 \in DOMAIN l
      BY <3>1
    <3> QED
      BY <3>1, <3>2, <3>3, <3>4 DEF Waits
  <2> QED
    BY <2>2, <2>3 DEF l
<1>4. place = SpotOf(x, rows)
  BY DEF SpotOf
<1>5. left = Back("next", place, rows) /\ right = Ahead("next", place, rows)
      /\ right = Back("previous", place, rows) /\ left = Ahead("previous", place, rows)
  BY DEF Back, Ahead
<1>6. Reversed(made) = IF here THEN (right \X {s}) \cup ({s} \X left) ELSE right \X left
  <2> HIDE DEF left, right, here, s
  <2>1. CASE here
    <3>1. made = (left \X {s}) \cup ({s} \X right)
      BY <2>1
    <3> HIDE DEF made
    <3>2. Reversed((left \X {s}) \cup ({s} \X right)) = (right \X {s}) \cup ({s} \X left)
      <4> DEFINE A == left \X {s}
                 B == {s} \X right
      <4>1. Reversed(A) = {s} \X left /\ Reversed(B) = right \X {s}
        BY ReversedIs
      <4> HIDE DEF A, B
      <4>2. Reversed(A \cup B) = Reversed(A) \cup Reversed(B)
        BY ReversedIs
      <4> QED
        BY <4>1, <4>2 DEF A, B
    <3> QED
      BY <2>1, <3>1, <3>2
  <2>2. CASE ~here
    <3>1. made = left \X right
      BY <2>2
    <3> HIDE DEF made
    <3>2. Reversed(left \X right) = right \X left
      BY ReversedIs
    <3> QED
      BY <2>2, <3>1, <3>2
  <2> QED
    BY <2>1, <2>2
<1>7. /\ RepairShape(repair') /\ repair'.links = Tail(repair.links) /\ repair'.into = repair.into
      /\ repair'.parts = <<>> /\ repair'.ends = repair.ends /\ repair'.at = repair.at
      /\ repair'.shards = repair.shards /\ repair'.adds = repair.adds
      /\ repair'.groups = repair.groups
  <2> HIDE DEF x, waiting
  <2> QED
    BY <1>1, <1>2 DEF RepairFits, RepairShape
<1>8. RepairFits(repair', rows')
  <2> HIDE DEF x, waiting
  <2> QED
    BY <1>1, <1>2, <1>3, <1>7 DEF RepairFits
<1>9. ~frayed' => BothFit(next', previous', rows', Waits(repair'.links))
  <2> SUFFICES ASSUME ~frayed PROVE BothFit(next', previous', rows, waiting)
    <3>1. Waits(repair'.links) = waiting /\ rows' = rows /\ frayed' = frayed
      BY <1>1, <1>7
    <3> QED
      BY <3>1, Zenon
  <2>1. /\ LinksFit("next", next, rows, waiting \cup {x})
        /\ LinksFit("previous", previous, rows, waiting \cup {x})
    BY <1>2, <1>3, Zenon DEF BothFit
  <2> DEFINE turned == Reversed(made)
             onward == next'
             backward == previous'
  <2>2. /\ made = (IF x[1] \in DOMAIN rows THEN (left \X {x[1]}) \cup ({x[1]} \X right) ELSE left \X right)
        /\ turned = (IF x[1] \in DOMAIN rows THEN (right \X {x[1]}) \cup ({x[1]} \X left) ELSE right \X left)
        /\ self = (IF x[1] \in DOMAIN rows THEN {x[1]} ELSE {})
    BY <1>6
  <2>3. /\ onward = {l \in next : l[1] \notin left \cup self} \cup made
        /\ backward = {l \in previous : l[1] \notin right \cup self} \cup turned
    BY <1>1
  <2>4. left = Back("next", SpotOf(x, rows), rows) /\ right = Ahead("next", SpotOf(x, rows), rows)
        /\ right = Back("previous", SpotOf(x, rows), rows) /\ left = Ahead("previous", SpotOf(x, rows), rows)
    BY <1>4, <1>5
  <2> HIDE DEF turned, onward, backward, made, left, right, self, x, waiting, s, here, place
  <2>5. /\ LinksFit("next", Relinked("next", next, rows, x), rows, waiting)
        /\ LinksFit("previous", Relinked("previous", previous, rows, x), rows, waiting)
    BY <1>2, <1>3, <2>1, LinkingFits
  <2>6. /\ onward = Relinked("next", next, rows, x)
        /\ backward = Relinked("previous", previous, rows, x)
    BY <2>2, <2>3, <2>4 DEF Relinked
  <2> QED
    BY <2>5, <2>6 DEF BothFit, onward, backward
<1> QED
  BY <1>1, <1>2, <1>8, <1>9 DEF ChainInv

\* A full compilation lays the parts out anew; unless an old link stays, that is the chain.
LEMMA CompilingKeepsChain ==
  ASSUME ChainInv, Compile
  PROVE  ChainInv'
<1>1. /\ repair.at = "compile"
      /\ rows' = IF Fits(repair.kinds) THEN NoShards ELSE Layout(repair.kinds, repair.ends)
      /\ dirty' \subseteq dirty /\ repair' = NoRepair /\ ended' = ended
      /\ frayed' = (next' # Chain(rows') \/ previous' # Reversed(Chain(rows')))
  BY DEF Compile, Working, ledgerRows
<1>2. IsShards(rows')
  <2>1. repair.ends \in [Facts -> Nat]
    BY <1>1 DEF ChainInv, RepairFits
  <2>2. IsShards(Layout(repair.kinds, repair.ends))
    BY <2>1, LayoutIsShards
  <2> QED
    BY <1>1, <2>2, NoShardsAreShards
<1>3. RepairFits(repair', rows') /\ Waits(repair'.links) = {}
  BY <1>1, NothingFits
<1>4. ~frayed' => BothFit(next', previous', rows', Waits(repair'.links))
  <2>1. ~frayed' => next' = Chain(rows') /\ previous' = Reversed(Chain(rows'))
    BY <1>1, Zenon
  <2>2. BothFit(Chain(rows'), Reversed(Chain(rows')), rows', {})
    BY <1>2, ChainFits DEF BothFit
  <2> QED
    BY <1>3, <2>1, <2>2
<1> QED
  BY <1>1, <1>2, <1>3, <1>4 DEF ChainInv

LEMMA DeathKeepsChain ==
  ASSUME ChainInv, WorkerDies
  PROVE  ChainInv'
<1> DEFINE Held(s) == {c \in rows[s].claims : s[1] = "overview" \/ Belongs(c, s[1], kind)}
           key(s) == LastKey(Held(s), s[1], ended)
<1>1. /\ rows' = [s \in DOMAIN rows |-> [rows[s] EXCEPT !.last = key(s)]]
      /\ repair' = NoRepair /\ frayed' = TRUE /\ UNCHANGED <<ended, dirty>>
  BY DEF WorkerDies, RangesOfClaims, ledgerRows
<1>2. ASSUME NEW s \in DOMAIN rows
      PROVE  /\ rows'[s] = [f \in {"last", "claims"} |-> rows'[s][f]]
             /\ rows'[s].last \in Nat /\ rows'[s].claims \subseteq Facts
  <2>1. Held(s) \subseteq Facts /\ ended \in [Facts -> Nat]
    BY DEF ChainInv, IsShards
  <2> HIDE DEF Held
  <2>2. key(s) \in Nat
    BY <2>1, LastKeyIsNat
  <2> HIDE DEF key
  <2>3. rows[s] = [f \in {"last", "claims"} |-> rows[s][f]] /\ rows[s].claims \subseteq Facts
    BY DEF ChainInv, IsShards
  <2>4. rows'[s] = [rows[s] EXCEPT !.last = key(s)]
    BY <1>1
  <2> QED
    BY <2>2, <2>3, <2>4
<1>3. IsShards(rows')
  <2>1. DOMAIN rows' = DOMAIN rows
    BY <1>1
  <2> QED
    BY <1>2, <2>1 DEF ChainInv, IsShards
<1>4. RepairFits(repair', rows')
  BY <1>1, NothingFits
<1> QED
  BY <1>1, <1>3, <1>4 DEF ChainInv

LEMMA ChainBegins ==
  ASSUME ShardsInit
  PROVE  ChainInv
<1>1. /\ ended \in [Facts -> Nat] /\ dirty = {} /\ rows = Layout(kind, ended)
      /\ next = Chain(rows) /\ previous = Reversed(next) /\ repair = NoRepair
  BY DEF ShardsInit
<1>2. IsShards(rows)
  BY <1>1, LayoutIsShards
<1>3. BothFit(next, previous, rows, {})
  BY <1>1, <1>2, ChainFits DEF BothFit
<1>4. RepairFits(repair, rows) /\ Waits(repair.links) = {}
  BY <1>1, NothingFits
<1> QED
  BY <1>1, <1>2, <1>3, <1>4 DEF ChainInv

\* Between two jobs the links are the chain of the parts there are: what
\* refreshProjectionNeighbors changes beside one part at a time adds up, for any number
\* of claims, any rooms and any order of changes and repairs, unless something frayed them.
THEOREM LinksAreTheChain == ShardsSpec => []RepairKeepsTheChain
<1>1. ChainInv /\ [ShardsNext]_shardVars => ChainInv'
  <2>1. ASSUME ChainInv, UNCHANGED shardVars PROVE ChainInv'
    <3>1. UNCHANGED <<rows, next, previous, frayed, repair, ended, dirty>>
      BY <2>1 DEF shardVars
    <3> QED
      BY <2>1, <3>1, SamePages DEF ChainInv
  <2> QED
    BY <2>1, LedgerKeepsChain, BeginningKeepsChain, TakingKeepsChain, RoutingKeepsChain,
       GroupKeepsChain, StoringKeepsChain, LinkingKeepsChain, OverviewKeepsChain,
       CompilingKeepsChain, DeathKeepsChain DEF ShardsNext
<1>2. ChainInv => RepairKeepsTheChain
  <2> SUFFICES ASSUME ChainInv, repair = NoRepair, ~frayed
               PROVE  next = Chain(rows) /\ previous = Reversed(next)
    BY DEF RepairKeepsTheChain
  <2>1. BothFit(next, previous, rows, {}) /\ IsShards(rows)
    BY NothingFits DEF ChainInv
  <2> QED
    BY <2>1, ChainFits DEF BothFit
<1> QED
  BY <1>1, <1>2, ChainBegins, PTL DEF ShardsSpec
=============================================================================

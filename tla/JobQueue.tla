------------------------------ MODULE JobQueue ------------------------------
(***************************************************************************)
(* The durable job queue in SQLite (packages/database/src/index.ts), the   *)
(* worker loop that serves it (apps/worker/src/worker.ts) and the          *)
(* maintenance lock that fences it off (beginMaintenance in                *)
(* apps/api/src/app.ts).                                                   *)
(*                                                                         *)
(* A job stands for its idempotency key.  Time is abstract: `due' holds    *)
(* the jobs whose available_at has passed and `expired' the leases that    *)
(* ran out.  A worker that is started again has a fresh uuid, so a lease   *)
(* of its former self is owned by Departed.                                *)
(***************************************************************************)
EXTENDS Integers, FiniteSets

CONSTANTS
  Jobs,
  Workers,
  NoWorker,
  Departed,         \* the owner of a lease whose worker process is gone
  NoJob,
  Priority,         \* of each job
  MaxAttempts,      \* the column default of maximum_attempts
  RaisedAttempts,   \* what some callers raise it to
  Raised,           \* the jobs those callers enqueue
  MaxEnqueues,      \* bounds on the insertions, manual retries, worker
  MaxRetries,       \* crashes, and on how often maintenance is entered or the
  MaxCrashes,       \* API started
  MaxRounds

ASSUME NoneAssumption ==
  /\ NoWorker \notin Workers /\ Departed \notin Workers /\ Departed # NoWorker
  /\ NoJob \notin Jobs
ASSUME PriorityAssumption == Priority \in [Jobs -> Nat]
ASSUME AttemptsAssumption ==
  MaxAttempts \in Nat \ {0} /\ RaisedAttempts \in Nat /\ RaisedAttempts >= MaxAttempts
ASSUME RaisedAssumption == Raised \subseteq Jobs
ASSUME BoundsAssumption ==
  {MaxEnqueues, MaxRetries, MaxCrashes, MaxRounds} \subseteq Nat

VARIABLES
  job,          \* the jobs row of each job
  attemptRows,  \* the attempt numbers in job_attempts of each job
  due,
  expired,
  worker,       \* where each worker's tick is, its job and the attempt it is
  maintenance,  \* the lock, and how far its holder is
  enqueues, retries, crashes, rounds

jobVars == <<job, attemptRows, due, expired>>
bounds == <<enqueues, retries, crashes, rounds>>
vars == <<job, attemptRows, due, expired, worker, maintenance, bounds>>

Row(status, created) == [status |-> status, attempts |-> 0, max |-> MaxAttempts,
                         owner |-> NoWorker, created |-> created]
NoRow == Row("absent", 0)
Resting(pc) == [pc |-> pc, job |-> NoJob, attempt |-> 0]

Init ==
  /\ job = [j \in Jobs |-> NoRow]
  /\ attemptRows = [j \in Jobs |-> {}]
  /\ due = {} /\ expired = {}
  /\ worker = [w \in Workers |-> Resting("down")]
  /\ maintenance = "startup"
  /\ enqueues = 0 /\ retries = 0 /\ crashes = 0 /\ rounds = 0

Locked == maintenance # "open"
Running == {j \in Jobs : job[j].status = "running"}

-----------------------------------------------------------------------------
(* Producers: the API, and jobs that enqueue other jobs *)

\* enqueueJob and enqueueJobAt.  A key that is there already is left alone.
Enqueue(j) ==
  /\ job[j].status = "absent"
  /\ enqueues < MaxEnqueues
  /\ enqueues' = enqueues + 1
  /\ job' = [job EXCEPT ![j] = Row("queued", enqueues + 1)]
  /\ \E now \in BOOLEAN : due' = IF now THEN due \cup {j} ELSE due \ {j}
  /\ UNCHANGED <<attemptRows, expired, worker, maintenance, retries, crashes, rounds>>

\* A statement of its own after the insertion, and again for a key that exists.
RaiseAttempts(j) ==
  /\ j \in Raised
  /\ job[j].status # "absent"
  /\ job[j].max < RaisedAttempts
  /\ job' = [job EXCEPT ![j].max = RaisedAttempts]
  /\ UNCHANGED <<attemptRows, due, expired, worker, maintenance, bounds>>

\* Activating another revision of an answer cancels its queued compilation.
CancelQueued(j) ==
  /\ job[j].status = "queued"
  /\ job' = [job EXCEPT ![j].status = "cancelled"]
  /\ UNCHANGED <<attemptRows, due, expired, worker, maintenance, bounds>>

\* Faulty: any job can be put back.
RetryAnyJob(j) ==
  /\ job[j].status # "absent"
  /\ retries < MaxRetries
  /\ retries' = retries + 1
  /\ job' = [job EXCEPT ![j].status = "queued", ![j].attempts = 0]
  /\ due' = due \cup {j}
  /\ UNCHANGED <<attemptRows, expired, worker, maintenance, enqueues, crashes, rounds>>

\* The attempt count starts again; the rows of job_attempts stay.
RetryJob(j) ==
  /\ job[j].status = "failed"
  /\ retries < MaxRetries
  /\ retries' = retries + 1
  /\ job' = [job EXCEPT ![j].status = "queued", ![j].attempts = 0]
  /\ due' = due \cup {j}
  /\ UNCHANGED <<attemptRows, expired, worker, maintenance, enqueues, crashes, rounds>>

-----------------------------------------------------------------------------
(* The worker loop *)

\* tick reads the lock outside of any transaction.
Tick(w) ==
  /\ worker[w].pc = "idle"
  /\ ~Locked
  /\ worker' = [worker EXCEPT ![w].pc = "leasing"]
  /\ UNCHANGED <<jobVars, maintenance, bounds>>

LeaseAdmitted == ~Locked

EligibleQueued(j) ==
  /\ job[j].attempts < job[j].max
  /\ j \in due
  /\ job[j].status = "queued"

Eligible(j) ==
  /\ job[j].attempts < job[j].max
  /\ j \in due
  /\ job[j].status = "queued" \/ (j \in Running /\ j \in expired)

\* ORDER BY priority DESC, created_at ASC
Before(j, k) ==
  \/ Priority[j] > Priority[k]
  \/ Priority[j] = Priority[k] /\ job[j].created <= job[k].created

NextJob(j) == Eligible(j) /\ \A k \in Jobs : Eligible(k) => Before(j, k)

LeaseNothing(w) ==
  /\ worker[w].pc = "leasing"
  /\ ~LeaseAdmitted \/ ~\E j \in Jobs : Eligible(j)
  /\ worker' = [worker EXCEPT ![w] = Resting("idle")]
  /\ UNCHANGED <<jobVars, maintenance, bounds>>

LeaseJob(w) ==
  /\ worker[w].pc = "leasing"
  /\ LeaseAdmitted
  /\ \E j \in Jobs :
       LET attempt == job[j].attempts + 1 IN
       /\ NextJob(j)
       /\ attempt \notin attemptRows[j]
       /\ job' = [job EXCEPT ![j].status = "running", ![j].attempts = attempt,
                             ![j].owner = w]
       /\ attemptRows' = [attemptRows EXCEPT ![j] = @ \cup {attempt}]
       /\ expired' = expired \ {j}
       /\ worker' = [worker EXCEPT ![w] = [pc |-> "processing", job |-> j,
                                           attempt |-> attempt]]
  /\ UNCHANGED <<due, maintenance, bounds>>

\* UNIQUE(job_id, attempt_number) fails: the transaction rolls back, and tick,
\* which does not catch what leaseJob throws, takes the process down.
LeaseConflict(w) ==
  /\ worker[w].pc = "leasing"
  /\ LeaseAdmitted
  /\ \E j \in Jobs : NextJob(j) /\ job[j].attempts + 1 \in attemptRows[j]
  /\ worker' = [worker EXCEPT ![w] = Resting("down")]
  /\ UNCHANGED <<jobVars, maintenance, bounds>>

Holds(w) == worker[w].pc = "processing" /\ job[worker[w].job].owner = w

\* heartbeatJob matters once the lease has run out.
Heartbeat(w) ==
  LET j == worker[w].job IN
  /\ Holds(w)
  /\ j \in Running \cap expired
  /\ expired' = expired \ {j}
  /\ UNCHANGED <<job, attemptRows, due, worker, maintenance, bounds>>

Completed(row) == [row EXCEPT !.status = "complete", !.owner = NoWorker]

FailedRow(row) ==
  [row EXCEPT !.status = IF row.attempts >= row.max THEN "failed" ELSE "queued",
              !.owner = NoWorker]

\* completeJob does nothing for a worker that lost the lease.
CompleteJob(w) ==
  /\ worker[w].pc = "processing"
  /\ job' = IF Holds(w) THEN [job EXCEPT ![worker[w].job] = Completed(@)] ELSE job
  /\ worker' = [worker EXCEPT ![w] = Resting("idle")]
  /\ UNCHANGED <<attemptRows, due, expired, maintenance, bounds>>

\* failJob neither.  The backoff puts available_at into the future.
FailJob(w) ==
  /\ worker[w].pc = "processing"
  /\ IF Holds(w)
       THEN /\ job' = [job EXCEPT ![worker[w].job] = FailedRow(@)]
            /\ due' = due \ {worker[w].job}
       ELSE UNCHANGED <<job, due>>
  /\ worker' = [worker EXCEPT ![w] = Resting("idle")]
  /\ UNCHANGED <<attemptRows, expired, maintenance, bounds>>

StartWorker(w) ==
  /\ worker[w].pc = "down"
  /\ worker' = [worker EXCEPT ![w] = Resting("idle")]
  /\ UNCHANGED <<jobVars, maintenance, bounds>>

-----------------------------------------------------------------------------
(* External: the worker process dies or is told to stop; time passes *)

CrashWorker(w) ==
  /\ worker[w].pc # "down"
  /\ crashes < MaxCrashes
  /\ crashes' = crashes + 1
  /\ worker' = [worker EXCEPT ![w] = Resting("down")]
  /\ job' = [j \in Jobs |-> IF job[j].owner = w
                              THEN [job[j] EXCEPT !.owner = Departed] ELSE job[j]]
  /\ UNCHANGED <<attemptRows, due, expired, maintenance, enqueues, retries, rounds>>

BackoffEnds(j) ==
  /\ job[j].status # "absent"
  /\ j \notin due
  /\ due' = due \cup {j}
  /\ UNCHANGED <<job, attemptRows, expired, worker, maintenance, bounds>>

LeaseExpires(j) ==
  /\ j \in Running
  /\ j \notin expired
  /\ expired' = expired \cup {j}
  /\ UNCHANGED <<job, attemptRows, due, worker, maintenance, bounds>>

-----------------------------------------------------------------------------
(* Maintenance in the API *)

MoveMaintenance(from, to) ==
  /\ maintenance = from
  /\ maintenance' = to
  /\ UNCHANGED <<jobVars, worker, enqueues, retries, crashes>>

BeginMaintenance ==
  /\ rounds < MaxRounds
  /\ rounds' = rounds + 1
  /\ MoveMaintenance("open", "draining")

Drained == Running = {}

EnterMaintenance == Drained /\ MoveMaintenance("draining", "exclusive") /\ UNCHANGED rounds
GiveUpMaintenance == MoveMaintenance("draining", "open") /\ UNCHANGED rounds
EndMaintenance == MoveMaintenance("exclusive", "open") /\ UNCHANGED rounds

\* The API starts: it takes the lock over, finishes what a crash inside of
\* maintenance left undone, and only then unlocks.
StartApi ==
  /\ rounds < MaxRounds
  /\ rounds' = rounds + 1
  /\ maintenance' = IF maintenance \in {"exclusive", "recovering"}
                      THEN "recovering" ELSE "startup"
  /\ UNCHANGED <<jobVars, worker, enqueues, retries, crashes>>

FinishStartup ==
  /\ \/ MoveMaintenance("startup", "open")
     \/ MoveMaintenance("recovering", "open")
  /\ UNCHANGED rounds

\* A hard deletion removes the jobs that mention what it deletes; their
\* attempts go with them.
PurgeJob(j) ==
  /\ maintenance \in {"exclusive", "recovering"}
  /\ job[j].status # "absent"
  /\ job' = [job EXCEPT ![j] = NoRow]
  /\ attemptRows' = [attemptRows EXCEPT ![j] = {}]
  /\ due' = due \ {j} /\ expired' = expired \ {j}
  /\ UNCHANGED <<worker, maintenance, bounds>>

WorkerStep(w) ==
  \/ Tick(w) \/ LeaseNothing(w) \/ LeaseJob(w) \/ LeaseConflict(w)
  \/ CompleteJob(w) \/ FailJob(w) \/ StartWorker(w)

Unlock == GiveUpMaintenance \/ EndMaintenance \/ FinishStartup

Next ==
  \/ \E w \in Workers : WorkerStep(w) \/ Heartbeat(w) \/ CrashWorker(w)
  \/ \E j \in Jobs : \/ Enqueue(j) \/ RaiseAttempts(j) \/ CancelQueued(j)
                     \/ RetryJob(j) \/ PurgeJob(j)
                     \/ BackoffEnds(j) \/ LeaseExpires(j)
  \/ BeginMaintenance \/ EnterMaintenance \/ StartApi \/ Unlock

Spec == Init /\ [][Next]_vars

\* A worker polls for ever, and a job ends or throws; a worker that died is
\* started again; timestamps pass; the holder of the maintenance lock gives up at
\* its deadline, or finishes and unlocks.
Fairness ==
  /\ \A w \in Workers : WF_vars(WorkerStep(w))
  /\ \A j \in Jobs : WF_vars(BackoffEnds(j)) /\ WF_vars(LeaseExpires(j))
  /\ WF_vars(Unlock)

FairSpec == Spec /\ Fairness

-----------------------------------------------------------------------------
(* Properties *)

\* Every row, worker and counter has its type, and no job has been given more
\* attempts than its maximum_attempts.
TypeOK ==
  /\ job \in [Jobs -> [status : {"absent", "queued", "running", "complete",
                                 "failed", "cancelled"},
                       attempts : 0..RaisedAttempts,
                       max : {MaxAttempts, RaisedAttempts},
                       owner : Workers \cup {NoWorker, Departed},
                       created : 0..MaxEnqueues]]
  /\ \A j \in Jobs : job[j].attempts <= job[j].max
  /\ attemptRows \in [Jobs -> SUBSET (1..RaisedAttempts)]
  /\ due \subseteq Jobs /\ expired \subseteq Jobs
  /\ worker \in [Workers -> [pc : {"down", "idle", "leasing", "processing"},
                             job : Jobs \cup {NoJob}, attempt : 0..RaisedAttempts]]
  /\ maintenance \in {"startup", "recovering", "open", "draining", "exclusive"}
  /\ enqueues \in 0..MaxEnqueues /\ retries \in 0..MaxRetries
  /\ crashes \in 0..MaxCrashes /\ rounds \in 0..MaxRounds

\* A worker that still holds its job is the latest attempt at it: what
\* completeJob and failJob close under the number in the row is its own attempt,
\* whatever expired, was reclaimed or retried meanwhile.
HolderIsLatestAttempt ==
  \A w \in Workers : Holds(w) =>
    /\ worker[w].job \in Running
    /\ job[worker[w].job].attempts = worker[w].attempt
    /\ worker[w].attempt \in attemptRows[worker[w].job]

\* A job that completed or was cancelled stays so, until a hard deletion removes
\* it: a worker that lost its lease and answers late cannot put it back.
TerminalIsFinal ==
  [][\A j \in Jobs : job[j].status \in {"complete", "cancelled"} =>
       job'[j].status \in {job[j].status, "absent"}]_vars

\* leaseJob's comment: no worker takes a job after maintenance has seen that
\* none is running, although it saw the vault unlocked just before.
NoLeaseInMaintenance == maintenance \in {"exclusive", "recovering"} => Running = {}

\* With the one worker that scripts/start.ts launches nothing at all is being
\* processed then.
MaintenanceIsQuiet ==
  maintenance \in {"exclusive", "recovering"} =>
    \A w \in Workers : worker[w].pc # "processing"

\* A job ends or is removed: it is not starved by other jobs, lost with a crashed
\* worker or forgotten during maintenance.  One kind stays running for ever: a job
\* whose worker died during the last attempt, which no lease can reclaim.  What a
\* manual retry may do to the queue is the matter of QueuedIsTaken.
JobsEnd ==
  \A j \in Jobs : job[j].status \in {"queued", "running"} ~>
    \/ job[j].status \notin {"queued", "running"}
    \/ job[j].attempts = job[j].max /\ job[j].owner = Departed
    \/ retries > 0

\* "Failed jobs retry with backoff and eventually require manual retry": a queued
\* job, put back by a manual retry or not, is taken up by a worker some day.
QueuedIsTaken ==
  \A j \in Jobs : job[j].status = "queued" ~> job[j].status # "queued"
=============================================================================

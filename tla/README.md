# Continuum: a TLA+ verification of its concurrent core

Continuum ("infinite context") is a local-first chat application. One API
process and one worker process share a vault directory; a launcher starts both
and a browser shows it. The vault's truth is a SQLite database; around it stand
content-addressed blobs, Markdown projections, backups and a machine-wide ledger
of money spent on paid model calls. Nothing is distributed over a network, and
yet most of what can go wrong is concurrency and crash recovery: several
processes on one ledger file, two stores no transaction spans, a worker with
leases, an API of interleaved asynchronous handlers, pages that reconnect and
retry, and multi-stage maintenance operations with journals.

This directory holds TLA+ modules for that core, TLC configurations that check
them on small instances, and TLAPS proofs for every value of the constants.
Paths below are relative to the repository.

    tlc -workers 2 -config Worker.cfg MCWorker     # check one run
    tlapm WorkerProofs.tla                         # check the proofs

`PROJECT.json` lists components, runs, findings, hazards and theorems, and maps
every definition that models code to the lines it models.


## 1. Inventory

### Money

**Installation budget ledger** (`packages/config/src/installation-budget.ts`).
State: one JSON file per machine with an entry per paid call (reserved, committed
or released; category, estimate, charge, owner) and the `breached` flag.
Operations: reserve, commit, reconcile a late cost, import legacy rows, release
one reservation or all orphans of a vault. Every vault and every evaluation
program on the machine calls it. Hard: five methods each do their own arithmetic
on what is outstanding, and charges may be corrected after later reservations
were admitted. Correct when: credit spent stays inside the cap and each
category's allocation until an overrun is recorded; an overrun (which stops paid
work for good) is recorded only for a real one; a charge is never lowered.

**Installation budget lock** (same file, `#withLock`, `#removeAbandonedLock`,
`#write`). State: the lock file, the temporary file, the ledger file. Operations:
create exclusively, read, rename over, unlink, and recovery of a dead owner's
lock. Hard: every step is a separate system call of a process that may die, and
recovery compares and then acts. Correct when: the file changes as one atomic
ledger would, and a dead owner shuts nobody out.

**Vault budget accounting** (`packages/database/src/index.ts`). State: budget rows
and usage rows of the vault, beside the shared ledger. Operations: open (import
and orphan release), reserve, record a model call, settle a failure, release,
settle expired reservations, and the scrubbing of deleted runs. Hard: two stores
without a common transaction, two processes, crashes between the writes.
Correct when: what the vault spent is covered by the ledger, and every call that
was sent is charged in the end, once.

### Work

**Job queue and worker loop** (`packages/database/src/index.ts`,
`apps/worker/src/{worker,scheduler}.ts`). State: `jobs` and `job_attempts` rows,
each worker's current job. Operations: enqueue, lease, heartbeat, complete, fail,
retry, cancel, purge, and the tick. Hard: leases expire while their worker lives,
late answers, crashes during the last attempt. Correct when: a holder is the
latest attempt, nothing finished is reopened, every job ends.

**Maintenance lock** (`beginMaintenance` in `apps/api/src/app.ts`) and **mutation
admission** (`apps/api/src/mutation-admission.ts`). State: the vault-lock row and
its holder; admitted tokens, the exclusive token, the waiters. Hard: the worker
reads the lock before it leases; everyone waits for everyone; timeouts and
aborts. Correct when: nothing runs under it, exclusive means alone, and the gate
reopens.

### Conversation

**Response runs** (`apps/api/src/orchestrator.ts`, with `runs`, `events`,
`assistant_revisions`, `run_stream_events` in the database). State: the run row,
the answer event, the revisions of a question and the chosen one, the stream.
Operations: post, regenerate, execute, cancel, activate a revision, recover after
a restart. Hard: awaits between writes, cancellation at any of them, death of the
API between any two writes, concurrent regenerations. Correct when: a run ends
once and is paid for once, "complete" implies every derivative is durable, and a
question shows one answer.

**Retrieval and the prompt** (`packages/retrieval/src`, the API's adapter and
context packets). State: what was read of conversation and memory at different
moments, the record of what was sent. Correct when: the question is asked, the
window kept, unfinished text left out, conflicts said, and the record rebuilds
the prompt.

**Tools and sandbox** (`apps/api/src/tool-runtime.ts`, `packages/tools`,
`packages/providers`). State: rows and results of calls, approvals, roots and
their epochs, a program's pipes. Correct when: an approval is used once and for
what it was given, every call is answered, and the reservation covers the rounds.

**Run event streams** and the **browser client** (`apps/api/src/app.ts`,
`apps/web/src`). State: numbered stream rows, checkpoints, snapshots in parts,
drafts and intents with idempotency keys. Hard: reconnecting while events are
written, snapshots read on both sides of an operation, retries of an unknown
outcome. Correct when: a page shows a beginning of the answer, a view is of one
vault, and a draft becomes one message.

### Lifecycle of a vault

**Hard deletion and its journal** (`packages/database/src/index.ts`,
`apps/api/src/app.ts`). State: the evidence closure, deletion operations and their
stages. Correct when: nothing derived only from deleted evidence survives, and
what other evidence supports does.

**Import, export and backups** (`apps/api/src/maintenance.ts`). State: the import
journal with its stages, the archive, the replaced database, backup files, staged
archives and finished exports. Correct when: an import is all or nothing, a retry
gets the first one's answer, and an archive holds what it should and no more.

**Launcher, runtime descriptor, migrations** (`scripts`,
`apps/api/src/{runtime-descriptor,server}.ts`, `packages/database/src/migrations.ts`).

### Memory

**Claims and temporal policy; entities and merges; memory compiler, pages and
shards; projection files; embeddings** (`packages/memory/src`,
`apps/worker/src/processor.ts`, `packages/database/src/index.ts`). State: claims,
entities, relations, pages and revisions, shards and their links, proposals,
dirty markers, Markdown files, vectors. Hard: rows read before a long computation
and written after it, a worker that has lost its lease still writing, the user
correcting and choosing meanwhile, deaths between many transactions. Correct
when: one value of a slot is current, the user's last word stands, merges can be
undone, a page shows the current claims, its parts hold each claim once, its file
and the vectors follow.

**Ingestion** (`packages/ingestion/src`), **Keychain, contracts, configuration,
logging, evaluation.** Operating-system services, network I/O, schemas, offline
programs.

### How they interact

    browser --HTTP/SSE--> API --transactions--> SQLite <--leases-- worker
                           |  \                   ^                  |
                           |   vault lock row ----+   blobs, pages --+
                           |                                         |
                           +--- lock file + ledger file (machine) ---+--- other vaults

The API posts a run, which reserves budget (vault row and ledger entry), puts the
prompt together, calls the provider, streams, runs tools, finalizes, and enqueues
`memory.compile`; the worker leases it, reserves budget for its own calls and
publishes claims, entities, pages and vectors. Maintenance closes the mutation
gate, cancels runs, takes the vault lock, waits for the worker and works alone.


## 2. Modules

| Module | Models | Checked in | Proved in |
|---|---|---|---|
| `InstallationBudget` | the ledger's methods and their arithmetic | `Budgets`, `InstallationBudgetWedge` | `InstallationBudgetProofs` |
| `AtomicLedger` | abstract: one authority grants calls up to an allowance | as a property | - |
| `BudgetLock` | the lock file protocol, one action per system call | `Budgets`, `BudgetLockStolen` | `BudgetProofs` |
| `VaultBudget` | the two stores of one vault's accounting | `Budgets`, `VaultBudgetForgiven`, `VaultBudgetCountedTwice` | `BudgetProofs` |
| `AnswerContext` | the prompt, its window and its record | `Budgets` | `AnswerProofs` |
| `JobQueue` | jobs, leases, the worker loop, the maintenance lock | `Worker`, `JobQueueRetry` | `WorkerProofs` |
| `ClaimLedger` | the claims of one slot | `Worker`, `ClaimLedgerOverruled` | `WorkerProofs` |
| `EntityMerge` | entities, relations, merges and reversals | `Worker` | `WorkerProofs` |
| `ShardChain` | the parts of a long topic | `Worker` | `WorkerProofs` |
| `RunLifecycle` | response runs from post to end, crash, recovery | `Session` | `RunLifecycleProofs` |
| `RunStream` | the stream of an answer to a page | `Session` | `BrowserProofs` |
| `VaultView` | a page's view of the vault | `Session` | `BrowserProofs` |
| `SendIntents` | drafts, intents and their recovery | `Session` | `BrowserProofs` |
| `ToolCalls` | rounds, tool calls, approvals, a sandboxed program | `Session` | `AnswerProofs` |
| `VaultOperations` | deletion, import, destruction, uploads, backups: stages, failures, deaths | `Vault` | `VaultProofs` |
| `EvidenceDeletion` | what a hard deletion takes and keeps | `Vault`, `EvidenceDeletionEdit` | `MemoryProofs` |
| `ProjectionFiles` | the file of a page, two writers | `Vault` | `MemoryProofs` |
| `MemoryPages` | what a page shows of its claims | `Vault` | `MemoryProofs` |
| `EmbeddingIndex` | vectors and their jobs | `Vault` | `MemoryProofs` |
| `PortableVault` | which rows an archive holds | `Vault`, `PortableVaultImport` | `VaultProofs` |
| `ManagedFiles` | staged archives, exports, pruning | `Vault` | `VaultProofs` |

`MC<module>` extends a module with the definitions its configurations need.
`MCBudgets`, `MCWorker`, `MCSession` and `MCVault` extend several modules that share no
state and put them into one run: the variable `part` says which of them a behaviour
is about, the others keep their initial values, so that the states of the parts
add up and do not multiply.

### Money

`InstallationBudget`: `entries` is `ledger.entries` (status "absent" where there is none),
`breached` the flag, `alive` the processes whose pid the operating system knows. An
action is one public method, atomic because it runs inside `#withLock`; `BudgetLock`
says how far that is justified. A method that throws before `#write` has no step.
Money is a number of units up to `MaxCost`, exact where the code uses floating point.

`BudgetLock` and `AtomicLedger`: an action is one file-system call that another process
can disturb: `openSync(wx)`, the write of the owner record, `readFile`, the write of the
temporary file, the ownership check, `rename`, and for a waiter open, stat, compare,
rename away. Files are inodes, so that "the path" and "the file I read" can differ. A
process may die at any step; its pid may be reused. `AtomicLedger` is the promise:
calls are granted one at a time as long as the allowance lasts. `ImplementsAuthority`
instantiates it with the same `ledger` and `granted`.

`VaultBudget`: `charges[c]` is the ledger entry, `row[c]` the vault's reservation row,
`legacy[c]` what was imported as pre-canonical accounting, `op[p]` the method process
`p` is in the middle of. An action is one locked operation on the file or one SQLite
statement or transaction; every process may die between any two, up to `MaxCrashes`
times, and `home[c]` is the process that makes a call. Only the API (`Maintainers`)
deletes, resets and imports. Time is the nondeterministic `Expire`. The ghost
`overtaken` has the calls whose row was inserted while an opening process had read
the rows and not yet looked for orphans.

`AnswerContext`: the turns are read when the message is posted, memory when the
question has been classified, and the record is made when the reranker has
answered; in between the worker and the user change claims and pages and other
responses end. Sizes stand for tokens, which of the found documents the reranker
prefers is open.

### Work and memory

`JobQueue`: `job` and `attemptRows` are the rows, `worker` where each tick is,
`maintenance` how far the holder of the lock is. `due` and `expired` abstract time:
`available_at` passed, the lease ran out (also under a live worker whose heartbeats
were late). A restarted worker has a new uuid, so its old lease belongs to `Departed`.
A job that is done may complete, fail with or without a retry, or find that it no
longer holds the job.

`ClaimLedger`: claims of one subject and predicate in the order in which they were
written. The worker reads the slot (`reading`) before the transaction that writes it;
corrections, the choice among answers and expiry are transactions of the API or
the worker in between. The ghosts `mixed`, `overruled` name what the code gets wrong.

`EntityMerge`: the worker resolves a message's mentions, then writes entities and
relations one by one in no transaction; a merge rewrites relations and keeps
a fingerprint and what it absorbed, and a reversal is refused when the
fingerprint has changed. Deletion of evidence takes entities and relations that have
none left.

`MemoryPages` is one page, its claims, the dirty markers with their repair tokens and
the rebuild jobs; `ShardChain` a topic in several parts: `updateShardedTopic` in its
many transactions with the links outside of any, a death in the middle, and the
rebuild that lays the topic out again.

`ProjectionFiles` has the two writers of one Markdown file, step by step with their
looks at the database in between; `EmbeddingIndex` the texts, the vectors, the jobs and
two workers one of which may have lost its lease.

### Conversation and browser

`RunLifecycle`: `run`, `answer`, `revisions`, `chosen`, `deltas`, `endings` are rows, `exec` the
suspended `#execute` calls, `thread` the run inside a stretch of code without an await:
such a stretch is interrupted by nothing but death. An action is one statement or
transaction. `Throw` is any failure of what is awaited or written, and the aborted
signal. `RecoverInterruptedRuns` and `StartPending` are what a restart does before the
API listens. A text is its number of deltas.

`RunStream`: `log` is `run_stream_events`, the SSE handler's reader and its cursor, the
page's text as the sequence of the deltas it is made of, the checkpoint in
sessionStorage, and a snapshot whose two parts are requests of their own.

`VaultView`: the content of the vault is an epoch, a part of a view the epoch it was
read in; bootstrap loads the parts between two looks at the boundary (lock and
generation), callbacks compare the generation they noted.

`SendIntents`: `storage` is localStorage, `form` the page, `sends` the calls of
`sendMessage` that are under way (each with the intent it posts or checks in its
closure), `recovery` the intent the recovery effect asks for, `network` the POST requests
on their way, `messages` the receipts. What the recovery finds sets the stage to
"failed" and so allows a second send beside the first.

`ToolCalls`: the rounds of `streamResponse`, the row of each call and its results, the
approvals by where they are (on offer, taken, used), the authorization's epoch, and
a program with what its two pipes have delivered.

### Lifecycle of a vault

`VaultOperations`: the mutation gate, the handlers of deletion, import and destruction,
the journal and its stages, the scheduler's snapshot, uploads, and the start of the
API with its recovery. One step is one transaction, one durable file operation or
one stretch without an await; any of them may fail, and the API may die between
any two. `EvidenceDeletion`: a conversation builds claims, pages, edits and
proposals, then one object is deleted with its closure; answers that used it are
deleted inside of it (`stack`). `PortableVault`: what the export leaves out when tool
output stays home, as sets of rows, and what the import makes of them.
`ManagedFiles`: verified archives under tokens, exports and their downloads, and the
pruning of both.


## 3. Runs

Every passing run explores its whole bounded state space and checks for deadlock
unless its configuration says otherwise; the parts of the composed runs that stop at
their bounds stutter there. Each property has been seen to fail when one mapped
definition is replaced by a plausible bug ("Faulty:" operators beside the
definitions; `mutants` in `PROJECT.json`).

| Run | Question | Bounds |
|---|---|---|
| `Budgets` | Do all methods of the ledger together keep committed spending inside the cap? Does the ledger's lock make it one authority and go when its owner is dead? Is what the vault spent covered by the ledger, and every billable call charged? Is the prompt sound and can it be shown again? | ledger: 2 call ids, costs 0..2, cap 3, one allocated category of 2; lock: 2 processes, one may die, 2 files, allowance 1; accounting: 2 calls, of one process with 2 deaths or of API and worker with 1 death of the API, estimate 2, costs 1 and 3; prompt: 2 runs, texts of sizes 1 and 7, capacity 8, window of 3 turns of which 1 must fit, 2 claims, 2 revisions, 1 tool result |
| `Worker` | Is a lease's holder the latest attempt, and does each job end? Is one value current, and does the user's last word stand? Do merges lose nothing and nothing deleted come back? Is a topic in parts whole, and its chain repaired? | 2 workers, 2 jobs, 1 attempt raised to 2, 2 insertions, 1 retry, 1 crash, 1 maintenance; 3 claims of 2 values said in 6 ways, 1 change of answer; 3 entities, 2 messages, 2 relations, 2 merges; 4 claims in parts with room for 2, 2 changes, 1 death |
| `Vault` | Is the vault whole whenever it is open, each request applied once, and does the gate reopen? Does deletion take exactly what it should? Do files, pages and vectors follow? Does tool output stay home and the rest arrive? Is a token used once, and what is in use kept? | 2 requests, 3 items on 2 blobs, 1 crash, 1 fault, 2 tries, 1 snapshot; 3 turns, 4 acts before or after 1 deletion; 2 slugs, 2 changes, 1 death; 2 turns, 1 stop; 2 workers, 2 texts, 2 models, 2 edits, 1 trouble; 2 messages, 2 claims, 2 pages, 5 writes; 2 tokens, 3 exports, 2 readers, 2 failures |
| `Session` | Does a run end, is it paid once, and does it leave the answer its status promises? Is what a page shows streamed, its view of one vault, a draft one message? Is a secret read once, every call answered, the rounds reserved? | 2 runs of one question, 2 deltas, 2 crashes; log of 4, 2 breaks, 2 tabs, 2 snapshots; 2 parts, 2 removals, 1 restart, 2 fetches; 2 drafts, 3 keys, 1 lost answer, 2 loads, 2 sends at a time, 2 qualities; 2 responses, 2 tool rounds, output limit 1, 2 approvals, 1 withdrawal |
| `InstallationBudgetWedge` | Is an overflow always recorded? **Violated** | 3 call ids, the ledger as in `Budgets` |
| `BudgetLockStolen` | Can there be a second allowance? **Violated** | 3 processes, one may die, 3 files |
| `VaultBudgetForgiven` | Is a call that was sent never forgiven? **Violated** | 2 calls, of API and worker, 1 death |
| `VaultBudgetCountedTwice` | Is accounting imported exactly once? **Violated** | 2 calls, 2 processes, 1 crash |
| `JobQueueRetry` | Is every queued job taken up? **Violated** | 1 insertion, 1 manual retry |
| `ClaimLedgerOverruled` | Does the user's statement stand against sources? **Violated** | 3 claims |
| `EvidenceDeletionEdit` | Does a compilation keep a user's edit? **Violated** | 3 turns |
| `PortableVaultImport` | Can every export be imported? **Violated** | 2 messages, 2 claims, 2 pages |

Why the bounds are enough:

* *Ledger.* An overflow needs one call that is raised and one that holds a reservation,
  or is refused: two ids. A cap of 3 with costs of up to 2 lets two calls fit, or not,
  and one category allocation lies below the cap (with three ids, 99,024 states up to
  symmetry, checked once; `SpendingWithinCap` is proved for any number).
* *Lock.* Recovery needs a dead owner and a waiter; theft needs a second waiter,
  hence three processes in the violation.
* *Accounting.* A second call is needed to see one call's expiry and charge performed
  by the other call's method; a second crash to see recovery interrupted; costs of 1
  and 3 around the estimate of 2 give under- and overruns. With two processes the one
  that dies is the API, which takes every step the worker takes and the maintenance
  besides (with either of them dying, 1,018,336 states, checked once; safety is proved
  for any number of processes and deaths).
* *Prompt.* Sizes 1 and 7 in a window of 8 let one long text and one short one fit,
  or not (with three sizes, 914,880 states, checked once).
* *Jobs.* One attempt raised to two separates "retry" from "last"; two workers give an
  old and a new holder, two jobs of different priority a busy worker and a waiting job.
* *Claims, entities.* A correction, a contradiction and a repetition are three claims;
  two merges nest or chain (with three relations, 5.6 million states, checked once).
* *Parts.* Four claims with room for two make parts split, merge and be archived, and
  two changes let the second begin where a death left the first (five claims,
  785,484 states, once).
* *Operations.* Two requests are a deletion and an import, or one of them and its retry;
  a crash in an operation and a fault in its recovery. Two blobs shared by three
  items show that a shared blob stays.
* *Deletion.* Three turns give an answer that used an answer that used what is
  deleted (2.9 million states with all acts before or after, checked once).
* *Runs.* A response and its regeneration are all that concurrent answers need (three
  runs, 5.3 million states, once). Two crashes interrupt a recovery; two deltas separate
  "text as last saved" from "text as streamed".
* *Stream, view, intents.* A break needs a text before and after; a second tab a removal
  elsewhere; a third key is needed for two sends that give the same key up (with two
  lost answers, 1,329,017 states, once). Larger instances that passed once: 5 events
  and 3 breaks 447,841; 3 fetches 634,449; tools with twice the output 858,920;
  archives 80,702; managed files with 3 tokens 641,931.

The type invariants of all modules were checked on the same instances; those of
`InstallationBudget`, `JobQueue` and `RunLifecycle` are proved.

### Findings

Eight runs are expected to fail, each on what the repository itself says.

1. `InstallationBudgetWedge`: `reconcileCommitted` (`installation-budget.ts:282`) compares
   committed charges without outstanding reservations with the cap. Raising an old
   charge while another call holds a reservation leaves a ledger that `#read`
   (`:634-635`) rejects in every later call. `WedgedOnlyByLateRaise`, proved, says that
   this is the only way to get there.
2. `BudgetLockStolen`: `#removeAbandonedLock` (`:790`) compares inodes and then renames
   by path. In between another waiter may have removed the dead lock and taken a new
   one, which is then carried away, so that two processes are admitted. It takes a
   death and two waiters; without a death exclusion is proved.
3. `VaultBudgetForgiven`: a process that opens the vault reads the ids of its reservations
   (`packages/database/src/index.ts:1665`) before the ledger file is locked. A call that
   another process reserves, inserts and sends in between is not among them, and if that
   process has died when the orphans are looked for, the call's reservation is given
   back. `installation-budget.ts:225-228` says that only reservations that died before
   their row are released, "without forgiving an uncertain or billable call". Moreover the
   row stays reserved: from its expiry on every conservative charge of it meets a
   released entry and throws (`installation-budget.ts:272`), and with it `reserveBudget`,
   `budgetSummary`, reset and import of that vault. `OnlyTheOvertakenAreForgiven`, proved,
   says that it takes a row inserted in that gap. `BillableIsCharged` therefore asks of
   a sent call that it be charged in the end, or the vault be `Wedged` in this way,
   which with one process never happens.
4. `VaultBudgetCountedTwice`: scrubbing a deleted run's metadata sets `reservation_id`
   to NULL; the next open imports the row under a legacy id beside the entry it
   already has (`packages/database/src/index.ts:1644`).
5. `JobQueueRetry`: `retryJob` (`packages/database/src/index.ts:1182`) resets `attempts` but
   keeps the rows of `job_attempts`, which are unique per attempt number. The next
   lease throws and takes the worker down, each time it is restarted.
6. `ClaimLedgerOverruled`: `reconcileClaim` (`packages/memory/src/temporal.ts:152`) compares
   with the newest relevant claim only; a tool's second contradiction is compared with
   its first and supersedes the user's current claim with it.
7. `EvidenceDeletionEdit`: an edit of a shard page sets that page's policy to "confirm",
   and the next compilation looks at the parent's policy only
   (`apps/worker/src/processor.ts:2114`): the edit is replaced.
8. `PortableVaultImport`: the default export leaves out the revisions of a topic that
   tool output reached and keeps section rows of a user's edit of it
   (`apps/api/src/maintenance.ts:1125`): no import accepts the archive.

Deviations that the passing properties state as exceptions rather than hide:

* A crash between the two halves of `releaseBudgetReservation` (`index.ts:1938`) leaves the
  file's entry reserved for ever; `BillableIsCharged` speaks of billable calls.
* A job whose worker dies during its last attempt stays "running": `leaseJob` reclaims
  only jobs with attempts left (`index.ts:1112`). The exception in `JobsEnd`.
* The API may die after creating the streaming answer and before the run names it
  (`orchestrator.ts:719-721`): the answer streams for ever. The exception in `AnswersEnd`.
* If accounting throws after the answer was registered (`orchestrator.ts:871-874`), the
  chosen answer is a failed or incomplete one. The exception in `OneAnswer`.
* `SentOnce` excepts two ways to a second message of the same draft. The request of a
  key that was asked for and not found may still be on its way; if the quality or
  the attachments have changed, the draft is sent under a new key (ghost `doubted`,
  `App.tsx:1297-1314`). And the verdict of the recovery effect sets the stage to "failed"
  while a send is checking the same earlier intent, so that a second send can begin;
  both find the earlier key missing and post under keys of their own (ghost `crossed`,
  `App.tsx:1144-1217`), though the toast says that Continuum "will not create a second
  message ... while the result is uncertain".
* `PacketRebuilds` excepts a page revised between the reading of its text and of its
  revision's id (ghost `moved`): the packet then says "unavailable".
* `InUseIsKept` excepts the second of two downloads of one export, since the set of
  active downloads does not count (ghost `shared`), and an archive that a prune had
  decided on before an import announced it (ghost `stale`).
* `ShownIsStreamed` excepts a recovery that replays an ended run onto its answer (ghost
  `misled`); a read asked before another tab's removal and answered late shows an older
  part, which takes `OneVault`'s floor back (ghost `behind`).
* `VectorsFollow` excepts a claim that is hidden and keeps its vector (`hidden`), an answer
  chosen again (its jobs' keys exist already) and a preflight that deletes by a hash
  read earlier (`excused`); `PageFollowsLedger` excepts the cases named in `mishaps`,
  among them a rebuild that is asked for by a key whose job has ended or has already
  read the page's claims (`returned`; the proof found the second case);
  `FilesFollow` an API that dies between its rename and its last look (`lost`).
* `OneCurrent` excepts a slot that somebody changed between the worker's reading and its
  transaction (ghost `mixed`); `LastWordStands` a user's value that somebody else's claim
  superseded (ghost `overruled`, finding 6); `GraphIsWhole` a relation written outside of
  any transaction around a merge (ghost `strayed`).
* `RepairKeepsTheChain` excepts a full compilation that leaves an old next link
  (`processor.ts:2836`) and a correction that moves a claim's key inside its part (ghost
  `frayed`).
* `NothingNamesTheRemoved` excepts a page whose last claim `hardDeleteClaim` deletes without
  looking at its proposals (ghost `stripped`, the comment at `index.ts:3966-3971`);
  `SupportDecides` the endless recursion of two answers in each other's closure (ghost
  `overflowed`).

Seen while modelling, without a run of their own.

*Runs.* An answer marked incomplete after its compilation was enqueued is
compiled all the same, though `ChatTimeline.tsx:182` says that it is "excluded from
long-term memory".

*Prompt.* A failed answer stays active and shares its question's turn, so that
`completeTurnGroups` (`context.ts:66-77`) drops the turn: a retry (`index.ts:1021` "Regenerate
it to continue.") sends a prompt without the question. Regenerating a complete answer
sends the old answer and later turns after the question. A message of up to 200,000
characters exceeds the smaller windows and is silently left out. A notice of a
conflict is dropped when its few tokens do not fit and a smaller claim still does.
`evidenceTokenBudget` is only traced; the share of 0.45 is what is enforced.

*Tools.* A death of the API leaves rows "running" for ever. A run that fails after a web
search ends the row but appends no result. If a program fills the output limit before
the ready marker arrives on the other pipe, the result says "user code was not
executed" though it was (`sandbox.ts:423-440`); output cut after another ending is
reported as not truncated (`:441-448`). An abort between `throwIfAborted` and
`addEventListener` is not heard. An approval is spent although the file cannot be read.
`boundedProviderEvidence` cuts a page and keeps `nextCursor`.

*Browser.* A torn snapshot makes the replay append to text already shown; a refetched
snapshot that does not name the live run replaces events under a live stream; after a
lost connection the auto-attach effect re-attaches from stale data; `confirmDelete`
ignores the success answer if the generation changed meanwhile; text typed while a
send is checked overwrites the stored draft.

*Memory.* Re-activating an earlier answer is lost for pages and vectors when its job's
key exists (`app.ts:1558`); a correction of a claim is not marked dirty
(`app.ts:2776-2787`) and gets no vector; claims of inactive answers are shown by an
inline page (`processor.ts:3753`); an edit of a shard fails while a proposal about it is
pending; decided proposals may name a page and revisions that a repair removed; a
message compiled again after a merge can leave the fingerprint unchanged, so that the
reversal drops a later relation; deaths in the middle of the repair of a topic whose
policy is "confirm" leave claims out until somebody rebuilds it.

*Vault.* A late repeat of an import whose receipt a later import dropped ends in
`VaultImportRecoveryRequired`, locked until a restart; the confirmation token of a
deletion is compared before the drain (`app.ts:3357-3359`); exports and stale backup
staging are not scrubbed; a double failure leaves a "prepared" deletion, and if its
object vanishes the next start "cannot be safely resumed". The export of a merged-away
entity whose aliases came from tool output keeps its name, and with two merges in a
chain the history row too (`docs/interchange-format.md:26`). An API that dies between
rename and last look can leave a stale page file for good.


## 4. Fairness

Safety is checked without fairness. Liveness uses:

* `StaleLockRecovered`: weak fairness of the steps of live processes (the waiting loop
  polls), of the calls of processes that never die, and of a lock file's age passing
  the threshold. It speaks only of complete lock files: an empty one, left by a death
  between create and write, fails closed on purpose (`installation-budget.ts:796-797`).
* `BillableIsCharged`: weak fairness of the statements of a method, of the passing of
  `expires_at` and of `budgetSummary`, which the API runs whenever settings are shown
  and every reservation runs first; a process that died is started by the launcher.
  It may lose the contended SQLite write lock for ever: weak fairness asks no more, and
  then another process has it, whose summaries charge the due rows of all.
* `JobsEnd`: weak fairness of each worker's steps (the tick is on a timer), of
  `available_at` and lease expiry passing, and of maintenance ending. No fairness of
  enqueuing, failing or completing in a particular way.
* `RunsEnd`: strong fairness of a run's execution, as any number of handlers can take the
  thread in between while the event loop resumes every settled promise; weak
  fairness of the restart. It rests on the provider's timeouts (every request has one)
  and on the catch block's own writes succeeding. No fairness of posting or cancelling.
* `GateReopens`: weak fairness of the work under the gate, of the scheduler's snapshot, of
  each admitted handler, of the start after a death and of the shutdown after a
  destruction: each has a timeout or is a sequence of local operations.

The fairness of a composed run is that of one part: the actions it names are guarded by
`part`, and the other parts stutter.

## 5. Proofs

Proved by `tlapm` with Z3, Zenon and LS4, for every value of the constants that the
named assumptions (`ASSUME ... Assumption ==`) of the modules allow.
Prefix `UNION` and `SUBSET` stand in parentheses beside another operator: `tlapm` 1.4.5
takes `UNION A \cup B` for `UNION (A \cup B)`, SANY and TLC for `(UNION A) \cup B`.

* **`InstallationBudgetProofs`**: `TypeCorrect`, `SpendingWithinCap`,
  `CategoriesWithinAllocations`, `BreachIsExact`, `WedgeHasOneCause`, `ChargesOnlyGrow`.
  Sums over entries are cardinalities of sets of (call, unit) pairs, so that the
  library's theorems on finite sets apply where a recursive sum would need
  induction. The type invariant with the two limits is inductive: each method's
  own arithmetic is shown to bound what it leaves outstanding.
* **`BudgetProofs`**, the lock: `Exclusion`, `OneAllowance`, `Refinement`, under `NoCrash`
  (`Crashable = {}`): finding 2 shows that with deaths they are false. The inductive
  invariant adds to the type invariant: whoever is in a critical phase owns the
  file at the path, its pid is the one recorded (`LockedBy`); what it read is still
  the ledger (`FreshCopy`); each grant is in the ledger (`GrantsRecorded`).
* **`BudgetProofs`**, the accounts: `SpendingStaysCovered`, for any number of calls and processes,
  each of which may die at any step. `SpendingIsCovered` compares two stores and is not
  inductive; what keeps it true is how far each method is. `AccountInv` says for each
  call which pairs of entry and row there are (`CallIsSound`) and for each process
  what it knows in the middle of its method (`MethodIsSound`): rows change only while
  SQLite's write lock is free or one's own, what a transaction settles was charged
  before it, a cost is in the file before the row gets it, and the one step that
  resets an entry is of a call without a row. `OthersRemainSound` is the frame lemma: a
  step of one process leaves what the others know true. And
  `OnlyTheOvertakenAreForgiven` (`PlaceInv`): a call that was sent, has lost its entry and
  was not overtaken would have to be among what an opening process has read, or have no
  row when that process reads; `CallIsPlaced` and `MethodIsPlaced` say so of every step
  between the reading of the rows and the look for orphans.
* **`WorkerProofs`**, the queue: `TypeCorrect`, `HolderIsCurrent`, `NoneLeasedInMaintenance`,
  `CompletionIsFinal`, and `QuietMaintenance` under `OneWorker`. The inductive
  invariant adds `ProcessingHasJob` and `LeaseDiscipline` (a running job's attempt row
  exists, owners belong to running jobs).
* **`RunLifecycleProofs`**: `TypeCorrect`, `CompletionIsDurable`, `EndsOnce`, `NeverPaidTwice`,
  `AnswersKeepTheirText`, `AtMostOneAnswer`, `EndIsFinal`: every safety property of the
  run, for any number of runs, questions, deltas and crashes. None of them is
  inductive, as each speaks of rows while what keeps them right is how far
  `#execute` is. The invariant `IInv` therefore says, per run, which rows agree with
  which `pc` (`Local`), and, over the runs, which answer is chosen at any point
  inside a stretch (`Choice`). Two frame lemmas reduce each step to the run it is of.
* **`AnswerProofs`**, the tools: `ApprovalsAreUsedOnce`. Each approval is in exactly one place - on
  offer, taken by one call, or used in one reading - and one that is on offer has the
  epoch of the present authorization (`ApprovalInv`). And `CallsTellTheirResults`
  (`AnswerInv`): rows before the last have told their result when the next call is
  taken up, the last one's is told by the step its response is at; and a program that
  nothing stopped has kept all it wrote.
* **`AnswerProofs`**, the reserve: `ReserveIsEnough`. The sum that is reserved is a recursive
  function of the rounds, so that there is one, and that it grows, needs induction, again
  by a least counterexample; its closed form (`CostsAddUp`) is what shows the function to
  exist. `ReserveInv` says of each response what the next request can cost at most -
  every round adds one call's result and one output to the input - and that what was
  billed is within the costs of the rounds so far (`RunIsPaid`).
* **`AnswerProofs`**, the prompt: `PromptsAreSound`. Sizes are sets of tokens, so that the
  sums over turns and evidence are cardinalities (`TotalOfParts`, `TotalOfRenamed`,
  `GroupsAddUp`), and what the greedy choice of turns takes is the one set of groups that
  fits group by group (`FitExists`, `FitFits`). `PromptInv`: what a response has read of
  the conversation are turns of messages that are still there with their sizes, its new
  question the last; what was found names no unfinished message; answers under way are
  apart, and only they are unfinished, so that a step of one response never takes back
  what another was told is complete (`ChatGrows`). It needs `MinimumTurns` not to be 0.
* **`AnswerProofs`**, the context: `PacketsRebuild` (`PacketInv`: what was found says what it
  said when it was read, as long as the page did not move, and what a record names it
  quotes, so that no later change reaches it).
* **`WorkerProofs`**, one slot: `SlotsHaveOneValue`, `LastWordIsKept`. A claim is written
  by what was read of the slot before, so both need `LedgerInv`: the rows that were read
  still say the same (status aside), what nobody interfered with is what there is now
  (`FreshIsNow`), and a claim that is being persisted is the last thing said or somebody
  has corrected a claim since and has the last word (`SaidLast`).
* **`WorkerProofs`**, the graph: `DeletedEvidenceStaysGone` (`GoneInv`). The state a merge
  kept to be reversed holds nothing deleted either, and what the worker is about to
  write is of a source that is still there.
* **`WorkerProofs`**, the links of a topic's parts: `LinksAreTheChain`, for any number of
  claims and changes, any rooms, and deaths anywhere, unless the ghost says that
  something frayed the links. In the middle of a repair the links are not the chain;
  `ChainInv` says which ones are: all but those of the parts the repair has yet to link
  and of the parts right before where these are or, once archived, were (`LinksFit`, for
  either direction). Four lemmas say what keeps that: setting the links of one part
  (`LinkingFits`), a part that is added, removed, or stored again between the same
  neighbours (`AddingFits`, `RemovingFits`, `KeepingFits`). They need that a finite ordered
  set has a first element (`OneIsFirst`), again by a least counterexample.
* **`BrowserProofs`**, drafts: `DraftsAreSentOnce`, `DraftsAreKept`, for any number of drafts, keys,
  page loads and sends at a time. `IntentsInv`: page and storage agree on the draft there
  is; a key is of one draft wherever it is known (`KeysName`); of what was sent of one
  draft and counts there is one key (`OneKey`), that of the stored intent if it is the
  draft there is (`CurrentIsIntended`) and of the prior intent of whoever checks
  (`CheckedIsPrior`). `OneKey` alone is not inductive: without the other two nothing says
  that the key a send gives up, or finds stored, is the one its draft was sent under.
  The proof is what showed that two sends can be under way.
* **`BrowserProofs`**, the vault shown: `ScreenShowsOneVault`, without any assumption on the
  constants. `ViewInv`: while the vault is locked for a removal, whatever boundary was
  handed out or is in the cookie is older than its generation, so that whoever finds his
  boundary there still has read the vault there is (`FenceHolds`); cached answers are dated
  by what was scrubbed (`CacheIsDated`); and what a page put aside is what it showed when
  it did (`KeptFollows`), which is what it may show again.
* **`BrowserProofs`**, the answer shown: `StreamIsFollowed`, `AnswersAreShownWhole`, for any
  number of events and troubles. The text of an answer is a recursive function of the
  log, so the proof needs induction over data, which it does by a least counterexample:
  the set of lengths at which a lemma fails has no first element (`NoFirst`, from the
  well-foundedness of the naturals), hence is empty. `StreamInv`: texts, checkpoints and
  snapshots are all of the log up to some event; a connection has on its way exactly the
  ids after the cursor; and text shown, checkpoint and cursor are of the same event,
  unless the ghost says otherwise (`CheckpointFollows`, which holds only together with
  what makes a page find its answer again, `RefFollows` and `NothingKept`).
* **`MemoryProofs`**, the file of a page: `FilesAreLookedAfter`, `FilesFollowThePage`, for any
  number of slugs, changes and deaths. `FilesFollow` looks at the end, and in the middle
  either writer may spoil what the other has done; what is invariant is who will look
  again. `FileFollows`: once the worker has published the page as it is and has one job at
  most, the API is going to read the page again, publish it or have it repaired
  (`WillLook`), or the file is right and whoever has listed, or will list, its leftovers
  is going to remove them (`Watched`). It needs that the one repair job of a page is asked
  for by an API that knows the page as it is (`AskedKnows`).
* **`MemoryProofs`**, the vectors: `TextsAreLookedAfter`, `VectorsFollowTheTexts`, for any number
  of workers, texts, models, changes and lost leases. `WillEmbed`: a text without its
  vector has a job of the file, answer, page or claim as it is, and no worker that holds
  its lease is past the text. A worker that has lost the lease may still store and
  remove vectors, but not this one; and no worker can have a job that is newly queued, since
  keys are never used again (`JobsAreForRoots`).
* **`MemoryProofs`**, proposals: `ProposedClaimsAreKept`, for any number of turns, topics,
  edits and decisions. `ProposalsInv` says, until something is deleted, of every claim on
  no page that a proposal has it which is not superseded (`NoneIsLost`). A proposal that
  supersedes others carries their claims along (`ProposedFacts`), and what lapses or is
  rebased keeps its own (`LapsedFacts`, `AcceptKeepsClaims`).
* **`MemoryProofs`**, deletions: `EvidenceDecides`, for any number of turns, topics, shards,
  edits, proposals and deletions inside one another. `SupportDecides` compares the
  database at the end with the one before; `SupportInv` says the same after every deletion
  of the stack (`DecidedSince`), which needs that each claim's evidence is there and none
  is without (`IsSupported`), that only claims that the closure finds can lose all of it
  (`ClosureFinds`), and that purging, repairing and scrubbing take neither claims nor
  evidence (`PurgedFacts`, `RepairedFacts`, `ScrubbedFacts`): whatever else they take is a
  revision or a page (`Aside`). The rounds of the closure are a recursive function, so
  `RoundsAreRounds` shows that there is one, from its beginnings (`FirstRoundsExist`), again
  by a least counterexample.
* **`MemoryProofs`**, the page: `PagesAreTyped`, `PagesFollow`, for any number of choices of
  answers, corrections and deaths. `PageFollowsLedger` looks at the end, when no job is
  left. Before that a page may differ from the ledger as long as somebody will still
  look: a job that writes the page anew and has not read its claims yet (`LookAhead`).
  `Follows` says that without one the page is right, or the job under way has been told
  all that the ledger says. The proof found an excuse that was too narrow: a rebuild may be
  asked for by the key of the very job that has just read the claims, and then
  `enqueueJobAt` returns that job; the run's bounds are too small for it.
* **`VaultProofs`**, whole-vault operations: `VaultIsSound`, `VaultWholeWhenOpen`,
  `VaultAppliedOnce`, for any number of requests, items, tries, failing writes and deaths.
  Both properties look at an open vault, or at the end; while an operation is under way,
  stuck or waiting for a start, what will make them true is in the journals. `VaultInv`
  says what, in five parts that are proved one after the other, each with those before it:
  `OperationsAreSound` (one request works at a time, and only after the others are done;
  nothing is open in the journals but its row, unless a start is to come, and never beside
  a marker), `StoreIsSound` (rows have their bytes; a committed row names bytes no row has),
  `GoneIsGone` (what was removed is on a page, in a backup or on the shelf only while an
  open row or the marker says that they are still to be done), `BytesAreGone` (its bytes
  are there only if shared, or an erasure or the sweep of a start is to come) and
  `EffectsAreSound` (commits, remembered responses and phases agree, so that what is begun,
  resumed, repeated or taken over has not been committed). Each part has a frame lemma for
  the steps that do not concern it.
* **`VaultProofs`**, archives and exports: `ArchivesCommitOnce` (`CommitInv`: the journal row says
  whether a token was used, from before the vault is replaced) and `FilesInUseAreKept`
  (`HeldInv`: an archive held by an import is announced and not being unlinked; a single
  download keeps its export in the active set).
* **`VaultProofs`**, portable archives: `ToolOutputIsLeftBehind`, `TheRestIsNotLost`, for any
  number of messages, claims, pages and entities. `PortableInv`: a revision has a row for
  every message its words are from, and every claim among its rows and inputs is on its
  page (`PagesAreSourced`); whom an entity is named by is among its aliases until it is
  merged away. From that, `ExclusionsAreSound` and `ExclusionsAreComplete` say of
  `exportPrivacy` that it excludes no page untouched by tool output, nor its claims, and
  all that is touched. The vault no longer changes once there is an archive, so what holds
  of the tables at the export is carried over to the import. The proof needs ids of
  messages and claims to differ (`PortableAssumption`), since inputs of a revision are both.

Only model-checked, and why: all liveness (out of the prover's reach); the lock protocol
with deaths (exclusion is false there); `NothingNamesTheRemoved`, which says of every
table that a closure computed round by round has all that names what goes (that the
rounds are enough is a count of rows, not a case of each step);
`EditsAreKept`, which is violated; `GraphIsWhole`, which says what is left of names and
relations after merges and reversals in any order, each of which restores a state kept
whole from before; and `WholeOrRebuilt`, which counts the parts that hold a claim, and
where the ranks of claims among their sort keys decide who is in which part.

## 6. Not modelled

Left out for good: parsing and rendering, archive formats, network and Keychain I/O,
the rules of process isolation, full-text search and scoring, logging, the offline
evaluation programs (their one shared state is the ledger), upgrades of old schemas,
process supervision, and ingestion, whose store and chunker are sequential file
operations of one call. The pruning of stale backup staging (`maintenance.ts:1593-1643`)
and the composer's state while the vault is removed during a send are not in
`ManagedFiles` and `SendIntents`.

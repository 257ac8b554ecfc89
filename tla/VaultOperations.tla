-------------------------- MODULE VaultOperations --------------------------
(***************************************************************************)
(* The operations that replace or erase parts of a vault: hard deletion,   *)
(* import and destruction (apps/api/src/app.ts, maintenance.ts), with the  *)
(* uploads and scheduled backups they exclude.  Each of them writes the    *)
(* database, the attachment bytes, the topic pages and the backups one     *)
(* after the other and keeps a journal; the API may die, and a write may   *)
(* fail, between any two of these writes, and the next start goes on from  *)
(* the journal.                                                            *)
(*                                                                         *)
(* Requests pass the MutationAdmissionGate of mutation-admission.ts.  A    *)
(* request stands for its idempotency key: a client that got no answer     *)
(* sends it again.  An item stands for what a deletion names and all that  *)
(* is derived from it (EvidenceDeletion has the closure).  One step is one *)
(* transaction, one durable file operation, or a run of code without an    *)
(* await.                                                                  *)
(***************************************************************************)
EXTENDS Integers, FiniteSets, Sequences

CONSTANTS
  Requests,
  NoRequest,
  Wants,         \* what a request may ask for: a kind and an item
  Items,
  BlobOf,        \* the content hash of each item's bytes
  Archive,       \* the items of the archive that imports read
  MaxCrashes,    \* bounds on the deaths of the API, on failing writes, on the
  MaxFaults,     \* number of times a client sends one request and on the
  MaxTries,      \* number of scheduled backups
  MaxSnapshots

ASSUME NoRequestAssumption == NoRequest \notin Requests
ASSUME WantsAssumption ==
  Wants \subseteq [kind : {"upload", "delete", "import", "destroy"}, item : Items]
ASSUME ArchiveAssumption == Archive \subseteq Items
ASSUME VaultBoundsAssumption ==
  {MaxCrashes, MaxFaults, MaxTries, MaxSnapshots} \subseteq Nat

VARIABLES
  want,        \* what each request asks for
  rows,        \* the items the database has
  bytes,       \* the hashes the content store has
  pages,       \* the items that the files of the projections directory mention
  shelf,       \* the pages moved aside by an import
  backups,     \* the managed backup files, each the items it holds
  keys,        \* the requests whose response idempotency_keys has
  deletions,   \* the rows of deletion_operations and of import_operations, in
  imports,     \* the order of their creation
  marker,      \* the request of the vault-destroy marker
  staged,      \* the import requests whose verified archive is staged
  locked,      \* the maintenance.locked setting
  server,
  exclusive,   \* the request that holds the gate (#exclusive, and #accepting
  admitted,    \* is false), and the requests in #admitted
  at,          \* where the handler of each request is
  work,        \* the operation under way: its step, its request, its row in
               \* the journal and the older row it replaces
  snapshot,    \* the scheduled backup under way and the items it has read
  answered,    \* the requests whose success the client knows
  tries,
  commits,     \* how often each request's effect was committed, since an
               \* import replaced the database
  gone,        \* the items removed by deletions, and not put back since
  crashes, faults, snapshots

store == <<rows, bytes, pages, shelf, backups>>
journal == <<keys, deletions, imports, marker, staged>>
gate == <<locked, exclusive, admitted, at>>
client == <<want, answered, tries>>
ghosts == <<commits, gone>>
bounds == <<crashes, faults, snapshots>>
vaultVars == <<store, journal, gate, client, ghosts, bounds, server, work, snapshot>>

NoWork == [step |-> "none", req |-> NoRequest, row |-> 0, older |-> 0]
NoSnapshot == [step |-> "idle", holds |-> {}]

BytesOf(items) == {BlobOf[i] : i \in items}
KindOf(r) == want[r].kind
ItemOf(r) == want[r].item

VaultInit ==
  /\ want \in {w \in [Requests -> Wants] : \A r, q \in Requests :
                 r # q /\ w[r].kind = "upload" => w[r] # w[q]}
  /\ rows = Items \ {ItemOf(r) : r \in {q \in Requests : KindOf(q) = "upload"}}
  /\ bytes = BytesOf(rows)
  /\ pages = rows
  /\ shelf = {}
  /\ backups = {}
  /\ keys = {}
  /\ deletions = <<>>
  /\ imports = <<>>
  /\ marker = NoRequest
  /\ staged = {r \in Requests : KindOf(r) = "import"}
  /\ locked = FALSE
  /\ server = "open"
  /\ exclusive = NoRequest
  /\ admitted = {}
  /\ at = [r \in Requests |-> "idle"]
  /\ work = NoWork
  /\ snapshot = NoSnapshot
  /\ answered = {}
  /\ tries = [r \in Requests |-> 0]
  /\ commits = [r \in Requests |-> 0]
  /\ gone = {}
  /\ crashes = 0
  /\ faults = 0
  /\ snapshots = 0

-----------------------------------------------------------------------------
(* Admission *)

\* The preHandler hook.
Admit(r) ==
  /\ server = "open" /\ ~locked /\ exclusive = NoRequest
  /\ at[r] = "idle" /\ r \notin answered /\ tries[r] < MaxTries
  /\ admitted' = admitted \cup {r}
  /\ at' = [at EXCEPT ![r] = "admitted"]
  /\ tries' = [tries EXCEPT ![r] = @ + 1]
  /\ UNCHANGED <<store, journal, locked, exclusive, want, answered, ghosts, bounds,
                 server, work, snapshot>>

\* The onResponse and onError hooks: the handler is done.
Respond(r, success) ==
  /\ admitted' = admitted \ {r}
  /\ at' = [at EXCEPT ![r] = "idle"]
  /\ answered' = IF success THEN answered \cup {r} ELSE answered
  /\ UNCHANGED <<want, tries, bounds, server>>

\* The request was answered before, and only its answer was lost.
AnswerAgain(r) ==
  /\ at[r] = "admitted" /\ r \in keys
  /\ Respond(r, TRUE)
  /\ UNCHANGED <<store, journal, locked, exclusive, ghosts, work, snapshot>>

\* There is no such item, or another operation holds the gate.
Refuse(r) ==
  /\ at[r] = "admitted" /\ r \notin keys /\ KindOf(r) # "upload"
  /\ \/ KindOf(r) = "delete" /\ ItemOf(r) \notin rows
     \/ exclusive # NoRequest
  /\ Respond(r, FALSE)
  /\ UNCHANGED <<store, journal, locked, exclusive, ghosts, work, snapshot>>

\* beginExclusive closes the gate.
BeginExclusive(r) ==
  /\ at[r] = "admitted" /\ r \notin keys /\ KindOf(r) # "upload"
  /\ KindOf(r) = "delete" => ItemOf(r) \in rows
  /\ exclusive = NoRequest
  /\ exclusive' = r
  /\ admitted' = admitted \ {r}
  /\ at' = [at EXCEPT ![r] = "draining"]
  /\ UNCHANGED <<store, journal, locked, client, ghosts, bounds, server, work, snapshot>>

\* beginMaintenance once the gate has drained.
Lock(r) ==
  /\ at[r] = "draining" /\ admitted = {}
  /\ locked' = TRUE
  /\ at' = [at EXCEPT ![r] = "waiting"]
  /\ UNCHANGED <<store, journal, exclusive, admitted, client, ghosts, bounds, server,
                 work, snapshot>>

\* Faulty: the deadline passes and the lock is left behind.
GiveUpLocked(r) ==
  /\ at[r] \in {"draining", "waiting"}
  /\ exclusive' = NoRequest
  /\ at' = [at EXCEPT ![r] = "idle"]
  /\ UNCHANGED <<store, journal, locked, admitted, client, ghosts, bounds, server, work,
                 snapshot>>

\* The deadline of beginMaintenance passes.
GiveUp(r) ==
  /\ at[r] \in {"draining", "waiting"}
  /\ locked' = FALSE
  /\ exclusive' = NoRequest
  /\ at' = [at EXCEPT ![r] = "idle"]
  /\ UNCHANGED <<store, journal, admitted, client, ghosts, bounds, server, work,
                 snapshot>>

FirstStep == [delete |-> "prepare", import |-> "claim", destroy |-> "mark"]

\* beginMaintenance returns: no backup is being made.  (No run and no job is
\* active either: RunLifecycle and JobQueue.)
StartWork(r) ==
  /\ at[r] = "waiting" /\ snapshot.step = "idle"
  /\ work' = [NoWork EXCEPT !.step = FirstStep[KindOf(r)], !.req = r]
  /\ at' = [at EXCEPT ![r] = "working"]
  /\ UNCHANGED <<store, journal, locked, exclusive, admitted, client, ghosts, bounds,
                 server, snapshot>>

-----------------------------------------------------------------------------
(* Uploads, pages and scheduled backups *)

\* The bytes first, with uploads of the same hash one after the other ...
PutUpload(r) ==
  /\ at[r] = "admitted" /\ r \notin keys /\ KindOf(r) = "upload"
  /\ \A q \in Requests : at[q] = "put" => BlobOf[ItemOf(q)] # BlobOf[ItemOf(r)]
  /\ bytes' = bytes \cup {BlobOf[ItemOf(r)]}
  /\ at' = [at EXCEPT ![r] = "put"]
  /\ UNCHANGED <<rows, pages, shelf, backups, journal, locked, exclusive, admitted,
                 client, ghosts, bounds, server, work, snapshot>>

\* Faulty: the response is not remembered with the rows.
InsertUploadOnly(r) ==
  /\ at[r] = "put"
  /\ rows' = rows \cup {ItemOf(r)}
  /\ gone' = gone \ {ItemOf(r)}
  /\ commits' = [commits EXCEPT ![r] = @ + 1]
  /\ \E success \in BOOLEAN : Respond(r, success)
  /\ UNCHANGED <<bytes, pages, shelf, backups, journal, locked, exclusive, work, snapshot>>

\* ... then the rows, and the response with them.  The client may have hung up.
InsertUpload(r) ==
  /\ at[r] = "put"
  /\ rows' = rows \cup {ItemOf(r)}
  /\ keys' = keys \cup {r}
  /\ gone' = gone \ {ItemOf(r)}
  /\ commits' = [commits EXCEPT ![r] = @ + 1]
  /\ \E success \in BOOLEAN : Respond(r, success)
  /\ UNCHANGED <<bytes, pages, shelf, backups, deletions, imports, marker, staged, locked,
                 exclusive, work, snapshot>>

\* ... or, when that fails, the bytes are taken back unless some row has them.
FailUpload(r) ==
  /\ at[r] = "put" /\ faults < MaxFaults
  /\ bytes' = bytes \ ({BlobOf[ItemOf(r)]} \ BytesOf(rows))
  /\ admitted' = admitted \ {r}
  /\ at' = [at EXCEPT ![r] = "idle"]
  /\ faults' = faults + 1
  /\ UNCHANGED <<rows, pages, shelf, backups, journal, locked, exclusive, client, ghosts,
                 crashes, snapshots, server, work, snapshot>>

\* A topic page is published for an item that has none.
PublishPage(i) ==
  /\ ~locked /\ i \in rows \ pages
  /\ pages' = pages \cup {i}
  /\ UNCHANGED <<rows, bytes, shelf, backups, journal, gate, client, ghosts, bounds,
                 server, work, snapshot>>

\* createDueBackups: refused under the lock ...
StartSnapshot ==
  /\ server = "open" /\ ~locked /\ snapshot.step = "idle" /\ snapshots < MaxSnapshots
  /\ snapshot' = [snapshot EXCEPT !.step = "reading"]
  /\ snapshots' = snapshots + 1
  /\ UNCHANGED <<store, journal, gate, client, ghosts, crashes, faults, server, work>>

\* ... a consistent copy of the database ...
ReadSnapshot ==
  /\ snapshot.step = "reading"
  /\ snapshot' = [step |-> "writing", holds |-> rows]
  /\ UNCHANGED <<store, journal, gate, client, ghosts, bounds, server, work>>

\* ... exported, verified and moved into place.
PublishSnapshot ==
  /\ snapshot.step = "writing"
  /\ backups' = backups \cup {snapshot.holds}
  /\ snapshot' = NoSnapshot
  /\ UNCHANGED <<rows, bytes, pages, shelf, journal, gate, client, ghosts, bounds,
                 server, work>>

-----------------------------------------------------------------------------
(* Steps of the operation under way.  During a start of the API it is one    *)
(* that an earlier process left unfinished.                                  *)

At(step) == work.step = step
Step(next) == work' = [work EXCEPT !.step = next]

WorkStep == <<gate, client, ghosts, bounds, server, snapshot>>
Control == <<gate, client, bounds, server, snapshot>>

\* endMaintenance, or the next unfinished operation.  The client may have hung
\* up before the answer.
EndWork(success) ==
  /\ UNCHANGED <<want, tries, server, snapshot>>
  /\ IF server = "starting"
       THEN /\ work' = [NoWork EXCEPT !.step = "resume"]
            /\ UNCHANGED <<locked, exclusive, admitted, at, answered>>
       ELSE /\ work' = NoWork
            /\ locked' = FALSE
            /\ exclusive' = NoRequest
            /\ at' = [at EXCEPT ![work.req] = "idle"]
            /\ UNCHANGED admitted
            /\ answered' \in IF success THEN {answered, answered \cup {work.req}}
                                        ELSE {answered}

-----------------------------------------------------------------------------
(* Hard deletion: a journal row ... *)

PrepareDeletion ==
  /\ At("prepare")
  /\ deletions' = Append(deletions, [item |-> ItemOf(work.req), req |-> work.req,
                                     phase |-> "prepared", freed |-> {}])
  /\ work' = [work EXCEPT !.step = "delete", !.row = Len(deletions) + 1]
  /\ UNCHANGED <<store, keys, imports, marker, staged, WorkStep>>

\* sharedByteReferences = 0.
UnsharedBytesOf(i, remaining) == {BlobOf[i]} \ BytesOf(remaining)

\* ... one transaction over everything derived from the item, ...
DeleteRows ==
  /\ At("delete")
  /\ LET i == ItemOf(work.req)
         remaining == rows \ {i}
     IN /\ rows' = remaining
        /\ deletions' = [deletions EXCEPT
             ![work.row].phase = "database_complete",
             ![work.row].freed = UnsharedBytesOf(i, remaining)]
        /\ gone' = gone \cup {i}
  /\ commits' = [commits EXCEPT ![work.req] = @ + 1]
  /\ Step(IF work.older = 0 THEN "erase" ELSE "supersede")
  /\ UNCHANGED <<bytes, pages, shelf, backups, keys, imports, marker, staged, Control>>

\* ... at a start, the end of the row this one takes over from, ...
SupersedeDeletion ==
  /\ At("supersede")
  /\ deletions' = [deletions EXCEPT ![work.older].phase = "complete"]
  /\ Step("erase")
  /\ UNCHANGED <<store, keys, imports, marker, staged, WorkStep>>

\* ... the bytes, ...
EraseBytes ==
  /\ At("erase")
  /\ bytes' = bytes \ deletions[work.row].freed
  /\ Step("unpublish")
  /\ UNCHANGED <<rows, pages, shelf, backups, journal, WorkStep>>

\* ... the topic pages (syncTopicProjections), ...
UnpublishPages ==
  /\ At("unpublish")
  /\ pages' = pages \ {deletions[work.row].item}
  /\ Step("scrub")
  /\ UNCHANGED <<rows, bytes, shelf, backups, journal, WorkStep>>

\* ... the backups, behind any that is being made, and a new one, ...
ScrubBackups ==
  /\ At("scrub") /\ snapshot.step = "idle"
  /\ backups' = {}
  /\ Step("recopy")
  /\ UNCHANGED <<rows, bytes, pages, shelf, journal, WorkStep>>

CopyAfterDeletion ==
  /\ At("recopy")
  /\ backups' = backups \cup {rows}
  /\ Step("remember")
  /\ UNCHANGED <<rows, bytes, pages, shelf, journal, WorkStep>>

\* ... the response ...
RememberResponse ==
  /\ At("remember")
  /\ keys' = keys \cup {work.req}
  /\ Step(IF KindOf(work.req) = "destroy" THEN "unmark" ELSE "complete")
  /\ UNCHANGED <<store, deletions, imports, marker, staged, WorkStep>>

\* ... and the end of the journal row.
CompleteDeletion ==
  /\ At("complete")
  /\ deletions' = [deletions EXCEPT ![work.row].phase = "complete"]
  /\ EndWork(TRUE)
  /\ UNCHANGED <<store, keys, imports, marker, staged, ghosts, bounds>>

-----------------------------------------------------------------------------
(* Import.  importVerifiedToken looks for an earlier attempt of this request *)
(* first: one that is complete but whose response is no longer there (a      *)
(* later import replaced the keys) ends in VaultImportRecoveryRequired.      *)
(* Then the archive must still be staged.                                    *)

ImportsOf(r) == {k \in DOMAIN imports : imports[k].req = r}

ClaimImport ==
  /\ At("claim")
  /\ IF \E k \in ImportsOf(work.req) : imports[k].phase = "complete"
       THEN Step("stuck") /\ UNCHANGED <<gate, client, server, snapshot>>
     ELSE IF work.req \in staged
       THEN Step("save") /\ UNCHANGED <<gate, client, server, snapshot>>
     ELSE EndWork(FALSE)
  /\ UNCHANGED <<store, journal, ghosts, bounds>>

\* A safety backup, ...
SaveBeforeImport ==
  /\ At("save")
  /\ backups' = backups \cup {rows}
  /\ Step("stage")
  /\ UNCHANGED <<rows, bytes, pages, shelf, journal, WorkStep>>

\* ... the private copy of the archive and its journal row, ...
StageImport ==
  /\ At("stage")
  /\ imports' = Append(imports, [req |-> work.req, phase |-> "prepared",
                                 old |-> BytesOf(rows),
                                 fresh |-> BytesOf(Archive) \ bytes])
  /\ work' = [work EXCEPT !.step = "put", !.row = Len(imports) + 1]
  /\ UNCHANGED <<store, keys, deletions, marker, staged, WorkStep>>

\* ... its bytes, ...
PutImportedBytes ==
  /\ At("put")
  /\ bytes' = bytes \cup BytesOf(Archive)
  /\ Step("replace")
  /\ UNCHANGED <<rows, pages, shelf, backups, journal, WorkStep>>

\* ... all tables in one transaction, those of the keys and deletions with
\* them, ...
CommitsForgotten == [r \in Requests |-> IF KindOf(r) = "import" THEN commits[r] ELSE 0]

ReplaceRows ==
  /\ At("replace")
  /\ rows' = Archive
  /\ keys' = {}
  /\ deletions' = <<>>
  /\ imports' = [imports EXCEPT ![work.row].phase = "database_complete"]
  /\ gone' = gone \ Archive
  /\ commits' = [CommitsForgotten EXCEPT ![work.req] = @ + 1]
  /\ Step("away")
  /\ UNCHANGED <<bytes, pages, shelf, backups, marker, staged, Control>>

\* ... the projections directory, exchanged for that of the archive (an import
\* in mode "fresh" has none), ...
MovePagesAway ==
  /\ At("away")
  /\ shelf' = pages
  /\ pages' = {}
  /\ Step("install")
  /\ UNCHANGED <<rows, bytes, backups, journal, WorkStep>>

InstallPages ==
  /\ At("install")
  /\ pages' \in {Archive, {}}
  /\ Step("tidy")
  /\ UNCHANGED <<rows, bytes, shelf, backups, journal, WorkStep>>

TidyPages ==
  /\ At("tidy")
  /\ shelf' = {}
  /\ imports' = [imports EXCEPT ![work.row].phase = "files_complete"]
  /\ Step("drop")
  /\ UNCHANGED <<rows, bytes, pages, backups, keys, deletions, marker, staged, WorkStep>>

\* ... the bytes of the old vault, ...
DropOldBytes ==
  /\ At("drop")
  /\ bytes' = bytes \ (imports[work.row].old \ BytesOf(Archive))
  /\ Step("publish")
  /\ UNCHANGED <<rows, pages, shelf, backups, journal, WorkStep>>

\* ... and the response with the end of the journal row.
CompleteImport ==
  /\ At("publish")
  /\ keys' = keys \cup {imports[work.row].req}
  /\ imports' = [imports EXCEPT ![work.row].phase = "complete"]
  /\ staged' = staged \ {imports[work.row].req}
  /\ EndWork(TRUE)
  /\ UNCHANGED <<store, deletions, marker, ghosts, bounds>>

\* Before the commit it is rolled back instead.  A start spares the bytes that
\* rows or later imports have.
LaterImportedBytes ==
  IF \E k \in DOMAIN imports :
       k > work.row /\ imports[k].phase \in {"database_complete", "files_complete", "complete"}
    THEN BytesOf(Archive) ELSE {}

RollBackImport ==
  /\ At("rollback")
  /\ bytes' = bytes \ (imports[work.row].fresh \
                         IF server = "starting" THEN BytesOf(rows) \cup LaterImportedBytes
                                                ELSE {})
  /\ imports' = [imports EXCEPT ![work.row].phase = "failed"]
  /\ EndWork(FALSE)
  /\ UNCHANGED <<rows, pages, shelf, backups, keys, deletions, marker, staged, ghosts, bounds>>

-----------------------------------------------------------------------------
(* Destruction: a marker, ...                                                *)

MarkDestroy ==
  /\ At("mark")
  /\ marker' = work.req
  /\ Step("clear")
  /\ UNCHANGED <<store, keys, deletions, imports, staged, WorkStep>>

\* ... all tables in one transaction, ...
ClearTables ==
  /\ At("clear")
  /\ rows' = {}
  /\ keys' = {}
  /\ deletions' = <<>>
  /\ imports' = <<>>
  /\ gone' = Items
  /\ commits' = CommitsForgotten
  /\ Step("wipe")
  /\ UNCHANGED <<bytes, pages, shelf, backups, marker, staged, Control>>

\* ... all managed files; then backups and response as after a deletion ...
WipeFiles ==
  /\ At("wipe")
  /\ bytes' = {}
  /\ pages' = {}
  /\ backups' = {}
  /\ staged' = {}
  /\ Step("scrub")
  /\ UNCHANGED <<rows, shelf, keys, deletions, imports, marker, WorkStep>>

\* ... and the end of the marker.
UnmarkDestroy ==
  /\ At("unmark")
  /\ marker' = NoRequest
  /\ EndWork(TRUE)
  /\ UNCHANGED <<store, keys, deletions, imports, staged, ghosts, bounds>>

-----------------------------------------------------------------------------
(* Failing writes.  Before the commit the operation ends, with its journal   *)
(* row marked or its bytes rolled back; after it the vault stays locked      *)
(* until the API is started again.                                           *)

FailBeforeCommit ==
  /\ work.step \in {"prepare", "claim", "save", "stage", "mark"} /\ server = "open"
  /\ EndWork(FALSE)
  /\ UNCHANGED <<store, journal>>

FailDeletion ==
  /\ At("delete") /\ server = "open"
  /\ deletions' = [deletions EXCEPT ![work.row].phase = "failed"]
  /\ EndWork(FALSE)
  /\ UNCHANGED <<store, keys, imports, marker, staged>>

FailImport ==
  /\ work.step \in {"put", "replace"} /\ server = "open"
  /\ Step("rollback")
  /\ UNCHANGED <<store, journal, gate, client, server, snapshot>>

FailAfterCommit ==
  /\ work.step \in {"erase", "unpublish", "scrub", "recopy", "remember", "complete",
                    "away", "install", "tidy", "drop", "publish", "rollback",
                    "clear", "wipe", "unmark"}
  /\ server = "open"
  /\ staged' = staged \ {work.req}
  /\ Step("stuck")
  /\ UNCHANGED <<store, keys, deletions, imports, marker, gate, client, server, snapshot>>

FailStep ==
  /\ faults < MaxFaults
  /\ faults' = faults + 1
  /\ FailBeforeCommit \/ FailDeletion \/ FailImport \/ FailAfterCommit
  /\ UNCHANGED <<ghosts, crashes, snapshots>>

-----------------------------------------------------------------------------
(* The API's process *)

Exit ==
  /\ server' = "down"
  /\ exclusive' = NoRequest
  /\ admitted' = {}
  /\ at' = [r \in Requests |-> "idle"]
  /\ work' = NoWork
  /\ snapshot' = NoSnapshot
  /\ UNCHANGED <<store, journal, locked, client, ghosts, snapshots>>

Crash ==
  /\ server # "down" /\ crashes < MaxCrashes
  /\ crashes' = crashes + 1
  /\ UNCHANGED faults
  /\ Exit

\* A write of a start fails, and with it the start.
FailStart ==
  /\ server = "starting" /\ faults < MaxFaults
  /\ faults' = faults + 1
  /\ UNCHANGED crashes
  /\ Exit

\* The user is told to restart.
Quit ==
  /\ At("stuck")
  /\ UNCHANGED <<crashes, faults>>
  /\ Exit

\* buildApp takes the lock, makes the projections directory if there is none,
\* and goes through the journals: a pending destruction first, ...
Boot ==
  /\ server = "down"
  /\ server' = "starting"
  /\ locked' = TRUE
  /\ work' = IF marker # NoRequest
               THEN [NoWork EXCEPT !.step = "clear", !.req = marker]
               ELSE [NoWork EXCEPT !.step = "resume"]
  /\ UNCHANGED <<store, journal, exclusive, admitted, at, client, ghosts, bounds, snapshot>>

FirstIn(table, phases) ==
  {k \in DOMAIN table : /\ table[k].phase \in phases
                        /\ \A j \in 1..(k - 1) : table[j].phase \notin phases}

OpenImports == FirstIn(imports, {"prepared", "database_complete", "files_complete"})
OpenDeletions == FirstIn(deletions, {"prepared", "database_complete"})

Newest(k) ==
  {d \in DOMAIN deletions : /\ d # k /\ deletions[d].item = deletions[k].item
                            /\ \A e \in (DOMAIN deletions) \ {k} :
                                 e > d => deletions[e].item # deletions[k].item}

\* ... then the imports ...
ResumeImport ==
  /\ At("resume")
  /\ \E k \in OpenImports :
       work' = [work EXCEPT
         !.step = CASE imports[k].phase = "prepared" -> "rollback"
                    [] imports[k].phase = "database_complete" -> "away"
                    [] OTHER -> "drop",
         !.req = imports[k].req, !.row = k]
  /\ shelf' = {}
  /\ UNCHANGED <<rows, bytes, pages, backups, journal, WorkStep>>

\* ... and the deletions: one that was committed goes on, ...
ResumeDeletion ==
  /\ At("resume") /\ OpenImports = {}
  /\ \E k \in OpenDeletions :
       /\ deletions[k].phase = "database_complete"
       /\ work' = [work EXCEPT !.step = "erase", !.req = deletions[k].req, !.row = k]
  /\ UNCHANGED <<store, journal, WorkStep>>

\* Faulty: a later attempt is taken for finished once it has been committed.
ForgetLaterAttempt(k, d) ==
  /\ deletions' = [deletions EXCEPT ![k].phase = "complete", ![d].phase = "complete"]
  /\ UNCHANGED work

\* ... one that a later attempt has taken over ends, and the later one goes on
\* unless it is complete, ...
AdoptLaterAttempt(k, d) ==
  /\ deletions' = [deletions EXCEPT ![k].phase = "complete"]
  /\ work' = IF deletions[d].phase = "complete" THEN work
             ELSE [work EXCEPT !.step = "erase", !.req = deletions[d].req, !.row = d]

AdoptDeletion ==
  /\ At("resume") /\ OpenImports = {}
  /\ \E k \in OpenDeletions : \E d \in Newest(k) :
       /\ deletions[k].phase = "prepared"
       /\ deletions[d].phase \in {"database_complete", "complete"}
       /\ AdoptLaterAttempt(k, d)
  /\ UNCHANGED <<store, keys, imports, marker, staged, WorkStep>>

\* ... and any other is begun again, for the same request.
RepeatDeletion ==
  /\ At("resume") /\ OpenImports = {}
  /\ \E k \in OpenDeletions :
       /\ deletions[k].phase = "prepared" /\ deletions[k].item \in rows
       /\ \A d \in Newest(k) : deletions[d].phase \notin {"database_complete", "complete"}
       /\ work' = [work EXCEPT !.step = "prepare", !.req = deletions[k].req, !.older = k]
  /\ UNCHANGED <<store, journal, WorkStep>>

\* Then the bytes that no row has are swept, ...
SweepBytes ==
  /\ At("resume") /\ OpenImports = {} /\ OpenDeletions = {}
  /\ bytes' = bytes \cap BytesOf(rows)
  /\ Step("unlock")
  /\ UNCHANGED <<rows, pages, shelf, backups, journal, WorkStep>>

\* ... and the vault is open.
Open ==
  /\ At("unlock")
  /\ server' = "open"
  /\ locked' = FALSE
  /\ work' = NoWork
  /\ UNCHANGED <<store, journal, exclusive, admitted, at, client, ghosts, bounds, snapshot>>

-----------------------------------------------------------------------------
WorkAction ==
  \/ PrepareDeletion \/ DeleteRows \/ SupersedeDeletion \/ EraseBytes \/ UnpublishPages
  \/ ScrubBackups \/ CopyAfterDeletion \/ RememberResponse \/ CompleteDeletion
  \/ ClaimImport \/ SaveBeforeImport \/ StageImport \/ PutImportedBytes \/ ReplaceRows
  \/ MovePagesAway \/ InstallPages \/ TidyPages \/ DropOldBytes \/ CompleteImport
  \/ RollBackImport
  \/ MarkDestroy \/ ClearTables \/ WipeFiles \/ UnmarkDestroy
  \/ ResumeImport \/ ResumeDeletion \/ AdoptDeletion \/ RepeatDeletion \/ SweepBytes \/ Open

SnapshotAction == ReadSnapshot \/ PublishSnapshot

HandlerAction(r) ==
  \/ AnswerAgain(r) \/ Refuse(r) \/ BeginExclusive(r) \/ Lock(r) \/ StartWork(r)
  \/ PutUpload(r) \/ InsertUpload(r)

VaultNext ==
  \/ WorkAction \/ SnapshotAction \/ StartSnapshot \/ FailStep
  \/ \E r \in Requests : Admit(r) \/ HandlerAction(r) \/ GiveUp(r) \/ FailUpload(r)
  \/ \E i \in Items : PublishPage(i)
  \/ Crash \/ FailStart \/ Quit \/ Boot

VaultSpec == VaultInit /\ [][VaultNext]_vaultVars

\* The event loop runs what is ready, and the user starts the API again when it
\* has stopped and restarts it when told to.  No client needs to send a request.
VaultFairness ==
  /\ WF_vaultVars(WorkAction)
  /\ WF_vaultVars(SnapshotAction)
  /\ \A r \in Requests : WF_vaultVars(HandlerAction(r))
  /\ WF_vaultVars(Boot)
  /\ WF_vaultVars(Quit)

-----------------------------------------------------------------------------
(* Properties *)

VaultTypeOK ==
  /\ want \in [Requests -> Wants]
  /\ {rows, pages, shelf, gone} \subseteq SUBSET Items
  /\ bytes \subseteq BytesOf(Items)
  /\ backups \subseteq SUBSET Items
  /\ {keys, admitted, answered, staged} \subseteq SUBSET Requests
  /\ {marker, exclusive, work.req} \subseteq Requests \cup {NoRequest}
  /\ locked \in BOOLEAN
  /\ server \in {"open", "down", "starting"}
  /\ at \in [Requests -> {"idle", "admitted", "put", "draining", "waiting", "working"}]
  /\ work.row \in 0..Len(deletions) \cup 0..Len(imports)
  /\ snapshot \in [step : {"idle", "reading", "writing"}, holds : SUBSET Items]

VaultOpen == server = "open" /\ ~locked /\ exclusive = NoRequest

\* No row is ever without its bytes, whatever operation, failure or start is
\* under way.  And whenever the vault is open, every deletion, import and
\* destruction that was begun is finished or undone in all stores: its journal
\* row is closed, and what it removed is in no page, no backup and no directory
\* set aside, and in the content store only if another item has the same bytes.
WholeWhenOpen ==
  /\ BytesOf(rows) \subseteq bytes
  /\ VaultOpen =>
      /\ marker = NoRequest /\ OpenImports = {} /\ OpenDeletions = {}
      /\ gone \cap pages = {} /\ gone \cap shelf = {}
      /\ \A holds \in backups : gone \cap holds = {}
      /\ \A i \in gone :
           BlobOf[i] \in bytes => \E r \in Requests :
             at[r] = "put" \/ faults > 0 \/ \E j \in rows : BlobOf[j] = BlobOf[i]

\* A request takes effect once, however often it is sent and wherever the API
\* dies, and one that was answered has taken effect.
AppliedOnce ==
  \A r \in Requests :
    /\ commits[r] <= 1
    /\ r \in keys /\ KindOf(r) # "destroy" => commits[r] = 1

\* The vault does not stay locked: every operation, failure or death of the API
\* ends in an open vault.
GateReopens == ~VaultOpen ~> VaultOpen
=============================================================================

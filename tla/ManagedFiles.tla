---------------------------- MODULE ManagedFiles ----------------------------
(***************************************************************************)
(* The files the API keeps for a while (apps/api/src/maintenance.ts):      *)
(* archives that were verified for an import and wait, under a token, to   *)
(* be imported, and finished exports that wait to be downloaded.  Both are *)
(* pruned in the background, the newest kept.                              *)
(*                                                                         *)
(* Staging, pruning and consuming a token take turns in a queue; an import *)
(* is not in the queue, it is only announced in #verifiedImportsInFlight.  *)
(* Imports run alone (beginMaintenance); what they do to the vault is in   *)
(* VaultOperations.  Tokens and exports are numbered in the order of their *)
(* creation.                                                               *)
(***************************************************************************)
EXTENDS Integers, FiniteSets

CONSTANTS
  Tokens,        \* how many archives are verified, and exports made
  Exports,
  MaxKeptTokens, \* MAX_VERIFIED_IMPORTS and MAX_RETAINED_EXPORTS
  MaxKeptExports,
  MaxReaders,    \* bounds on the downloads of an export, on the deaths of the
  MaxEnds,       \* API and on failing writes and unlinks
  MaxFailures

ASSUME ManagedAssumption ==
  {Tokens, Exports, MaxKeptTokens, MaxKeptExports, MaxReaders, MaxEnds, MaxFailures} \subseteq Nat

VARIABLES
  marked, stored,  \* the tokens with a marker file, and with an archive
  foreign,         \* those marked in an earlier session
  expired,
  staging,         \* the token being staged: its marker is written, its archive
                   \* linked, or it is ready and what is too much gets pruned
  sweep,           \* the pruning under way
  issued,          \* the number of tokens so far
  known,           \* the tokens some client has
  inFlight,        \* #verifiedImportsInFlight
  commit,          \* the import under way; stale: its archive was already being
                   \* unlinked when it began
  phaseOf,         \* the phase of the import_operations row that names a token
  replacements,    \* how often a token's archive has replaced the vault
  finished,        \* the exports there are, those being downloaded and by how
  downloads,       \* many, and #activeExportDownloads
  activeExports,
  made, shared,    \* exports made so far; those downloaded twice at a time
  ends, failures

queueVars == <<marked, stored, foreign, expired, staging, sweep, issued>>
importVars == <<known, inFlight, commit, phaseOf, replacements>>
exportVars == <<finished, downloads, activeExports, made, shared>>
managedVars == <<queueVars, importVars, exportVars, ends, failures>>

NoCommit == [step |-> "none", token |-> 0, stale |-> FALSE]
NoStaging == [step |-> "none", token |-> 0]
NoSweep == [step |-> "none", left |-> {}, kept |-> 0, spared |-> {}, token |-> 0]

ManagedInit ==
  /\ marked = {} /\ stored = {} /\ foreign = {} /\ expired = {}
  /\ staging = NoStaging /\ sweep = NoSweep /\ issued = 0
  /\ known = {} /\ inFlight = {} /\ commit = NoCommit
  /\ phaseOf = [t \in 1..Tokens |-> "none"]
  /\ replacements = [t \in 1..Tokens |-> 0]
  /\ finished = {} /\ activeExports = {} /\ shared = {} /\ made = 0
  /\ downloads = [f \in 1..Exports |-> 0]
  /\ ends = 0 /\ failures = 0

MayFail == failures < MaxFailures
Fail == MayFail /\ failures' = failures + 1
LatestOf(S) == CHOOSE x \in S : \A y \in S : y <= x

-----------------------------------------------------------------------------
(* Verified archives *)

QueueIsFree == sweep.step = "none" /\ staging.step \in {"none", "staged"}

\* stageVerifiedImportFile: the marker first.
WriteMarker ==
  /\ QueueIsFree /\ staging.step = "none"
  /\ issued < Tokens
  /\ issued' = issued + 1
  /\ marked' = marked \cup {issued'}
  /\ staging' = [step |-> "marker", token |-> issued']
  /\ UNCHANGED <<stored, foreign, expired, sweep, importVars, exportVars, ends, failures>>

LinkArchive ==
  LET t == staging.token
  IN /\ staging.step = "marker"
     /\ \/ /\ stored' = stored \cup {t}
           /\ staging' = [staging EXCEPT !.step = "staged"]
           /\ UNCHANGED <<marked, failures>>
        \/ /\ Fail
           /\ marked' = marked \ {t}
           /\ staging' = NoStaging
           /\ UNCHANGED stored
     /\ UNCHANGED <<foreign, expired, sweep, issued, importVars, exportVars, ends>>

\* An hour has passed.
ExpireToken(t) ==
  /\ t \in marked \ expired
  /\ expired' = expired \cup {t}
  /\ UNCHANGED <<marked, stored, foreign, staging, sweep, issued, importVars, exportVars, ends,
                 failures>>

\* pruneVerifiedImports: every hour, and for the token just staged.
StartSweep ==
  LET broken == marked \ stored
  IN /\ QueueIsFree
     /\ marked' = marked \ (broken \cup foreign)
     /\ stored' = stored \ foreign
     /\ foreign' = {}
     /\ sweep' = [step |-> "choose", left |-> (marked \cap stored) \ foreign, kept |-> 0,
                  spared |-> IF staging.step = "staged" THEN {staging.token} ELSE {}, token |-> 0]
     /\ UNCHANGED <<expired, staging, issued, importVars, exportVars, ends, failures>>

\* Faulty: the archive an import is reading is not spared.
SparesPreserved(t) == t \in sweep.spared

IsSpared(t) == t \in sweep.spared \cup inFlight

SweepNext ==
  LET t == LatestOf(sweep.left)
  IN /\ sweep.step = "choose" /\ sweep.left # {}
     /\ IF IsSpared(t) \/ (t \notin expired /\ sweep.kept < MaxKeptTokens)
        THEN sweep' = [sweep EXCEPT !.left = @ \ {t}, !.kept = @ + 1]
        ELSE sweep' = [sweep EXCEPT !.left = @ \ {t}, !.step = "unlink", !.token = t]
     /\ UNCHANGED <<marked, stored, foreign, expired, staging, issued, importVars, exportVars, ends,
                    failures>>

SweepUnlinks ==
  /\ sweep.step = "unlink"
  /\ stored' = stored \ {sweep.token}
  /\ marked' = marked \ {sweep.token}
  /\ sweep' = [sweep EXCEPT !.step = "choose", !.token = 0]
  /\ UNCHANGED <<foreign, expired, staging, issued, importVars, exportVars, ends, failures>>

\* The client of a staged archive is told its token.
EndSweep ==
  /\ sweep.step = "choose" /\ sweep.left = {}
  /\ IF sweep.spared # {}
     THEN known' = known \cup sweep.spared /\ staging' = NoStaging
     ELSE UNCHANGED <<known, staging>>
  /\ sweep' = NoSweep
  /\ UNCHANGED <<marked, stored, foreign, expired, issued, inFlight, commit, phaseOf, replacements,
                 exportVars, ends, failures>>

-----------------------------------------------------------------------------
(* Imports of a token *)

\* Faulty: whether the token was used is asked of its files alone.
UsableByFiles(t) == t \notin inFlight

\* #assertVerifiedImportTokenUnclaimed, and the imports in flight.
IsUnclaimed(t) == t \notin inFlight /\ phaseOf[t] \notin {"prepared", "complete"}

\* importVerifiedToken, with an idempotency key not used before.
BeginImport(t) ==
  /\ commit = NoCommit /\ t \in known
  /\ IsUnclaimed(t)
  /\ inFlight' = inFlight \cup {t}
  /\ commit' = [step |-> "open", token |-> t,
              stale |-> sweep.step = "unlink" /\ sweep.token = t]
  /\ UNCHANGED <<queueVars, known, phaseOf, replacements, exportVars, ends, failures>>

Goto(step) == commit' = [commit EXCEPT !.step = step]

\* Both files are looked at; what cannot be used any more is thrown away.  A
\* read that fails and may be tried again leaves it.
OpenArchive ==
  LET t == commit.token
      usable == t \in (marked \cap stored) \ (foreign \cup expired)
  IN /\ commit.step = "open"
     /\ \/ usable /\ Goto("copy") /\ UNCHANGED failures
        \/ ~usable /\ Goto("consume") /\ UNCHANGED failures
        \/ Fail /\ Goto("leave")
     /\ UNCHANGED <<queueVars, known, inFlight, phaseOf, replacements, exportVars, ends>>

\* The archive is copied beside the journal, whose row is prepared.
CopyArchive ==
  LET t == commit.token
  IN /\ commit.step = "copy"
     /\ \/ /\ t \in stored
           /\ phaseOf' = [phaseOf EXCEPT ![t] = "prepared"]
           /\ Goto("replace")
           /\ UNCHANGED failures
        \/ t \notin stored /\ Goto("leave") /\ UNCHANGED <<phaseOf, failures>>
        \/ Fail /\ Goto("leave") /\ UNCHANGED phaseOf
     /\ UNCHANGED <<queueVars, known, inFlight, replacements, exportVars, ends>>

\* The transaction, and what follows it: an import that cannot be finished or
\* whose rollback cannot be cleaned up waits for a restart, its token spent.
ReplaceVault ==
  LET t == commit.token
  IN /\ commit.step = "replace"
     /\ \/ /\ phaseOf' = [phaseOf EXCEPT ![t] = "complete"]
           /\ replacements' = [replacements EXCEPT ![t] = @ + 1]
           /\ \/ Goto("consume") /\ UNCHANGED failures
              \/ Fail /\ Goto("consumeAndLock")
        \/ /\ Fail
           /\ UNCHANGED replacements
           /\ \/ phaseOf' = [phaseOf EXCEPT ![t] = "failed"] /\ Goto("leave")
              \/ Goto("consumeAndLock") /\ UNCHANGED phaseOf
     /\ UNCHANGED <<queueVars, known, inFlight, exportVars, ends>>

Done ==
  commit' = IF commit.step = "consumeAndLock" THEN [commit EXCEPT !.step = "locked"]
            ELSE NoCommit

\* #consumeVerifiedImportToken, in the queue: the archive, then the marker.
ConsumeToken ==
  LET t == commit.token
  IN /\ commit.step \in {"consume", "consumeAndLock"} /\ QueueIsFree
     /\ \/ stored' = stored \ {t} /\ marked' = marked \ {t} /\ UNCHANGED failures
        \/ Fail /\ stored' = stored \ {t} /\ UNCHANGED marked
        \/ Fail /\ UNCHANGED <<marked, stored>>
     /\ inFlight' = inFlight \ {t}
     /\ Done
     /\ UNCHANGED <<foreign, expired, staging, sweep, issued, known, phaseOf, replacements,
                    exportVars, ends>>

LeaveToken ==
  /\ commit.step = "leave"
  /\ inFlight' = inFlight \ {commit.token}
  /\ commit' = NoCommit
  /\ UNCHANGED <<queueVars, known, phaseOf, replacements, exportVars, ends, failures>>

-----------------------------------------------------------------------------
(* Exports *)

\* #exportBundle: a new file, then the pruning that spares it.
MakeExport ==
  /\ made < Exports
  /\ made' = made + 1
  /\ finished' = finished \cup {made'}
  /\ UNCHANGED <<queueVars, importVars, downloads, activeExports, shared, ends, failures>>

\* openExportDownload
OpenDownload(f) ==
  /\ f \in finished /\ downloads[f] < MaxReaders
  /\ downloads' = [downloads EXCEPT ![f] = @ + 1]
  /\ activeExports' = activeExports \cup {f}
  /\ shared' = IF downloads[f] > 0 THEN shared \cup {f} ELSE shared
  /\ UNCHANGED <<queueVars, importVars, finished, made, ends, failures>>

CloseDownload(f) ==
  /\ downloads[f] > 0
  /\ downloads' = [downloads EXCEPT ![f] = @ - 1]
  /\ activeExports' = activeExports \ {f}
  /\ shared' = IF downloads[f] = 1 THEN shared \ {f} ELSE shared
  /\ UNCHANGED <<queueVars, importVars, finished, made, ends, failures>>

\* pruneExports: at start, after an export, after a download, every hour.  old
\* are the exports of more than a day ago, spared the one just made.  The newest
\* come first, and those that are kept whatever their age count.
PruneExports(old, spared) ==
  /\ finished # {}
  /\ \E kept \in SUBSET finished :
       /\ finished' = kept
       /\ \A f \in finished : f \in kept <=>
            \/ f \in activeExports \cup spared
            \/ f \notin old /\ Cardinality({g \in kept : g > f}) < MaxKeptExports
  /\ UNCHANGED <<queueVars, importVars, downloads, activeExports, made, shared, ends, failures>>

-----------------------------------------------------------------------------
(* Deaths of the API *)

\* resumeIncompleteImports undoes what was prepared and finishes what was
\* committed.  The session is a new one unless its token is given from outside.
RestartApi(sameSession) ==
  /\ ends < MaxEnds
  /\ ends' = ends + 1
  /\ foreign' = IF sameSession THEN foreign ELSE marked
  /\ staging' = NoStaging
  /\ sweep' = NoSweep
  /\ inFlight' = {}
  /\ commit' = NoCommit
  /\ phaseOf' = [t \in 1..Tokens |-> IF phaseOf[t] = "prepared" THEN "failed" ELSE phaseOf[t]]
  /\ downloads' = [f \in 1..Exports |-> 0]
  /\ activeExports' = {}
  /\ shared' = {}
  /\ UNCHANGED <<marked, stored, expired, issued, known, replacements, finished, made, failures>>

TokensNext ==
  \/ \E t \in 1..Tokens : ExpireToken(t) \/ BeginImport(t)
  \/ WriteMarker \/ LinkArchive \/ StartSweep \/ SweepNext \/ SweepUnlinks \/ EndSweep
  \/ OpenArchive \/ CopyArchive \/ ReplaceVault \/ ConsumeToken \/ LeaveToken
  \/ \E sameSession \in BOOLEAN : RestartApi(sameSession)

ExportsNext ==
  \/ MakeExport
  \/ \E f \in 1..Exports : OpenDownload(f) \/ CloseDownload(f)
  \/ \E old \in SUBSET finished : PruneExports(old, {})
  \/ finished # {} /\ PruneExports({}, {LatestOf(finished)})
  \/ RestartApi(FALSE)

ManagedNext == TokensNext \/ ExportsNext

ManagedSpec == ManagedInit /\ [][ManagedNext]_managedVars

-----------------------------------------------------------------------------
(* Properties *)

ManagedTypeOK ==
  /\ marked \cup stored \cup foreign \cup expired \cup known \cup inFlight \subseteq 1..Tokens
  /\ phaseOf \in [1..Tokens -> {"none", "prepared", "complete", "failed"}]
  /\ commit.token \in 0..Tokens /\ staging.token \in 0..Tokens
  /\ issued \in 0..Tokens /\ sweep.left \subseteq 1..Tokens /\ sweep.kept \in 0..Tokens
  /\ finished \cup activeExports \cup shared \subseteq 1..Exports
  /\ \A f \in 1..Exports : downloads[f] \in 0..MaxReaders
  /\ made \in 0..Exports /\ ends \in 0..MaxEnds /\ failures \in 0..MaxFailures

\* A verified archive replaces the vault once, whatever dies or fails between
\* the commit and the removal of its files, and under however many idempotency
\* keys it is asked for.
TokenCommitsOnce == \A t \in 1..Tokens : replacements[t] <= 1

\* A file in use is not pruned: an archive from the moment an import has opened
\* it until it is copied, unless the import came when it was being unlinked
\* already; an export while it is downloaded.  (Two downloads of one export at a
\* time are let pass: the first that ends takes it out of the set.)
InUseIsKept ==
  /\ commit.step = "copy" /\ ~commit.stale => commit.token \in stored
  /\ \A f \in 1..Exports : downloads[f] > 0 /\ f \notin shared => f \in finished
=============================================================================

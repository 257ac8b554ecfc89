------------------------------ MODULE VaultView ------------------------------
(***************************************************************************)
(* The browser's view of the vault while parts of the vault are removed or *)
(* replaced: the maintenance lock and the snapshot generation of the API   *)
(* (apps/api/src/app.ts), bootstrap, which loads a view in many requests   *)
(* between two looks at the boundary (apps/web/src/lib/api-client.ts), and *)
(* App (apps/web/src/App.tsx), which shows it, refreshes parts of it,      *)
(* scrubs it after a removal, keeps it aside during the demo preview and   *)
(* goes on showing it read-only when a refresh fails.                      *)
(*                                                                         *)
(* The content of the vault is an epoch, the number of the removals that   *)
(* were committed; a part of a view is the epoch it was read in.  Of       *)
(* vaultUiGenerationRef only whether it changed since a callback noted it  *)
(* matters: that is the field stale of what is under way.                  *)
(***************************************************************************)
EXTENDS Integers

CONSTANTS
  Nil,
  Parts,         \* what the core reads of a bootstrap load
  MaxRemovals,   \* bounds on the removals that are asked for,
  MaxRestarts,   \* on the times the API starts again,
  MaxReads,      \* on the reads of single parts
  MaxFetches     \* and on the bootstraps

VARIABLES
  epoch, generation, locked,   \* of the API
  removal,    \* the maintenance operation: whose it is and how far it is
  outcome,     \* what the page is answered for its own
  screen,
  bootstrap,      \* the bootstrap under way
  read,       \* another read under way
  floor,      \* (ghost) the epoch of the vault when the page was last scrubbed,
              \* or the one that it was verified to have when the demo was left
  viewCounts

viewVars == <<epoch, generation, locked, removal, outcome, screen, bootstrap, read,
          floor, viewCounts>>

vaultState == <<epoch, generation, locked>>

Nothing == [p \in Parts |-> Nil]

ViewInit ==
  /\ epoch = 0 /\ generation = 0 /\ locked = FALSE
  /\ removal = Nil /\ outcome = Nil
  /\ screen = [shown |-> Nothing,      \* the view
             cache |-> Nothing,      \* bootstrapQuery.data and its boundary
             boundary |-> Nil,
             isError |-> TRUE,       \* of bootstrapQuery (a page that loads)
             refreshFailed |-> FALSE,
             scrubbing |-> FALSE,    \* deletionScrubActiveRef
             kept |-> Nil,          \* trustedPersonalSnapshotRef, in a preview
             flow |-> "none",        \* the handler that waits for an answer
             stale |-> FALSE,
             behind |-> FALSE]       \* (ghost) shows an answer that is older than
                                     \* the bootstrap it came after
  /\ bootstrap = Nil /\ read = Nil
  /\ floor = 0
  /\ viewCounts = [removals |-> 0, restarts |-> 0, reads |-> 0, fetches |-> 0]

Count(what, max) == viewCounts[what] < max /\ viewCounts' = [viewCounts EXCEPT ![what] = @ + 1]

Previews == screen.kept # Nil
Offline(p) == (p.isError \/ p.refreshFailed) /\ p.kept = Nil

-----------------------------------------------------------------------------
(* Maintenance in the API *)

Advanced == generation' = generation + 1

\* Another tab deletes, imports or destroys.
OtherRemoves ==
  /\ removal = Nil /\ Count("removals", MaxRemovals)
  /\ removal' = [ours |-> FALSE, phase |-> "asked"]
  /\ UNCHANGED <<vaultState, outcome, screen, bootstrap, read, floor>>

\* beginMaintenance: the generation advances and reads go on.
BeginMaintenance ==
  /\ removal # Nil /\ ~locked
  /\ removal.phase = "asked"
  /\ locked' = TRUE /\ Advanced
  /\ removal' = [removal EXCEPT !.phase = "drained"]
  /\ UNCHANGED <<epoch, outcome, screen, bootstrap, read, floor, viewCounts>>

CommitRemoval ==
  /\ removal # Nil
  /\ removal.phase = "drained"
  /\ epoch' = epoch + 1
  /\ removal' = [removal EXCEPT !.phase = "committed"]
  /\ UNCHANGED <<generation, locked, outcome, screen, bootstrap, read, floor, viewCounts>>

\* endMaintenance, after the commit or because nothing was removed.
EndMaintenance ==
  /\ removal # Nil
  /\ removal.phase \in {"drained", "committed"}
  /\ locked' = FALSE /\ Advanced
  /\ outcome' = IF removal.ours
                 THEN IF removal.phase = "committed" THEN "done" ELSE "refused"
                 ELSE outcome
  /\ removal' = Nil
  /\ UNCHANGED <<epoch, screen, bootstrap, read, floor, viewCounts>>

\* The answer is lost, or says that cleanup requires recovery; the operation goes on.
LoseAnswer ==
  /\ removal # Nil
  /\ removal.ours
  /\ outcome' = "lost"
  /\ removal' = [removal EXCEPT !.ours = FALSE]
  /\ UNCHANGED <<vaultState, screen, bootstrap, read, floor, viewCounts>>

\* The API dies and starts: what was committed is finished and what was prepared
\* may be; the generation is at least the stored one.
RestartApi ==
  /\ Count("restarts", MaxRestarts)
  /\ locked' = FALSE
  /\ generation' \in {generation, generation + 1}
  /\ IF removal # Nil /\ locked
       THEN epoch' \in (IF removal.phase = "committed" THEN {epoch} ELSE {epoch, epoch + 1})
       ELSE UNCHANGED epoch
  /\ outcome' = IF removal # Nil /\ removal.ours THEN "lost" ELSE outcome
  /\ removal' = Nil
  /\ UNCHANGED <<screen, bootstrap, read, floor>>

-----------------------------------------------------------------------------
(* Changing the view *)

\* vaultUiGenerationRef moves on and the read scope is reset.
StaleRead == IF read = Nil THEN Nil ELSE [read EXCEPT !.stale = TRUE]

\* scrubCommittedDeletion
Scrubbed(p) ==
  [p EXCEPT !.shown = Nothing, !.cache = Nothing, !.boundary = Nil,
            !.isError = FALSE, !.refreshFailed = TRUE, !.behind = FALSE]

ScrubStep == read' = StaleRead /\ floor' = epoch

\* refetch: a bootstrap under way is replaced.
Started == [before |-> Nil, parts |-> Nothing, ready |-> FALSE]

\* hydrateCanonicalVaultSnapshot, and the effect that hydrates.
Hydrated(p) == [p EXCEPT !.shown = p.cache, !.refreshFailed = FALSE, !.behind = FALSE]

-----------------------------------------------------------------------------
(* Bootstrap *)

\* A refetch that something else asks for: the end of a run, the network that is
\* back, changed provider settings, the first load.
Refetch ==
  /\ screen.flow \in {"none", "confirming"} /\ Count("fetches", MaxFetches)
  /\ bootstrap' = Started
  /\ UNCHANGED <<vaultState, removal, outcome, screen, read, floor>>

\* retryVaultConnection
Retry ==
  /\ screen.flow = "none" /\ Offline(screen) /\ Count("fetches", MaxFetches)
  /\ bootstrap' = Started
  /\ screen' = [screen EXCEPT !.flow = "retrying", !.stale = FALSE]
  /\ UNCHANGED <<vaultState, removal, outcome, read, floor>>

\* boundaryBefore
OpenSnapshot ==
  /\ bootstrap # Nil /\ ~locked
  /\ bootstrap.before = Nil
  /\ bootstrap' = [bootstrap EXCEPT !.before = generation]
  /\ UNCHANGED <<vaultState, removal, outcome, screen, read, floor, viewCounts>>

ReadPart(p) ==
  /\ bootstrap # Nil
  /\ bootstrap.before # Nil /\ ~bootstrap.ready /\ bootstrap.parts[p] = Nil
  /\ bootstrap' = [bootstrap EXCEPT !.parts[p] = epoch]
  /\ UNCHANGED <<vaultState, removal, outcome, screen, read, floor, viewCounts>>

\* Faulty: the second boundary only has to be unlocked.
Unlocked == ~locked

SameBoundary == ~locked /\ generation = bootstrap.before

\* boundaryAfter
CloseSnapshot ==
  /\ bootstrap # Nil
  /\ bootstrap.before # Nil /\ ~bootstrap.ready
  /\ \A p \in Parts : bootstrap.parts[p] # Nil
  /\ SameBoundary
  /\ bootstrap' = [bootstrap EXCEPT !.ready = TRUE]
  /\ UNCHANGED <<vaultState, removal, outcome, screen, read, floor, viewCounts>>

\* The demo is left: what was kept is shown again if the vault is the same one ...
Restored(p) == [p EXCEPT !.shown = p.kept.parts, !.refreshFailed = p.kept.refreshFailed,
                         !.kept = Nil, !.flow = "none"]

\* ... and scrubbed if it is another one or cannot be told.
LeftScrubbed(p) == [Scrubbed(p) EXCEPT !.kept = Nil, !.flow = "none"]

\* Faulty: what was kept is shown again whenever the vault can be loaded.
Loads(p) == p.boundary # Nil

SameVault(p) == p.boundary = p.kept.boundary

\* The bootstrap is published and whoever waits for it goes on.
Publish ==
  /\ bootstrap # Nil
  /\ bootstrap.ready
  /\ LET p == [screen EXCEPT !.cache = bootstrap.parts, !.boundary = bootstrap.before,
                           !.isError = FALSE]
     IN CASE p.flow = "leaving" ->
               IF SameVault(p)
                 THEN /\ screen' = Restored(p) /\ read' = StaleRead
                      /\ floor' \in IF p.behind THEN {floor} ELSE {p.cache[q] : q \in Parts}
                 ELSE screen' = LeftScrubbed(p) /\ ScrubStep
          [] p.flow \in {"refreshing", "retrying"} /\ ~p.stale ->
               /\ screen' = [Hydrated(p) EXCEPT !.scrubbing = FALSE, !.flow = "none"]
               /\ UNCHANGED <<read, floor>>
          [] OTHER ->
               /\ screen' = [(IF p.scrubbing \/ p.kept # Nil THEN p ELSE Hydrated(p))
                             EXCEPT !.flow = IF @ = "confirming" THEN @ ELSE "none"]
               /\ UNCHANGED <<read, floor>>
  /\ bootstrap' = Nil
  /\ UNCHANGED <<vaultState, removal, outcome, viewCounts>>

\* A request fails, a boundary is locked or has changed: the last view stays, read
\* only, and with it what was under way is outdated.
FailFetch ==
  /\ bootstrap # Nil
  /\ ~bootstrap.ready
  /\ LET p == [screen EXCEPT !.isError = TRUE]
         outdated == Offline(p) /\ ~Offline(screen) /\ ~screen.scrubbing
     IN CASE p.flow = "leaving" ->
               screen' = LeftScrubbed(p) /\ ScrubStep
          [] p.flow \in {"refreshing", "retrying"} ->
               /\ screen' = IF p.stale THEN [p EXCEPT !.flow = "none"]
                          ELSE [p EXCEPT !.scrubbing = FALSE, !.refreshFailed = TRUE,
                                         !.flow = "none"]
               /\ UNCHANGED <<read, floor>>
          [] OTHER ->
               /\ screen' = [p EXCEPT !.stale = @ \/ outdated]
               /\ read' = IF outdated THEN StaleRead ELSE read
               /\ UNCHANGED floor
  /\ bootstrap' = Nil
  /\ UNCHANGED <<vaultState, removal, outcome, viewCounts>>

-----------------------------------------------------------------------------
(* Other reads *)

\* Older events, memory, proposals, revisions, evidence, the graph, a trace; and
\* the answers of ordinary changes, which come back the same way.
AskPart(p) ==
  /\ read = Nil /\ ~Offline(screen) /\ ~Previews /\ screen.flow # "leaving"
  /\ Count("reads", MaxReads)
  /\ read' = [part |-> p, epoch |-> Nil, stale |-> FALSE]
  /\ UNCHANGED <<vaultState, removal, outcome, screen, bootstrap, floor>>

AnswerPart ==
  /\ read # Nil
  /\ read.epoch = Nil
  /\ read' = [read EXCEPT !.epoch = epoch]
  /\ UNCHANGED <<vaultState, removal, outcome, screen, bootstrap, floor, viewCounts>>

StillWanted == ~read.stale

ShowPart ==
  /\ read # Nil
  /\ read.epoch # Nil
  /\ screen' = IF StillWanted
               THEN [screen EXCEPT !.shown[read.part] = read.epoch,
                                 !.behind = @ \/ screen.cache[read.part] \notin {Nil} \cup 0..read.epoch]
               ELSE screen
  /\ read' = Nil
  /\ UNCHANGED <<vaultState, removal, outcome, bootstrap, floor, viewCounts>>

-----------------------------------------------------------------------------
(* Removals by this page *)

\* confirmDelete and confirmVaultReset
Confirm ==
  /\ removal = Nil /\ screen.flow = "none" /\ outcome = Nil
  /\ ~Offline(screen) /\ ~Previews
  /\ Count("removals", MaxRemovals)
  /\ removal' = [ours |-> TRUE, phase |-> "asked"]
  /\ screen' = [screen EXCEPT !.flow = "confirming", !.stale = FALSE]
  /\ UNCHANGED <<vaultState, outcome, bootstrap, read, floor>>

\* The answer comes to a view that was replaced meanwhile: nothing is done.
IgnoreAnswer ==
  /\ screen.flow = "confirming" /\ outcome # Nil /\ screen.stale
  /\ screen' = [screen EXCEPT !.flow = "none"]
  /\ outcome' = Nil
  /\ UNCHANGED <<vaultState, removal, bootstrap, read, floor, viewCounts>>

\* The removal was committed: the view is scrubbed and loaded again.
RemovalCommitted ==
  /\ screen.flow = "confirming" /\ ~screen.stale
  /\ outcome = "done"
  /\ screen' = [Scrubbed(screen) EXCEPT !.scrubbing = TRUE, !.flow = "refreshing"]
  /\ ScrubStep
  /\ bootstrap' = Started
  /\ outcome' = Nil
  /\ UNCHANGED <<vaultState, removal, viewCounts>>

\* It may have been committed: the view is scrubbed, and not loaded again.
MayBeCommitted ==
  /\ screen.flow = "confirming" /\ ~screen.stale
  /\ outcome = "lost"
  /\ screen' = [Scrubbed(screen) EXCEPT !.scrubbing = FALSE, !.flow = "none"]
  /\ ScrubStep
  /\ bootstrap' = Nil
  /\ outcome' = Nil
  /\ UNCHANGED <<vaultState, removal, viewCounts>>

\* Nothing was removed: the view stays.
Refused ==
  /\ screen.flow = "confirming" /\ ~screen.stale
  /\ outcome = "refused"
  /\ screen' = [screen EXCEPT !.flow = "none"]
  /\ outcome' = Nil
  /\ UNCHANGED <<vaultState, removal, bootstrap, read, floor, viewCounts>>

-----------------------------------------------------------------------------
(* The demo preview *)

\* enterDemoPreview keeps the view with the boundary of bootstrapQuery.data.
Preview ==
  /\ screen.flow = "none" /\ ~Offline(screen) /\ ~Previews /\ screen.boundary # Nil
  /\ screen' = [screen EXCEPT !.kept = [parts |-> screen.shown, boundary |-> screen.boundary,
                                    refreshFailed |-> screen.refreshFailed],
                          !.shown = Nothing]
  /\ read' = StaleRead
  /\ UNCHANGED <<vaultState, removal, outcome, bootstrap, floor, viewCounts>>

\* leaveDemoPreview loads the vault first.
Leave ==
  /\ screen.flow = "none" /\ Previews /\ Count("fetches", MaxFetches)
  /\ screen' = [screen EXCEPT !.flow = "leaving"]
  /\ bootstrap' = Started
  /\ UNCHANGED <<vaultState, removal, outcome, read, floor>>

ViewNext ==
  \/ OtherRemoves \/ BeginMaintenance \/ CommitRemoval \/ EndMaintenance \/ LoseAnswer \/ RestartApi
  \/ Refetch \/ Retry \/ OpenSnapshot \/ (\E p \in Parts : ReadPart(p))
  \/ CloseSnapshot \/ Publish \/ FailFetch
  \/ (\E p \in Parts : AskPart(p)) \/ AnswerPart \/ ShowPart
  \/ Confirm \/ IgnoreAnswer \/ RemovalCommitted \/ MayBeCommitted \/ Refused
  \/ Preview \/ Leave

ViewSpec == ViewInit /\ [][ViewNext]_viewVars

-----------------------------------------------------------------------------
(* Properties *)

Epochs == 0..(MaxRemovals + MaxRestarts)

ViewTypeOK ==
  /\ epoch \in Epochs /\ generation \in Nat /\ locked \in BOOLEAN
  /\ outcome \in {Nil, "done", "refused", "lost"}
  /\ {screen.shown, screen.cache} \subseteq [Parts -> Epochs \cup {Nil}]
  /\ screen.flow \in {"none", "confirming", "refreshing", "retrying", "leaving"}
  /\ floor \in Epochs
  /\ read # Nil => read.part \in Parts

\* What is on the screen is one state of the vault, and never an old one: a bootstrap
\* that is published never mixes two contents, although it is loaded in many requests
\* while removals come and go and the API may restart (the fence of bootstrap); and
\* once the page was scrubbed because of a removal, or verified when the demo was
\* left, nothing older comes back, not by a read that was under way, not from a
\* bootstrap, not from what the preview kept (scrubCommittedDeletion,
\* leaveDemoPreview).
OneVault ==
  /\ \A p, q \in Parts : screen.cache[p] = screen.cache[q]
  /\ \A view \in {screen.shown, screen.cache} : \A p \in Parts :
       view[p] # Nil => view[p] >= floor
==============================================================================

-------------------------- MODULE ProjectionFiles ---------------------------
(***************************************************************************)
(* The Markdown file of one topic page.  The database has the page; the    *)
(* worker (syncOneProjectionTopic in apps/worker/src/processor.ts) and the *)
(* API (syncOneTopicProjection in apps/api/src/app.ts) each write its file *)
(* with no lock between them: stage a temporary, compare with the          *)
(* database, rename, compare, remove the other files of the page, compare. *)
(*                                                                         *)
(* The file is named after the page's slug.  Each change of the page is    *)
(* committed with a durable job for the worker; after a change of its own  *)
(* the API also writes the file itself.                                    *)
(***************************************************************************)
EXTENDS Naturals, FiniteSets

CONSTANTS
  Slugs,        \* the slugs the page may have
  NoSlug,       \* the page is archived or deleted
  MaxChanges,   \* bounds on the changes of the page
  MaxDeaths     \* and on the deaths of the two processes

ASSUME SlugAssumption == NoSlug \notin Slugs
ASSUME FilesBoundsAssumption == {MaxChanges, MaxDeaths} \subseteq Nat

VARIABLES
  wiki,         \* the page: its active revision and its slug
  files,        \* the revision in the file of each slug; 0 if there is no file
  temporary,    \* the revision in each process's temporary; 0 if there is none
  syncJobs,     \* the projection.sync jobs, by their keys, that are not complete
  doneJobs,     \* those that are
  due,          \* the number of syncs the API has still to do
  phase,        \* where each process is in its sync
  seen,         \* the page as each process has read it
  listed,       \* what it is about to unlink
  lost,         \* the API died inside of a sync
  deaths

filesVars == <<wiki, files, temporary, syncJobs, doneJobs, due, phase, seen, listed, lost,
               deaths>>

Processes == {"worker", "api"}
Temporary(p) == <<"temporary", p>>
PageFile(s) == <<"page", s>>
Active(w) == w.slug # NoSlug

FilesInit ==
  /\ wiki = [revision |-> 0, slug |-> NoSlug]
  /\ files = [s \in Slugs |-> 0]
  /\ temporary = [p \in Processes |-> 0]
  /\ syncJobs = {}
  /\ doneJobs = {}
  /\ due = 0
  /\ phase = [p \in Processes |-> "idle"]
  /\ seen = [p \in Processes |-> wiki]
  /\ listed = [p \in Processes |-> {}]
  /\ lost = FALSE
  /\ deaths = 0

Becomes(p, next) == phase' = [phase EXCEPT ![p] = next]
Unlinked(entries) ==
  /\ files' = [s \in Slugs |-> IF PageFile(s) \in entries THEN 0 ELSE files[s]]
  /\ temporary' = [p \in Processes |-> IF Temporary(p) \in entries THEN 0 ELSE temporary[p]]
PageFilesBut(slug) == {PageFile(s) : s \in {t \in Slugs : files[t] # 0 /\ t # slug}}
Temporaries == {Temporary(p) : p \in {q \in Processes : temporary[q] # 0}}
SameSnapshot(p) == seen[p] = wiki

-----------------------------------------------------------------------------
(* Changes of the page, each in one transaction with its job *)

Changed(slug) ==
  /\ wiki.revision < MaxChanges
  /\ wiki' = [revision |-> wiki.revision + 1, slug |-> slug]
  /\ syncJobs' = syncJobs \cup {<<"change", wiki.revision + 1>>}

\* POST and PATCH /topics: the slug stays, and the handler waits for its own sync.
EditTopic ==
  /\ \E s \in Slugs : Changed(s) /\ (Active(wiki) => s = wiki.slug)
  /\ due' = due + 1
  /\ UNCHANGED <<files, temporary, doneJobs, phase, seen, listed, lost, deaths>>

\* An accepted proposal renames the page or archives it, a compilation archives it, a
\* rebuild removes it: only the job is left behind.
ReplaceTopic ==
  /\ \E s \in Slugs \cup {NoSlug} : Changed(s)
  /\ UNCHANGED <<files, temporary, doneJobs, due, phase, seen, listed, lost, deaths>>

-----------------------------------------------------------------------------
(* The worker *)

\* #syncProjections: temporaries that are old - those of dead processes - go first.
TakeSync ==
  /\ phase["worker"] = "idle" /\ syncJobs # {}
  /\ Unlinked({t \in Temporaries : t = Temporary("worker") \/ phase["api"] = "idle"})
  /\ Becomes("worker", "read")
  /\ UNCHANGED <<wiki, syncJobs, doneJobs, due, seen, listed, lost, deaths>>

\* Write and fsync a temporary with what was read, if the page is active.
Stage(p) ==
  /\ phase[p] = "read"
  /\ seen' = [seen EXCEPT ![p] = wiki]
  /\ IF Active(wiki)
       THEN /\ temporary' = [temporary EXCEPT ![p] = wiki.revision]
            /\ Becomes(p, "staged")
       ELSE /\ Becomes(p, "settled")
            /\ UNCHANGED temporary
  /\ UNCHANGED <<wiki, files, syncJobs, doneJobs, due, listed, lost, deaths>>

\* "Never publish bytes whose revision, slug, lifecycle, or content changed".
Compare(p) ==
  /\ phase[p] = "staged"
  /\ IF SameSnapshot(p)
       THEN Becomes(p, "current") /\ UNCHANGED temporary
       ELSE Becomes(p, "read") /\ temporary' = [temporary EXCEPT ![p] = 0]
  /\ UNCHANGED <<wiki, files, syncJobs, doneJobs, due, seen, listed, lost, deaths>>

Publish(p) ==
  /\ phase[p] = "current" /\ temporary[p] # 0
  /\ files' = [files EXCEPT ![seen[p].slug] = temporary[p]]
  /\ temporary' = [temporary EXCEPT ![p] = 0]
  /\ Becomes(p, "published")
  /\ UNCHANGED <<wiki, syncJobs, doneJobs, due, seen, listed, lost, deaths>>

\* The other process has removed the temporary: the job is tried again ...
FailPublish ==
  /\ phase["worker"] = "current" /\ temporary["worker"] = 0
  /\ Becomes("worker", "idle")
  /\ UNCHANGED <<wiki, files, temporary, syncJobs, doneJobs, due, seen, listed, lost, deaths>>

\* ... and the API leaves it to a repair job, one for each state of the page.
FailPublishByApi ==
  /\ phase["api"] = "current" /\ temporary["api"] = 0
  /\ syncJobs' = syncJobs \cup ({<<"repair", wiki.revision>>} \ doneJobs)
  /\ due' = due - 1
  /\ Becomes("api", "idle")
  /\ UNCHANGED <<wiki, files, temporary, doneJobs, seen, listed, lost, deaths>>

CompareAgain(p) ==
  /\ phase[p] = "published"
  /\ Becomes(p, IF SameSnapshot(p) THEN "settled" ELSE "read")
  /\ UNCHANGED <<wiki, files, temporary, syncJobs, doneJobs, due, seen, listed, lost, deaths>>

\* readdir.  The worker takes every temporary of the page, the API only when the
\* page is not active.
List(p) ==
  /\ phase[p] = "settled"
  /\ listed' = [listed EXCEPT ![p] =
       PageFilesBut(seen[p].slug)
       \cup (IF p = "worker" \/ ~Active(seen[p]) THEN Temporaries ELSE {})]
  /\ Becomes(p, "listed")
  /\ UNCHANGED <<wiki, files, temporary, syncJobs, doneJobs, due, seen, lost, deaths>>

Unlink(p) ==
  /\ phase[p] = "listed"
  /\ Unlinked(listed[p])
  /\ listed' = [listed EXCEPT ![p] = {}]
  /\ Becomes(p, "cleaned")
  /\ UNCHANGED <<wiki, syncJobs, doneJobs, due, seen, lost, deaths>>

\* Faulty: what the other process did during the cleanup is not looked at.
FinishSyncBlindly(p) ==
  /\ phase[p] = "cleaned"
  /\ Becomes(p, "idle")
  /\ IF p = "worker"
       THEN \E job \in syncJobs : /\ syncJobs' = syncJobs \ {job}
                                  /\ doneJobs' = doneJobs \cup {job}
                                  /\ UNCHANGED due
       ELSE due' = due - 1 /\ UNCHANGED <<syncJobs, doneJobs>>
  /\ UNCHANGED <<wiki, files, temporary, seen, listed, lost, deaths>>

\* "Recheck after cleanup; if we removed its newer slug, republish it."  The API
\* looks only at whether the page is active if it was not.
StillSettled(p) ==
  IF p = "api" /\ ~Active(seen[p]) THEN ~Active(wiki) ELSE SameSnapshot(p)

FinishSync(p) ==
  /\ phase[p] = "cleaned" /\ StillSettled(p)
  /\ Becomes(p, "idle")
  /\ IF p = "worker"
       THEN \E job \in syncJobs : /\ syncJobs' = syncJobs \ {job}
                                  /\ doneJobs' = doneJobs \cup {job}
                                  /\ UNCHANGED due
       ELSE due' = due - 1 /\ UNCHANGED <<syncJobs, doneJobs>>
  /\ UNCHANGED <<wiki, files, temporary, seen, listed, lost, deaths>>

SyncAgain(p) ==
  /\ phase[p] = "cleaned" /\ ~StillSettled(p)
  /\ Becomes(p, "read")
  /\ UNCHANGED <<wiki, files, temporary, syncJobs, doneJobs, due, seen, listed, lost, deaths>>

-----------------------------------------------------------------------------
(* The API's queue for the page: one sync at a time *)

StartSync ==
  /\ phase["api"] = "idle" /\ due > 0
  /\ Becomes("api", "read")
  /\ UNCHANGED <<wiki, files, temporary, syncJobs, doneJobs, due, seen, listed, lost, deaths>>

\* The worker's job is leased again.  A new API removes every temporary, and syncs
\* nothing: what the old one left published is what stays.
Die(p) ==
  /\ deaths < MaxDeaths
  /\ deaths' = deaths + 1
  /\ Becomes(p, "idle")
  /\ listed' = [listed EXCEPT ![p] = {}]
  /\ IF p = "api"
       THEN /\ due' = 0
            /\ lost' = (lost \/ phase[p] # "idle")
            /\ Unlinked(Temporaries)
       ELSE UNCHANGED <<due, lost, files, temporary>>
  /\ UNCHANGED <<wiki, syncJobs, doneJobs, seen>>

-----------------------------------------------------------------------------
SyncStep(p) ==
  \/ Stage(p) \/ Compare(p) \/ Publish(p) \/ CompareAgain(p) \/ List(p) \/ Unlink(p)
  \/ FinishSync(p) \/ SyncAgain(p)

WorkerSync == TakeSync \/ SyncStep("worker") \/ FailPublish
ApiSync == StartSync \/ SyncStep("api") \/ FailPublishByApi

FilesNext ==
  \/ EditTopic \/ ReplaceTopic
  \/ WorkerSync \/ ApiSync
  \/ \E p \in Processes : Die(p)

FilesSpec == FilesInit /\ [][FilesNext]_filesVars
FilesFairness == WF_filesVars(WorkerSync) /\ WF_filesVars(ApiSync)

-----------------------------------------------------------------------------
(* Properties *)

FilesTypeOK ==
  /\ wiki.revision \in 0..MaxChanges
  /\ files \in [Slugs -> 0..MaxChanges]
  /\ temporary \in [Processes -> 0..MaxChanges]
  /\ syncJobs \cup doneJobs \subseteq {"change", "repair"} \X (1..MaxChanges)
  /\ due \in 0..MaxChanges

FilesMatch == \A s \in Slugs : files[s] = IF wiki.slug = s THEN wiki.revision ELSE 0

\* "The database is authoritative": once both processes are done and no job is
\* left, the directory has the page's active revision under its slug and nothing
\* else of the page, however the two interleaved and wherever the worker died.  An
\* API that dies inside of a sync is the exception: between its rename and its last
\* look at the page it may have put back what the worker, whose job is complete,
\* had replaced.
FilesFollow ==
  (\A p \in Processes : phase[p] = "idle") /\ due = 0 /\ syncJobs = {} /\ ~lost => FilesMatch

=============================================================================

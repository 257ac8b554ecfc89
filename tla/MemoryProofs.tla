---------------------------- MODULE MemoryProofs ----------------------------
(***************************************************************************)
(* What is derived from the ledger of memory and must follow it: the file  *)
(* of a page, which two processes write with no lock between them, the     *)
(* vectors of semantic search, which several workers compute; the claims   *)
(* that are to come onto a page by a proposal, and those whose evidence is *)
(* deleted; and the page itself.                                           *)
(*                                                                         *)
(* The first two proofs say who will still look.  Of the file: a process   *)
(* that may have spoiled what the other did has read the page earlier, and *)
(* looks again before it is done (FileFollows).  Of the vectors: a text    *)
(* without one has a job, and no worker that holds it is past the text     *)
(* (WillEmbed).  The third says what a proposal that takes others over     *)
(* carries along (NoneIsLost), the fourth what each deletion inside        *)
(* another leaves of the claims and their evidence (DecidedSince).  The    *)
(* last says who will still write the page: where it differs from the      *)
(* ledger, a job that has not read yet is open, or the job under way is    *)
(* the one that sets it right (Follows).                                   *)
(***************************************************************************)
EXTENDS ProjectionFiles, EmbeddingIndex, EvidenceDeletion, MemoryPages, FiniteSetTheorems,
        WellFoundedInduction, TLAPS
-----------------------------------------------------------------------------
(* The file of a page *)

Phases == {"idle", "read", "staged", "current", "published", "settled", "listed", "cleaned"}

\* The shapes of the state, and what each process knows of what it works on.
FilesAreShaped ==
  /\ wiki = [f \in {"revision", "slug"} |-> wiki[f]]
  /\ wiki.revision \in Nat /\ wiki.slug \in Slugs \cup {NoSlug}
  /\ files = [s \in Slugs |-> files[s]]
  /\ temporary = [p \in Processes |-> temporary[p]]
  /\ phase \in [Processes -> Phases]
  /\ seen = [p \in Processes |-> seen[p]]
  /\ listed = [p \in Processes |-> listed[p]]
  /\ lost \in BOOLEAN

\* What a process has read is an earlier page or the present one, and its temporary
\* is of that; what it has listed is not the file of the page as it has read it.
SyncsAreSound ==
  \A p \in Processes :
    /\ seen[p].revision \in Nat /\ seen[p].revision <= wiki.revision
    /\ phase[p] \in {"staged", "current", "published"} => seen[p].slug \in Slugs
    /\ phase[p] \in {"staged", "current"} =>
         temporary[p] \in {0, seen[p].revision}
    /\ phase[p] # "listed" => listed[p] = {}
    /\ PageFile(seen[p].slug) \notin listed[p]

JobsAreSound ==
  /\ \A job \in syncJobs \cup doneJobs : job[2] \in Nat /\ job[2] <= wiki.revision
  /\ phase["worker"] # "idle" => syncJobs # {}

\* The repair of the page as it is.
RepairKey == <<"repair", wiki.revision>>
Asked == RepairKey \in syncJobs \cup doneJobs

\* Once the API has asked for the repair, it knows the page as it is.
AskedKnows == Asked => phase["api"] \in {"idle", "read"} \/ seen["api"] = wiki

\* The API's last look was at a page out of use, and the page is out of use again.
Unaware == ~Active(seen["api"]) /\ ~Active(wiki)

\* The API is going to read the page again, or to publish it or have it repaired.
WillLook ==
  \/ ~Asked /\ phase["api"] \in {"read", "staged", "current"}
  \/ /\ phase["api"] \in {"published", "settled", "listed", "cleaned"}
     /\ seen["api"] # wiki /\ ~Unaware

\* A file that the page has no more is going to be removed.
Watched(t) ==
  \/ phase["worker"] \in {"published", "settled"}
  \/ PageFile(t) \in listed["worker"]
  \/ phase["api"] \in {"published", "settled"} /\ seen["api"] = wiki
  \/ PageFile(t) \in listed["api"]

\* The worker has published the page as it is, or has nothing left to do.
WorkerKnows ==
  \/ syncJobs = {}
  \/ /\ phase["worker"] \in {"published", "settled", "listed", "cleaned"}
     /\ seen["worker"] = wiki

TwoJobs == \E j, k \in syncJobs : j # k

FileIsRight == wiki.slug \in Slugs => files[wiki.slug] = wiki.revision
OthersGo == \A t \in Slugs : t # wiki.slug /\ files[t] # 0 => Watched(t)

FileFollows ==
  ~lost /\ WorkerKnows => TwoJobs \/ WillLook \/ (FileIsRight /\ OthersGo)

FilesInv == FilesAreShaped /\ SyncsAreSound /\ JobsAreSound /\ AskedKnows /\ FileFollows

LEMMA NamesDiffer ==
  /\ \A s, t : PageFile(s) = PageFile(t) => s = t
  /\ \A p, t : PageFile(t) # Temporary(p)
  /\ \A slug, t : PageFile(t) \in PageFilesBut(slug) => t \in Slugs /\ files[t] # 0 /\ t # slug
  /\ \A slug : \A t \in Slugs : files[t] # 0 /\ t # slug => PageFile(t) \in PageFilesBut(slug)
  /\ \A t : PageFile(t) \notin Temporaries
<1>1. /\ \A s, t : PageFile(s) = PageFile(t) => s = t
      /\ \A p, t : PageFile(t) # Temporary(p)
  BY DEF PageFile, Temporary
<1>2. /\ \A slug, t : PageFile(t) \in PageFilesBut(slug) => t \in Slugs /\ files[t] # 0 /\ t # slug
      /\ \A slug : \A t \in Slugs : files[t] # 0 /\ t # slug => PageFile(t) \in PageFilesBut(slug)
  BY <1>1 DEF PageFilesBut
<1>3. \A t : PageFile(t) \notin Temporaries
  BY <1>1 DEF Temporaries
<1> QED
  BY <1>1, <1>2, <1>3

\* The page changes: nobody has read it as it is, and there is a job for it.
LEMMA FilesChange ==
  ASSUME FilesInv, NEW slug \in Slugs \cup {NoSlug}, Changed(slug),
         UNCHANGED <<files, temporary, doneJobs, phase, seen, listed, lost>>
  PROVE  FilesInv'
<1> USE DEF FilesInv
<1>1. /\ wiki' = [revision |-> wiki.revision + 1, slug |-> slug]
      /\ syncJobs' = syncJobs \cup {<<"change", wiki.revision + 1>>}
      /\ wiki.revision \in Nat
      /\ files' = files /\ temporary' = temporary /\ doneJobs' = doneJobs /\ phase' = phase
      /\ seen' = seen /\ listed' = listed /\ lost' = lost
  BY DEF Changed, FilesAreShaped
<1>2. /\ wiki'.revision = wiki.revision + 1 /\ wiki'.slug = slug
      /\ wiki' = [f \in {"revision", "slug"} |-> wiki'[f]]
  BY <1>1
<1>3. FilesAreShaped'
  BY <1>1, <1>2 DEF FilesAreShaped
<1>4. SyncsAreSound'
  BY <1>1, <1>2 DEF SyncsAreSound
<1>5. JobsAreSound'
  <2>1. ASSUME NEW job \in syncJobs' \cup doneJobs'
        PROVE  job[2] \in Nat /\ job[2] <= wiki'.revision
    <3>1. CASE job \in syncJobs \cup doneJobs
      BY <1>1, <1>2, <3>1 DEF JobsAreSound
    <3>2. CASE job = <<"change", wiki.revision + 1>>
      BY <1>1, <1>2, <3>2
    <3> QED
      BY <1>1, <2>1, <3>1, <3>2
  <2> QED
    BY <1>1, <2>1 DEF JobsAreSound
<1>6. AskedKnows'
  <2>1. ASSUME RepairKey' \in syncJobs' \cup doneJobs' PROVE FALSE
    <3>1. RepairKey' = <<"repair", wiki.revision + 1>>
      BY <1>2 DEF RepairKey
    <3>2. RepairKey' \in syncJobs \cup doneJobs
      BY <1>1, <2>1, <3>1
    <3>3. wiki.revision + 1 <= wiki.revision
      BY <3>1, <3>2 DEF JobsAreSound
    <3> QED
      BY <1>1, <3>3
  <2> QED
    BY <2>1 DEF AskedKnows, Asked
<1>7. FileFollows'
  <2>1. seen'["worker"] # wiki'
    <3>1. seen["worker"].revision <= wiki.revision /\ seen["worker"].revision \in Nat
      BY DEF SyncsAreSound, Processes
    <3> QED
      BY <1>1, <1>2, <3>1
  <2>2. syncJobs' # {}
    BY <1>1
  <2> QED
    BY <2>1, <2>2 DEF FileFollows, WorkerKnows
<1> QED
  BY <1>3, <1>4, <1>5, <1>6, <1>7

\* A process is where it is; what it does disturbs the other only by its file.
LEMMA FilesTakeSync == FilesInv /\ TakeSync => FilesInv'
<1> SUFFICES ASSUME FilesInv, TakeSync PROVE FilesInv'
  OBVIOUS
<1> USE DEF FilesInv
<1>1. /\ phase["worker"] = "idle" /\ syncJobs # {}
      /\ phase' = [phase EXCEPT !["worker"] = "read"]
      /\ UNCHANGED <<wiki, syncJobs, doneJobs, seen, listed, lost>>
  BY DEF TakeSync, Becomes
<1>2. PICK es : /\ es \subseteq Temporaries /\ Unlinked(es)
                /\ Temporary("api") \in es => phase["api"] = "idle"
  BY DEF TakeSync, Temporary
<1>3. /\ files' = [s \in Slugs |-> files'[s]] /\ \A s \in Slugs : files'[s] = files[s]
      /\ temporary' = [p \in Processes |-> temporary'[p]]
      /\ \A p \in Processes : temporary'[p] \in {0, temporary[p]}
  BY <1>2, NamesDiffer DEF Unlinked
<1>4. /\ phase' \in [Processes -> Phases] /\ phase'["worker"] = "read"
      /\ phase'["api"] = phase["api"]
  BY <1>1 DEF FilesAreShaped, Phases, Processes
<1>5. FilesAreShaped'
  BY <1>1, <1>3, <1>4 DEF FilesAreShaped
<1>6. SyncsAreSound'
  BY <1>1, <1>3, <1>4 DEF SyncsAreSound, Processes
<1>7. JobsAreSound' /\ AskedKnows'
  BY <1>1, <1>4 DEF JobsAreSound, AskedKnows, Asked, RepairKey
<1>8. FileFollows'
  BY <1>1, <1>4 DEF FileFollows, WorkerKnows
<1> QED
  BY <1>5, <1>6, <1>7, <1>8

LEMMA FilesStage == ASSUME NEW p \in Processes PROVE FilesInv /\ Stage(p) => FilesInv'
<1> SUFFICES ASSUME FilesInv, Stage(p) PROVE FilesInv'
  OBVIOUS
<1> USE DEF FilesInv
<1>1. /\ phase[p] = "read" /\ seen' = [seen EXCEPT ![p] = wiki]
      /\ UNCHANGED <<wiki, files, syncJobs, doneJobs, listed, lost>>
      /\ \/ /\ Active(wiki) /\ temporary' = [temporary EXCEPT ![p] = wiki.revision]
            /\ phase' = [phase EXCEPT ![p] = "staged"]
         \/ /\ ~Active(wiki) /\ temporary' = temporary
            /\ phase' = [phase EXCEPT ![p] = "settled"]
  BY DEF Stage, Becomes
<1>2. /\ seen' = [q \in Processes |-> seen'[q]] /\ seen'[p] = wiki
      /\ \A q \in Processes \ {p} : seen'[q] = seen[q]
  BY <1>1 DEF FilesAreShaped
<1>3. /\ phase' \in [Processes -> Phases] /\ \A q \in Processes \ {p} : phase'[q] = phase[q]
      /\ temporary' = [q \in Processes |-> temporary'[q]]
      /\ \A q \in Processes \ {p} : temporary'[q] = temporary[q]
      /\ \/ Active(wiki) /\ temporary'[p] = wiki.revision /\ phase'[p] = "staged"
         \/ ~Active(wiki) /\ phase'[p] = "settled"
  BY <1>1 DEF FilesAreShaped, Phases
<1>4. FilesAreShaped'
  BY <1>1, <1>2, <1>3 DEF FilesAreShaped
<1>5. listed[p] = {}
  BY <1>1 DEF SyncsAreSound
<1>6. SyncsAreSound'
  <2> SUFFICES ASSUME NEW q \in Processes
               PROVE  /\ seen'[q].revision \in Nat /\ seen'[q].revision <= wiki'.revision
                      /\ phase'[q] \in {"staged", "current", "published"} => seen'[q].slug \in Slugs
                      /\ phase'[q] \in {"staged", "current"} =>
                           temporary'[q] \in {0, seen'[q].revision}
                      /\ phase'[q] # "listed" => listed'[q] = {}
                      /\ PageFile(seen'[q].slug) \notin listed'[q]
    BY DEF SyncsAreSound
  <2>1. CASE q = p
    BY <1>1, <1>2, <1>3, <1>5, <2>1 DEF FilesAreShaped, Active
  <2>2. CASE q # p
    BY <1>1, <1>2, <1>3, <2>2 DEF SyncsAreSound
  <2> QED
    BY <2>1, <2>2
<1>7. JobsAreSound'
  <2>1. phase'["worker"] # "idle" => phase["worker"] # "idle"
    BY <1>1, <1>3 DEF Processes
  <2> QED
    BY <1>1, <2>1 DEF JobsAreSound
<1>8. AskedKnows'
  <2>1. p = "api" => seen'["api"] = wiki
    BY <1>2
  <2>2. p = "worker" => seen'["api"] = seen["api"] /\ phase'["api"] = phase["api"]
    BY <1>2, <1>3 DEF Processes
  <2> QED
    BY <1>1, <2>1, <2>2 DEF AskedKnows, Asked, RepairKey, Processes
<1>9. FileFollows'
  <2>1. CASE p = "worker"
    <3>1. /\ phase'["api"] = phase["api"] /\ seen'["api"] = seen["api"]
          /\ syncJobs # {} /\ phase'["worker"] \in {"staged", "settled"}
          /\ phase'["worker"] = "settled" => ~Active(wiki)
      BY <1>1, <1>2, <1>3, <2>1 DEF Processes, JobsAreSound
    <3>2. phase'["worker"] = "staged" => FileFollows'
      BY <1>1, <3>1 DEF FileFollows, WorkerKnows
    <3>3. phase'["worker"] = "settled" => FileIsRight' /\ OthersGo'
      BY <1>1, <3>1, SlugAssumption DEF FileIsRight, OthersGo, Watched, Active
    <3> QED
      BY <3>1, <3>2, <3>3 DEF FileFollows
  <2>2. CASE p = "api"
    <3>1. /\ phase'["worker"] = phase["worker"] /\ seen'["worker"] = seen["worker"]
          /\ seen'["api"] = wiki /\ listed["api"] = {} /\ phase["api"] = "read"
          /\ \/ phase'["api"] = "staged"
             \/ phase'["api"] = "settled" /\ ~Active(wiki)
      BY <1>1, <1>2, <1>3, <1>5, <2>2 DEF Processes
    <3> SUFFICES ASSUME ~lost, WorkerKnows, ~TwoJobs
                 PROVE  WillLook' \/ (FileIsRight /\ OthersGo)'
      BY <1>1, <3>1 DEF FileFollows, WorkerKnows, TwoJobs
    <3>2. CASE phase'["api"] = "settled"
      BY <1>1, <3>1, <3>2, SlugAssumption DEF FileIsRight, OthersGo, Watched, Active
    <3>3. CASE phase'["api"] = "staged" /\ WillLook
      BY <1>1, <3>1, <3>3 DEF WillLook, Asked, RepairKey
    <3>4. CASE phase'["api"] = "staged" /\ ~WillLook
      <4>1. FileIsRight /\ OthersGo
        BY <3>4 DEF FileFollows
      <4> QED
        BY <1>1, <3>1, <4>1 DEF FileIsRight, OthersGo, Watched
    <3> QED
      BY <3>1, <3>2, <3>3, <3>4
  <2> QED
    BY <2>1, <2>2 DEF Processes
<1> QED
  BY <1>4, <1>6, <1>7, <1>8, <1>9

\* A process goes on without writing: at most temporaries go.
Steps(p, next) ==
  /\ phase[p] # "listed"
  /\ phase' = [phase EXCEPT ![p] = next]
  /\ UNCHANGED <<wiki, files, seen, listed, lost>>
  /\ temporary' = [q \in Processes |-> temporary'[q]]
  /\ \A q \in Processes : temporary'[q] \in {0, temporary[q]}
  /\ next \in {"staged", "current", "published"} =>
       phase[p] \in {"staged", "current", "published"}
  /\ next \in {"staged", "current"} => phase[p] \in {"staged", "current"}

LEMMA StepsAreSound ==
  ASSUME FilesInv, NEW p \in Processes, NEW next \in Phases, Steps(p, next)
  PROVE  /\ FilesAreShaped' /\ SyncsAreSound'
         /\ phase'[p] = next /\ \A q \in Processes \ {p} : phase'[q] = phase[q]
<1> USE DEF FilesInv
<1>1. /\ phase' \in [Processes -> Phases] /\ phase'[p] = next
      /\ \A q \in Processes \ {p} : phase'[q] = phase[q]
  BY DEF FilesAreShaped, Steps
<1>2. FilesAreShaped'
  BY <1>1 DEF FilesAreShaped, Steps
<1>3. SyncsAreSound'
  <2> SUFFICES ASSUME NEW q \in Processes
               PROVE  /\ phase'[q] \in {"staged", "current", "published"} => seen[q].slug \in Slugs
                      /\ phase'[q] \in {"staged", "current"} => temporary'[q] \in {0, seen[q].revision}
                      /\ phase'[q] # "listed" => listed[q] = {}
    BY DEF SyncsAreSound, Steps
  <2>1. CASE q = p
    BY <1>1, <2>1 DEF SyncsAreSound, Steps
  <2>2. CASE q # p
    BY <1>1, <2>2 DEF SyncsAreSound, Steps
  <2> QED
    BY <2>1, <2>2
<1> QED
  BY <1>1, <1>2, <1>3

LEMMA FilesCompare == ASSUME NEW p \in Processes PROVE FilesInv /\ Compare(p) => FilesInv'
<1> SUFFICES ASSUME FilesInv, Compare(p) PROVE FilesInv'
  OBVIOUS
<1> USE DEF FilesInv
<1>1. PICK next \in {"current", "read"} :
        /\ phase[p] = "staged" /\ phase' = [phase EXCEPT ![p] = next]
        /\ temporary' = temporary \/ temporary' = [temporary EXCEPT ![p] = 0]
        /\ next = "current" => seen[p] = wiki
        /\ UNCHANGED <<wiki, files, syncJobs, doneJobs, seen, listed, lost>>
  BY DEF Compare, Becomes, SameSnapshot
<1>2. Steps(p, next)
  BY <1>1 DEF Steps, FilesAreShaped
<1>3. /\ FilesAreShaped' /\ SyncsAreSound'
      /\ phase'[p] = next /\ \A q \in Processes \ {p} : phase'[q] = phase[q]
  BY <1>2, StepsAreSound DEF Phases
<1>4. JobsAreSound'
  <2>1. phase'["worker"] # "idle" => phase["worker"] # "idle"
    BY <1>1, <1>3 DEF Processes
  <2> QED
    BY <1>1, <2>1 DEF JobsAreSound
<1>5. AskedKnows'
  <2>1. phase["api"] \in {"idle", "read"} => phase'["api"] \in {"idle", "read"}
    BY <1>1, <1>3 DEF Processes
  <2> QED
    BY <1>1, <2>1 DEF AskedKnows, Asked, RepairKey
<1>6. FileFollows'
  <2>1. CASE p = "worker"
    BY <1>1, <1>3, <2>1 DEF FileFollows, WorkerKnows, JobsAreSound, Processes
  <2>2. CASE p = "api"
    <3>1. /\ phase'["worker"] = phase["worker"] /\ phase["api"] = "staged"
          /\ phase'["api"] \in {"current", "read"}
      BY <1>1, <1>3, <2>2 DEF Processes
    <3>2. WorkerKnows' => WorkerKnows
      BY <1>1, <3>1 DEF WorkerKnows
    <3>3. WillLook => WillLook'
      BY <1>1, <3>1 DEF WillLook, Asked, RepairKey
    <3>4. FileIsRight /\ OthersGo => (FileIsRight /\ OthersGo)'
      BY <1>1, <3>1 DEF FileIsRight, OthersGo, Watched
    <3> QED
      BY <1>1, <3>2, <3>3, <3>4 DEF FileFollows, TwoJobs
  <2> QED
    BY <2>1, <2>2 DEF Processes
<1> QED
  BY <1>3, <1>4, <1>5, <1>6

LEMMA FilesPublish == ASSUME NEW p \in Processes PROVE FilesInv /\ Publish(p) => FilesInv'
<1> SUFFICES ASSUME FilesInv, Publish(p) PROVE FilesInv'
  OBVIOUS
<1> USE DEF FilesInv
<1>1. /\ phase[p] = "current" /\ temporary[p] # 0
      /\ files' = [files EXCEPT ![seen[p].slug] = temporary[p]]
      /\ temporary' = [temporary EXCEPT ![p] = 0]
      /\ phase' = [phase EXCEPT ![p] = "published"]
      /\ UNCHANGED <<wiki, syncJobs, doneJobs, seen, listed, lost>>
  BY DEF Publish, Becomes
<1>2. seen[p].slug \in Slugs /\ temporary[p] = seen[p].revision
  BY <1>1 DEF SyncsAreSound
<1>3. /\ files' = [s \in Slugs |-> files'[s]]
      /\ files'[seen[p].slug] = seen[p].revision
      /\ \A s \in Slugs \ {seen[p].slug} : files'[s] = files[s]
  BY <1>1, <1>2 DEF FilesAreShaped
<1>4. /\ phase' \in [Processes -> Phases] /\ phase'[p] = "published"
      /\ \A q \in Processes \ {p} : phase'[q] = phase[q]
      /\ temporary' = [q \in Processes |-> temporary'[q]]
      /\ \A q \in Processes \ {p} : temporary'[q] = temporary[q]
  BY <1>1 DEF FilesAreShaped, Phases
<1>5. FilesAreShaped'
  BY <1>1, <1>3, <1>4 DEF FilesAreShaped
<1>6. SyncsAreSound'
  <2> SUFFICES ASSUME NEW q \in Processes
               PROVE  /\ phase'[q] \in {"staged", "current", "published"} => seen[q].slug \in Slugs
                      /\ phase'[q] \in {"staged", "current"} => temporary'[q] \in {0, seen[q].revision}
                      /\ phase'[q] # "listed" => listed[q] = {}
    BY <1>1 DEF SyncsAreSound
  <2>1. CASE q = p
    BY <1>1, <1>2, <1>4, <2>1 DEF SyncsAreSound
  <2>2. CASE q # p
    BY <1>1, <1>4, <2>2 DEF SyncsAreSound
  <2> QED
    BY <2>1, <2>2
<1>7. JobsAreSound' /\ AskedKnows'
  <2>1. /\ phase'["worker"] # "idle" => phase["worker"] # "idle"
        /\ phase["api"] \in {"idle", "read"} => phase'["api"] \in {"idle", "read"}
    BY <1>1, <1>4 DEF Processes
  <2> QED
    BY <1>1, <2>1 DEF JobsAreSound, AskedKnows, Asked, RepairKey
<1>8. FileFollows'
  <2>1. CASE p = "worker"
    <3>1. syncJobs' # {} /\ phase'["worker"] = "published"
      BY <1>1, <1>4, <2>1 DEF JobsAreSound
    <3>2. seen["worker"] = wiki => (FileIsRight /\ OthersGo)'
      BY <1>1, <1>3, <2>1, <3>1 DEF FileIsRight, OthersGo, Watched
    <3> QED
      BY <1>1, <3>1, <3>2 DEF FileFollows, WorkerKnows
  <2>2. CASE p = "api" /\ seen["api"] = wiki
    BY <1>1, <1>3, <1>4, <2>2 DEF FileFollows, FileIsRight, OthersGo, Watched
  <2>3. CASE p = "api" /\ seen["api"] # wiki
    <3>1. WillLook'
      BY <1>1, <1>2, <1>4, <2>3, SlugAssumption DEF WillLook, Unaware, Active
    <3> QED
      BY <3>1 DEF FileFollows
  <2> QED
    BY <2>1, <2>2, <2>3 DEF Processes
<1> QED
  BY <1>5, <1>6, <1>7, <1>8

LEMMA FilesFailPublish == FilesInv /\ FailPublish => FilesInv'
<1> SUFFICES ASSUME FilesInv, FailPublish PROVE FilesInv'
  OBVIOUS
<1> USE DEF FilesInv
<1>1. /\ phase["worker"] = "current" /\ phase' = [phase EXCEPT !["worker"] = "idle"]
      /\ UNCHANGED <<wiki, files, temporary, syncJobs, doneJobs, seen, listed, lost>>
  BY DEF FailPublish, Becomes
<1>2. Steps("worker", "idle")
  BY <1>1 DEF Steps, FilesAreShaped
<1>3. FilesAreShaped' /\ SyncsAreSound' /\ phase'["worker"] = "idle" /\ phase'["api"] = phase["api"]
  BY <1>2, StepsAreSound DEF Phases, Processes
<1>4. JobsAreSound' /\ AskedKnows'
  BY <1>1, <1>3 DEF JobsAreSound, AskedKnows, Asked, RepairKey
<1>5. FileFollows'
  BY <1>1, <1>3 DEF FileFollows, WorkerKnows, JobsAreSound
<1> QED
  BY <1>3, <1>4, <1>5

\* The API has the file repaired.  Nothing is left to repair if it asked for that before.
LEMMA FilesFailPublishByApi == FilesInv /\ FailPublishByApi => FilesInv'
<1> SUFFICES ASSUME FilesInv, FailPublishByApi PROVE FilesInv'
  OBVIOUS
<1> USE DEF FilesInv
<1>1. /\ phase["api"] = "current" /\ phase' = [phase EXCEPT !["api"] = "idle"]
      /\ syncJobs' = syncJobs \cup ({RepairKey} \ doneJobs)
      /\ UNCHANGED <<wiki, files, temporary, doneJobs, seen, listed, lost>>
  BY DEF FailPublishByApi, Becomes, RepairKey
<1>2. Steps("api", "idle")
  BY <1>1 DEF Steps, FilesAreShaped
<1>3. FilesAreShaped' /\ SyncsAreSound' /\ phase'["api"] = "idle" /\ phase'["worker"] = phase["worker"]
  BY <1>2, StepsAreSound DEF Phases, Processes
<1>4. JobsAreSound'
  <2>1. RepairKey[2] = wiki.revision /\ wiki.revision \in Nat
    BY DEF RepairKey, FilesAreShaped
  <2> QED
    BY <1>1, <1>3, <2>1 DEF JobsAreSound
<1>5. AskedKnows'
  BY <1>3 DEF AskedKnows
<1>6. FileFollows'
  <2> SUFFICES ASSUME ~lost, WorkerKnows', ~TwoJobs'
               PROVE  (FileIsRight /\ OthersGo)'
    BY <1>1 DEF FileFollows
  <2>1. Asked
    <3> SUFFICES ASSUME ~Asked PROVE FALSE
      OBVIOUS
    <3>1. RepairKey \in syncJobs' /\ RepairKey \notin syncJobs
      BY <1>1 DEF Asked
    <3>2. phase["worker"] # "idle"
      BY <1>3, <3>1 DEF WorkerKnows
    <3> QED
      BY <1>1, <3>1, <3>2 DEF JobsAreSound, TwoJobs
  <2>2. syncJobs' = syncJobs
    BY <1>1, <2>1 DEF Asked
  <2>3. WorkerKnows /\ ~TwoJobs /\ ~WillLook
    BY <1>1, <1>3, <2>1, <2>2 DEF WorkerKnows, TwoJobs, WillLook
  <2>4. FileIsRight /\ OthersGo
    BY <1>1, <2>3 DEF FileFollows
  <2> QED
    BY <1>1, <1>3, <2>4 DEF FileIsRight, OthersGo, Watched
<1> QED
  BY <1>3, <1>4, <1>5, <1>6

LEMMA FilesCompareAgain == ASSUME NEW p \in Processes PROVE FilesInv /\ CompareAgain(p) => FilesInv'
<1> SUFFICES ASSUME FilesInv, CompareAgain(p) PROVE FilesInv'
  OBVIOUS
<1> USE DEF FilesInv
<1>1. PICK next \in {"settled", "read"} :
        /\ phase[p] = "published" /\ phase' = [phase EXCEPT ![p] = next]
        /\ next = "settled" <=> seen[p] = wiki
        /\ UNCHANGED <<wiki, files, temporary, syncJobs, doneJobs, seen, listed, lost>>
  BY DEF CompareAgain, Becomes, SameSnapshot
<1>2. Steps(p, next)
  BY <1>1 DEF Steps, FilesAreShaped
<1>3. /\ FilesAreShaped' /\ SyncsAreSound'
      /\ phase'[p] = next /\ \A q \in Processes \ {p} : phase'[q] = phase[q]
  BY <1>2, StepsAreSound DEF Phases
<1>4. JobsAreSound' /\ AskedKnows'
  <2>1. /\ phase'["worker"] # "idle" => phase["worker"] # "idle"
        /\ phase["api"] \in {"idle", "read"} => phase'["api"] \in {"idle", "read"}
    BY <1>1, <1>3 DEF Processes
  <2> QED
    BY <1>1, <2>1 DEF JobsAreSound, AskedKnows, Asked, RepairKey
<1>5. FileFollows'
  <2>1. CASE p = "worker"
    <3>1. /\ phase'["api"] = phase["api"] /\ syncJobs # {} /\ phase'["worker"] = next
      BY <1>1, <1>3, <2>1 DEF Processes, JobsAreSound
    <3>2. CASE next = "read"
      BY <1>1, <3>1, <3>2 DEF FileFollows, WorkerKnows
    <3>3. CASE next = "settled"
      <4>1. WorkerKnows /\ (WillLook => WillLook')
        BY <1>1, <2>1, <3>1, <3>3 DEF WorkerKnows, WillLook, Unaware, Asked, RepairKey
      <4>2. FileIsRight /\ OthersGo => (FileIsRight /\ OthersGo)'
        BY <1>1, <3>1, <3>3 DEF FileIsRight, OthersGo, Watched
      <4> QED
        BY <1>1, <4>1, <4>2 DEF FileFollows, TwoJobs
    <3> QED
      BY <3>2, <3>3
  <2>2. CASE p = "api"
    <3>1. /\ phase'["worker"] = phase["worker"] /\ phase["api"] = "published"
          /\ phase'["api"] = next
      BY <1>1, <1>3, <2>2 DEF Processes
    <3>2. WorkerKnows' => WorkerKnows
      BY <1>1, <3>1 DEF WorkerKnows
    <3>3. CASE next = "read"
      <4>1. WillLook'
        BY <1>1, <2>2, <3>1, <3>3 DEF WillLook, AskedKnows, Asked, RepairKey
      <4> QED
        BY <4>1 DEF FileFollows
    <3>4. CASE next = "settled"
      <4>1. FileIsRight /\ OthersGo => (FileIsRight /\ OthersGo)'
        BY <1>1, <2>2, <3>1, <3>4 DEF FileIsRight, OthersGo, Watched
      <4>2. ~WillLook
        BY <1>1, <2>2, <3>1, <3>4 DEF WillLook
      <4> QED
        BY <1>1, <3>2, <4>1, <4>2 DEF FileFollows, TwoJobs
    <3> QED
      BY <3>3, <3>4
  <2> QED
    BY <2>1, <2>2 DEF Processes
<1> QED
  BY <1>3, <1>4, <1>5

LEMMA FilesList == ASSUME NEW p \in Processes PROVE FilesInv /\ List(p) => FilesInv'
<1> SUFFICES ASSUME FilesInv, List(p) PROVE FilesInv'
  OBVIOUS
<1> USE DEF FilesInv
<1>1. PICK ts \in SUBSET Temporaries :
        /\ phase[p] = "settled" /\ phase' = [phase EXCEPT ![p] = "listed"]
        /\ listed' = [listed EXCEPT ![p] = PageFilesBut(seen[p].slug) \cup ts]
        /\ UNCHANGED <<wiki, files, temporary, syncJobs, doneJobs, seen, lost>>
  BY DEF List, Becomes
<1>2. /\ phase' \in [Processes -> Phases] /\ phase'[p] = "listed"
      /\ \A q \in Processes \ {p} : phase'[q] = phase[q]
      /\ listed' = [q \in Processes |-> listed'[q]]
      /\ listed'[p] = PageFilesBut(seen[p].slug) \cup ts
      /\ \A q \in Processes \ {p} : listed'[q] = listed[q]
  BY <1>1 DEF FilesAreShaped, Phases
<1>3. FilesAreShaped'
  BY <1>1, <1>2 DEF FilesAreShaped
<1>4. /\ PageFile(seen[p].slug) \notin listed'[p]
      /\ \A t \in Slugs : files[t] # 0 /\ t # seen[p].slug => PageFile(t) \in listed'[p]
  BY <1>1, <1>2, NamesDiffer
<1>5. SyncsAreSound'
  <2> SUFFICES ASSUME NEW q \in Processes
               PROVE  /\ phase'[q] \in {"staged", "current", "published"} => seen[q].slug \in Slugs
                      /\ phase'[q] \in {"staged", "current"} => temporary[q] \in {0, seen[q].revision}
                      /\ phase'[q] # "listed" => listed'[q] = {}
                      /\ PageFile(seen[q].slug) \notin listed'[q]
    BY <1>1 DEF SyncsAreSound
  <2>1. CASE q = p
    BY <1>2, <1>4, <2>1
  <2>2. CASE q # p
    BY <1>1, <1>2, <2>2 DEF SyncsAreSound
  <2> QED
    BY <2>1, <2>2
<1>6. JobsAreSound' /\ AskedKnows'
  <2>1. /\ phase'["worker"] # "idle" => phase["worker"] # "idle"
        /\ phase["api"] \in {"idle", "read"} => phase'["api"] \in {"idle", "read"}
    BY <1>1, <1>2 DEF Processes
  <2> QED
    BY <1>1, <2>1 DEF JobsAreSound, AskedKnows, Asked, RepairKey
<1>7. FileFollows'
  <2>1. WorkerKnows' => WorkerKnows
    BY <1>1, <1>2 DEF WorkerKnows, Processes, JobsAreSound
  <2>2. WillLook => WillLook'
    BY <1>1, <1>2 DEF WillLook, Unaware, Asked, RepairKey, Processes
  <2>3. FileIsRight => FileIsRight'
    BY <1>1 DEF FileIsRight
  <2>4. ASSUME WorkerKnows, OthersGo, ~WillLook PROVE OthersGo'
    <3> SUFFICES ASSUME NEW t \in Slugs, t # wiki.slug, files[t] # 0 PROVE Watched(t)'
      BY <1>1 DEF OthersGo
    <3>1. Watched(t)
      BY <2>4 DEF OthersGo
    <3>2. CASE p = "worker"
      <4>1. phase'["api"] = phase["api"] /\ listed'["api"] = listed["api"]
        BY <1>2, <3>2 DEF Processes
      <4>2. seen["worker"] = wiki
        BY <1>1, <2>4, <3>2 DEF WorkerKnows, JobsAreSound
      <4>3. PageFile(t) \in listed'["worker"]
        BY <1>4, <3>2, <4>2
      <4> QED
        BY <4>3 DEF Watched
    <3>3. CASE p = "api"
      <4>1. phase'["worker"] = phase["worker"] /\ listed'["worker"] = listed["worker"]
        BY <1>2, <3>3 DEF Processes
      <4>2. seen["api"] = wiki \/ Unaware
        BY <1>1, <2>4, <3>3 DEF WillLook
      <4>3. t # seen["api"].slug
        BY <4>2, SlugAssumption DEF Unaware, Active
      <4>4. PageFile(t) \in listed'["api"]
        BY <1>4, <3>3, <4>3
      <4> QED
        BY <4>4 DEF Watched
    <3> QED
      BY <3>2, <3>3 DEF Processes
  <2> QED
    BY <1>1, <2>1, <2>2, <2>3, <2>4 DEF FileFollows, TwoJobs
<1> QED
  BY <1>3, <1>5, <1>6, <1>7

LEMMA FilesUnlink == ASSUME NEW p \in Processes PROVE FilesInv /\ Unlink(p) => FilesInv'
<1> SUFFICES ASSUME FilesInv, Unlink(p) PROVE FilesInv'
  OBVIOUS
<1> USE DEF FilesInv
<1>1. /\ phase[p] = "listed" /\ phase' = [phase EXCEPT ![p] = "cleaned"]
      /\ listed' = [listed EXCEPT ![p] = {}]
      /\ files' = [s \in Slugs |-> IF PageFile(s) \in listed[p] THEN 0 ELSE files[s]]
      /\ temporary' = [q \in Processes |-> IF Temporary(q) \in listed[p] THEN 0 ELSE temporary[q]]
      /\ UNCHANGED <<wiki, syncJobs, doneJobs, seen, lost>>
  BY DEF Unlink, Unlinked, Becomes
<1>2. /\ phase' \in [Processes -> Phases] /\ phase'[p] = "cleaned"
      /\ \A q \in Processes \ {p} : phase'[q] = phase[q]
      /\ listed' = [q \in Processes |-> listed'[q]] /\ listed'[p] = {}
      /\ \A q \in Processes \ {p} : listed'[q] = listed[q]
  BY <1>1 DEF FilesAreShaped, Phases
<1>3. /\ files' = [s \in Slugs |-> files'[s]]
      /\ \A s \in Slugs : PageFile(s) \in listed[p] => files'[s] = 0
      /\ \A s \in Slugs : PageFile(s) \notin listed[p] => files'[s] = files[s]
      /\ temporary' = [q \in Processes |-> temporary'[q]]
      /\ \A q \in Processes : temporary'[q] \in {0, temporary[q]}
  BY <1>1
<1>4. FilesAreShaped'
  BY <1>1, <1>2, <1>3 DEF FilesAreShaped
<1>5. SyncsAreSound'
  <2> SUFFICES ASSUME NEW q \in Processes
               PROVE  /\ phase'[q] \in {"staged", "current", "published"} => seen[q].slug \in Slugs
                      /\ phase'[q] \in {"staged", "current"} => temporary'[q] \in {0, seen[q].revision}
                      /\ phase'[q] # "listed" => listed'[q] = {}
                      /\ PageFile(seen[q].slug) \notin listed'[q]
    BY <1>1 DEF SyncsAreSound
  <2>1. CASE q = p
    BY <1>2, <2>1
  <2>2. CASE q # p
    BY <1>1, <1>2, <1>3, <2>2 DEF SyncsAreSound
  <2> QED
    BY <2>1, <2>2
<1>6. JobsAreSound' /\ AskedKnows'
  <2>1. /\ phase'["worker"] # "idle" => phase["worker"] # "idle"
        /\ phase["api"] \in {"idle", "read"} => phase'["api"] \in {"idle", "read"}
    BY <1>1, <1>2 DEF Processes
  <2> QED
    BY <1>1, <2>1 DEF JobsAreSound, AskedKnows, Asked, RepairKey
<1>7. FileFollows'
  <2>1. WorkerKnows' => WorkerKnows
    BY <1>1, <1>2 DEF WorkerKnows, Processes, JobsAreSound
  <2>2. WillLook => WillLook'
    BY <1>1, <1>2 DEF WillLook, Unaware, Asked, RepairKey, Processes
  <2>3. ASSUME WorkerKnows, ~WillLook, FileIsRight, OthersGo PROVE (FileIsRight /\ OthersGo)'
    <3>1. wiki.slug \in Slugs => seen[p] = wiki
      <4>1. CASE p = "worker"
        BY <1>1, <2>3, <4>1 DEF WorkerKnows, JobsAreSound
      <4>2. CASE p = "api"
        BY <1>1, <2>3, <4>2, SlugAssumption DEF WillLook, Unaware, Active
      <4> QED
        BY <4>1, <4>2 DEF Processes
    <3>2. FileIsRight'
      <4> SUFFICES ASSUME wiki.slug \in Slugs PROVE files'[wiki.slug] = wiki.revision
        BY <1>1 DEF FileIsRight
      <4>1. PageFile(wiki.slug) \notin listed[p]
        BY <3>1 DEF SyncsAreSound
      <4> QED
        BY <1>3, <2>3, <4>1 DEF FileIsRight
    <3>3. OthersGo'
      <4> SUFFICES ASSUME NEW t \in Slugs, t # wiki.slug, files'[t] # 0 PROVE Watched(t)'
        BY <1>1 DEF OthersGo
      <4>1. PageFile(t) \notin listed[p] /\ files[t] # 0
        BY <1>3
      <4>2. Watched(t)
        BY <2>3, <4>1 DEF OthersGo
      <4>3. \E q \in Processes \ {p} :
              \/ PageFile(t) \in listed[q]
              \/ phase[q] \in {"published", "settled"} /\ (q = "api" => seen["api"] = wiki)
        BY <1>1, <4>1, <4>2 DEF Watched, Processes
      <4> QED
        BY <1>1, <1>2, <4>3 DEF Watched, Processes
    <3> QED
      BY <3>2, <3>3
  <2> QED
    BY <1>1, <2>1, <2>2, <2>3 DEF FileFollows, TwoJobs
<1> QED
  BY <1>4, <1>5, <1>6, <1>7

LEMMA FilesFinishSync == ASSUME NEW p \in Processes PROVE FilesInv /\ FinishSync(p) => FilesInv'
<1> SUFFICES ASSUME FilesInv, FinishSync(p) PROVE FilesInv'
  OBVIOUS
<1> USE DEF FilesInv
<1>1. /\ phase[p] = "cleaned" /\ StillSettled(p) /\ phase' = [phase EXCEPT ![p] = "idle"]
      /\ UNCHANGED <<wiki, files, temporary, seen, listed, lost>>
      /\ \/ p = "api" /\ syncJobs' = syncJobs /\ doneJobs' = doneJobs
         \/ /\ p = "worker"
            /\ \E job \in syncJobs : /\ syncJobs' = syncJobs \ {job}
                                     /\ doneJobs' = doneJobs \cup {job}
  BY DEF FinishSync, Becomes, Processes
<1>2. Steps(p, "idle")
  BY <1>1 DEF Steps, FilesAreShaped
<1>3. /\ FilesAreShaped' /\ SyncsAreSound'
      /\ phase'[p] = "idle" /\ \A q \in Processes \ {p} : phase'[q] = phase[q]
  BY <1>2, StepsAreSound DEF Phases
<1>4. syncJobs' \cup doneJobs' = syncJobs \cup doneJobs /\ syncJobs' \subseteq syncJobs
  BY <1>1
<1>5. JobsAreSound'
  <2>1. phase'["worker"] # "idle" => syncJobs' # {}
    BY <1>1, <1>3 DEF JobsAreSound, Processes
  <2> QED
    BY <1>1, <1>4, <2>1 DEF JobsAreSound
<1>6. AskedKnows'
  <2>1. phase["api"] \in {"idle", "read"} => phase'["api"] \in {"idle", "read"}
    BY <1>3 DEF Processes
  <2> QED
    BY <1>1, <1>4, <2>1 DEF AskedKnows, Asked, RepairKey
<1>7. FileFollows'
  <2>1. CASE p = "worker"
    <3>1. /\ seen["worker"] = wiki /\ phase["worker"] = "cleaned"
          /\ phase'["api"] = phase["api"]
      BY <1>1, <1>3, <2>1 DEF StillSettled, SameSnapshot, Processes
    <3> SUFFICES ASSUME ~lost, WorkerKnows' PROVE WillLook' \/ (FileIsRight /\ OthersGo)'
      BY <1>1 DEF FileFollows
    <3>2. syncJobs' = {}
      BY <1>3, <2>1 DEF WorkerKnows
    <3>3. WorkerKnows /\ ~TwoJobs
      BY <1>1, <2>1, <3>1, <3>2 DEF WorkerKnows, TwoJobs
    <3>4. CASE WillLook
      BY <1>1, <1>4, <3>1, <3>4 DEF WillLook, Unaware, Asked, RepairKey
    <3>5. CASE FileIsRight /\ OthersGo
      BY <1>1, <3>1, <3>5 DEF FileIsRight, OthersGo, Watched
    <3> QED
      BY <3>3, <3>4, <3>5 DEF FileFollows
  <2>2. CASE p = "api"
    <3>1. /\ phase'["worker"] = phase["worker"] /\ phase["api"] = "cleaned"
          /\ seen["api"] = wiki \/ Unaware
      BY <1>1, <1>3, <2>2 DEF StillSettled, SameSnapshot, Processes, Unaware
    <3>2. (WorkerKnows' => WorkerKnows) /\ ~WillLook /\ (TwoJobs => TwoJobs')
      BY <1>1, <2>2, <3>1 DEF WorkerKnows, WillLook, TwoJobs
    <3>3. FileIsRight /\ OthersGo => (FileIsRight /\ OthersGo)'
      BY <1>1, <3>1 DEF FileIsRight, OthersGo, Watched
    <3> QED
      BY <1>1, <3>2, <3>3 DEF FileFollows
  <2> QED
    BY <2>1, <2>2 DEF Processes
<1> QED
  BY <1>3, <1>5, <1>6, <1>7

LEMMA FilesSyncAgain == ASSUME NEW p \in Processes PROVE FilesInv /\ SyncAgain(p) => FilesInv'
<1> SUFFICES ASSUME FilesInv, SyncAgain(p) PROVE FilesInv'
  OBVIOUS
<1> USE DEF FilesInv
<1>1. /\ phase[p] = "cleaned" /\ ~StillSettled(p) /\ phase' = [phase EXCEPT ![p] = "read"]
      /\ UNCHANGED <<wiki, files, temporary, syncJobs, doneJobs, seen, listed, lost>>
  BY DEF SyncAgain, Becomes
<1>2. Steps(p, "read")
  BY <1>1 DEF Steps, FilesAreShaped
<1>3. /\ FilesAreShaped' /\ SyncsAreSound'
      /\ phase'[p] = "read" /\ \A q \in Processes \ {p} : phase'[q] = phase[q]
  BY <1>2, StepsAreSound DEF Phases
<1>4. JobsAreSound' /\ AskedKnows'
  <2>1. /\ phase'["worker"] # "idle" => phase["worker"] # "idle"
        /\ phase["api"] \in {"idle", "read"} => phase'["api"] \in {"idle", "read"}
    BY <1>1, <1>3 DEF Processes
  <2> QED
    BY <1>1, <2>1 DEF JobsAreSound, AskedKnows, Asked, RepairKey
<1>5. FileFollows'
  <2>1. CASE p = "worker"
    BY <1>1, <1>3, <2>1 DEF FileFollows, WorkerKnows, JobsAreSound
  <2>2. CASE p = "api"
    <3>1. seen["api"] # wiki /\ phase["api"] = "cleaned" /\ phase'["api"] = "read"
      BY <1>1, <1>3, <2>2 DEF StillSettled, SameSnapshot
    <3>2. WillLook'
      BY <1>1, <3>1 DEF WillLook, AskedKnows, Asked, RepairKey
    <3> QED
      BY <3>2 DEF FileFollows
  <2> QED
    BY <2>1, <2>2 DEF Processes
<1> QED
  BY <1>3, <1>4, <1>5

LEMMA FilesStartSync == FilesInv /\ StartSync => FilesInv'
<1> SUFFICES ASSUME FilesInv, StartSync PROVE FilesInv'
  OBVIOUS
<1> USE DEF FilesInv
<1>1. /\ phase["api"] = "idle" /\ phase' = [phase EXCEPT !["api"] = "read"]
      /\ UNCHANGED <<wiki, files, temporary, syncJobs, doneJobs, seen, listed, lost>>
  BY DEF StartSync, Becomes
<1>2. Steps("api", "read")
  BY <1>1 DEF Steps, FilesAreShaped
<1>3. /\ FilesAreShaped' /\ SyncsAreSound'
      /\ phase'["api"] = "read" /\ phase'["worker"] = phase["worker"]
  BY <1>2, StepsAreSound DEF Phases, Processes
<1>4. JobsAreSound' /\ AskedKnows'
  BY <1>1, <1>3 DEF JobsAreSound, AskedKnows
<1>5. FileFollows'
  <2>1. ~WillLook /\ (WorkerKnows' => WorkerKnows) /\ (TwoJobs => TwoJobs')
    BY <1>1, <1>3 DEF WillLook, WorkerKnows, TwoJobs
  <2>2. FileIsRight /\ OthersGo => (FileIsRight /\ OthersGo)'
    BY <1>1, <1>3 DEF FileIsRight, OthersGo, Watched
  <2> QED
    BY <1>1, <2>1, <2>2 DEF FileFollows
<1> QED
  BY <1>3, <1>4, <1>5

LEMMA FilesDie == ASSUME NEW p \in Processes PROVE FilesInv /\ Die(p) => FilesInv'
<1> SUFFICES ASSUME FilesInv, Die(p) PROVE FilesInv'
  OBVIOUS
<1> USE DEF FilesInv
<1>1. /\ phase' = [phase EXCEPT ![p] = "idle"] /\ listed' = [listed EXCEPT ![p] = {}]
      /\ UNCHANGED <<wiki, syncJobs, doneJobs, seen>>
      /\ \/ p = "api" /\ lost' = (lost \/ phase["api"] # "idle") /\ Unlinked(Temporaries)
         \/ p = "worker" /\ UNCHANGED <<lost, files, temporary>>
  BY DEF Die, Becomes, Processes
<1>2. /\ files' = [s \in Slugs |-> files'[s]] /\ \A s \in Slugs : files'[s] = files[s]
      /\ temporary' = [q \in Processes |-> temporary'[q]]
      /\ \A q \in Processes : temporary'[q] \in {0, temporary[q]}
  BY <1>1, NamesDiffer DEF Unlinked, FilesAreShaped
<1>3. /\ phase' \in [Processes -> Phases] /\ phase'[p] = "idle"
      /\ \A q \in Processes \ {p} : phase'[q] = phase[q]
      /\ listed' = [q \in Processes |-> listed'[q]] /\ listed'[p] = {}
      /\ \A q \in Processes \ {p} : listed'[q] = listed[q]
  BY <1>1 DEF FilesAreShaped, Phases
<1>4. FilesAreShaped'
  BY <1>1, <1>2, <1>3 DEF FilesAreShaped
<1>5. SyncsAreSound'
  <2> SUFFICES ASSUME NEW q \in Processes
               PROVE  /\ phase'[q] \in {"staged", "current", "published"} => seen[q].slug \in Slugs
                      /\ phase'[q] \in {"staged", "current"} => temporary'[q] \in {0, seen[q].revision}
                      /\ phase'[q] # "listed" => listed'[q] = {}
                      /\ PageFile(seen[q].slug) \notin listed'[q]
    BY <1>1 DEF SyncsAreSound
  <2>1. CASE q = p
    BY <1>3, <2>1
  <2>2. CASE q # p
    BY <1>2, <1>3, <2>2 DEF SyncsAreSound
  <2> QED
    BY <2>1, <2>2
<1>6. JobsAreSound' /\ AskedKnows'
  <2>1. /\ phase'["worker"] # "idle" => phase["worker"] # "idle"
        /\ phase["api"] \in {"idle", "read"} => phase'["api"] \in {"idle", "read"}
    BY <1>3 DEF Processes
  <2> QED
    BY <1>1, <2>1 DEF JobsAreSound, AskedKnows, Asked, RepairKey
<1>7. FileFollows'
  <2> SUFFICES ASSUME ~lost', WorkerKnows' PROVE TwoJobs' \/ WillLook' \/ (FileIsRight /\ OthersGo)'
    BY DEF FileFollows
  <2>1. ~lost /\ (TwoJobs => TwoJobs') /\ (FileIsRight => FileIsRight')
    <3>1. ~lost
      <4>1. lost' = (lost \/ phase["api"] # "idle") \/ lost' = lost
        BY <1>1
      <4> QED
        BY <4>1
    <3>2. TwoJobs => TwoJobs'
      BY <1>1 DEF TwoJobs
    <3>3. wiki' = wiki /\ \A s \in Slugs : files'[s] = files[s]
      BY <1>1, <1>2
    <3>4. FileIsRight => FileIsRight'
      BY <3>3 DEF FileIsRight
    <3> QED
      BY <3>1, <3>2, <3>4
  <2>2. CASE p = "worker"
    <3>1. phase'["api"] = phase["api"] /\ listed'["api"] = listed["api"] /\ phase'["worker"] = "idle"
      BY <1>3, <2>2 DEF Processes
    <3>2. syncJobs = {}
      BY <1>1, <3>1 DEF WorkerKnows
    <3>3. WorkerKnows /\ phase["worker"] = "idle" /\ listed["worker"] = {}
      BY <3>2 DEF WorkerKnows, JobsAreSound, SyncsAreSound, Processes
    <3>4. WillLook => WillLook'
      BY <1>1, <3>1 DEF WillLook, Unaware, Asked, RepairKey
    <3>5. OthersGo => OthersGo'
      BY <1>1, <1>2, <3>1, <3>3 DEF OthersGo, Watched
    <3> QED
      BY <2>1, <3>3, <3>4, <3>5 DEF FileFollows
  <2>3. CASE p = "api"
    <3>1. phase["api"] = "idle"
      BY <1>1, <2>3
    <3>2. phase'["worker"] = phase["worker"] /\ listed'["worker"] = listed["worker"]
      BY <1>3, <2>3 DEF Processes
    <3>3. ~WillLook /\ listed["api"] = {}
      BY <3>1 DEF WillLook, SyncsAreSound, Processes
    <3>4. WorkerKnows
      BY <1>1, <3>2 DEF WorkerKnows
    <3>5. OthersGo => OthersGo'
      BY <1>1, <1>2, <3>1, <3>2, <3>3 DEF OthersGo, Watched
    <3> QED
      BY <2>1, <3>3, <3>4, <3>5 DEF FileFollows
  <2> QED
    BY <2>2, <2>3 DEF Processes
<1> QED
  BY <1>4, <1>5, <1>6, <1>7

\* Whatever the worker and the API do to the file of a page at the same time, whoever
\* spoils what the other has done looks at it again (syncOneProjectionTopic and
\* syncOneTopicProjection, see FileFollows).
THEOREM FilesAreLookedAfter == FilesSpec => []FilesInv
<1>1. FilesInit => FilesInv
  <2> SUFFICES ASSUME FilesInit PROVE FilesInv
    OBVIOUS
  <2>1. /\ wiki = [revision |-> 0, slug |-> NoSlug] /\ files = [s \in Slugs |-> 0]
        /\ temporary = [p \in Processes |-> 0] /\ phase = [p \in Processes |-> "idle"]
        /\ seen = [p \in Processes |-> wiki] /\ listed = [p \in Processes |-> {}] /\ lost = FALSE
    BY DEF FilesInit
  <2>2. wiki = [f \in {"revision", "slug"} |-> wiki[f]] /\ wiki.revision = 0 /\ wiki.slug = NoSlug
    BY <2>1
  <2>3. phase \in [Processes -> Phases]
    BY <2>1 DEF Phases
  <2>4. FilesAreShaped
    BY <2>1, <2>2, <2>3 DEF FilesAreShaped
  <2>5. SyncsAreSound
    <3> SUFFICES ASSUME NEW p \in Processes
                 PROVE  /\ seen[p].revision \in Nat /\ seen[p].revision <= wiki.revision
                        /\ phase[p] = "idle" /\ listed[p] = {}
      BY DEF SyncsAreSound
    <3> QED
      BY <2>1, <2>2
  <2>6. JobsAreSound /\ AskedKnows
    BY DEF FilesInit, JobsAreSound, AskedKnows, Asked, Processes
  <2>7. FileFollows
    BY SlugAssumption DEF FilesInit, FileFollows, FileIsRight, OthersGo
  <2> QED
    BY <2>4, <2>5, <2>6, <2>7 DEF FilesInv
<1>2. ASSUME FilesInv, [FilesNext]_filesVars PROVE FilesInv'
  <2>1. CASE UNCHANGED filesVars
    BY <1>2, <2>1 DEF filesVars, FilesInv, FilesAreShaped, SyncsAreSound, JobsAreSound, AskedKnows,
       Asked, RepairKey, FileFollows, WorkerKnows, TwoJobs, WillLook, Unaware, FileIsRight, OthersGo,
       Watched
  <2>2. CASE EditTopic \/ ReplaceTopic
    <3>1. PICK slug \in Slugs \cup {NoSlug} :
            Changed(slug) /\ UNCHANGED <<files, temporary, doneJobs, phase, seen, listed, lost>>
      BY <2>2 DEF EditTopic, ReplaceTopic
    <3> QED
      BY <1>2, <3>1, FilesChange
  <2>3. ASSUME NEW p \in Processes, SyncStep(p) PROVE FilesInv'
    BY <1>2, <2>3, FilesStage, FilesCompare, FilesPublish, FilesCompareAgain, FilesList,
       FilesUnlink, FilesFinishSync, FilesSyncAgain DEF SyncStep
  <2>4. CASE WorkerSync
    BY <1>2, <2>3, <2>4, FilesTakeSync, FilesFailPublish DEF WorkerSync, Processes
  <2>5. CASE ApiSync
    BY <1>2, <2>3, <2>5, FilesStartSync, FilesFailPublishByApi DEF ApiSync, Processes
  <2>6. CASE \E p \in Processes : Die(p)
    BY <1>2, <2>6, FilesDie
  <2> QED
    BY <1>2, <2>1, <2>2, <2>4, <2>5, <2>6 DEF FilesNext
<1> QED
  BY <1>1, <1>2, PTL DEF FilesSpec

\* With both processes done and no job left, the directory has the page's active revision
\* under its slug and nothing else of it, for any number of slugs, changes and deaths
\* (FilesFollow).
THEOREM FilesFollowThePage == FilesSpec => []FilesFollow
<1>1. FilesInv => FilesFollow
  <2> SUFFICES ASSUME FilesInv, \A p \in Processes : phase[p] = "idle", syncJobs = {}, ~lost,
                      NEW s \in Slugs
               PROVE  files[s] = IF wiki.slug = s THEN wiki.revision ELSE 0
    BY DEF FilesFollow, FilesMatch
  <2>1. /\ phase["worker"] = "idle" /\ phase["api"] = "idle"
        /\ listed["worker"] = {} /\ listed["api"] = {}
    BY DEF FilesInv, SyncsAreSound, Processes
  <2>2. FileIsRight /\ OthersGo
    BY <2>1 DEF FilesInv, FileFollows, WorkerKnows, TwoJobs, WillLook
  <2>3. ~Watched(s)
    BY <2>1 DEF Watched
  <2> QED
    BY <2>2, <2>3 DEF FileIsRight, OthersGo
<1> QED
  BY <1>1, FilesAreLookedAfter, PTL

-----------------------------------------------------------------------------
(* The vectors of semantic search *)

\* What the texts, vectors and jobs of a behaviour are about.
Concerned ==
  IF about = "event" THEN given
  ELSE IF about = "topic" THEN {PageText}
  ELSE IF about = "claim" THEN {ClaimText} ELSE Chunks
Roots == IF about = "chunk" THEN {WholeFile} ELSE Concerned

IndexIsShaped ==
  /\ about \in {"event", "topic", "claim", "chunk"}
  /\ text \in [Documents -> Texts \cup {NoText}]
  /\ edit \in Nat
  /\ given \subseteq Replies /\ compiling \subseteq given
  /\ given # {} => about = "event"
  /\ extracted => about = "chunk"
  /\ hidden => about = "claim" /\ text[ClaimText] = NoText
  /\ extracted \in BOOLEAN /\ hidden \in BOOLEAN /\ excused \in BOOLEAN
  /\ call = [w \in Workers |-> call[w]]
  /\ \A w \in Workers : call[w] = [f \in {"at", "job", "docs", "batch", "leased"} |-> call[w][f]]

ThingsAreConcerned ==
  /\ \A d \in Documents : text[d] # NoText => d \in Concerned
  /\ \A v \in vectors : v.of \in Concerned /\ v.text # NoText
  /\ about = "event" => \A d \in Documents : text[d] \in {Said, NoText}

Known == jobs \cup ended
JobsAreForRoots ==
  \A j \in Known :
    /\ j.root \in Roots /\ j.text # NoText
    /\ about \in {"topic", "claim"} => j.nth \in Nat /\ j.nth <= edit

\* What a worker has read of a document of a root.
IsReading(doc, root) ==
  doc = <<doc[1], doc[2]>> /\ doc[1] \in OfRoot(root) /\ doc[2] \in Texts
CallsAreSound ==
  \A w \in Workers :
    /\ call[w].leased \in BOOLEAN
    /\ call[w].leased => call[w].at # "idle"
    /\ call[w].at # "idle" => call[w].job \in Known
    /\ \A doc \in call[w].docs : IsReading(doc, Root(w))
    /\ call[w].at = "embed" => IsReading(call[w].batch, Root(w))

VectorsAreCurrent == ~hidden => \A v \in vectors : Current(v)

\* The worker has this text of the document still to come to.
WillReach(w, d) ==
  \/ call[w].at = "read"
  \/ /\ call[w].at \in {"preflight", "budget", "batch", "embed"}
     /\ <<d, text[d]>> \in call[w].docs
  \/ call[w].at = "embed" /\ call[w].batch = <<d, text[d]>>

WillEmbed(d) ==
  \E j \in jobs :
    /\ d \in OfRoot(j.root) /\ j.text = Generation(j.root) /\ j.model = model
    /\ \A w \in Workers : call[w].leased /\ call[w].job = j => WillReach(w, d)

WillQueue(d) ==
  \/ d \in compiling /\ Job(d, text[d], 0) \notin Known
  \/ extracted /\ Job(WholeFile, Bytes, 0) \notin Known

TextsAreFound ==
  ~excused => \A d \in Documents :
    text[d] # NoText => Exact(d, text[d]) \/ WillEmbed(d) \/ WillQueue(d)

IndexInv ==
  /\ IndexIsShaped /\ ThingsAreConcerned /\ JobsAreForRoots /\ CallsAreSound
  /\ VectorsAreCurrent /\ TextsAreFound

\* Only w has moved, and this is where it is.
Moved(w, at, job, docs, batch, leased) ==
  /\ call' = [v \in Workers |-> call'[v]]
  /\ call'[w] = [at |-> at, job |-> job, docs |-> docs, batch |-> batch, leased |-> leased]
  /\ \A v \in Workers \ {w} : call'[v] = call[v]

\* What a step of a worker leaves: what it has to do with texts, jobs and vectors.
WorkerLeaves ==
  /\ UNCHANGED <<about, textVars, model, hidden>>
  /\ jobs' \cup ended' = Known
  /\ excused' \in BOOLEAN /\ (excused => excused')
  /\ \A v \in vectors' : v \in vectors \/ (v.of \in Concerned /\ v.text # NoText /\ Current(v))
  /\ ~excused' => \A d \in Documents :
       text[d] # NoText /\ Exact(d, text[d]) => Exact(d, text[d])'

LEMMA WorkersKeep ==
  ASSUME IndexInv, WorkerLeaves,
         call' = [w \in Workers |-> call'[w]], CallsAreSound',
         \A w \in Workers :
           call'[w] = [f \in {"at", "job", "docs", "batch", "leased"} |-> call'[w][f]],
         ASSUME ~excused', NEW d \in Documents, text[d] # NoText, WillEmbed(d)
         PROVE  Exact(d, text[d])' \/ WillEmbed(d)'
  PROVE  IndexInv'
<1> USE DEF IndexInv
<1>1. /\ about' = about /\ text' = text /\ edit' = edit /\ given' = given /\ compiling' = compiling
      /\ extracted' = extracted /\ model' = model /\ hidden' = hidden
      /\ jobs' \cup ended' = jobs \cup ended /\ excused' \in BOOLEAN
  BY DEF WorkerLeaves, textVars, Known
<1>2. IndexIsShaped'
  BY <1>1 DEF IndexIsShaped
<1>3. Concerned' = Concerned /\ Roots' = Roots /\ Known' = Known
  BY <1>1 DEF Concerned, Roots, Known
<1>4. ThingsAreConcerned'
  BY <1>1, <1>3 DEF ThingsAreConcerned, WorkerLeaves
<1>5. JobsAreForRoots'
  BY <1>1, <1>3 DEF JobsAreForRoots
<1>6. VectorsAreCurrent'
  BY <1>1 DEF VectorsAreCurrent, WorkerLeaves, Current
<1>7. TextsAreFound'
  <2> SUFFICES ASSUME ~excused', NEW d \in Documents, text[d] # NoText
               PROVE  Exact(d, text[d])' \/ WillEmbed(d)' \/ WillQueue(d)'
    BY <1>1 DEF TextsAreFound
  <2>1. ~excused
    BY DEF WorkerLeaves
  <2>2. CASE Exact(d, text[d])
    BY <2>2 DEF WorkerLeaves
  <2>3. CASE WillQueue(d)
    BY <1>1, <1>3, <2>3 DEF WillQueue, Job
  <2> QED
    BY <2>1, <2>2, <2>3 DEF TextsAreFound
<1> QED
  BY <1>2, <1>4, <1>5, <1>6, <1>7

\* The step of one worker that goes on with its job.
LEMMA OneWorkerKeeps ==
  ASSUME IndexInv, NEW w \in Workers, NEW at, NEW docs, NEW batch, WorkerLeaves, jobs' = jobs,
         call[w].at # "idle", at # "idle",
         Moved(w, at, call[w].job, docs, batch, call[w].leased),
         \A doc \in docs : IsReading(doc, Root(w)),
         at = "embed" => IsReading(batch, Root(w)),
         ASSUME ~excused', call[w].leased, NEW d \in Documents, text[d] # NoText,
                d \in OfRoot(Root(w)), call[w].job.text = Generation(Root(w)),
                call[w].job.model = model, WillReach(w, d)
         PROVE  Exact(d, text[d])' \/ WillReach(w, d)'
  PROVE  IndexInv'
<1> USE DEF IndexInv
<1>1. /\ call' = [v \in Workers |-> call'[v]]
      /\ call'[w].at = at /\ call'[w].job = call[w].job /\ call'[w].docs = docs
      /\ call'[w].batch = batch /\ call'[w].leased = call[w].leased
      /\ \A v \in Workers \ {w} : call'[v] = call[v]
      /\ call'[w] = [f \in {"at", "job", "docs", "batch", "leased"} |-> call'[w][f]]
  BY DEF Moved
<1>2. \A v \in Workers : call'[v] = [f \in {"at", "job", "docs", "batch", "leased"} |-> call'[v][f]]
  BY <1>1 DEF IndexIsShaped
<1>3. /\ Known' = Known /\ text' = text /\ model' = model
      /\ \A doc, root : IsReading(doc, root)' <=> IsReading(doc, root)
  BY DEF WorkerLeaves, Known, textVars, IsReading, OfRoot
<1>4. CallsAreSound'
  <2> SUFFICES ASSUME NEW v \in Workers
               PROVE  /\ call'[v].leased \in BOOLEAN
                      /\ call'[v].leased => call'[v].at # "idle"
                      /\ call'[v].at # "idle" => call'[v].job \in Known'
                      /\ \A doc \in call'[v].docs : IsReading(doc, Root(v)')
                      /\ call'[v].at = "embed" => IsReading(call'[v].batch, Root(v)')
    BY <1>3 DEF CallsAreSound
  <2>1. CASE v = w
    BY <1>1, <1>3, <2>1 DEF CallsAreSound, Root
  <2>2. CASE v # w
    BY <1>1, <1>3, <2>2 DEF CallsAreSound, Root
  <2> QED
    BY <2>1, <2>2
<1>5. ASSUME ~excused', NEW d \in Documents, text[d] # NoText, WillEmbed(d)
      PROVE  Exact(d, text[d])' \/ WillEmbed(d)'
  <2>1. PICK j \in jobs :
          /\ d \in OfRoot(j.root) /\ j.text = Generation(j.root) /\ j.model = model
          /\ \A v \in Workers : call[v].leased /\ call[v].job = j => WillReach(v, d)
    BY <1>5 DEF WillEmbed
  <2>2. call[w].leased /\ call[w].job = j => Exact(d, text[d])' \/ WillReach(w, d)'
    BY <1>5, <2>1 DEF Root
  <2>3. \A v \in Workers \ {w} : call'[v].leased /\ call'[v].job = j => WillReach(v, d)'
    BY <1>1, <1>3, <2>1 DEF WillReach
  <2>4. Generation(j.root)' = Generation(j.root)
    BY <1>3 DEF Generation, Present
  <2>5. CASE call[w].leased /\ call[w].job = j => WillReach(w, d)'
    <3>1. \A v \in Workers : call'[v].leased /\ call'[v].job = j => WillReach(v, d)'
      BY <1>1, <2>3, <2>5
    <3> QED
      BY <1>3, <2>1, <2>4, <3>1 DEF WillEmbed, OfRoot
  <2> QED
    BY <2>2, <2>5
<1> QED
  BY <1>1, <1>2, <1>4, <1>5, WorkersKeep

MovesOn(w, at, docs, batch) == Moved(w, at, call[w].job, docs, batch, call[w].leased)

LEMMA CallMoves ==
  ASSUME IndexIsShaped, NEW w \in Workers
  PROVE  /\ \A at : Moves(w, at) => MovesOn(w, at, call[w].docs, call[w].batch)
         /\ \A at, docs : call' = [call EXCEPT ![w].at = at, ![w].docs = docs] =>
                          MovesOn(w, at, docs, call[w].batch)
         /\ \A at, docs : call' = [call EXCEPT ![w].docs = docs, ![w].at = at] =>
                          MovesOn(w, at, docs, call[w].batch)
         /\ \A at, docs, batch :
              call' = [call EXCEPT ![w].docs = docs, ![w].batch = batch, ![w].at = at] =>
              MovesOn(w, at, docs, batch)
<1>1. /\ call = [v \in Workers |-> call[v]]
      /\ call[w] = [at |-> call[w].at, job |-> call[w].job, docs |-> call[w].docs,
                    batch |-> call[w].batch, leased |-> call[w].leased]
  BY DEF IndexIsShaped
<1>2. ASSUME NEW at, Moves(w, at) PROVE MovesOn(w, at, call[w].docs, call[w].batch)
  BY <1>1, <1>2 DEF Moves, MovesOn, Moved
<1>3. ASSUME NEW at, NEW docs, call' = [call EXCEPT ![w].at = at, ![w].docs = docs]
      PROVE  MovesOn(w, at, docs, call[w].batch)
  <2> DEFINE c == [call EXCEPT ![w].at = at]
  <2>1. /\ c = [v \in Workers |-> c[v]] /\ \A v \in Workers \ {w} : c[v] = call[v]
        /\ c[w] = [at |-> at, job |-> call[w].job, docs |-> call[w].docs,
                   batch |-> call[w].batch, leased |-> call[w].leased]
    BY <1>1
  <2>2. call' = [c EXCEPT ![w].docs = docs]
    BY <1>3
  <2> HIDE DEF c
  <2> QED
    BY <2>1, <2>2 DEF MovesOn, Moved
<1>4. ASSUME NEW at, NEW docs, call' = [call EXCEPT ![w].docs = docs, ![w].at = at]
      PROVE  MovesOn(w, at, docs, call[w].batch)
  <2> DEFINE c == [call EXCEPT ![w].docs = docs]
  <2>1. /\ c = [v \in Workers |-> c[v]] /\ \A v \in Workers \ {w} : c[v] = call[v]
        /\ c[w] = [at |-> call[w].at, job |-> call[w].job, docs |-> docs,
                   batch |-> call[w].batch, leased |-> call[w].leased]
    BY <1>1
  <2>2. call' = [c EXCEPT ![w].at = at]
    BY <1>4
  <2> HIDE DEF c
  <2> QED
    BY <2>1, <2>2 DEF MovesOn, Moved
<1>5. ASSUME NEW at, NEW docs, NEW batch,
             call' = [call EXCEPT ![w].docs = docs, ![w].batch = batch, ![w].at = at]
      PROVE  MovesOn(w, at, docs, batch)
  <2> DEFINE c == [call EXCEPT ![w].docs = docs]
             e == [c EXCEPT ![w].batch = batch]
  <2>1. /\ c = [v \in Workers |-> c[v]] /\ \A v \in Workers \ {w} : c[v] = call[v]
        /\ c[w] = [at |-> call[w].at, job |-> call[w].job, docs |-> docs,
                   batch |-> call[w].batch, leased |-> call[w].leased]
    BY <1>1
  <2>2. call' = [e EXCEPT ![w].at = at]
    BY <1>5
  <2> HIDE DEF c
  <2>3. /\ e = [v \in Workers |-> e[v]] /\ \A v \in Workers \ {w} : e[v] = call[v]
        /\ e[w] = [at |-> call[w].at, job |-> call[w].job, docs |-> docs,
                   batch |-> batch, leased |-> call[w].leased]
    BY <2>1
  <2> HIDE DEF e
  <2> QED
    BY <2>2, <2>3 DEF MovesOn, Moved
<1> QED
  BY <1>2, <1>3, <1>4, <1>5

LEMMA VectorsReadDocuments ==
  ASSUME NEW w \in Workers PROVE IndexInv /\ ReadDocuments(w) => IndexInv'
<1> SUFFICES ASSUME IndexInv, ReadDocuments(w) PROVE IndexInv'
  OBVIOUS
<1> USE DEF IndexInv
<1> DEFINE at == IF model # call[w].job.model THEN "done" ELSE "preflight"
           docs == Readable(Root(w))
<1>1. Moved(w, at, call[w].job, docs, call[w].batch, call[w].leased)
  <2>1. MovesOn(w, at, docs, call[w].batch)
    BY CallMoves DEF ReadDocuments
  <2> QED
    BY <2>1 DEF MovesOn
<1>2. WorkerLeaves /\ jobs' = jobs /\ call[w].at = "read"
  BY DEF ReadDocuments, WorkerLeaves, IndexIsShaped, Known, Busy, Exact, textVars
<1>3. \A doc \in docs : IsReading(doc, Root(w))
  BY DEF Readable, IsReading, OfRoot, IndexIsShaped, Present, Documents
<1>4. ASSUME NEW d \in Documents, text[d] # NoText, d \in OfRoot(Root(w)), call[w].job.model = model
      PROVE  WillReach(w, d)'
  <2>1. <<d, text[d]>> \in docs
    BY <1>4 DEF Readable, OfRoot, Present
  <2>2. call'[w].at = "preflight" /\ call'[w].docs = docs /\ text' = text
    BY <1>1, <1>2, <1>4 DEF Moved, WorkerLeaves, textVars
  <2> QED
    BY <2>1, <2>2 DEF WillReach
<1>5. at # "idle" /\ at # "embed"
  OBVIOUS
<1> HIDE DEF at, docs
<1> QED
  BY <1>1, <1>2, <1>3, <1>4, <1>5, OneWorkerKeeps

LEMMA VectorsPreflight ==
  ASSUME NEW w \in Workers PROVE IndexInv /\ Preflight(w) => IndexInv'
<1> SUFFICES ASSUME IndexInv, Preflight(w) PROVE IndexInv'
  OBVIOUS
<1> USE DEF IndexInv
<1> DEFINE job == call[w].job
           now == Generation(Root(w))
           other == now # NoText /\ now # job.text
           pending == {d \in call[w].docs : text[d[1]] = d[2] /\ ~Exact(d[1], d[2])}
           goesOn == model = job.model /\ ~other /\ pending # {}
           at == IF goesOn THEN "budget" ELSE "done"
<1>1. Moved(w, at, job, pending, call[w].batch, call[w].leased)
  <2>1. MovesOn(w, at, pending, call[w].batch)
    BY CallMoves DEF Preflight
  <2> QED
    BY <2>1 DEF MovesOn
<1>2. /\ UNCHANGED <<about, textVars, model, hidden>> /\ jobs' = jobs /\ ended' = ended
      /\ call[w].at = "preflight" /\ vectors' \subseteq vectors
      /\ excused' = (excused \/ \E v \in vectors \ vectors' : Current(v))
  BY DEF Preflight, Busy
<1>3. ASSUME ~excused', NEW d \in Documents, text[d] # NoText, Exact(d, text[d])
      PROVE  Exact(d, text[d])'
  <2>1. Current(Vector(d, text[d], model))
    BY DEF Current, Vector
  <2>2. Vector(d, text[d], model) \in vectors'
    BY <1>2, <1>3, <2>1 DEF Exact
  <2> QED
    BY <1>2, <2>2 DEF Exact, textVars
<1>4. WorkerLeaves
  <2>1. excused' \in BOOLEAN /\ (excused => excused')
    BY <1>2
  <2> QED
    BY <1>2, <1>3, <2>1 DEF WorkerLeaves, Known
<1>5. ASSUME ~excused', NEW d \in Documents, text[d] # NoText, job.text = now, job.model = model,
             WillReach(w, d)
      PROVE  Exact(d, text[d])' \/ WillReach(w, d)'
  <2>1. <<d, text[d]>> \in call[w].docs /\ ~other
    BY <1>2, <1>5 DEF WillReach
  <2>2. CASE Exact(d, text[d])
    BY <1>3, <1>5, <2>2
  <2>3. CASE ~Exact(d, text[d])
    <3>1. <<d, text[d]>> \in pending
      BY <2>1, <2>3
    <3>2. at = "budget" /\ call'[w].at = at /\ call'[w].docs = pending /\ text' = text
      BY <1>1, <1>2, <1>5, <2>1, <3>1 DEF Moved, textVars
    <3> QED
      BY <3>1, <3>2 DEF WillReach
  <2> QED
    BY <2>2, <2>3
<1>6. /\ at # "idle" /\ at # "embed"
      /\ \A doc \in pending : IsReading(doc, Root(w))
  BY DEF CallsAreSound
<1>7. Root(w) = job.root
  BY DEF Root
<1> HIDE DEF at, pending
<1> QED
  BY <1>1, <1>2, <1>4, <1>5, <1>6, OneWorkerKeeps

LEMMA VectorsBudget ==
  ASSUME NEW w \in Workers PROVE IndexInv /\ Budget(w) => IndexInv'
<1> SUFFICES ASSUME IndexInv, Budget(w) PROVE IndexInv'
  OBVIOUS
<1> USE DEF IndexInv
<1>1. PICK at \in {"batch", "done"} :
        /\ Moves(w, at)
        /\ UNCHANGED <<about, textVars, model, hidden, vectors, jobs, ended>>
        /\ call[w].at = "budget"
        /\ \/ at = "batch" /\ excused' = excused
           \/ at = "done" /\ excused' = TRUE
  BY DEF Budget, Busy
<1>2. Moved(w, at, call[w].job, call[w].docs, call[w].batch, call[w].leased)
  BY <1>1, CallMoves DEF MovesOn
<1>3. WorkerLeaves
  <2>1. excused' \in BOOLEAN /\ (excused => excused')
    <3>1. excused' = excused \/ excused' = TRUE
      BY <1>1
    <3> QED
      BY <3>1 DEF IndexIsShaped
  <2> QED
    BY <1>1, <2>1 DEF WorkerLeaves, Known, Exact, textVars
<1>4. ASSUME ~excused', NEW d \in Documents, WillReach(w, d) PROVE WillReach(w, d)'
  BY <1>1, <1>2, <1>4 DEF WillReach, Moved, textVars
<1>5. \A doc \in call[w].docs : IsReading(doc, Root(w))
  BY DEF CallsAreSound
<1> QED
  BY <1>1, <1>2, <1>3, <1>4, <1>5, OneWorkerKeeps

LEMMA VectorsNextBatch ==
  ASSUME NEW w \in Workers PROVE IndexInv /\ NextBatch(w) => IndexInv'
<1> SUFFICES ASSUME IndexInv, NextBatch(w) PROVE IndexInv'
  OBVIOUS
<1> USE DEF IndexInv
<1> DEFINE stale == model # call[w].job.model \/ Generation(Root(w)) # call[w].job.text
<1>1. PICK doc \in call[w].docs :
        call' = [call EXCEPT ![w].docs = call[w].docs \ {doc}, ![w].batch = doc,
                             ![w].at = IF ~stale THEN "embed"
                                       ELSE IF call[w].docs \ {doc} = {} THEN "done" ELSE "batch"]
  BY DEF NextBatch
<1>2. /\ UNCHANGED <<about, textVars, model, hidden, vectors, jobs, ended, excused>>
      /\ call[w].at = "batch"
  BY DEF NextBatch, Busy
<1>3. PICK left : left = call[w].docs \ {doc}
  OBVIOUS
<1>4. PICK at : at = IF ~stale THEN "embed" ELSE IF left = {} THEN "done" ELSE "batch"
  OBVIOUS
<1>5. Moved(w, at, call[w].job, left, doc, call[w].leased)
  <2>1. MovesOn(w, at, left, doc)
    BY <1>1, <1>3, <1>4, CallMoves
  <2> QED
    BY <2>1 DEF MovesOn
<1>6. WorkerLeaves
  BY <1>2 DEF WorkerLeaves, Known, IndexIsShaped, Exact, textVars
<1>7. ASSUME NEW d \in Documents, call[w].job.text = Generation(Root(w)),
             call[w].job.model = model, WillReach(w, d)
      PROVE  WillReach(w, d)'
  <2>1. at = "embed" /\ <<d, text[d]>> \in call[w].docs /\ text' = text
    BY <1>2, <1>4, <1>7 DEF WillReach, textVars
  <2> QED
    BY <1>3, <1>5, <2>1 DEF WillReach, Moved
<1>8. /\ \A e \in left : IsReading(e, Root(w))
      /\ IsReading(doc, Root(w)) /\ at # "idle"
  BY <1>3, <1>4 DEF CallsAreSound
<1> QED
  BY <1>2, <1>5, <1>6, <1>7, <1>8, OneWorkerKeeps

LEMMA RootsAreDocuments ==
  ASSUME IndexInv, NEW w \in Workers, call[w].at # "idle"
  PROVE  Root(w) \in Roots /\ OfRoot(Root(w)) \subseteq Documents
<1>1. Root(w) \in Roots
  BY DEF IndexInv, CallsAreSound, JobsAreForRoots, Root
<1> QED
  BY <1>1 DEF OfRoot, Roots, Concerned, Documents, IndexInv, IndexIsShaped

LEMMA VectorsStore ==
  ASSUME NEW w \in Workers PROVE IndexInv /\ StoreVectors(w) => IndexInv'
<1> SUFFICES ASSUME IndexInv, StoreVectors(w) PROVE IndexInv'
  OBVIOUS
<1> USE DEF IndexInv
<1>1. /\ UNCHANGED <<about, textVars, model, hidden, jobs, ended, excused>>
      /\ call[w].at = "embed" /\ Moves(w, After(w))
  BY DEF StoreVectors, Busy
<1>2. PICK d, t : /\ d = call[w].batch[1] /\ t = call[w].batch[2] /\ call[w].batch = <<d, t>>
                  /\ d \in OfRoot(Root(w)) /\ d \in Documents /\ t \in Texts
  BY <1>1, RootsAreDocuments DEF CallsAreSound, IsReading
<1>3. PICK outdated : outdated = {v \in vectors : v.of = d /\ v.text # text[d]}
  OBVIOUS
<1>4. \/ model # call[w].job.model /\ vectors' = vectors
      \/ Generation(Root(w)) # call[w].job.text /\ vectors' = vectors \ outdated
      \/ text[d] # t /\ vectors' = (vectors \ outdated) \ Orphans(Root(w))
      \/ /\ text[d] = t
         /\ vectors' = ({v \in vectors : v.of # d} \cup {Vector(d, t, model)}) \ Orphans(Root(w))
  BY <1>2, <1>3 DEF StoreVectors
<1>5. ASSUME NEW e \in Documents, text[e] # NoText, Exact(e, text[e]) PROVE Exact(e, text[e])'
  <2>1. PICK v : v = Vector(e, text[e], model)
    OBVIOUS
  <2>2. /\ v \in vectors /\ v.of = e /\ v.text = text[e] /\ v \notin outdated
        /\ v \notin Orphans(Root(w))
    BY <1>3, <1>5, <2>1 DEF Exact, Vector, Orphans, Present
  <2>3. v \in vectors'
    BY <1>2, <1>4, <2>1, <2>2
  <2> QED
    BY <1>1, <2>1, <2>3 DEF Exact, textVars
<1>6. text[d] = t => text[d] # NoText
  BY <1>2, TextsAssumption
<1>7. ASSUME NEW v \in vectors', v \notin vectors PROVE v.of \in Concerned /\ v.text # NoText /\ Current(v)
  <2>1. v = Vector(d, t, model) /\ text[d] = t
    BY <1>4, <1>7
  <2> QED
    BY <1>2, <1>6, <2>1 DEF Vector, Current, ThingsAreConcerned
<1>8. WorkerLeaves
  BY <1>1, <1>5, <1>7 DEF WorkerLeaves, Known, IndexIsShaped
<1>9. PICK at : at = IF call[w].docs = {} THEN "done" ELSE "batch"
  OBVIOUS
<1>10. Moved(w, at, call[w].job, call[w].docs, call[w].batch, call[w].leased)
  BY <1>1, <1>9, CallMoves DEF MovesOn, After
<1>11. ASSUME NEW e \in Documents, text[e] # NoText, call[w].job.text = Generation(Root(w)),
              call[w].job.model = model, WillReach(w, e)
       PROVE  Exact(e, text[e])' \/ WillReach(w, e)'
  <2>1. CASE <<e, text[e]>> \in call[w].docs
    BY <1>1, <1>9, <1>10, <2>1 DEF WillReach, Moved, textVars
  <2>2. CASE call[w].batch = <<e, text[e]>> /\ ~Exact(e, text[e])
    <3>1. e = d /\ text[e] = t
      BY <1>2, <2>2
    <3>2. Vector(d, t, model) \notin Orphans(Root(w))
      BY <1>6, <3>1 DEF Vector, Orphans, Present
    <3>3. vectors' = ({v \in vectors : v.of # d} \cup {Vector(d, t, model)}) \ Orphans(Root(w))
      BY <1>2, <1>11, <3>1 DEF StoreVectors
    <3>4. Vector(d, t, model) \in vectors'
      BY <3>2, <3>3
    <3> QED
      BY <1>1, <3>1, <3>4 DEF Exact, textVars
  <2> QED
    BY <1>1, <1>5, <1>11, <2>1, <2>2 DEF WillReach
<1>12. /\ \A e \in call[w].docs : IsReading(e, Root(w))
       /\ at # "idle" /\ at # "embed"
  BY <1>9 DEF CallsAreSound
<1> QED
  BY <1>1, <1>8, <1>10, <1>11, <1>12, OneWorkerKeeps

\* A worker lets go of its job: it has come to the end of it, or somebody is to blame.
LEMMA VectorsRest ==
  ASSUME IndexInv, NEW w \in Workers, call[w].at # "idle",
         call' = [call EXCEPT ![w] = Idle],
         UNCHANGED <<about, textVars, model, vectors, hidden>>,
         jobs' \cup ended' = Known, excused' \in BOOLEAN, excused => excused',
         \/ jobs' = jobs
         \/ /\ call[w].leased /\ jobs' = jobs \ {call[w].job}
            /\ excused' \/ call[w].at = "done"
  PROVE  IndexInv'
<1> USE DEF IndexInv
<1>1. WorkerLeaves
  BY DEF WorkerLeaves, Exact, textVars
<1>2. /\ call' = [v \in Workers |-> call'[v]] /\ call'[w] = Idle
      /\ \A v \in Workers \ {w} : call'[v] = call[v]
  BY DEF IndexIsShaped
<1>3. \A v \in Workers : call'[v] = [f \in {"at", "job", "docs", "batch", "leased"} |-> call'[v][f]]
  BY <1>2 DEF IndexIsShaped, Idle
<1>4. Known' = Known /\ text' = text /\ model' = model
  BY DEF Known, textVars
<1>5. CallsAreSound'
  <2> SUFFICES ASSUME NEW v \in Workers
               PROVE  /\ call'[v].leased \in BOOLEAN
                      /\ call'[v].leased => call'[v].at # "idle"
                      /\ call'[v].at # "idle" => call'[v].job \in Known
                      /\ \A doc \in call'[v].docs : IsReading(doc, Root(v)')
                      /\ call'[v].at = "embed" => IsReading(call'[v].batch, Root(v)')
    BY <1>4 DEF CallsAreSound, IsReading, OfRoot
  <2>1. CASE v = w
    BY <1>2, <2>1 DEF Idle
  <2>2. CASE v # w
    BY <1>2, <2>2 DEF CallsAreSound, Root
  <2> QED
    BY <2>1, <2>2
<1>6. ASSUME ~excused', NEW d \in Documents, WillEmbed(d) PROVE WillEmbed(d)'
  <2>1. PICK j \in jobs :
          /\ d \in OfRoot(j.root) /\ j.text = Generation(j.root) /\ j.model = model
          /\ \A v \in Workers : call[v].leased /\ call[v].job = j => WillReach(v, d)
    BY <1>6 DEF WillEmbed
  <2>2. ~(call[w].leased /\ call[w].job = j /\ call[w].at = "done")
    BY <2>1 DEF WillReach
  <2>3. j \in jobs'
    BY <1>6, <2>1, <2>2
  <2>4. \A v \in Workers : call'[v].leased /\ call'[v].job = j => WillReach(v, d)'
    <3>1. ~call'[w].leased
      BY <1>2 DEF Idle
    <3>2. \A v \in Workers \ {w} : call'[v].leased /\ call'[v].job = j => WillReach(v, d)'
      BY <1>2, <1>4, <2>1 DEF WillReach
    <3> QED
      BY <3>1, <3>2
  <2>5. Generation(j.root)' = Generation(j.root)
    BY <1>4 DEF Generation, Present
  <2> QED
    BY <1>4, <2>1, <2>3, <2>4, <2>5 DEF WillEmbed, OfRoot
<1> QED
  BY <1>1, <1>2, <1>3, <1>5, <1>6, WorkersKeep

LEMMA VectorsFinish ==
  ASSUME NEW w \in Workers PROVE IndexInv /\ (RequestFails(w) \/ Finish(w)) => IndexInv'
<1> SUFFICES ASSUME IndexInv, RequestFails(w) \/ Finish(w) PROVE IndexInv'
  OBVIOUS
<1>1. /\ UNCHANGED <<about, textVars, model, vectors, hidden>>
      /\ call' = [call EXCEPT ![w] = Idle] /\ call[w].at \in {"embed", "done"}
  BY DEF RequestFails, Finish, Busy
<1>2. \/ jobs' = jobs /\ ended' = ended
      \/ /\ call[w].leased /\ jobs' = jobs \ {call[w].job} /\ ended' = ended \cup {call[w].job}
         /\ excused' \/ call[w].at = "done"
  BY DEF RequestFails, Finish, Busy
<1>3. excused' = excused \/ excused' = TRUE
  BY DEF RequestFails, Finish
<1>4. call[w].job \in Known /\ excused \in BOOLEAN
  BY <1>1 DEF IndexInv, CallsAreSound, IndexIsShaped
<1>5. jobs' \cup ended' = Known
  BY <1>2, <1>4 DEF Known
<1>6. excused' \in BOOLEAN /\ (excused => excused')
  BY <1>3, <1>4
<1>7. jobs' = jobs \/ /\ call[w].leased /\ jobs' = jobs \ {call[w].job}
                      /\ excused' \/ call[w].at = "done"
  BY <1>2
<1> QED
  BY <1>1, <1>5, <1>6, <1>7, VectorsRest

LEMMA VectorsTake ==
  ASSUME NEW w \in Workers PROVE IndexInv /\ Take(w) => IndexInv'
<1> SUFFICES ASSUME IndexInv, Take(w) PROVE IndexInv'
  OBVIOUS
<1> USE DEF IndexInv
<1>1. PICK j \in jobs :
        call' = [v \in Workers |->
          IF v = w THEN [Idle EXCEPT !.at = "read", !.job = j, !.leased = TRUE]
          ELSE IF v \in {u \in Workers : call[u].leased /\ call[u].job = j}
            THEN [call[v] EXCEPT !.leased = FALSE] ELSE call[v]]
  BY DEF Take
<1>2. UNCHANGED <<about, textVars, model, vectors, jobs, ended, hidden, excused>>
  BY DEF Take
<1>3. /\ call' = [v \in Workers |-> call'[v]]
      /\ call'[w] = [at |-> "read", job |-> j, docs |-> {}, batch |-> <<>>, leased |-> TRUE]
  BY <1>1 DEF Idle
<1>4. ASSUME NEW v \in Workers, v # w
      PROVE  /\ call'[v] = [f \in {"at", "job", "docs", "batch", "leased"} |-> call'[v][f]]
             /\ call'[v].at = call[v].at /\ call'[v].job = call[v].job
             /\ call'[v].docs = call[v].docs /\ call'[v].batch = call[v].batch
             /\ call'[v].leased \in BOOLEAN /\ (call'[v].leased => call[v].leased)
  <2>1. /\ call[v] = [f \in {"at", "job", "docs", "batch", "leased"} |-> call[v][f]]
        /\ call[v].leased \in BOOLEAN
    BY DEF IndexIsShaped, CallsAreSound
  <2>2. call'[v] = [call[v] EXCEPT !.leased = FALSE] \/ call'[v] = call[v]
    BY <1>1, <1>4
  <2>3. CASE call'[v] = [call[v] EXCEPT !.leased = FALSE]
    BY <2>1, <2>3
  <2>4. CASE call'[v] = call[v]
    BY <2>1, <2>4
  <2> QED
    BY <2>2, <2>3, <2>4
<1>5. WorkerLeaves
  BY <1>2 DEF WorkerLeaves, Known, IndexIsShaped, Exact, textVars
<1>6. \A v \in Workers : call'[v] = [f \in {"at", "job", "docs", "batch", "leased"} |-> call'[v][f]]
  BY <1>3, <1>4
<1>7. CallsAreSound'
  <2>1. Known' = Known /\ text' = text /\ model' = model /\ jobs \subseteq Known
    BY <1>2 DEF Known, textVars
  <2> SUFFICES ASSUME NEW v \in Workers
               PROVE  /\ call'[v].leased \in BOOLEAN
                      /\ call'[v].leased => call'[v].at # "idle"
                      /\ call'[v].at # "idle" => call'[v].job \in Known
                      /\ \A doc \in call'[v].docs : IsReading(doc, Root(v)')
                      /\ call'[v].at = "embed" => IsReading(call'[v].batch, Root(v)')
    BY <2>1 DEF CallsAreSound, IsReading, OfRoot
  <2>2. CASE v = w
    <3>1. /\ call'[v].at = "read" /\ call'[v].job = j /\ call'[v].docs = {}
          /\ call'[v].leased = TRUE
      BY <1>3, <2>2
    <3> QED
      BY <2>1, <3>1
  <2>3. CASE v # w
    BY <1>4, <2>3 DEF CallsAreSound, Root
  <2> QED
    BY <2>2, <2>3
<1>8. ASSUME NEW d \in Documents, WillEmbed(d) PROVE WillEmbed(d)'
  <2>1. PICK k \in jobs :
          /\ d \in OfRoot(k.root) /\ k.text = Generation(k.root) /\ k.model = model
          /\ \A v \in Workers : call[v].leased /\ call[v].job = k => WillReach(v, d)
    BY <1>8 DEF WillEmbed
  <2>2. WillReach(w, d)'
    BY <1>3 DEF WillReach
  <2>3. \A v \in Workers \ {w} : call'[v].leased /\ call'[v].job = k => WillReach(v, d)'
    BY <1>2, <1>4, <2>1 DEF WillReach, textVars
  <2>4. Generation(k.root)' = Generation(k.root)
    BY <1>2 DEF Generation, Present, textVars
  <2>5. \A v \in Workers : call'[v].leased /\ call'[v].job = k => WillReach(v, d)'
    BY <2>2, <2>3
  <2> QED
    BY <1>2, <2>1, <2>4, <2>5 DEF WillEmbed, OfRoot
<1> QED
  BY <1>3, <1>5, <1>6, <1>7, <1>8, WorkersKeep

\* The texts change, and the workers do not move.
LEMMA CallsKeep ==
  ASSUME IndexInv, call' = call, Known \subseteq Known'
  PROVE  CallsAreSound'
<1>1. \A w \in Workers : Root(w)' = Root(w)
  BY DEF Root
<1>2. \A doc, root : IsReading(doc, root) => doc = <<doc[1], doc[2]>> /\ doc[1] \in OfRoot(root)
                                            /\ doc[2] \in Texts
  BY DEF IsReading
<1> QED
  BY <1>1, <1>2 DEF IndexInv, CallsAreSound, IsReading, OfRoot

LEMMA NewlyQueued ==
  ASSUME IndexInv, call' = call, NEW j, j \in jobs', j \notin Known,
         NEW d, d \in OfRoot(j.root), j.text = Generation(j.root)', j.model = model'
  PROVE  WillEmbed(d)'
<1>1. \A w \in Workers : ~(call'[w].leased /\ call'[w].job = j)
  BY DEF IndexInv, CallsAreSound
<1> QED
  BY <1>1 DEF WillEmbed, OfRoot

LEMMA StillEmbedded ==
  ASSUME IndexInv, call' = call, jobs \subseteq jobs', model' = model,
         NEW d \in Documents, text'[d] = text[d], WillEmbed(d),
         about = "chunk" => text' = text
  PROVE  WillEmbed(d)'
<1>1. PICK j \in jobs :
        /\ d \in OfRoot(j.root) /\ j.text = Generation(j.root) /\ j.model = model
        /\ \A w \in Workers : call[w].leased /\ call[w].job = j => WillReach(w, d)
  BY DEF WillEmbed
<1>2. Generation(j.root)' = Generation(j.root)
  <2>1. CASE about = "chunk"
    BY <2>1 DEF Generation, Present
  <2>2. CASE about # "chunk"
    <3>1. j.root \in Concerned
      BY <2>2 DEF IndexInv, JobsAreForRoots, Roots, Known
    <3>2. j.root # WholeFile
      BY <2>2, <3>1 DEF IndexInv, IndexIsShaped, Concerned, WholeFile, Replies, PageText, ClaimText
    <3> QED
      BY <1>1, <3>2 DEF Generation, OfRoot
  <2> QED
    BY <2>1, <2>2
<1>3. \A w \in Workers : call'[w].leased /\ call'[w].job = j => WillReach(w, d)'
  BY <1>1 DEF WillReach
<1> QED
  BY <1>1, <1>2, <1>3 DEF WillEmbed, OfRoot

LEMMA SaidIsText == Said \in Texts /\ Said # NoText
BY TextsAssumption DEF Said

LEMMA ChosenSays ==
  ASSUME IndexInv, about = "event", NEW a \in Replies
  PROVE  /\ Chosen(a) \in [Documents -> Texts \cup {NoText}] /\ Chosen(a)[a] = Said
         /\ \A d \in Documents \ {a} : Chosen(a)[d] = NoText
<1> DEFINE b == CHOOSE c \in Replies : c # a
<1>1. b \in Replies /\ b # a
  <2>1. \E c \in Replies : c # a
    BY DEF Replies
  <2> QED
    BY <2>1
<1>2. Replies = {a, b} /\ Replies \subseteq Documents
  BY <1>1 DEF Replies, Documents
<1>3. Chosen(a) = [text EXCEPT ![a] = Said, ![b] = NoText]
  BY DEF Chosen
<1> HIDE DEF b
<1>4. \A d \in Documents : text[d] # NoText => d \in Replies
  BY DEF IndexInv, ThingsAreConcerned, Concerned, IndexIsShaped
<1> QED
  BY <1>1, <1>2, <1>3, <1>4, SaidIsText DEF IndexInv, IndexIsShaped

LEMMA VectorsAnswered ==
  ASSUME NEW a \in Replies PROVE IndexInv /\ Answered(a) => IndexInv'
<1> SUFFICES ASSUME IndexInv, Answered(a) PROVE IndexInv'
  OBVIOUS
<1> USE DEF IndexInv
<1>1. /\ about = "event" /\ a \notin given /\ edit' = edit + 1
      /\ text' = Chosen(a) /\ given' = given \cup {a} /\ compiling' = compiling \cup {a}
      /\ vectors' = {v \in vectors : v.of \notin given}
      /\ about' = about /\ extracted' = extracted /\ model' = model /\ jobs' = jobs
      /\ ended' = ended /\ call' = call /\ hidden' = hidden /\ excused' = excused
  BY DEF Answered, Edits
<1>2. /\ text' \in [Documents -> Texts \cup {NoText}] /\ text'[a] = Said
      /\ \A d \in Documents \ {a} : text'[d] = NoText
  BY <1>1, ChosenSays
<1>3. Concerned = given /\ Concerned' = given' /\ Roots = given /\ Roots' = given'
  BY <1>1 DEF Concerned, Roots
<1>4. vectors' = {}
  BY <1>1, <1>3 DEF ThingsAreConcerned
<1>5. Known' = Known
  BY <1>1 DEF Known
<1>6. IndexIsShaped'
  BY <1>1, <1>2 DEF IndexIsShaped
<1>7. ThingsAreConcerned'
  BY <1>1, <1>2, <1>3, <1>4 DEF ThingsAreConcerned, Said
<1>8. JobsAreForRoots'
  BY <1>1, <1>3, <1>5 DEF JobsAreForRoots
<1>9. VectorsAreCurrent'
  BY <1>4 DEF VectorsAreCurrent
<1>10. TextsAreFound'
  <2>1. Job(a, text[a], 0)' \notin Known
    <3>1. Job(a, text[a], 0)'.root = a
      BY DEF Job
    <3> QED
      BY <1>1, <1>3, <3>1 DEF JobsAreForRoots
  <2>2. WillQueue(a)'
    BY <1>1, <1>5, <2>1 DEF WillQueue, Job
  <2> QED
    BY <1>2, <2>2 DEF TextsAreFound
<1> QED
  BY <1>1, <1>5, <1>6, <1>7, <1>8, <1>9, <1>10, CallsKeep

LEMMA VectorsCompiled ==
  ASSUME NEW a \in Replies PROVE IndexInv /\ Compiled(a) => IndexInv'
<1> SUFFICES ASSUME IndexInv, Compiled(a) PROVE IndexInv'
  OBVIOUS
<1> USE DEF IndexInv
<1>0. PICK J : J = Job(a, text[a], 0)
  OBVIOUS
<1>1. /\ a \in compiling /\ compiling' = compiling \ {a}
      /\ jobs' = jobs \cup ((IF text[a] = NoText THEN {} ELSE {J}) \ ended)
      /\ about' = about /\ text' = text /\ edit' = edit /\ given' = given
      /\ extracted' = extracted /\ model' = model /\ vectors' = vectors
      /\ ended' = ended /\ call' = call /\ hidden' = hidden /\ excused' = excused
  BY <1>0 DEF Compiled, Queued
<1>2. about = "event" /\ ~extracted /\ a \in given
  BY <1>1 DEF IndexIsShaped
<1>3. Concerned' = Concerned /\ Roots' = Roots /\ Roots = given
  BY <1>1, <1>2 DEF Concerned, Roots
<1>4. /\ J.root = a /\ J.text = text[a] /\ J.model = model
      /\ Known \subseteq Known' /\ \A j \in Known' : j \in Known \/ (text[a] # NoText /\ j = J)
  BY <1>0, <1>1 DEF Job, Known
<1>5. IndexIsShaped'
  BY <1>1 DEF IndexIsShaped
<1>6. ThingsAreConcerned' /\ VectorsAreCurrent'
  BY <1>1, <1>3 DEF ThingsAreConcerned, VectorsAreCurrent, Current, Said
<1>7. JobsAreForRoots'
  BY <1>1, <1>2, <1>3, <1>4 DEF JobsAreForRoots
<1>8. TextsAreFound'
  <2> SUFFICES ASSUME ~excused, NEW d \in Documents, text[d] # NoText
               PROVE  Exact(d, text[d])' \/ WillEmbed(d)' \/ WillQueue(d)'
    BY <1>1 DEF TextsAreFound
  <2>1. CASE Exact(d, text[d])
    BY <1>1, <2>1 DEF Exact
  <2>2. CASE WillEmbed(d)
    BY <1>1, <2>2, StillEmbedded
  <2>3. CASE WillQueue(d) /\ d = a
    <3>1. J \in jobs' /\ J \notin Known
      BY <1>0, <1>1, <1>2, <2>3 DEF WillQueue, Known
    <3>2. a # WholeFile
      BY DEF Replies, WholeFile
    <3>3. d \in OfRoot(J.root) /\ J.text = Generation(J.root)' /\ J.model = model'
      BY <1>1, <1>4, <2>3, <3>2 DEF OfRoot, Generation
    <3> QED
      BY <1>1, <3>1, <3>3, NewlyQueued
  <2>4. CASE WillQueue(d) /\ d # a
    <3>1. Job(d, text[d], 0) \notin Known /\ Job(d, text[d], 0).root = d /\ d \in compiling
      BY <1>2, <2>4 DEF WillQueue, Job
    <3>2. Job(d, text[d], 0) \notin Known'
      BY <1>4, <2>4, <3>1
    <3> QED
      BY <1>1, <2>4, <3>1, <3>2 DEF WillQueue, Job
  <2> QED
    BY <2>1, <2>2, <2>3, <2>4 DEF TextsAreFound
<1> QED
  BY <1>1, <1>4, <1>5, <1>6, <1>7, <1>8, CallsKeep

LEMMA VectorsActivated ==
  ASSUME NEW a \in Replies PROVE IndexInv /\ Activated(a) => IndexInv'
<1> SUFFICES ASSUME IndexInv, Activated(a) PROVE IndexInv'
  OBVIOUS
<1> USE DEF IndexInv
<1>0. PICK J : J = Job(a, Said, 0)
  OBVIOUS
<1>1. /\ about = "event" /\ a \in given /\ text[a] = NoText /\ edit' = edit + 1
      /\ text' = Chosen(a) /\ compiling' \subseteq compiling
      /\ vectors' = {v \in vectors : v.of \notin Replies \ {a}}
      /\ jobs' = jobs \cup ({J} \ ended)
      /\ about' = about /\ given' = given /\ extracted' = extracted /\ model' = model
      /\ ended' = ended /\ call' = call /\ hidden' = hidden
  BY <1>0 DEF Activated, Edits, Queued
<1>2. excused' \in BOOLEAN /\ (~excused' => J \notin Known)
  BY <1>0 DEF Activated, Known
<1>3. /\ text' \in [Documents -> Texts \cup {NoText}] /\ text'[a] = Said
      /\ \A d \in Documents \ {a} : text'[d] = NoText
  BY <1>1, ChosenSays
<1>4. Concerned = given /\ Concerned' = given /\ Roots = given /\ Roots' = given
  BY <1>1 DEF Concerned, Roots
<1>5. vectors' = {}
  <2> SUFFICES ASSUME NEW v \in vectors' PROVE FALSE
    OBVIOUS
  <2>1. v \in vectors /\ v.of = a
    BY <1>1, <1>4 DEF ThingsAreConcerned, IndexIsShaped
  <2> QED
    BY <1>1, <2>1 DEF ThingsAreConcerned, VectorsAreCurrent, Current, IndexIsShaped
<1>6. /\ J.root = a /\ J.text = Said /\ J.model = model
      /\ Known \subseteq Known' /\ \A j \in Known' : j \in Known \/ j = J
  BY <1>0, <1>1 DEF Job, Known
<1>7. IndexIsShaped'
  BY <1>1, <1>2, <1>3 DEF IndexIsShaped
<1>8. ThingsAreConcerned' /\ VectorsAreCurrent'
  BY <1>1, <1>3, <1>4, <1>5 DEF ThingsAreConcerned, VectorsAreCurrent, Said
<1>9. JobsAreForRoots'
  BY <1>1, <1>4, <1>6, SaidIsText DEF JobsAreForRoots
<1>10. TextsAreFound'
  <2> SUFFICES ASSUME ~excused' PROVE WillEmbed(a)'
    BY <1>3 DEF TextsAreFound
  <2>1. J \in jobs' /\ J \notin Known
    BY <1>1, <1>2 DEF Known
  <2>2. a # WholeFile
    BY DEF Replies, WholeFile
  <2>3. a \in OfRoot(J.root) /\ J.text = Generation(J.root)' /\ J.model = model'
    BY <1>1, <1>3, <1>6, <2>2 DEF OfRoot, Generation
  <2> QED
    BY <1>1, <2>1, <2>3, NewlyQueued
<1> QED
  BY <1>1, <1>6, <1>7, <1>8, <1>9, <1>10, CallsKeep

LEMMA VectorsExcluded ==
  ASSUME NEW a \in Replies PROVE IndexInv /\ Excluded(a) => IndexInv'
<1> SUFFICES ASSUME IndexInv, Excluded(a) PROVE IndexInv'
  OBVIOUS
<1> USE DEF IndexInv
<1>1. /\ about = "event" /\ text' = [text EXCEPT ![a] = NoText]
      /\ vectors' = {v \in vectors : v.of # a}
      /\ about' = about /\ edit' = edit /\ given' = given /\ compiling' = compiling
      /\ extracted' = extracted /\ model' = model /\ jobs' = jobs
      /\ ended' = ended /\ call' = call /\ hidden' = hidden /\ excused' = excused
  BY DEF Excluded
<1>2. /\ text' \in [Documents -> Texts \cup {NoText}] /\ text'[a] = NoText
      /\ \A d \in Documents \ {a} : text'[d] = text[d]
  BY <1>1 DEF IndexIsShaped, Documents
<1>3. Concerned' = Concerned /\ Roots' = Roots /\ Known' = Known /\ Concerned \subseteq Documents
  BY <1>1 DEF Concerned, Roots, Known, IndexIsShaped, Documents
<1>4. IndexIsShaped'
  BY <1>1, <1>2 DEF IndexIsShaped
<1>5. ThingsAreConcerned' /\ VectorsAreCurrent'
  BY <1>1, <1>2, <1>3 DEF ThingsAreConcerned, VectorsAreCurrent, Current, Said
<1>6. JobsAreForRoots'
  BY <1>1, <1>3 DEF JobsAreForRoots
<1>7. TextsAreFound'
  <2> SUFFICES ASSUME ~excused, NEW d \in Documents, text'[d] # NoText
               PROVE  Exact(d, text[d])' \/ WillEmbed(d)' \/ WillQueue(d)'
    BY <1>1 DEF TextsAreFound
  <2>1. d # a /\ text'[d] = text[d]
    BY <1>2
  <2>2. CASE Exact(d, text[d])
    BY <1>1, <2>1, <2>2 DEF Exact, Vector
  <2>3. CASE WillEmbed(d)
    BY <1>1, <2>1, <2>3, StillEmbedded
  <2>4. CASE WillQueue(d)
    BY <1>1, <1>3, <2>1, <2>4 DEF WillQueue, Job
  <2> QED
    BY <2>1, <2>2, <2>3, <2>4 DEF TextsAreFound
<1> QED
  BY <1>1, <1>3, <1>4, <1>5, <1>6, <1>7, CallsKeep

\* The text of a page or of a claim is replaced, with its vector and its job.
LEMMA VectorsReplaced ==
  ASSUME IndexInv, NEW doc, NEW t \in Texts \cup {NoText}, Edits, Replaced(doc, t),
         \/ about = "topic" /\ doc = PageText /\ hidden' = hidden
         \/ about = "claim" /\ doc = ClaimText /\ hidden' = FALSE,
         text' = [text EXCEPT ![doc] = t],
         UNCHANGED <<about, given, compiling, extracted, model, ended, call, excused>>
  PROVE  IndexInv'
<1> USE DEF IndexInv
<1>0. PICK J : J = Job(doc, t, edit + 1)
  OBVIOUS
<1>a. PICK new : new = IF t = NoText \/ Exact(doc, t) THEN {} ELSE {J}
  OBVIOUS
<1>1. /\ edit' = edit + 1 /\ edit \in Nat /\ KeyNumber(doc) = edit + 1 /\ doc \in Documents
      /\ vectors' = {v \in vectors : v.of = doc => v.text = t /\ v.model = model}
      /\ jobs' = jobs \cup (new \ ended)
      /\ about' = about /\ given' = given /\ compiling' = compiling /\ extracted' = extracted
      /\ model' = model /\ ended' = ended /\ call' = call /\ excused' = excused
  <2>1. KeyNumber(doc) = edit + 1 /\ doc \in Documents
    BY DEF KeyNumber, Documents
  <2> QED
    BY <1>0, <1>a, <2>1 DEF Edits, Replaced, Queued, IndexIsShaped
<1>2. /\ text' \in [Documents -> Texts \cup {NoText}] /\ text'[doc] = t
      /\ \A d \in Documents \ {doc} : text'[d] = text[d]
  BY <1>1 DEF IndexIsShaped
<1>3. Concerned = {doc} /\ Concerned' = {doc} /\ Roots = {doc} /\ Roots' = {doc} /\ given = {}
  BY <1>1 DEF Concerned, Roots, IndexIsShaped
<1>4. \A d \in Documents \ {doc} : text'[d] = NoText
  BY <1>2, <1>3 DEF ThingsAreConcerned
<1>5. \A j \in Known : j.nth \in Nat /\ j.nth <= edit
  BY DEF JobsAreForRoots
<1>6. J.root = doc /\ J.text = t /\ J.model = model /\ J.nth = edit + 1 /\ J \notin Known
  <2>1. J.root = doc /\ J.text = t /\ J.model = model /\ J.nth = edit + 1
    BY <1>0 DEF Job
  <2> QED
    BY <1>1, <1>5, <2>1
<1>7. Known \subseteq Known' /\ \A j \in Known' : j \in Known \/ (j = J /\ t # NoText)
  BY <1>1, <1>a DEF Known
<1>8. t # NoText /\ ~Exact(doc, t) => J \in jobs'
  BY <1>1, <1>6, <1>a DEF Known
<1>9. IndexIsShaped'
  <2>1. hidden' \in BOOLEAN /\ ~hidden'
    <3>1. CASE hidden' = FALSE
      BY <3>1
    <3>2. CASE about = "topic" /\ hidden' = hidden
      <4>1. hidden \in BOOLEAN /\ ~hidden
        BY <3>2 DEF IndexIsShaped
      <4> QED
        BY <3>2, <4>1
    <3> QED
      BY <3>1, <3>2
  <2> QED
    BY <1>1, <1>2, <1>3, <2>1 DEF IndexIsShaped
<1>10. ThingsAreConcerned' /\ VectorsAreCurrent'
  <2>1. \A v \in vectors' : v \in vectors /\ v.of = doc /\ v.text = t /\ v.model = model
    BY <1>1, <1>3 DEF ThingsAreConcerned
  <2>2. about' # "event"
    BY <1>1
  <2> QED
    BY <1>1, <1>2, <1>3, <1>4, <2>1, <2>2 DEF ThingsAreConcerned, VectorsAreCurrent, Current
<1>11. JobsAreForRoots'
  <2> SUFFICES ASSUME NEW j \in Known'
               PROVE  j.root = doc /\ j.text # NoText /\ j.nth \in Nat /\ j.nth <= edit + 1
    BY <1>1, <1>3 DEF JobsAreForRoots
  <2>1. CASE j \in Known
    BY <1>1, <1>3, <1>5, <2>1 DEF JobsAreForRoots
  <2>2. CASE j = J /\ t # NoText
    BY <1>1, <1>6, <2>2
  <2> QED
    BY <1>7, <2>1, <2>2
<1>12. TextsAreFound'
  <2> SUFFICES ASSUME t # NoText PROVE Exact(doc, t)' \/ WillEmbed(doc)'
    BY <1>2, <1>4 DEF TextsAreFound
  <2>1. CASE Exact(doc, t)
    BY <1>1, <2>1 DEF Exact, Vector
  <2>2. CASE ~Exact(doc, t)
    <3>1. doc # WholeFile
      BY DEF PageText, ClaimText, WholeFile
    <3>2. doc \in OfRoot(J.root) /\ J.text = Generation(J.root)' /\ J.model = model'
      BY <1>1, <1>2, <1>6, <3>1 DEF OfRoot, Generation
    <3> QED
      BY <1>1, <1>6, <1>8, <2>2, <3>2, NewlyQueued
  <2> QED
    BY <2>1, <2>2
<1> QED
  BY <1>1, <1>7, <1>9, <1>10, <1>11, <1>12, CallsKeep

LEMMA VectorsOfClaims ==
  ASSUME NEW t \in Texts \cup {NoText}
  PROVE  IndexInv /\ (Revised(t) \/ ClaimChanged(t)) => IndexInv'
<1>1. ASSUME IndexInv, Revised(t) PROVE IndexInv'
  BY <1>1, VectorsReplaced DEF Revised
<1>2. ASSUME IndexInv, ClaimChanged(t) PROVE IndexInv'
  BY <1>2, VectorsReplaced DEF ClaimChanged
<1> QED
  BY <1>1, <1>2

LEMMA VectorsHidden == IndexInv /\ ClaimHidden => IndexInv'
<1> SUFFICES ASSUME IndexInv, ClaimHidden PROVE IndexInv'
  OBVIOUS
<1> USE DEF IndexInv
<1>1. /\ about = "claim" /\ edit' = edit + 1 /\ text' = [text EXCEPT ![ClaimText] = NoText]
      /\ hidden' = TRUE
      /\ about' = about /\ given' = given /\ compiling' = compiling /\ extracted' = extracted
      /\ model' = model /\ vectors' = vectors /\ jobs' = jobs /\ ended' = ended
      /\ call' = call /\ excused' = excused
  BY DEF ClaimHidden, Edits
<1>2. Concerned = {ClaimText} /\ Concerned' = {ClaimText} /\ Roots' = Roots /\ Known' = Known
  BY <1>1 DEF Concerned, Roots, Known
<1>3. /\ text' \in [Documents -> Texts \cup {NoText}]
      /\ \A d \in Documents : text'[d] = NoText
  BY <1>1, <1>2 DEF IndexIsShaped, ThingsAreConcerned
<1>4. ClaimText \in Documents /\ edit' \in Nat
  BY <1>1 DEF Documents, IndexIsShaped
<1>5. IndexIsShaped'
  BY <1>1, <1>3, <1>4 DEF IndexIsShaped
<1>6. ThingsAreConcerned' /\ VectorsAreCurrent' /\ TextsAreFound'
  BY <1>1, <1>2, <1>3 DEF ThingsAreConcerned, VectorsAreCurrent, TextsAreFound
<1>7. JobsAreForRoots'
  BY <1>1, <1>2 DEF JobsAreForRoots, IndexIsShaped
<1> QED
  BY <1>1, <1>2, <1>5, <1>6, <1>7, CallsKeep

\* The chunks of a file: what their readings, jobs and deletion leave as it is.
ChunksKeep ==
  /\ about = "chunk" /\ model' = model /\ call' = call /\ hidden' = hidden
  /\ about' = about /\ given' = given /\ compiling' = compiling
  /\ edit' \in {edit, edit + 1} /\ extracted' \in BOOLEAN /\ excused' \in BOOLEAN
  /\ text' \in [Documents -> Texts \cup {NoText}]
  /\ \A d \in Documents : text'[d] # NoText => d \in Chunks
  /\ \A v \in vectors' : v \in vectors /\ text' = text
  /\ Known \subseteq Known'
  /\ \A j \in Known' : j \in Known \/ j = Job(WholeFile, Bytes, 0)

LEMMA VectorsOfChunks ==
  ASSUME IndexInv, ChunksKeep, TextsAreFound' PROVE IndexInv'
<1> USE DEF IndexInv
<1>1. Concerned = Chunks /\ Concerned' = Chunks /\ Roots = {WholeFile} /\ Roots' = {WholeFile}
  BY DEF ChunksKeep, Concerned, Roots
<1>2. hidden \in BOOLEAN /\ ~hidden
  BY DEF ChunksKeep, IndexIsShaped
<1>3. IndexIsShaped'
  BY <1>2 DEF IndexIsShaped, ChunksKeep
<1>4. ThingsAreConcerned' /\ VectorsAreCurrent'
  BY <1>1, <1>2 DEF ThingsAreConcerned, VectorsAreCurrent, Current, ChunksKeep
<1>5. JobsAreForRoots'
  BY <1>1, TextsAssumption DEF JobsAreForRoots, ChunksKeep, Job
<1> QED
  BY <1>3, <1>4, <1>5, CallsKeep DEF ChunksKeep

LEMMA VectorsExtracted ==
  ASSUME NEW t \in Texts PROVE IndexInv /\ Extracted(t) => IndexInv'
<1> SUFFICES ASSUME IndexInv, Extracted(t) PROVE IndexInv'
  OBVIOUS
<1> USE DEF IndexInv
<1>0. PICK J : J = Job(WholeFile, Bytes, 0)
  OBVIOUS
<1>1. /\ about = "chunk" /\ edit' = edit + 1 /\ ~extracted /\ extracted' = TRUE
      /\ about' = about /\ given' = given /\ compiling' = compiling /\ model' = model
      /\ jobs' = jobs /\ ended' = ended /\ call' = call /\ hidden' = hidden
  BY DEF Extracted, Edits
<1>2. compiling = {} /\ Known' = Known
  BY <1>1 DEF IndexIsShaped, Known
<1>3. \/ text' = text /\ vectors' = vectors /\ (excused' <=> excused) /\ excused' \in BOOLEAN
      \/ /\ text' = [d \in Documents |-> IF d = Chunk(edit + 1, 0) THEN Said
                                         ELSE IF d = Chunk(edit + 1, 1) THEN t
                                         ELSE IF d \in Chunks THEN NoText ELSE text[d]]
         /\ vectors' = {} /\ excused' \in BOOLEAN /\ (~excused' => J \notin Known)
         /\ edit < MaxEdits
  BY <1>0 DEF Extracted, Edits, Known
<1>4. CASE text' = text /\ vectors' = vectors /\ (excused' <=> excused) /\ excused' \in BOOLEAN
  <2>1. ChunksKeep
    BY <1>1, <1>2, <1>4 DEF ChunksKeep, IndexIsShaped, ThingsAreConcerned, Concerned
  <2>2. TextsAreFound'
    <3> SUFFICES ASSUME ~excused, NEW d \in Documents, text[d] # NoText
                 PROVE  Exact(d, text[d])' \/ WillEmbed(d)' \/ WillQueue(d)'
      BY <1>4 DEF TextsAreFound
    <3>1. ~WillQueue(d)
      BY <1>1, <1>2 DEF WillQueue
    <3>2. CASE Exact(d, text[d])
      BY <1>1, <1>4, <3>2 DEF Exact
    <3>3. CASE WillEmbed(d)
      BY <1>1, <1>4, <3>3, StillEmbedded
    <3> QED
      BY <3>1, <3>2, <3>3 DEF TextsAreFound
  <2> QED
    BY <2>1, <2>2, VectorsOfChunks
<1>5. CASE /\ text' = [d \in Documents |-> IF d = Chunk(edit + 1, 0) THEN Said
                                           ELSE IF d = Chunk(edit + 1, 1) THEN t
                                           ELSE IF d \in Chunks THEN NoText ELSE text[d]]
           /\ vectors' = {} /\ excused' \in BOOLEAN /\ (~excused' => J \notin Known)
           /\ edit < MaxEdits
  <2>1. Chunk(edit + 1, 0) \in Chunks /\ Chunk(edit + 1, 1) \in Chunks
    <3>1. edit + 1 \in 1..MaxEdits
      BY <1>5, IndexBoundsAssumption DEF IndexIsShaped
    <3> QED
      BY <3>1 DEF Chunks
  <2>2. /\ text' \in [Documents -> Texts \cup {NoText}]
        /\ \A d \in Documents : text'[d] # NoText => d \in Chunks
    BY <1>1, <1>5, <2>1, SaidIsText DEF IndexIsShaped, ThingsAreConcerned, Concerned
  <2>3. ChunksKeep
    BY <1>1, <1>2, <1>5, <2>2 DEF ChunksKeep
  <2>4. TextsAreFound'
    <3>1. ~excused' => \A d \in Documents : WillQueue(d)'
      BY <1>0, <1>1, <1>2, <1>5 DEF WillQueue, Job
    <3> QED
      BY <3>1 DEF TextsAreFound
  <2> QED
    BY <2>3, <2>4, VectorsOfChunks
<1> QED
  BY <1>3, <1>4, <1>5

LEMMA VectorsEnqueued == IndexInv /\ ChunksEnqueued => IndexInv'
<1> SUFFICES ASSUME IndexInv, ChunksEnqueued PROVE IndexInv'
  OBVIOUS
<1> USE DEF IndexInv
<1>0. PICK J : J = Job(WholeFile, Bytes, 0)
  OBVIOUS
<1>1. /\ extracted /\ extracted' = FALSE /\ jobs' = jobs \cup ({J} \ ended)
      /\ about' = about /\ text' = text /\ edit' = edit /\ given' = given /\ compiling' = compiling
      /\ model' = model /\ vectors' = vectors /\ ended' = ended /\ call' = call
      /\ hidden' = hidden /\ excused' = excused
  BY <1>0 DEF ChunksEnqueued, Queued
<1>2. /\ about = "chunk" /\ compiling = {}
  BY <1>1 DEF IndexIsShaped
<1>3. /\ Known \subseteq Known' /\ \A j \in Known' : j \in Known \/ j = J
      /\ J.root = WholeFile /\ J.text = Bytes /\ J.model = model
  BY <1>0, <1>1 DEF Known, Job
<1>4. ChunksKeep
  BY <1>0, <1>1, <1>2, <1>3 DEF ChunksKeep, IndexIsShaped, ThingsAreConcerned, Concerned
<1>5. TextsAreFound'
  <2> SUFFICES ASSUME ~excused, NEW d \in Documents, text[d] # NoText
               PROVE  Exact(d, text[d])' \/ WillEmbed(d)'
    BY <1>1 DEF TextsAreFound
  <2>1. CASE Exact(d, text[d])
    BY <1>1, <2>1 DEF Exact
  <2>2. CASE WillEmbed(d)
    BY <1>1, <2>2, StillEmbedded
  <2>3. CASE WillQueue(d)
    <3>1. J \notin Known /\ J \in jobs'
      BY <1>0, <1>1, <1>2, <2>3 DEF WillQueue, Known
    <3>2. d \in Chunks
      BY <1>2 DEF ThingsAreConcerned, Concerned
    <3>3. Present' # {}
      BY <1>1, <3>2 DEF Present
    <3>4. d \in OfRoot(J.root) /\ J.text = Generation(J.root)' /\ J.model = model'
      BY <1>1, <1>3, <3>2, <3>3 DEF OfRoot, Generation
    <3> QED
      BY <1>1, <3>1, <3>4, NewlyQueued
  <2> QED
    BY <2>1, <2>2, <2>3 DEF TextsAreFound
<1> QED
  BY <1>4, <1>5, VectorsOfChunks

LEMMA VectorsStopped == IndexInv /\ (ExtractionStops \/ SourceDeleted) => IndexInv'
<1>1. ASSUME IndexInv, ExtractionStops PROVE IndexInv'
  <2>1. /\ about = "chunk" /\ excused' = TRUE /\ extracted' = FALSE
        /\ UNCHANGED <<about, text, edit, given, compiling, model, vectors, jobs, ended, call, hidden>>
    BY <1>1 DEF ExtractionStops, IndexInv, IndexIsShaped
  <2>2. ChunksKeep
    BY <1>1, <2>1 DEF ChunksKeep, IndexInv, IndexIsShaped, ThingsAreConcerned, Concerned, Known
  <2>3. TextsAreFound'
    BY <2>1 DEF TextsAreFound
  <2> QED
    BY <1>1, <2>2, <2>3, VectorsOfChunks
<1>2. ASSUME IndexInv, SourceDeleted PROVE IndexInv'
  <2>1. /\ about = "chunk" /\ text' = [d \in Documents |-> NoText] /\ vectors' = {}
        /\ UNCHANGED <<about, edit, given, compiling, extracted, model, jobs, ended, call, hidden,
                       excused>>
    BY <1>2 DEF SourceDeleted
  <2>2. ChunksKeep
    BY <1>2, <2>1 DEF ChunksKeep, IndexInv, IndexIsShaped, Known
  <2>3. TextsAreFound'
    BY <2>1 DEF TextsAreFound
  <2> QED
    BY <1>2, <2>2, <2>3, VectorsOfChunks
<1> QED
  BY <1>1, <1>2

LEMMA VectorsOfModel ==
  ASSUME NEW m \in Models PROVE IndexInv /\ ModelChanged(m) => IndexInv'
<1> SUFFICES ASSUME IndexInv, ModelChanged(m) PROVE IndexInv'
  OBVIOUS
<1> USE DEF IndexInv
<1>1. /\ vectors = {} /\ \A d \in Documents : text[d] = NoText
      /\ about' = about /\ text' = text /\ edit' = edit /\ given' = given /\ compiling' = compiling
      /\ extracted' = extracted /\ vectors' = vectors /\ jobs' = jobs /\ ended' = ended
      /\ call' = call /\ hidden' = hidden /\ excused' = excused
  BY DEF ModelChanged, textVars
<1>2. Concerned' = Concerned /\ Roots' = Roots /\ Known' = Known
  BY <1>1 DEF Concerned, Roots, Known
<1>3. IndexIsShaped' /\ JobsAreForRoots'
  BY <1>1, <1>2 DEF IndexIsShaped, JobsAreForRoots
<1>4. ThingsAreConcerned' /\ VectorsAreCurrent' /\ TextsAreFound'
  BY <1>1, <1>2 DEF ThingsAreConcerned, VectorsAreCurrent, TextsAreFound, Said
<1> QED
  BY <1>1, <1>2, <1>3, <1>4, CallsKeep

\* Every text search may find has its vector, or a job that will reach it, whatever the
\* workers do with jobs they have lost (embedding.index, see WillEmbed and WillReach).
THEOREM TextsAreLookedAfter == IndexSpec => []IndexInv
<1>1. IndexInit => IndexInv
  <2> SUFFICES ASSUME IndexInit PROVE IndexInv
    OBVIOUS
  <2>1. /\ about \in {"event", "topic", "claim", "chunk"}
        /\ text = [d \in Documents |-> NoText] /\ edit = 0 /\ given = {} /\ compiling = {}
        /\ extracted = FALSE /\ vectors = {} /\ jobs = {} /\ ended = {}
        /\ call = [w \in Workers |-> Idle] /\ hidden = FALSE /\ excused = FALSE
    BY DEF IndexInit
  <2>2. IndexIsShaped
    BY <2>1 DEF IndexIsShaped, Idle, Documents
  <2>3. CallsAreSound
    BY <2>1 DEF CallsAreSound, Idle
  <2>4. ThingsAreConcerned /\ JobsAreForRoots /\ VectorsAreCurrent /\ TextsAreFound
    BY <2>1 DEF ThingsAreConcerned, JobsAreForRoots, Known, VectorsAreCurrent, TextsAreFound
  <2> QED
    BY <2>2, <2>3, <2>4 DEF IndexInv
<1>2. ASSUME IndexInv, [IndexNext]_indexVars PROVE IndexInv'
  <2>1. CASE UNCHANGED indexVars
    <3>1. /\ UNCHANGED <<about, textVars, model, vectors, jobs, ended, call, hidden, excused>>
      BY <2>1 DEF indexVars
    <3>2. WorkerLeaves
      BY <1>2, <3>1 DEF WorkerLeaves, Known, Exact, textVars, IndexInv, IndexIsShaped
    <3>3. CallsAreSound'
      BY <1>2, <3>1, CallsKeep DEF Known
    <3>4. \A d \in Documents : WillEmbed(d) => WillEmbed(d)'
      BY <1>2, <3>1, StillEmbedded DEF textVars
    <3> QED
      BY <1>2, <3>1, <3>2, <3>3, <3>4, WorkersKeep DEF IndexInv, IndexIsShaped
  <2>2. CASE \E a \in Replies : Answered(a) \/ Compiled(a) \/ Activated(a) \/ Excluded(a)
    BY <1>2, <2>2, VectorsAnswered, VectorsCompiled, VectorsActivated, VectorsExcluded
  <2>3. CASE \E t \in Texts \cup {NoText} : Revised(t) \/ ClaimChanged(t)
    BY <1>2, <2>3, VectorsOfClaims
  <2>4. CASE ClaimHidden \/ ChunksEnqueued \/ ExtractionStops \/ SourceDeleted
    BY <1>2, <2>4, VectorsHidden, VectorsEnqueued, VectorsStopped
  <2>5. CASE \E t \in Texts : Extracted(t)
    BY <1>2, <2>5, VectorsExtracted
  <2>6. CASE \E m \in Models : ModelChanged(m)
    BY <1>2, <2>6, VectorsOfModel
  <2>7. ASSUME NEW w \in Workers, IndexStep(w) PROVE IndexInv'
    BY <1>2, <2>7, VectorsTake, VectorsReadDocuments, VectorsPreflight, VectorsBudget,
       VectorsNextBatch, VectorsStore, VectorsFinish DEF IndexStep
  <2> QED
    BY <1>2, <2>1, <2>2, <2>3, <2>4, <2>5, <2>6, <2>7 DEF IndexNext
<1> QED
  BY <1>1, <1>2, PTL DEF IndexSpec

\* No vector is of a text that is no longer there, and with no job left every text that
\* search may find has one, for any number of workers, texts and models (VectorsFollow).
THEOREM VectorsFollowTheTexts == IndexSpec => []VectorsFollow
<1>1. IndexInv => VectorsFollow
  BY DEF IndexInv, VectorsFollow, VectorsAreCurrent, TextsAreFound, WillEmbed, WillQueue
<1> QED
  BY <1>1, TextsAreLookedAfter, PTL

-----------------------------------------------------------------------------
(* Claims that wait for a proposal *)

DatabaseFields ==
  {"live", "evidence", "home", "written", "active", "confirm", "drafts", "uses", "proposals",
   "edges", "mentions", "next"}
ProposalFields == {"topic", "changed", "output", "status", "about", "guards"}

IsDatabase(d) ==
  /\ d = [f \in DatabaseFields |-> d[f]]
  /\ d.home \in [1..Turns -> Topics \cup {NoTopic}]
  /\ \A p \in d.proposals : p = [f \in ProposalFields |-> p[f]] /\ p.topic \in Topics

\* A claim that is on no page is in a proposal that no other has taken over.
IsCovered(d, k) ==
  \E p \in d.proposals : Claim(k) \in p.changed /\ p.status # "superseded"
NoneIsLost(d) ==
  \A k \in 1..Turns : Claim(k) \in d.live /\ d.home[k] = NoTopic => IsCovered(d, k)

ProposalsInv ==
  deletionsDone \in Nat /\ (deletionsDone = 0 => stack = <<>> /\ IsDatabase(db) /\ NoneIsLost(db))

NotAClaim(x) == \A k \in 1..Turns : x # Claim(k)
AddsNoClaim(d, e) == \A k \in 1..Turns : Claim(k) \in e.live => Claim(k) \in d.live

\* Of the proposals those that lapse have the same claims and another status.
HasEnded(d, ps, ending, e) ==
  /\ \A p \in ps : \E q \in e.proposals : q.changed = p.changed /\ q.status = ending
  /\ \A q \in e.proposals : q \in d.proposals \ ps \/ q.status = ending

\* A step that adds no claim, takes none from its page and changes no proposal.
LEMMA NothingPending ==
  ASSUME NoneIsLost(db), NEW e, e.home = db.home, e.proposals = db.proposals,
         NEW more, e.live = db.live \cup more, \A x \in more : NotAClaim(x)
  PROVE  NoneIsLost(e)
BY DEF NoneIsLost, IsCovered, NotAClaim

\* The objects are told apart by their tables.
LEMMA OtherTables ==
  /\ \A k : NotAClaim(Prompt(k)) /\ NotAClaim(Answer(k)) /\ NotAClaim(Run(k)) /\ NotAClaim(File(k))
  /\ NotAClaim(Source)
  /\ \A t : NotAClaim(Page(t))
  /\ \A t, n : NotAClaim(Revision(t, n))
<1>1. \A x : x[1] # "claim" => NotAClaim(x)
  BY DEF NotAClaim, Claim
<1> QED
  BY <1>1 DEF Prompt, Answer, Run, File, Source, Page, Revision

\* Learning changes one claim, and the page of a new one only.
LEMMA LearnedFacts ==
  ASSUME IsDatabase(db), NEW k, NEW c, NEW from, NEW home \in Topics \cup {NoTopic},
         NEW d, d = Learned(k, c, from, home)
  PROVE  /\ IsDatabase(d)
         /\ d.live = db.live \cup {Claim(c)}
         /\ \A j \in 1..Turns : d.home[j] = IF j = c /\ c = k THEN home ELSE db.home[j]
         /\ d.proposals = db.proposals
<1>1. d.home = [db.home EXCEPT ![c] = IF c = k THEN home ELSE @]
  BY DEF Learned, IsDatabase, DatabaseFields
<1>2. /\ d = [f \in DatabaseFields |-> d[f]]
      /\ d.live = db.live \cup {Claim(c)} /\ d.proposals = db.proposals
  BY DEF Learned, IsDatabase, DatabaseFields
<1>3. d.home \in [1..Turns -> Topics \cup {NoTopic}]
  BY <1>1 DEF IsDatabase
<1>4. \A j \in 1..Turns : d.home[j] = IF j = c /\ c = k THEN home ELSE db.home[j]
  BY <1>1 DEF IsDatabase
<1> QED
  BY <1>2, <1>3, <1>4 DEF IsDatabase

\* A link between pages is an edge.
LEMMA LinkedFacts ==
  ASSUME NEW d, IsDatabase(d), NEW t, NEW from, NEW e, e = Linked(d, t, from)
  PROVE  IsDatabase(e) /\ e.live = d.live /\ e.home = d.home /\ e.proposals = d.proposals
<1>1. /\ e = [f \in DatabaseFields |-> e[f]]
      /\ e.live = d.live /\ e.home = d.home /\ e.proposals = d.proposals
  BY DEF Linked, IsDatabase, DatabaseFields
<1> QED
  BY <1>1 DEF IsDatabase

\* What is published are revisions and pages.
LEMMA PublishedFacts ==
  ASSUME NEW d, IsDatabase(d), NEW t, NEW cites, NEW e, e = Published(d, t, cites)
  PROVE  /\ IsDatabase(e) /\ e.home = d.home /\ e.proposals = d.proposals
         /\ AddsNoClaim(d, e)
<1> DEFINE both == {t, RootOf(t)}
           new == {Revision(s, d.next) : s \in both}
           more == new \cup {Page(s) : s \in both}
<1>1. PICK l : l = Linked(d, t, cites)
  OBVIOUS
<1>2. IsDatabase(l) /\ l.live = d.live /\ l.home = d.home /\ l.proposals = d.proposals
  BY <1>1, LinkedFacts
<1> DEFINE bodies == [x \in new |-> [author |-> "model",
                                      cites |-> IF x[2] = t THEN cites ELSE {}]] @@ l.written
           active == [s \in Topics |-> IF s \in both THEN d.next ELSE l.active[s]]
           mentions == l.mentions \cup {{Page(s)} : s \in both}
           live == l.live \cup new \cup {Page(s) : s \in both}
<1>4. e = [l EXCEPT !.live = live, !.written = bodies, !.active = active,
                    !.mentions = mentions, !.next = @ + 1]
  BY <1>1, Zenon DEF Published
<1>0. live = l.live \cup more
  OBVIOUS
<1> HIDE DEF live, more, bodies, active, mentions
<1> HIDE DEF new, both
<1>5. /\ e = [f \in DatabaseFields |-> e[f]]
      /\ e.live = l.live \cup more
      /\ e.home = l.home /\ e.proposals = l.proposals
  BY <1>0, <1>2, <1>4 DEF IsDatabase, DatabaseFields
<1>6. \A x \in more : NotAClaim(x)
  BY OtherTables DEF new, more
<1> QED
  BY <1>2, <1>5, <1>6 DEF IsDatabase, AddsNoClaim, NotAClaim

\* Proposals that lapse keep their claims, and the others stay.
LEMMA LapsedFacts ==
  ASSUME NEW d, IsDatabase(d), NEW ps \in SUBSET d.proposals, NEW ending,
         NEW e, e = Lapsed(d, ps, ending)
  PROVE  /\ IsDatabase(e) /\ e.home = d.home /\ e.live \subseteq d.live
         /\ d.proposals \ ps \subseteq e.proposals
         /\ HasEnded(d, ps, ending, e)
<1> DEFINE drafts == {p.output[2] : p \in ps} \cap d.drafts
           Ended(p) == [p EXCEPT !.status = ending, !.about = @ \ {Page(t) : t \in drafts}]
           live == (d.live \ {p.output : p \in ps}) \ {Page(t) : t \in drafts}
           bodies == [x \in (DOMAIN d.written) \ {p.output : p \in ps} |-> d.written[x]]
           active == [t \in Topics |-> IF t \in drafts THEN 0 ELSE d.active[t]]
           endings == {Ended(p) : p \in ps}
<1>1. /\ e = [d EXCEPT !.live = live, !.written = bodies, !.active = active,
                       !.drafts = @ \ drafts, !.proposals = (@ \ ps) \cup endings]
      /\ live \subseteq d.live
  <2>1. e = [d EXCEPT !.live = live, !.written = bodies, !.active = active,
                      !.drafts = @ \ drafts, !.proposals = (@ \ ps) \cup endings]
    BY Zenon DEF Lapsed
  <2> QED
    BY <2>1
<1>2. \A p \in ps : /\ Ended(p) = [f \in ProposalFields |-> Ended(p)[f]]
                    /\ Ended(p).topic = p.topic /\ Ended(p).topic \in Topics
                    /\ Ended(p).changed = p.changed
                    /\ Ended(p).status = ending
  BY DEF IsDatabase, ProposalFields
<1>5. \A p \in endings : \E q \in ps : p = Ended(q)
  OBVIOUS
<1>6. \A p \in ps : Ended(p) \in endings
  OBVIOUS
<1> HIDE DEF Ended, live, bodies, active, endings, drafts
<1>3. /\ e = [f \in DatabaseFields |-> e[f]]
      /\ e.home = d.home /\ e.live = live
      /\ e.proposals = (d.proposals \ ps) \cup endings
  BY <1>1 DEF IsDatabase, DatabaseFields
<1>4. \A p \in e.proposals : p = [f \in ProposalFields |-> p[f]] /\ p.topic \in Topics
  BY <1>2, <1>3, <1>5 DEF IsDatabase
<1>7. IsDatabase(e)
  BY <1>3, <1>4 DEF IsDatabase
<1>8. \A p \in ps : \E q \in e.proposals : q.changed = p.changed /\ q.status = ending
  BY <1>2, <1>3, <1>6
<1>9. \A q \in e.proposals : q \in d.proposals \ ps \/ q.status = ending
  BY <1>2, <1>3, <1>5
<1> QED
  BY <1>1, <1>3, <1>7, <1>8, <1>9 DEF HasEnded

\* A proposal that takes others over carries their claims along.
LEMMA ProposedFacts ==
  ASSUME NEW d, IsDatabase(d), NEW t, RootOf(t) \in Topics, NEW claim,
         NEW e, e = Proposed(d, t, claim)
  PROVE  /\ IsDatabase(e) /\ e.home = d.home
         /\ AddsNoClaim(d, e)
         /\ \A k : IsCovered(d, k) \/ Claim(k) = claim => IsCovered(e, k)
<1> DEFINE over == TakenOver(d, t)
           changed == ChangedBy(d, t, claim)
           shown == changed \cup UNION {Shown(d, s) : s \in InUse(d, {t})}
<1>1. PICK l : l = Lapsed(d, over, "superseded")
  OBVIOUS
<1>2. over \in SUBSET d.proposals
  BY DEF TakenOver, Pending
<1>3. /\ IsDatabase(l) /\ l.home = d.home /\ l.live \subseteq d.live
      /\ d.proposals \ over \subseteq l.proposals
  BY <1>1, <1>2, LapsedFacts
<1> DEFINE new == Revision(t, l.next)
           draft == Page(t) \notin l.live
           proposal ==
             [topic |-> RootOf(t), changed |-> changed, output |-> new, status |-> "pending",
              about |-> Cited(d, shown) \cup BasesOf(d, t) \cup {Page(t), Page(RootOf(t))},
              guards |-> {StateOf(d, x) : x \in shown}]
           bodies == (new :> [author |-> "proposal", cites |-> Cited(d, shown)]) @@ l.written
           active == IF draft THEN [l.active EXCEPT ![t] = l.next] ELSE l.active
           drafts == IF draft THEN l.drafts \cup {t} ELSE l.drafts
<1>4. e = [l EXCEPT !.live = @ \cup {new, Page(t)}, !.written = bodies, !.active = active,
                    !.drafts = drafts, !.proposals = @ \cup {proposal}, !.next = @ + 1]
  BY <1>1, Zenon DEF Proposed
<1>5. /\ proposal = [f \in ProposalFields |-> proposal[f]] /\ proposal.topic \in Topics
      /\ proposal.status = "pending" /\ proposal.changed = changed
  BY DEF ProposalFields
<1>6. changed = {claim} \cup UNION {p.changed : p \in over}
  BY Zenon DEF ChangedBy
<1>7. NotAClaim(new) /\ NotAClaim(Page(t))
  BY OtherTables
<1> HIDE DEF bodies, active, drafts, proposal, new, changed, over
<1>8. /\ e = [f \in DatabaseFields |-> e[f]]
      /\ e.home = l.home /\ e.live = l.live \cup {new, Page(t)}
      /\ e.proposals = l.proposals \cup {proposal}
  BY <1>3, <1>4 DEF IsDatabase, DatabaseFields
<1>9. IsDatabase(e)
  BY <1>3, <1>5, <1>8 DEF IsDatabase
<1>10. ASSUME NEW k, IsCovered(d, k) \/ Claim(k) = claim PROVE IsCovered(e, k)
  <2>1. CASE Claim(k) \in changed
    BY <1>5, <1>8, <2>1 DEF IsCovered
  <2>2. CASE Claim(k) \notin changed
    <3>1. PICK p \in d.proposals : Claim(k) \in p.changed /\ p.status # "superseded"
      BY <1>6, <1>10, <2>2 DEF IsCovered
    <3>2. p \notin over
      BY <1>6, <2>2, <3>1
    <3> QED
      BY <1>3, <1>8, <3>1, <3>2 DEF IsCovered
  <2> QED
    BY <2>1, <2>2
<1>11. AddsNoClaim(d, e)
  BY <1>3, <1>7, <1>8 DEF AddsNoClaim, NotAClaim
<1> QED
  BY <1>3, <1>8, <1>9, <1>10, <1>11

\* A claim that is learned goes to a page or into a proposal.
LEMMA CompileKeepsClaims ==
  ASSUME ShardAssumption, IsDatabase(db), NoneIsLost(db), Compile
  PROVE  IsDatabase(db') /\ NoneIsLost(db')
<1> DEFINE From == {{Prompt(turn)}, {Answer(turn)}} \cup
                     (IF IsLive(File(turn)) THEN {{Source}} ELSE {})
<1>1. PICK t \in {s \in Topics : ShardOf[s] # NoTopic},
           c \in {j \in 1..turn : j = turn \/ IsLive(Claim(j))}, from \in From :
        db' = IF RootOf(t) \in db.confirm
                THEN Proposed(Learned(turn, c, from, NoTopic), t, Claim(c))
                ELSE LET d == Learned(turn, c, from, RootOf(t))
                         before == IF IsLive(Page(t)) THEN Shown(db, t) ELSE {}
                     IN Published(d, t, Cited(d, before \cup {Claim(c)}))
  BY Zenon DEF Compile
<1> HIDE DEF From
<1>2. RootOf(t) \in Topics /\ NoTopic \notin Topics
  BY DEF ShardAssumption, RootOf
<1>3. \A j \in 1..Turns : Claim(j) = Claim(c) => j = c
  BY DEF Claim
<1>4. c = turn \/ Claim(c) \in db.live
  BY DEF IsLive
<1>5. CASE RootOf(t) \in db.confirm
  <2>1. PICK d : d = Learned(turn, c, from, NoTopic)
    OBVIOUS
  <2>2. /\ IsDatabase(d) /\ d.live = db.live \cup {Claim(c)} /\ d.proposals = db.proposals
        /\ \A j \in 1..Turns : d.home[j] = IF j = c /\ c = turn THEN NoTopic ELSE db.home[j]
    BY <2>1, LearnedFacts
  <2>3. db' = Proposed(d, t, Claim(c))
    BY <1>1, <1>5, <2>1
  <2>4. PICK e : e = db'
    OBVIOUS
  <2>5. /\ IsDatabase(e) /\ e.home = d.home
        /\ AddsNoClaim(d, e)
        /\ \A k : IsCovered(d, k) \/ Claim(k) = Claim(c) => IsCovered(e, k)
    BY <1>2, <2>2, <2>3, <2>4, ProposedFacts
  <2>6. ASSUME NEW k \in 1..Turns, Claim(k) \in e.live, e.home[k] = NoTopic
        PROVE  IsCovered(e, k)
    <3>1. Claim(k) \in d.live
      BY <2>5, <2>6 DEF AddsNoClaim
    <3>2. CASE k = c
      BY <2>5, <3>2
    <3>3. CASE k # c
      <4>1. Claim(k) \in db.live /\ db.home[k] = NoTopic
        BY <1>3, <2>2, <2>5, <2>6, <3>1, <3>3
      <4> QED
        BY <2>2, <2>5, <4>1 DEF NoneIsLost, IsCovered
    <3> QED
      BY <3>2, <3>3
  <2> QED
    BY <2>4, <2>5, <2>6 DEF NoneIsLost
<1>6. CASE RootOf(t) \notin db.confirm
  <2>1. PICK d : d = Learned(turn, c, from, RootOf(t))
    OBVIOUS
  <2>2. /\ IsDatabase(d) /\ d.live = db.live \cup {Claim(c)} /\ d.proposals = db.proposals
        /\ \A j \in 1..Turns : d.home[j] = IF j = c /\ c = turn THEN RootOf(t) ELSE db.home[j]
    BY <1>2, <2>1, LearnedFacts
  <2>3. PICK cites : db' = Published(d, t, cites)
    BY <1>1, <1>6, <2>1
  <2>4. PICK e : e = db'
    OBVIOUS
  <2>5. /\ IsDatabase(e) /\ e.home = d.home /\ e.proposals = d.proposals
        /\ AddsNoClaim(d, e)
    BY <2>2, <2>3, <2>4, PublishedFacts
  <2>6. ASSUME NEW k \in 1..Turns, Claim(k) \in e.live, e.home[k] = NoTopic
        PROVE  IsCovered(e, k)
    <3>1. Claim(k) \in d.live
      BY <2>5, <2>6 DEF AddsNoClaim
    <3>2. Claim(k) \in db.live /\ db.home[k] = NoTopic
      BY <1>2, <1>3, <1>4, <2>2, <2>5, <2>6, <3>1
    <3> QED
      BY <2>2, <2>5, <3>2 DEF NoneIsLost, IsCovered
  <2> QED
    BY <2>4, <2>5, <2>6 DEF NoneIsLost
<1> QED
  BY <1>5, <1>6

\* Accepting a proposal gives its claims their page; what is stale or rebased by it
\* keeps its own.
LEMMA AcceptKeepsClaims ==
  ASSUME ShardAssumption, IsDatabase(db), NoneIsLost(db), NEW p \in db.proposals,
         AcceptProposal(p)
  PROVE  IsDatabase(db') /\ NoneIsLost(db')
<1> DEFINE t == p.output[2]
           index == Revision(p.topic, db.next)
           old == ActiveOf(db, p.topic)
           stale == StaleWith(p)
           kept == Pending(db) \ ({p} \cup stale)
           Rebased(q) == [q EXCEPT !.about = (@ \ {old}) \cup {index}]
           accepted == [p EXCEPT !.status = "accepted"]
           rebased == {Rebased(q) : q \in kept}
<1>1. PICK l : l = Lapsed(db, stale, "stale")
  OBVIOUS
<1>2. stale \in SUBSET db.proposals /\ p \notin stale /\ stale \subseteq Pending(db)
  BY DEF StaleWith, Pending
<1>3. /\ IsDatabase(l) /\ l.home = db.home /\ l.live \subseteq db.live
      /\ db.proposals \ stale \subseteq l.proposals
      /\ HasEnded(db, stale, "stale", l)
  BY <1>1, <1>2, LapsedFacts
<1>4. PICK d : d = Linked(l, t, db.written[p.output].cites)
  OBVIOUS
<1>5. IsDatabase(d) /\ d.live = l.live /\ d.home = l.home /\ d.proposals = l.proposals
  BY <1>3, <1>4, LinkedFacts
<1> DEFINE bodies == (index :> [author |-> "model", cites |-> {}]) @@ d.written
           active == [d.active EXCEPT ![t] = p.output[3], ![p.topic] = db.next]
           home == [k \in 1..Turns |-> IF Claim(k) \in p.changed THEN p.topic ELSE d.home[k]]
           proposals == ((d.proposals \ {p}) \ kept) \cup {accepted} \cup rebased
           mentions == d.mentions \cup {{Page(t)}, {Page(p.topic)}}
<1>6. p.status = "pending"
  BY DEF AcceptProposal
<1>7. db' = [d EXCEPT !.live = @ \cup {index}, !.written = bodies, !.active = active,
                      !.home = home, !.drafts = @ \ {t}, !.proposals = proposals,
                      !.mentions = mentions, !.next = @ + 1]
  BY <1>1, <1>4, Zenon DEF AcceptProposal
<1>8. /\ accepted = [f \in ProposalFields |-> accepted[f]]
      /\ accepted.topic = p.topic /\ p.topic \in Topics /\ accepted.status = "accepted"
  BY DEF IsDatabase, ProposalFields
<1>9. \A q \in kept : q \in db.proposals /\ q.status = "pending"
  BY DEF Pending
<1>10. \A q \in kept : /\ Rebased(q) = [f \in ProposalFields |-> Rebased(q)[f]]
                      /\ Rebased(q).topic \in Topics
                      /\ Rebased(q).changed = q.changed /\ Rebased(q).status = q.status
  <2> HIDE DEF kept, index, old
  <2> TAKE q \in kept
  <2>1. q = [f \in ProposalFields |-> q[f]] /\ q.topic \in Topics
    BY <1>9 DEF IsDatabase
  <2>2. Rebased(q) = [q EXCEPT !.about = (q.about \ {old}) \cup {index}]
    OBVIOUS
  <2> HIDE DEF Rebased
  <2> QED
    BY <2>1, <2>2 DEF ProposalFields
<1>11. /\ \A r \in rebased : \E q \in kept : r = Rebased(q)
       /\ \A q \in kept : Rebased(q) \in rebased
  OBVIOUS
<1>12. NotAClaim(index)
  BY OtherTables
<1>13. \A q \in db.proposals : q \in stale \/ q = p \/ q \in kept \/ q \notin Pending(db)
  OBVIOUS
<1>14. /\ \A k \in 1..Turns : home[k] = IF Claim(k) \in p.changed THEN p.topic ELSE d.home[k]
       /\ home \in [1..Turns -> Topics \cup {NoTopic}]
  BY <1>5, <1>8 DEF IsDatabase
<1>15. \A q : q \in proposals <=> \/ q \in d.proposals /\ q # p /\ q \notin kept
                                  \/ q = accepted \/ q \in rebased
  OBVIOUS
<1>16. NoTopic \notin Topics
  BY DEF ShardAssumption
<1> HIDE DEF Rebased, accepted, rebased, kept, stale, index, t, bodies, active, home,
             proposals, mentions
<1>17. PICK e : e = db'
  OBVIOUS
<1>18. /\ e = [f \in DatabaseFields |-> e[f]]
       /\ e.home = home /\ e.live = d.live \cup {index} /\ e.proposals = proposals
  BY <1>5, <1>7, <1>17 DEF IsDatabase, DatabaseFields
<1>19. \A q \in e.proposals : q = [f \in ProposalFields |-> q[f]] /\ q.topic \in Topics
  <2>1. \A q \in d.proposals : q = [f \in ProposalFields |-> q[f]] /\ q.topic \in Topics
    BY <1>5 DEF IsDatabase
  <2>2. \A q \in rebased : q = [f \in ProposalFields |-> q[f]] /\ q.topic \in Topics
    BY <1>10, <1>11
  <2>3. \A q \in e.proposals : q \in d.proposals \/ q = accepted \/ q \in rebased
    BY <1>15, <1>18
  <2> QED
    BY <1>8, <2>1, <2>2, <2>3
<1>20. IsDatabase(e)
  BY <1>14, <1>18, <1>19 DEF IsDatabase
<1>21. ASSUME NEW k \in 1..Turns, Claim(k) \in e.live, e.home[k] = NoTopic
       PROVE  IsCovered(e, k)
  <2>1. Claim(k) \in db.live /\ db.home[k] = NoTopic /\ Claim(k) \notin p.changed
    BY <1>3, <1>5, <1>8, <1>12, <1>14, <1>16, <1>18, <1>21 DEF NotAClaim
  <2>2. PICK q \in db.proposals : Claim(k) \in q.changed /\ q.status # "superseded"
    BY <2>1 DEF NoneIsLost, IsCovered
  <2>3. q # p
    BY <2>1, <2>2
  <2>4. CASE q \in stale
    <3>1. PICK r \in l.proposals : r.changed = q.changed /\ r.status = "stale"
      BY <1>3, <2>4 DEF HasEnded
    <3>2. r \in e.proposals
      BY <1>5, <1>6, <1>9, <1>15, <1>18, <3>1
    <3> QED
      BY <2>2, <3>1, <3>2 DEF IsCovered
  <2>5. CASE q \in kept
    BY <1>10, <1>11, <1>15, <1>18, <2>2, <2>5 DEF IsCovered
  <2>6. CASE q \notin Pending(db) /\ q \notin stale /\ q \notin kept
    BY <1>3, <1>5, <1>15, <1>18, <2>2, <2>3, <2>6 DEF IsCovered
  <2> QED
    BY <1>2, <1>13, <2>3, <2>4, <2>5, <2>6
<1> QED
  BY <1>17, <1>20, <1>21 DEF NoneIsLost

\* A proposal that is rejected has its claims still.
LEMMA RejectKeepsClaims ==
  ASSUME IsDatabase(db), NoneIsLost(db), NEW p \in db.proposals, RejectProposal(p)
  PROVE  IsDatabase(db') /\ NoneIsLost(db')
<1>0. PICK ps : ps = {p}
  OBVIOUS
<1>1. PICK l : l = Lapsed(db, ps, "rejected")
  OBVIOUS
<1>2. /\ IsDatabase(l) /\ l.home = db.home /\ l.live \subseteq db.live
      /\ db.proposals \ {p} \subseteq l.proposals
      /\ \E r \in l.proposals : r.changed = p.changed /\ r.status = "rejected"
  <2>1. ps \in SUBSET db.proposals
    BY <1>0
  <2>2. /\ IsDatabase(l) /\ l.home = db.home /\ l.live \subseteq db.live
        /\ db.proposals \ ps \subseteq l.proposals
        /\ HasEnded(db, ps, "rejected", l)
    BY <1>1, <2>1, LapsedFacts
  <2> QED
    BY <1>0, <2>2 DEF HasEnded
<1>3. PICK e : e = db'
  OBVIOUS
<1>4. e = [l EXCEPT !.mentions = @ \cup {{Page(p.topic)}}]
  BY <1>0, <1>1, <1>3 DEF RejectProposal
<1>5. /\ e = [f \in DatabaseFields |-> e[f]]
      /\ e.home = l.home /\ e.live = l.live /\ e.proposals = l.proposals
  BY <1>2, <1>4 DEF IsDatabase, DatabaseFields
<1>6. IsDatabase(e)
  BY <1>2, <1>5 DEF IsDatabase
<1>7. NoneIsLost(e)
  BY <1>2, <1>5 DEF NoneIsLost, IsCovered
<1> QED
  BY <1>3, <1>6, <1>7

\* A turn adds neither claims nor proposals.
LEMMA ConverseKeepsClaims ==
  ASSUME IsDatabase(db), NoneIsLost(db), Converse
  PROVE  IsDatabase(db') /\ NoneIsLost(db')
<1> DEFINE k == turn + 1
           Rows(parts) == {Prompt(k), Answer(k), Run(k)} \cup parts
<1>1. PICK parts, uses, mentions :
        /\ db' = [db EXCEPT !.live = @ \cup {Prompt(k), Answer(k), Run(k)} \cup parts,
                            !.uses[k] = uses, !.mentions = mentions]
        /\ parts \subseteq {File(k), Source}
  <2>1. PICK attached \in {FALSE, turn + 1 \in Attaching},
             read \in {{}, PagesOf(db) \ db.drafts} :
          LET parts == IF attached THEN {File(k), Source} ELSE {}
              earlier == {Prompt(j) : j \in 1..turn} \cup {Answer(j) : j \in 1..turn}
          IN db' = [db EXCEPT
               !.live = @ \cup {Prompt(k), Answer(k), Run(k)} \cup parts,
               !.uses[k] = earlier \cup parts \cup UNION {ReferencesTo(db, t) : t \in read},
               !.mentions = @ \cup {{Prompt(k), Answer(k), Run(k)}}]
    BY Zenon DEF Converse
  <2> DEFINE parts == IF attached THEN {File(k), Source} ELSE {}
             earlier == {Prompt(j) : j \in 1..turn} \cup {Answer(j) : j \in 1..turn}
             uses == earlier \cup parts \cup UNION {ReferencesTo(db, t) : t \in read}
             mentions == db.mentions \cup {{Prompt(k), Answer(k), Run(k)}}
  <2>2. db' = [db EXCEPT !.live = @ \cup {Prompt(k), Answer(k), Run(k)} \cup parts,
                         !.uses[k] = uses, !.mentions = mentions]
    BY <2>1, Zenon
  <2>3. parts \subseteq {File(k), Source}
    OBVIOUS
  <2> HIDE DEF parts, uses, mentions
  <2> QED
    BY <2>2, <2>3, Zenon
<1>2. PICK e : e = db'
  OBVIOUS
<1>3. PICK used : used = [db.uses EXCEPT ![k] = uses]
  OBVIOUS
<1>4. e = [db EXCEPT !.live = @ \cup Rows(parts), !.uses = used, !.mentions = mentions]
  <2>1. db.live \cup Rows(parts) = db.live \cup {Prompt(k), Answer(k), Run(k)} \cup parts
    OBVIOUS
  <2> QED
    BY <1>1, <1>2, <1>3, <2>1 DEF IsDatabase, DatabaseFields
<1>5. PICK more : more = Rows(parts)
  OBVIOUS
<1>6. \A x \in more : NotAClaim(x)
  BY <1>1, <1>5, OtherTables
<1> HIDE DEF Rows
<1>7. /\ e = [f \in DatabaseFields |-> e[f]]
      /\ e.home = db.home /\ e.live = db.live \cup more /\ e.proposals = db.proposals
  BY <1>4, <1>5 DEF IsDatabase, DatabaseFields
<1>8. NoneIsLost(e)
  BY <1>6, <1>7, NothingPending
<1> QED
  BY <1>2, <1>7, <1>8 DEF IsDatabase

\* Neither does an edit.
LEMMA EditKeepsClaims ==
  ASSUME IsDatabase(db), NoneIsLost(db), NEW t \in Topics, EditPage(t)
  PROVE  IsDatabase(db') /\ NoneIsLost(db')
<1> DEFINE new == Revision(t, db.next)
           sources == db.written[ActiveOf(db, t)].cites \ Shown(db, t)
           bodies == (new :> [author |-> "user", cites |-> sources]) @@ db.written
<1>1. db' = [db EXCEPT !.live = @ \cup {new}, !.written = bodies, !.active[t] = db.next,
                       !.confirm = @ \cup {t}, !.next = @ + 1]
  BY Zenon DEF EditPage
<1>2. PICK more : more = {new}
  OBVIOUS
<1>3. \A x \in more : NotAClaim(x)
  BY <1>2, OtherTables
<1> HIDE DEF new, bodies
<1>4. PICK e : e = db'
  OBVIOUS
<1>5. /\ e = [f \in DatabaseFields |-> e[f]]
      /\ e.home = db.home /\ e.live = db.live \cup more /\ e.proposals = db.proposals
  BY <1>1, <1>2, <1>4 DEF IsDatabase, DatabaseFields
<1>6. NoneIsLost(e)
  BY <1>3, <1>5, NothingPending
<1> QED
  BY <1>4, <1>5, <1>6 DEF IsDatabase

\* Until something is deleted, no step of a deletion is possible.
LEMMA ProposalsStepInv ==
  ASSUME ShardAssumption, ProposalsInv, [DeletionNext]_deletionVars
  PROVE  ProposalsInv'
<1> USE DEF ProposalsInv
<1>1. CASE Converse
  BY <1>1, ConverseKeepsClaims DEF Converse
<1>2. CASE Compile
  BY <1>2, CompileKeepsClaims DEF Compile
<1>3. ASSUME NEW t \in Topics, EditPage(t) PROVE ProposalsInv'
  BY <1>3, EditKeepsClaims DEF EditPage
<1>4. ASSUME NEW p \in db.proposals, AcceptProposal(p) PROVE ProposalsInv'
  BY <1>4, AcceptKeepsClaims DEF AcceptProposal
<1>5. ASSUME NEW p \in db.proposals, RejectProposal(p) PROVE ProposalsInv'
  BY <1>5, RejectKeepsClaims DEF RejectProposal
<1>6. ASSUME NEW x, Begin(x) PROVE ProposalsInv'
  BY <1>6 DEF Begin
<1>7. ASSUME NEW x \in db.live,
             DeleteEvent(x) \/ DeleteAttachment(x) \/ DeleteClaim(x) \/ DeleteTopic(x)
      PROVE  ProposalsInv'
  <2>1. Begin(x)
    BY <1>7, Zenon DEF DeleteEvent, DeleteAttachment, DeleteClaim, DeleteTopic
  <2> QED
    BY <1>6, <2>1
<1>8. CASE DeletionStep
  <2>1. stack # <<>> /\ UNCHANGED deletionsDone
    BY <1>8, Zenon DEF DeletionStep, DeleteAnswer, Overflow, FinishDeletion
  <2> QED
    BY <2>1
<1>9. CASE UNCHANGED deletionVars
  BY <1>9 DEF deletionVars
<1> QED
  BY <1>1, <1>2, <1>3, <1>4, <1>5, <1>7, <1>8, <1>9, Zenon DEF DeletionNext

\* There is nothing to propose at first.
LEMMA ProposalsInitInv == DeletionInit => ProposalsInv
<1> SUFFICES ASSUME DeletionInit PROVE ProposalsInv
  OBVIOUS
<1>1. db = EmptyDatabase /\ stack = <<>> /\ deletionsDone = 0
  BY DEF DeletionInit
<1>2. IsDatabase(db)
  BY <1>1 DEF IsDatabase, EmptyDatabase, DatabaseFields
<1>3. NoneIsLost(db)
  BY <1>1 DEF NoneIsLost, EmptyDatabase
<1> QED
  BY <1>1, <1>2, <1>3 DEF ProposalsInv

\* A claim on no page is in a proposal that is not taken over by another, however
\* many pages, turns, edits and decisions there are (proposeShardedTopicDelta,
\* acceptTopicProposal, rejectTopicProposal).
THEOREM ProposedClaimsAreKept == DeletionSpec => []ProposedIsNotLost
<1>1. DeletionInit => ProposalsInv
  BY ProposalsInitInv
<1>2. ProposalsInv /\ [DeletionNext]_deletionVars => ProposalsInv'
  BY ProposalsStepInv, ShardAssumption
<1>3. ProposalsInv => ProposedIsNotLost
  BY DEF ProposalsInv, ProposedIsNotLost, NoneIsLost, IsCovered
<1> QED
  BY <1>1, <1>2, <1>3, PTL DEF DeletionSpec

-----------------------------------------------------------------------------
(* Claims and their evidence *)

\* A set of numbers without a first one is empty.
LEMMA NoneIsFirst ==
  ASSUME NEW S, S \subseteq Nat, \A n \in S : \E m \in S : m < n
  PROVE  S = {}
<1> SUFFICES ASSUME S # {} PROVE FALSE
  OBVIOUS
<1> DEFINE R == OpToRel(<, Nat)
<1>1. IsWellFoundedOn(R, Nat)
  BY NatLessThanWellFounded
<1>2. PICK x \in S : \A y \in S : ~(<<y, x>> \in R)
  BY <1>1, WFMin
<1>3. \A y \in S : ~(y < x)
  BY <1>2 DEF OpToRel
<1> QED
  BY <1>3

\* What a function makes of a finite set is finite.
LEMMA ImageIsFinite ==
  ASSUME NEW S, IsFiniteSet(S), NEW f, S \subseteq DOMAIN f
  PROVE  IsFiniteSet({f[x] : x \in S})
<1> DEFINE T == {f[x] : x \in S}
           g == [x \in S |-> f[x]]
<1>1. g \in Surjection(S, T)
  BY DEF Surjection
<1> QED
  BY <1>1, FS_Surjection

\* The rounds of a closure up to the nth, and all of them.
FirstRounds(d, ids, n, f) ==
  f = [m \in 0..n |-> IF m = 0 THEN ids ELSE Grown(d, f[m - 1])]
Rounds(d, ids) ==
  CHOOSE round : round = [n \in Nat |-> IF n = 0 THEN ids ELSE Grown(d, round[n - 1])]

LEMMA FirstRoundsAgree ==
  ASSUME NEW d, NEW ids, NEW n \in Nat, NEW m \in Nat, NEW f, NEW g,
         FirstRounds(d, ids, n, f), FirstRounds(d, ids, m, g), NEW i \in Nat, i <= n, i <= m
  PROVE  f[i] = g[i]
<1> DEFINE Differ == {j \in Nat : j <= n /\ j <= m /\ f[j] # g[j]}
<1>0. /\ \A j \in 0..n : f[j] = IF j = 0 THEN ids ELSE Grown(d, f[j - 1])
      /\ \A j \in 0..m : g[j] = IF j = 0 THEN ids ELSE Grown(d, g[j - 1])
  BY DEF FirstRounds
<1>1. ASSUME NEW j \in Differ PROVE \E h \in Differ : h < j
  <2>1. j \in 0..n /\ j \in 0..m
    OBVIOUS
  <2>2. j # 0
    BY <1>0, <1>1, <2>1
  <2>3. j - 1 \in Nat /\ j - 1 <= n /\ j - 1 <= m /\ j - 1 < j
    BY <2>1, <2>2
  <2>4. f[j] = Grown(d, f[j - 1]) /\ g[j] = Grown(d, g[j - 1])
    BY <1>0, <2>1, <2>2
  <2> QED
    BY <2>3, <2>4
<1>2. Differ = {}
  <2>1. Differ \subseteq Nat
    OBVIOUS
  <2> HIDE DEF Differ
  <2> QED
    BY <1>1, <2>1, NoneIsFirst
<1> QED
  BY <1>2

LEMMA FirstRoundsExist ==
  ASSUME NEW d, NEW ids, NEW n \in Nat
  PROVE  \E f : FirstRounds(d, ids, n, f)
<1> DEFINE Missing == {m \in Nat : ~\E f : FirstRounds(d, ids, m, f)}
<1>1. ASSUME NEW m \in Missing PROVE \E h \in Missing : h < m
  <2>1. m # 0
    <3>1. PICK f : f = [i \in 0..0 |-> ids]
      OBVIOUS
    <3>2. f = [i \in 0..0 |-> IF i = 0 THEN ids ELSE Grown(d, f[i - 1])]
      BY <3>1
    <3> QED
      BY <3>2 DEF FirstRounds
  <2>2. SUFFICES ASSUME m - 1 \notin Missing PROVE FALSE
    BY <2>1
  <2>3. PICK f : FirstRounds(d, ids, m - 1, f)
    BY <2>1, <2>2
  <2>4. PICK g : g = [i \in 0..m |-> IF i = m THEN Grown(d, f[m - 1]) ELSE f[i]]
    OBVIOUS
  <2>5. \A i \in 0..(m - 1) : f[i] = IF i = 0 THEN ids ELSE Grown(d, f[i - 1])
    BY <2>3 DEF FirstRounds
  <2>6. ASSUME NEW i \in 0..m
        PROVE  g[i] = IF i = 0 THEN ids ELSE Grown(d, g[i - 1])
    <3>1. CASE i = m
      <4>1. m - 1 \in 0..m /\ m - 1 # m
        BY <2>1
      <4>2. g[m - 1] = f[m - 1] /\ g[m] = Grown(d, f[m - 1])
        BY <2>4, <4>1
      <4> QED
        BY <2>1, <3>1, <4>2
    <3>2. CASE i # m
      <4>1. i \in 0..(m - 1) /\ g[i] = f[i]
        BY <2>4, <3>2
      <4>2. CASE i = 0
        BY <2>5, <4>1, <4>2
      <4>3. CASE i # 0
        <5>1. i - 1 \in 0..m /\ i - 1 # m
          BY <4>3
        <5>2. g[i - 1] = f[i - 1]
          BY <2>4, <5>1
        <5> QED
          BY <2>5, <4>1, <4>3, <5>2
      <4> QED
        BY <4>2, <4>3
    <3> QED
      BY <3>1, <3>2
  <2>7. g = [i \in 0..m |-> g[i]]
    BY <2>4
  <2>8. g = [i \in 0..m |-> IF i = 0 THEN ids ELSE Grown(d, g[i - 1])]
    BY <2>6, <2>7
  <2> QED
    BY <2>8 DEF FirstRounds
<1>2. Missing = {}
  <2>1. Missing \subseteq Nat
    OBVIOUS
  <2> HIDE DEF Missing
  <2> QED
    BY <1>1, <2>1, NoneIsFirst
<1> QED
  BY <1>2

LEMMA RoundsAreRounds ==
  ASSUME NEW d, NEW ids, NEW r, r = Rounds(d, ids)
  PROVE  r[0] = ids /\ \A n \in Nat : r[n + 1] = Grown(d, r[n])
<1> DEFINE First(n) == CHOOSE f : FirstRounds(d, ids, n, f)
           all == [n \in Nat |-> First(n)[n]]
<1>1. \A n \in Nat : FirstRounds(d, ids, n, First(n))
  BY FirstRoundsExist
<1>2. ASSUME NEW n \in Nat
      PROVE  all[n] = IF n = 0 THEN ids ELSE Grown(d, all[n - 1])
  <2>1. First(n)[n] = IF n = 0 THEN ids ELSE Grown(d, First(n)[n - 1])
    <3>1. FirstRounds(d, ids, n, First(n)) /\ n \in 0..n
      BY <1>1
    <3> HIDE DEF First
    <3> QED
      BY <3>1 DEF FirstRounds
  <2>2. n # 0 => First(n)[n - 1] = First(n - 1)[n - 1]
    <3> SUFFICES ASSUME n # 0 PROVE First(n)[n - 1] = First(n - 1)[n - 1]
      OBVIOUS
    <3>1. n - 1 \in Nat /\ n - 1 <= n /\ n - 1 <= n - 1
      OBVIOUS
    <3>2. FirstRounds(d, ids, n, First(n)) /\ FirstRounds(d, ids, n - 1, First(n - 1))
      BY <1>1, <3>1
    <3> HIDE DEF First
    <3> QED
      BY <3>1, <3>2, FirstRoundsAgree
  <2> HIDE DEF First
  <2> QED
    BY <2>1, <2>2
<1>3. all = [n \in Nat |-> IF n = 0 THEN ids ELSE Grown(d, all[n - 1])]
  <2>1. all = [n \in Nat |-> all[n]]
    OBVIOUS
  <2> HIDE DEF all
  <2> QED
    BY <1>2, <2>1
<1>4. r = [n \in Nat |-> IF n = 0 THEN ids ELSE Grown(d, r[n - 1])]
  <2> HIDE DEF all
  <2> QED
    BY <1>3, Zenon DEF Rounds
<1>5. \A n \in Nat : r[n] = IF n = 0 THEN ids ELSE Grown(d, r[n - 1])
  BY <1>4
<1>6. ASSUME NEW n \in Nat PROVE r[n + 1] = Grown(d, r[n])
  <2>1. n + 1 \in Nat /\ n + 1 # 0 /\ (n + 1) - 1 = n
    OBVIOUS
  <2> QED
    BY <1>5, <2>1
<1> QED
  BY <1>5, <1>6

\* The closure has the claims that have evidence among what it starts from.
LEMMA ClosureFinds ==
  ASSUME NEW d, IsFiniteSet(d.live), NEW ids, NEW k \in 1..Turns, Claim(k) \in d.live,
         d.evidence[k] \cap ids # {}
  PROVE  Claim(k) \in ClosureOf(d, ids)
<1>1. PICK r : r = Rounds(d, ids)
  OBVIOUS
<1>2. r[0] = ids /\ \A n \in Nat : r[n + 1] = Grown(d, r[n])
  BY <1>1, RoundsAreRounds
<1> DEFINE most == Cardinality(d.live)
           last == CHOOSE n \in 0..most : n = most \/ r[n + 1] = r[n]
<1>3. ClosureOf(d, ids) = r[last]
  BY <1>1, Zenon DEF ClosureOf, Rounds
<1>4. most \in Nat /\ most # 0
  <2>1. most \in Nat
    BY FS_CardinalityType
  <2>2. most = 0 <=> d.live = {}
    BY FS_EmptySet
  <2> QED
    BY <2>1, <2>2
<1>5. last \in 0..most /\ (last = most \/ r[last + 1] = r[last])
  <2>1. \E n \in 0..most : n = most \/ r[n + 1] = r[n]
    <3> HIDE DEF most
    <3>1. most \in 0..most
      BY <1>4
    <3> QED
      BY <3>1
  <2> HIDE DEF most
  <2> QED
    BY <2>1, Zenon
<1>6. Claim(k) \in Grown(d, ids)
  <2>1. k \in {j \in 1..Turns : Claim(j) \in d.live /\
                 (Claim(j) \in ids \/ d.evidence[j] \cap ids # {})}
    OBVIOUS
  <2> QED
    BY <2>1, Zenon DEF Grown
<1>7. \A n \in Nat : r[n] \subseteq r[n + 1]
  <2>1. \A found : found \subseteq Grown(d, found)
    BY Zenon DEF Grown
  <2> QED
    BY <1>2, <2>1
<1>8. \A n \in Nat : n # 0 => Claim(k) \in r[n]
  <2> DEFINE Lacking == {n \in Nat : n # 0 /\ Claim(k) \notin r[n]}
  <2>1. ASSUME NEW n \in Lacking PROVE \E h \in Lacking : h < n
    <3>1. r[1] = Grown(d, ids)
      <4>1. 0 \in Nat /\ 0 + 1 = 1
        OBVIOUS
      <4> QED
        BY <1>2, <4>1
    <3>2. n # 1
      BY <1>6, <2>1, <3>1
    <3>3. n - 1 \in Nat /\ n - 1 # 0 /\ (n - 1) + 1 = n /\ n - 1 < n
      BY <3>2
    <3>4. r[n - 1] \subseteq r[n]
      BY <1>7, <3>3
    <3> QED
      BY <3>3, <3>4
  <2>2. Lacking \subseteq Nat
    OBVIOUS
  <2> HIDE DEF Lacking
  <2>3. Lacking = {}
    BY <2>1, <2>2, NoneIsFirst
  <2> QED
    BY <2>3 DEF Lacking
<1>9. last \in Nat
  <2> HIDE DEF last, most
  <2> QED
    BY <1>4, <1>5
<1>10. CASE last = 0
  <2>1. r[last + 1] = r[last]
    <3> HIDE DEF last, most
    <3> QED
      BY <1>4, <1>5, <1>10
  <2>2. r[0 + 1] = Grown(d, ids)
    <3>1. 0 \in Nat
      OBVIOUS
    <3> QED
      BY <1>2, <3>1
  <2> HIDE DEF last, most
  <2> QED
    BY <1>3, <1>6, <1>10, <2>1, <2>2
<1>11. CASE last # 0
  <2> HIDE DEF last, most
  <2> QED
    BY <1>3, <1>8, <1>9, <1>11
<1> QED
  BY <1>10, <1>11

\* The tables of claims and of what they rest on.
Resting == {"prompt", "answer", "source"}
ClaimTables == Resting \cup {"claim"}

IsStore(d) ==
  /\ IsDatabase(d)
  /\ d.evidence = [k \in 1..Turns |-> d.evidence[k]]
  /\ \A p \in d.proposals : p.output[1] = "revision"
  /\ IsFiniteSet(d.live)

\* No claim is without evidence, and the evidence is there.
IsSupported(d) ==
  \A k \in 1..Turns :
    /\ \A x \in d.evidence[k] : x \in d.live /\ x[1] \in Resting
    /\ Claim(k) \in d.live => d.evidence[k] # {}

\* In e these are gone from d; no other claim is, nor anything claims rest on.
Takes(d, gone, e) ==
  /\ \A x : x[1] \in ClaimTables => (x \in e.live <=> x \in d.live /\ x \notin gone)
  /\ \A k \in 1..Turns : /\ e.evidence[k] \in {{}, d.evidence[k]}
                         /\ Claim(k) \in e.live => e.evidence[k] = d.evidence[k]

LEMMA Tables ==
  /\ \A k : Claim(k)[1] = "claim" /\ Prompt(k)[1] = "prompt" /\ Answer(k)[1] = "answer"
            /\ Run(k)[1] = "run" /\ File(k)[1] = "file"
  /\ Source[1] = "source"
  /\ \A t : Page(t)[1] = "topic"
  /\ \A t, n : Revision(t, n)[1] = "revision"
BY DEF Claim, Prompt, Answer, Run, File, Source, Page, Revision

LEMMA TakesTwice ==
  ASSUME NEW d, NEW e, NEW f, NEW gone, NEW more, Takes(d, gone, e), Takes(e, more, f)
  PROVE  Takes(d, gone \cup more, f)
<1>1. ASSUME NEW x, x[1] \in ClaimTables
      PROVE  x \in f.live <=> x \in d.live /\ x \notin gone \cup more
  BY <1>1 DEF Takes
<1>2. ASSUME NEW k \in 1..Turns
      PROVE  /\ f.evidence[k] \in {{}, d.evidence[k]}
             /\ Claim(k) \in f.live => f.evidence[k] = d.evidence[k]
  <2>1. Claim(k) \in f.live => Claim(k) \in e.live
    BY Tables DEF Takes, ClaimTables
  <2> QED
    BY <2>1 DEF Takes
<1> QED
  BY <1>1, <1>2 DEF Takes

\* What goes with what is gone.
LEMMA CascadedFacts ==
  ASSUME NEW d, IsStore(d), NEW e, e = Cascaded(d)
  PROVE  IsStore(e) /\ Takes(d, {}, e)
<1> DEFINE live == {x \in d.live :
                      /\ x[1] = "run" => Prompt(x[2]) \in d.live
                      /\ x[1] = "revision" => Page(x[2]) \in d.live
                      /\ x[1] = "file" => Source \in d.live}
           evidence == [k \in 1..Turns |-> IF Claim(k) \in live THEN d.evidence[k] ELSE {}]
           home == [k \in 1..Turns |-> IF Claim(k) \in live THEN d.home[k] ELSE NoTopic]
           bodies == [x \in In("revision", live) |-> d.written[x]]
           active == [t \in Topics |-> IF Page(t) \in live THEN d.active[t] ELSE 0]
           uses == [k \in 1..Turns |-> IF Run(k) \in live THEN d.uses[k] ELSE {}]
           proposals == {p \in d.proposals : Page(p.topic) \in live}
           confirm == {t \in d.confirm : Page(t) \in live}
           drafts == {t \in d.drafts : Page(t) \in live}
<1>1. e = [d EXCEPT !.live = live, !.evidence = evidence, !.home = home, !.written = bodies,
                    !.active = active, !.confirm = confirm, !.drafts = drafts,
                    !.uses = uses, !.proposals = proposals]
  BY Zenon DEF Cascaded
<1>2. /\ live \subseteq d.live
      /\ \A x \in d.live : x[1] \in ClaimTables => x \in live
  BY DEF ClaimTables, Resting
<1>3. /\ evidence = [k \in 1..Turns |-> evidence[k]]
      /\ \A k \in 1..Turns : evidence[k] = IF Claim(k) \in live THEN d.evidence[k] ELSE {}
  OBVIOUS
<1>4. home \in [1..Turns -> Topics \cup {NoTopic}]
  BY DEF IsStore, IsDatabase
<1>5. proposals \subseteq d.proposals
  OBVIOUS
<1>6. IsFiniteSet(live)
  <2>1. IsFiniteSet(d.live)
    BY DEF IsStore
  <2> HIDE DEF live
  <2> QED
    BY <1>2, <2>1, FS_Subset
<1> HIDE DEF live, evidence, home, bodies, active, uses, proposals, confirm, drafts
<1>7. /\ e = [f \in DatabaseFields |-> e[f]]
      /\ e.live = live /\ e.evidence = evidence /\ e.home = home /\ e.proposals = proposals
  BY <1>1 DEF IsStore, IsDatabase, DatabaseFields
<1>8. IsStore(e)
  BY <1>3, <1>4, <1>5, <1>6, <1>7 DEF IsStore, IsDatabase
<1>9. Takes(d, {}, e)
  BY <1>2, <1>3, <1>7 DEF Takes
<1> QED
  BY <1>8, <1>9

LEMMA WithoutFacts ==
  ASSUME NEW d, IsStore(d), NEW ids, NEW e, e = Without(d, ids)
  PROVE  IsStore(e) /\ Takes(d, ids, e)
<1>1. PICK f : f = [d EXCEPT !.live = @ \ ids]
  OBVIOUS
<1>2. /\ f = [n \in DatabaseFields |-> f[n]]
      /\ f.live = d.live \ ids /\ f.evidence = d.evidence /\ f.home = d.home
      /\ f.proposals = d.proposals
  BY <1>1 DEF IsStore, IsDatabase, DatabaseFields
<1>3. IsFiniteSet(f.live)
  <2>1. IsFiniteSet(d.live) /\ f.live \in SUBSET d.live
    BY <1>2 DEF IsStore
  <2> QED
    BY <2>1, FS_Subset
<1>4. IsStore(f)
  BY <1>2, <1>3 DEF IsStore, IsDatabase
<1>5. Takes(d, ids, f)
  BY <1>2 DEF Takes
<1>6. e = Cascaded(f)
  BY <1>1, Zenon DEF Without
<1>7. IsStore(e) /\ Takes(f, {}, e)
  BY <1>4, <1>6, CascadedFacts
<1>8. Takes(d, ids \cup {}, e)
  BY <1>5, <1>7, TakesTwice
<1> QED
  BY <1>7, <1>8 DEF Takes

\* None of these is a claim or what one rests on.
Aside(ids) == \A x \in ids : x[1] \notin ClaimTables

LEMMA TakesNothing ==
  ASSUME NEW d, NEW e, NEW ids, Takes(d, ids, e), Aside(ids)
  PROVE  Takes(d, {}, e)
BY DEF Takes, Aside

LEMMA PurgedFacts ==
  ASSUME NEW d, IsStore(d), NEW ids, NEW e, e = Purged(d, ids)
  PROVE  IsStore(e) /\ Takes(d, {}, e)
<1> DEFINE hit == ProposalsAbout(d, ids)
           rest == d.proposals \ hit
           named == {s \in d.drafts : Page(s) \in PagesNamedBy(hit) \ PagesNamedBy(rest)}
           pages == {Page(t) : t \in named}
           home == [k \in 1..Turns |-> IF Page(d.home[k]) \in pages THEN NoTopic ELSE d.home[k]]
           gone == CandidatesOf(hit) \cup pages
<1>1. PICK f : f = [d EXCEPT !.proposals = rest, !.home = home]
  OBVIOUS
<1>2. e = Without(f, gone)
  BY <1>1, Zenon DEF Purged
<1>3. home \in [1..Turns -> Topics \cup {NoTopic}]
  <2> HIDE DEF pages
  <2> QED
    BY DEF IsStore, IsDatabase
<1>4. Aside(gone)
  <2>1. \A x \in CandidatesOf(hit) : x[1] = "revision"
    BY DEF CandidatesOf, ProposalsAbout, IsStore
  <2>2. \A x \in pages : x[1] = "topic"
    <3> HIDE DEF named
    <3> QED
      BY Tables
  <2> HIDE DEF hit, pages
  <2> QED
    BY <2>1, <2>2 DEF Aside, ClaimTables, Resting
<1>5. rest \subseteq d.proposals
  OBVIOUS
<1> HIDE DEF hit, rest, named, pages, home, gone
<1>6. /\ f = [n \in DatabaseFields |-> f[n]]
      /\ f.live = d.live /\ f.evidence = d.evidence /\ f.home = home
      /\ f.proposals = rest
  BY <1>1 DEF IsStore, IsDatabase, DatabaseFields
<1>7. IsStore(f)
  BY <1>3, <1>5, <1>6 DEF IsStore, IsDatabase
<1>8. IsStore(e) /\ Takes(f, gone, e)
  BY <1>2, <1>7, WithoutFacts
<1>9. Takes(f, {}, e)
  BY <1>4, <1>8, TakesNothing
<1> QED
  BY <1>6, <1>8, <1>9 DEF Takes

LEMMA RepairedFacts ==
  ASSUME NEW d, IsStore(d), NEW pages, NEW e, e = Repaired(d, pages)
  PROVE  IsStore(e) /\ Takes(d, {}, e)
<1> DEFINE ts == {t \in Topics : Page(t) \in pages \cap d.live}
           fallen == {t \in ts : ActiveOf(d, t) \notin d.live}
           replaced == {t \in fallen : EligibleFor(d, t) # {}}
           supported(t) == {k \in ClaimsAt(d, t) : d.evidence[k] # {}}
           rebuilt == {t \in fallen \ replaced : supported(t) # {}}
           gone == {Page(t) : t \in (fallen \ replaced) \ rebuilt}
           new == {Revision(t, d.next) : t \in rebuilt}
           active(t) == IF t \in replaced THEN Latest(EligibleFor(d, t))
                        ELSE IF t \in rebuilt THEN d.next ELSE d.active[t]
           cites(t) == UNION {{Claim(k)} \cup d.evidence[k] : k \in supported(t)}
           bodies == [x \in new |-> [author |-> "system", cites |-> cites(x[2])]] @@ d.written
           actives == [t \in Topics |-> active(t)]
           home == [k \in 1..Turns |-> IF Page(d.home[k]) \in gone THEN NoTopic ELSE d.home[k]]
<1>1. PICK f : f = [d EXCEPT !.live = @ \cup new, !.written = bodies, !.active = actives,
                             !.home = home, !.next = @ + 1]
  OBVIOUS
<1>2. e = Without(f, gone)
  BY <1>1, Zenon DEF Repaired
<1>3. home \in [1..Turns -> Topics \cup {NoTopic}]
  <2> HIDE DEF gone
  <2> QED
    BY DEF IsStore, IsDatabase
<1>4. Aside(gone)
  <2>1. \A x \in gone : \E t : x = Page(t)
    <3> HIDE DEF fallen, replaced, rebuilt
    <3> QED
      OBVIOUS
  <2> HIDE DEF gone
  <2> QED
    BY <2>1, Tables DEF Aside, ClaimTables, Resting
<1>5. rebuilt \subseteq {t \in Topics : Page(t) \in d.live}
  <2> HIDE DEF supported
  <2> QED
    OBVIOUS
<1>6. Aside(new) /\ IsFiniteSet(new)
  <2> HIDE DEF rebuilt
  <2>1. \A x \in new : \E t : x = Revision(t, d.next)
    OBVIOUS
  <2>2. Aside(new)
    <3> HIDE DEF new
    <3> QED
      BY <2>1, Tables DEF Aside, ClaimTables, Resting
  <2> DEFINE image == [x \in d.live |-> Revision(x[2], d.next)]
             images == {image[x] : x \in d.live}
  <2>3. IsFiniteSet(images)
    <3>1. IsFiniteSet(d.live) /\ d.live \subseteq DOMAIN image
      BY DEF IsStore
    <3> HIDE DEF image
    <3> QED
      BY <3>1, ImageIsFinite
  <2>4. new \subseteq images
    <3> SUFFICES ASSUME NEW t \in rebuilt PROVE Revision(t, d.next) \in images
      OBVIOUS
    <3>1. Page(t) \in d.live /\ Page(t)[2] = t
      BY <1>5 DEF Page
    <3>2. image[Page(t)] = Revision(t, d.next)
      BY <3>1
    <3> HIDE DEF image
    <3> QED
      BY <3>1, <3>2
  <2> HIDE DEF images, new
  <2>5. IsFiniteSet(new)
    BY <2>3, <2>4, FS_Subset
  <2> QED
    BY <2>2, <2>5
<1> HIDE DEF ts, fallen, replaced, supported, rebuilt, gone, new, active, cites, bodies,
             actives, home
<1>7. /\ f = [n \in DatabaseFields |-> f[n]]
      /\ f.live = d.live \cup new /\ f.evidence = d.evidence /\ f.home = home
      /\ f.proposals = d.proposals
  BY <1>1 DEF IsStore, IsDatabase, DatabaseFields
<1>8. IsFiniteSet(f.live)
  <2>1. IsFiniteSet(d.live)
    BY DEF IsStore
  <2> QED
    BY <1>6, <1>7, <2>1, FS_Union
<1>9. IsStore(f)
  BY <1>3, <1>7, <1>8 DEF IsStore, IsDatabase
<1>10. Takes(d, {}, f)
  BY <1>6, <1>7 DEF Takes, Aside
<1>11. IsStore(e) /\ Takes(f, gone, e)
  BY <1>2, <1>9, WithoutFacts
<1>12. Takes(f, {}, e)
  BY <1>4, <1>11, TakesNothing
<1>13. Takes(d, {} \cup {}, e)
  BY <1>10, <1>12, TakesTwice
<1> QED
  BY <1>11, <1>13 DEF Takes

LEMMA ScrubbedFacts ==
  ASSUME NEW d, IsStore(d), NEW ids, NEW e, e = Scrubbed(d, ids)
  PROVE  IsStore(e) /\ Takes(d, {}, e)
<1> DEFINE edges == {[g EXCEPT !.evidence = @ \ ids] :
                       g \in {h \in d.edges : h.ends \cap ids = {} /\ ~(h.evidence \subseteq ids)}}
           uses == [k \in 1..Turns |-> IF d.uses[k] \cap ids = {} THEN d.uses[k] ELSE {}]
           mentions == {m \in d.mentions : m \cap ids = {}}
<1>1. e = [d EXCEPT !.edges = edges, !.uses = uses, !.mentions = mentions]
  BY Zenon DEF Scrubbed
<1> HIDE DEF edges, uses, mentions
<1>2. /\ e = [n \in DatabaseFields |-> e[n]]
      /\ e.live = d.live /\ e.evidence = d.evidence /\ e.home = d.home
      /\ e.proposals = d.proposals
  BY <1>1 DEF IsStore, IsDatabase, DatabaseFields
<1> QED
  BY <1>2 DEF IsStore, IsDatabase, Takes

\* From d to e this evidence is gone, and the claims that had no other.
Erases(d, direct, e) ==
  /\ \A x : x[1] \in Resting => (x \in e.live <=> x \in d.live /\ x \notin direct)
  /\ \A k \in 1..Turns :
       /\ Claim(k) \in e.live <=> Claim(k) \in d.live /\ d.evidence[k] \ direct # {}
       /\ e.evidence[k] \in {{}, d.evidence[k] \ direct}
       /\ Claim(k) \in e.live => e.evidence[k] = d.evidence[k] \ direct

LEMMA ErasedFacts ==
  ASSUME NEW d, IsStore(d), IsSupported(d), NEW direct, NEW runs,
         \A x \in direct : x[1] # "claim", Aside(runs),
         NEW e, e = Erased(d, direct, runs)
  PROVE  IsStore(e) /\ Erases(d, direct, e)
<1> DEFINE found == ClosureOf(d, direct)
           claims == UnsupportedClaims(d, found, direct)
           evidence == [k \in 1..Turns |-> d.evidence[k] \ direct]
<1>1. PICK base : base = [d EXCEPT !.evidence = evidence]
  OBVIOUS
<1> DEFINE key == direct \cup claims \cup In("revision", found)
           hit == ProposalsAbout(base, key)
           revisions == In("revision", found) \cup CandidatesOf(hit)
           taken == claims \cup revisions
<1>2. PICK purged : purged = Purged(base, key)
  OBVIOUS
<1>3. PICK left : left = Without(purged, taken)
  OBVIOUS
<1>4. PICK repaired, pages : repaired = Repaired(left, pages)
                             /\ e = Without(Scrubbed(repaired, direct \cup claims \cup revisions
                                              \cup PagesGone(d, repaired)), direct \cup runs)
  <2> DEFINE named == In("topic", found) \cup PagesNamedBy(hit)
             affected == named \cup ParentsOf(purged, named)
             mended == Repaired(left, affected)
  <2>1. e = Without(Scrubbed(mended, direct \cup claims \cup revisions
                              \cup PagesGone(d, mended)), direct \cup runs)
    BY <1>1, <1>2, <1>3, Zenon DEF Erased
  <2> HIDE DEF affected, revisions, claims
  <2> QED
    BY <2>1
<1>5. PICK scrubbed : scrubbed = Scrubbed(repaired, direct \cup claims \cup revisions
                                   \cup PagesGone(d, repaired))
  OBVIOUS
<1>6. e = Without(scrubbed, direct \cup runs)
  BY <1>4, <1>5
<1>7. \A k \in 1..Turns : evidence[k] = d.evidence[k] \ direct
  OBVIOUS
<1>8. evidence = [k \in 1..Turns |-> evidence[k]]
  OBVIOUS
<1>9. \A k \in 1..Turns : Claim(k) \in d.live =>
        (Claim(k) \in claims <=> d.evidence[k] \subseteq direct)
  <2> SUFFICES ASSUME NEW k \in 1..Turns, Claim(k) \in d.live
               PROVE  Claim(k) \in claims <=> d.evidence[k] \subseteq direct
    OBVIOUS
  <2>1. Claim(k)[1] = "claim" /\ Claim(k)[2] = k
    BY DEF Claim
  <2>2. Claim(k) \in claims <=> Claim(k) \in found /\ d.evidence[k] \subseteq direct
    <3> HIDE DEF found
    <3> QED
      BY <2>1 DEF UnsupportedClaims, In
  <2>3. d.evidence[k] \subseteq direct => d.evidence[k] \cap direct # {}
    BY DEF IsSupported
  <2>4. d.evidence[k] \cap direct # {} => Claim(k) \in found
    <3>1. IsFiniteSet(d.live)
      BY DEF IsStore
    <3> QED
      BY <3>1, ClosureFinds
  <2> HIDE DEF found, claims
  <2> QED
    BY <2>2, <2>3, <2>4
<1>10. \A x \in claims : x[1] = "claim"
  <2> HIDE DEF found
  <2> QED
    BY DEF UnsupportedClaims, In
<1> HIDE DEF found, claims, evidence
<1>11. /\ base = [n \in DatabaseFields |-> base[n]]
       /\ base.live = d.live /\ base.evidence = evidence /\ base.home = d.home
       /\ base.proposals = d.proposals
  BY <1>1 DEF IsStore, IsDatabase, DatabaseFields
<1>12. IsStore(base)
  BY <1>8, <1>11 DEF IsStore, IsDatabase
<1>13. Aside(revisions)
  <2>1. \A x \in CandidatesOf(hit) : x[1] = "revision"
    BY <1>12 DEF CandidatesOf, ProposalsAbout, IsStore
  <2>2. \A x \in In("revision", found) : x[1] = "revision"
    BY DEF In
  <2> HIDE DEF hit
  <2> QED
    BY <2>1, <2>2 DEF Aside, ClaimTables, Resting
<1> HIDE DEF key, hit, revisions
<1>14. IsStore(purged) /\ Takes(base, {}, purged)
  BY <1>2, <1>12, PurgedFacts
<1>15. IsStore(left) /\ Takes(purged, taken, left)
  <2> HIDE DEF taken
  <2> QED
    BY <1>3, <1>14, WithoutFacts
<1>16. IsStore(repaired) /\ Takes(left, {}, repaired)
  BY <1>4, <1>15, RepairedFacts
<1>17. IsStore(scrubbed) /\ Takes(repaired, {}, scrubbed)
  BY <1>5, <1>16, ScrubbedFacts
<1>18. IsStore(e) /\ Takes(scrubbed, direct \cup runs, e)
  BY <1>6, <1>17, WithoutFacts
<1>19. Takes(left, {} \cup {}, scrubbed)
  BY <1>16, <1>17, TakesTwice
<1>20. Takes(base, {} \cup taken, left)
  <2> HIDE DEF taken
  <2> QED
    BY <1>14, <1>15, TakesTwice
<1>21. PICK gone : gone = ({} \cup taken) \cup (({} \cup {}) \cup (direct \cup runs))
  OBVIOUS
<1>22. Takes(base, gone, e)
  <2> HIDE DEF taken
  <2>1. Takes(left, ({} \cup {}) \cup (direct \cup runs), e)
    BY <1>18, <1>19, TakesTwice
  <2> QED
    BY <1>20, <1>21, <2>1, TakesTwice
<1>23. \A x : x[1] \in ClaimTables => (x \in gone <=> x \in claims \/ x \in direct)
  BY <1>13, <1>21 DEF Aside
<1>24. ASSUME NEW x, x[1] \in Resting
       PROVE  x \in e.live <=> x \in d.live /\ x \notin direct
  <2>1. x[1] \in ClaimTables /\ x \notin claims
    BY <1>10, <1>24 DEF ClaimTables, Resting
  <2> QED
    BY <1>11, <1>22, <1>23, <2>1 DEF Takes
<1>25. ASSUME NEW k \in 1..Turns
       PROVE  /\ Claim(k) \in e.live <=> Claim(k) \in d.live /\ d.evidence[k] \ direct # {}
              /\ e.evidence[k] \in {{}, d.evidence[k] \ direct}
              /\ Claim(k) \in e.live => e.evidence[k] = d.evidence[k] \ direct
  <2>1. Claim(k)[1] \in ClaimTables /\ Claim(k) \notin direct
    BY Tables DEF ClaimTables
  <2>2. Claim(k) \in e.live <=> Claim(k) \in d.live /\ Claim(k) \notin claims
    BY <1>11, <1>22, <1>23, <2>1 DEF Takes
  <2>3. base.evidence[k] = d.evidence[k] \ direct
    BY <1>7, <1>11
  <2>4. /\ e.evidence[k] \in {{}, base.evidence[k]}
        /\ Claim(k) \in e.live => e.evidence[k] = base.evidence[k]
    BY <1>22 DEF Takes
  <2> QED
    BY <1>9, <2>2, <2>3, <2>4
<1> QED
  BY <1>18, <1>24, <1>25 DEF Erases

\* What else is taken away leaves the claims supported.
LEMMA ErasingIsSound ==
  ASSUME NEW d, NEW direct, NEW e, IsSupported(d), Erases(d, direct, e)
  PROVE  IsSupported(e)
<1> SUFFICES ASSUME NEW k \in 1..Turns
             PROVE  /\ \A x \in e.evidence[k] : x \in e.live /\ x[1] \in Resting
                    /\ Claim(k) \in e.live => e.evidence[k] # {}
  BY DEF IsSupported
<1>1. \A x \in e.evidence[k] : x \in d.evidence[k] /\ x \notin direct
  BY DEF Erases
<1> QED
  BY <1>1 DEF Erases, IsSupported

LEMMA TakingIsErasing ==
  ASSUME NEW d, NEW e, NEW gone, IsSupported(d), Takes(d, gone, e), Aside(gone)
  PROVE  Erases(d, {}, e)
<1>1. ASSUME NEW x, x[1] \in Resting
      PROVE  x \in e.live <=> x \in d.live /\ x \notin {}
  BY <1>1 DEF Takes, Aside, ClaimTables
<1>2. ASSUME NEW k \in 1..Turns
      PROVE  /\ Claim(k) \in e.live <=> Claim(k) \in d.live /\ d.evidence[k] \ {} # {}
             /\ e.evidence[k] \in {{}, d.evidence[k] \ {}}
             /\ Claim(k) \in e.live => e.evidence[k] = d.evidence[k] \ {}
  <2>1. Claim(k)[1] \in ClaimTables
    BY Tables DEF ClaimTables
  <2>2. Claim(k) \in e.live <=> Claim(k) \in d.live
    BY <2>1 DEF Takes, Aside
  <2>3. d.evidence[k] \ {} = d.evidence[k]
    OBVIOUS
  <2> QED
    BY <2>2, <2>3 DEF Takes, IsSupported
<1> QED
  BY <1>1, <1>2 DEF Erases

\* Since s the evidence that is left has decided about all claims but one.
DecidedSince(s, d, x) ==
  \A k \in 1..Turns :
    Claim(k) \in s.live /\ Claim(k) # x =>
      /\ Claim(k) \in d.live <=> s.evidence[k] \cap d.live # {}
      /\ Claim(k) \in d.live => d.evidence[k] = s.evidence[k] \cap d.live

LEMMA ErasingDecides ==
  ASSUME NEW s, NEW d, NEW x, NEW direct, NEW e, IsSupported(s), IsSupported(d),
         DecidedSince(s, d, x), Erases(d, direct, e)
  PROVE  DecidedSince(s, e, x)
<1> SUFFICES ASSUME NEW k \in 1..Turns, Claim(k) \in s.live, Claim(k) # x
             PROVE  /\ Claim(k) \in e.live <=> s.evidence[k] \cap e.live # {}
                    /\ Claim(k) \in e.live => e.evidence[k] = s.evidence[k] \cap e.live
  BY DEF DecidedSince
<1>1. /\ Claim(k) \in d.live <=> s.evidence[k] \cap d.live # {}
      /\ Claim(k) \in d.live => d.evidence[k] = s.evidence[k] \cap d.live
  BY DEF DecidedSince
<1>2. s.evidence[k] \cap e.live = (s.evidence[k] \cap d.live) \ direct
  <2>1. \A y \in s.evidence[k] : y[1] \in Resting
    BY DEF IsSupported
  <2> QED
    BY <2>1 DEF Erases
<1>3. CASE Claim(k) \in d.live
  BY <1>1, <1>2, <1>3 DEF Erases
<1>4. CASE Claim(k) \notin d.live
  <2>1. s.evidence[k] \cap e.live = {} /\ Claim(k) \notin e.live
    BY <1>1, <1>2, <1>4 DEF Erases
  <2> QED
    BY <2>1
<1> QED
  BY <1>3, <1>4

LEMMA ClaimGoes ==
  ASSUME NEW d, NEW gone, NEW e, NEW x, IsSupported(d), Takes(d, gone, e), x[1] = "claim",
         \A y \in gone : y[1] \in ClaimTables => y = x
  PROVE  IsSupported(e) /\ DecidedSince(d, e, x)
<1>1. \A y : y[1] \in Resting => (y \in e.live <=> y \in d.live)
  BY DEF Takes, ClaimTables, Resting
<1>2. \A k \in 1..Turns : Claim(k) \in e.live => Claim(k) \in d.live
  BY Tables DEF Takes, ClaimTables
<1>3. IsSupported(e)
  <2> SUFFICES ASSUME NEW k \in 1..Turns
               PROVE  /\ \A y \in e.evidence[k] : y \in e.live /\ y[1] \in Resting
                      /\ Claim(k) \in e.live => e.evidence[k] # {}
    BY DEF IsSupported
  <2>1. \A y \in e.evidence[k] : y \in d.evidence[k]
    BY DEF Takes
  <2>2. Claim(k) \in e.live => e.evidence[k] = d.evidence[k] /\ Claim(k) \in d.live
    BY <1>2 DEF Takes
  <2> QED
    BY <1>1, <2>1, <2>2 DEF IsSupported
<1>4. ASSUME NEW k \in 1..Turns, Claim(k) \in d.live, Claim(k) # x
      PROVE  /\ Claim(k) \in e.live <=> d.evidence[k] \cap e.live # {}
             /\ Claim(k) \in e.live => e.evidence[k] = d.evidence[k] \cap e.live
  <2>1. Claim(k)[1] \in ClaimTables /\ Claim(k) \notin gone
    BY <1>4, Tables DEF ClaimTables
  <2>2. Claim(k) \in e.live /\ e.evidence[k] = d.evidence[k]
    BY <1>4, <2>1 DEF Takes
  <2>3. d.evidence[k] \cap e.live = d.evidence[k]
    BY <1>1 DEF IsSupported
  <2>4. d.evidence[k] # {}
    BY <1>4 DEF IsSupported
  <2> QED
    BY <2>2, <2>3, <2>4
<1> QED
  BY <1>3, <1>4 DEF DecidedSince

\* A claim that is deleted takes revisions and pages along.
LEMMA DeleteClaimDecides ==
  ASSUME IsStore(db), IsSupported(db), NEW x, DeleteClaim(x)
  PROVE  IsStore(db') /\ IsSupported(db') /\ DecidedSince(db, db', x)
<1> DEFINE t == db.home[x[2]]
           hit == ProposalsAbout(db, {x})
           citing == {r \in In("revision", db.live) :
                        \/ x \in db.written[r].cites
                        \/ r[2] = t /\ \/ db.written[r].author # "user"
                                       \/ db.written[r].cites \cap db.evidence[x[2]] # {}}
           first == citing \cup CandidatesOf(hit)
           pages == {Page(r[2]) : r \in first} \cup PagesNamedBy(hit)
                      \cup (IF t = NoTopic THEN {} ELSE {Page(t)})
           affected == pages \cup ParentsOf(db, pages)
           revisions == first \cup {r \in In("revision", db.live) :
                          Page(r[2]) \in affected /\ db.written[r].author # "user"}
           gone == {x} \cup revisions
<1>1. PICK purged : purged = Purged(db, gone)
  OBVIOUS
<1>2. PICK left : left = Without(purged, gone)
  OBVIOUS
<1>3. PICK repaired : repaired = Repaired(left, affected)
  OBVIOUS
<1>4. /\ x[1] = "claim"
      /\ db' = Scrubbed(repaired, {x} \cup revisions \cup PagesGone(db, repaired))
  BY <1>1, <1>2, <1>3, Zenon DEF DeleteClaim
<1>5. PICK taken : taken = {x} \cup revisions \cup PagesGone(db, repaired)
  OBVIOUS
<1>6. \A y \in revisions : y[1] = "revision"
  <2>1. \A y \in citing : y[1] = "revision"
    BY DEF In
  <2>2. \A y \in CandidatesOf(hit) : y[1] = "revision"
    BY DEF CandidatesOf, ProposalsAbout, IsStore
  <2>3. \A y \in revisions : \/ y \in citing \/ y \in CandidatesOf(hit)
                               \/ y \in In("revision", db.live)
    <3> HIDE DEF citing, hit, affected
    <3> QED
      OBVIOUS
  <2>4. \A y \in In("revision", db.live) : y[1] = "revision"
    BY DEF In
  <2> HIDE DEF citing, hit, revisions
  <2> QED
    BY <2>1, <2>2, <2>3, <2>4
<1> HIDE DEF revisions, affected
<1>7. \A y \in gone : y[1] \in ClaimTables => y = x
  BY <1>6 DEF ClaimTables, Resting
<1> HIDE DEF gone
<1>8. IsStore(purged) /\ Takes(db, {}, purged)
  BY <1>1, PurgedFacts
<1>9. IsStore(left) /\ Takes(purged, gone, left)
  BY <1>2, <1>8, WithoutFacts
<1>10. IsStore(repaired) /\ Takes(left, {}, repaired)
  BY <1>3, <1>9, RepairedFacts
<1>11. PICK e : e = db'
  OBVIOUS
<1>12. IsStore(e) /\ Takes(repaired, {}, e)
  BY <1>4, <1>5, <1>10, <1>11, ScrubbedFacts
<1>13. Takes(left, {} \cup {}, e)
  BY <1>10, <1>12, TakesTwice
<1>14. Takes(db, {} \cup gone, left)
  BY <1>8, <1>9, TakesTwice
<1>15. Takes(db, ({} \cup gone) \cup ({} \cup {}), e)
  BY <1>13, <1>14, TakesTwice
<1>16. Takes(db, gone, e)
  BY <1>15 DEF Takes
<1>17. IsSupported(e) /\ DecidedSince(db, e, x)
  BY <1>4, <1>7, <1>16, ClaimGoes
<1> QED
  BY <1>11, <1>12, <1>17

\* If no claim goes, nor what one rests on, nothing is to be decided.
LEMMA NothingGoes ==
  ASSUME NEW d, NEW e, NEW x, IsSupported(d), Takes(d, {}, e)
  PROVE  IsSupported(e) /\ DecidedSince(d, e, x)
<1>1. Erases(d, {}, e)
  BY TakingIsErasing DEF Aside
<1>2. DecidedSince(d, d, x)
  BY DEF DecidedSince, IsSupported
<1> QED
  BY <1>1, <1>2, ErasingIsSound, ErasingDecides

LEMMA DeleteTopicDecides ==
  ASSUME IsStore(db), IsSupported(db), NEW x, DeleteTopic(x)
  PROVE  IsStore(db') /\ IsSupported(db') /\ DecidedSince(db, db', x)
<1> DEFINE shards == {Page(s) : s \in {r \in Topics : x \in ParentsOf(db, {Page(r)})}}
           pages == {x} \cup shards
           revisions == {r \in In("revision", db.live) : Page(r[2]) \in pages}
           hit == ProposalsAbout(db, pages \cup revisions)
<1>1. PICK purged : purged = Purged(db, pages \cup revisions)
  OBVIOUS
<1> DEFINE home == [k \in 1..Turns |->
                      IF Page(purged.home[k]) \in pages THEN NoTopic ELSE purged.home[k]]
<1>2. PICK moved : moved = [purged EXCEPT !.home = home]
  OBVIOUS
<1>3. PICK left : left = Without(moved, pages)
  OBVIOUS
<1>4. PICK repaired : repaired = Repaired(left, PagesNamedBy(hit) \ pages)
  OBVIOUS
<1>5. /\ x[1] = "topic"
      /\ db' = Scrubbed(repaired, pages \cup revisions \cup CandidatesOf(hit)
                                    \cup PagesGone(db, repaired))
  BY <1>1, <1>2, <1>3, <1>4, Zenon DEF DeleteTopic
<1>6. Aside(pages)
  <2>1. \A y \in shards : \E s : y = Page(s)
    OBVIOUS
  <2> HIDE DEF shards
  <2> QED
    BY <1>5, <2>1, Tables DEF Aside, ClaimTables, Resting
<1> HIDE DEF pages, revisions, hit
<1>7. IsStore(purged) /\ Takes(db, {}, purged)
  BY <1>1, PurgedFacts
<1>8. home \in [1..Turns -> Topics \cup {NoTopic}]
  BY <1>7 DEF IsStore, IsDatabase
<1> HIDE DEF home
<1>9. /\ moved = [n \in DatabaseFields |-> moved[n]]
      /\ moved.live = purged.live /\ moved.evidence = purged.evidence /\ moved.home = home
      /\ moved.proposals = purged.proposals
  BY <1>2, <1>7 DEF IsStore, IsDatabase, DatabaseFields
<1>10. IsStore(moved)
  BY <1>7, <1>8, <1>9 DEF IsStore, IsDatabase
<1>11. Takes(db, {}, moved)
  BY <1>7, <1>9 DEF Takes
<1>12. IsStore(left) /\ Takes(moved, pages, left)
  BY <1>3, <1>10, WithoutFacts
<1>13. IsStore(repaired) /\ Takes(left, {}, repaired)
  BY <1>4, <1>12, RepairedFacts
<1>14. PICK e : e = db'
  OBVIOUS
<1>15. PICK taken : taken = pages \cup revisions \cup CandidatesOf(hit)
                            \cup PagesGone(db, repaired)
  OBVIOUS
<1>16. IsStore(e) /\ Takes(repaired, {}, e)
  BY <1>5, <1>13, <1>14, <1>15, ScrubbedFacts
<1>17. Takes(left, {} \cup {}, e)
  BY <1>13, <1>16, TakesTwice
<1>18. Takes(db, {} \cup pages, left)
  BY <1>11, <1>12, TakesTwice
<1>19. Takes(db, ({} \cup pages) \cup ({} \cup {}), e)
  BY <1>17, <1>18, TakesTwice
<1>20. Takes(db, {}, e)
  BY <1>6, <1>19 DEF Takes, Aside
<1>21. IsSupported(e) /\ DecidedSince(db, e, x)
  BY <1>20, NothingGoes
<1> QED
  BY <1>14, <1>16, <1>21

\* While memory is built, no claim goes, nor what one rests on.
Builds(d, e) ==
  /\ Takes(d, {}, e)
  /\ \A x \in e.live : x[1] = "file" => x \in d.live

LEMMA BuildsTwice ==
  ASSUME NEW d, NEW e, NEW f, Builds(d, e), Builds(e, f)
  PROVE  Builds(d, f)
<1>1. Takes(d, {} \cup {}, f)
  BY TakesTwice DEF Builds
<1> QED
  BY <1>1 DEF Builds, Takes

LEMMA BuildingKeeps ==
  ASSUME NEW d, NEW e, NEW more, e.live = d.live \cup more, e.evidence = d.evidence,
         Aside(more), \A x \in more : x[1] # "file"
  PROVE  Builds(d, e)
BY DEF Builds, Takes, Aside

LEMMA MoreIsFinite ==
  ASSUME NEW d, IsStore(d), NEW x, NEW y
  PROVE  IsFiniteSet(d.live \cup {x, y})
<1>1. IsFiniteSet(d.live \cup {x})
  BY FS_AddElement DEF IsStore
<1>2. IsFiniteSet((d.live \cup {x}) \cup {y})
  BY <1>1, FS_AddElement
<1>3. (d.live \cup {x}) \cup {y} = d.live \cup {x, y}
  OBVIOUS
<1> QED
  BY <1>2, <1>3

LEMMA LinkedStore ==
  ASSUME NEW d, IsStore(d), NEW t, NEW from, NEW e, e = Linked(d, t, from)
  PROVE  IsStore(e) /\ e.live = d.live /\ e.evidence = d.evidence
<1>1. /\ IsDatabase(e) /\ e.live = d.live /\ e.proposals = d.proposals
  BY LinkedFacts DEF IsStore
<1>2. e.evidence = d.evidence
  BY DEF Linked, IsStore, IsDatabase, DatabaseFields
<1> QED
  BY <1>1, <1>2 DEF IsStore

LEMMA PublishedStore ==
  ASSUME NEW d, IsStore(d), NEW t, NEW cites, NEW e, e = Published(d, t, cites)
  PROVE  IsStore(e) /\ Builds(d, e)
<1> DEFINE both == {t, RootOf(t)}
           new == {Revision(s, d.next) : s \in both}
           more == new \cup {Page(s) : s \in both}
<1>1. PICK l : l = Linked(d, t, cites)
  OBVIOUS
<1>2. IsStore(l) /\ l.live = d.live /\ l.evidence = d.evidence
  BY <1>1, LinkedStore
<1> DEFINE bodies == [x \in new |-> [author |-> "model",
                                      cites |-> IF x[2] = t THEN cites ELSE {}]] @@ l.written
           active == [s \in Topics |-> IF s \in both THEN d.next ELSE l.active[s]]
           mentions == l.mentions \cup {{Page(s)} : s \in both}
           live == l.live \cup new \cup {Page(s) : s \in both}
<1>3. e = [l EXCEPT !.live = live, !.written = bodies, !.active = active,
                    !.mentions = mentions, !.next = @ + 1]
  BY <1>1, Zenon DEF Published
<1>4. /\ live = l.live \cup more
      /\ live = (l.live \cup {Revision(t, d.next), Revision(RootOf(t), d.next)})
                   \cup {Page(t), Page(RootOf(t))}
  OBVIOUS
<1>5. \A x \in more : x[1] = "revision" \/ x[1] = "topic"
  <2>1. \A x \in more : \E s : x = Revision(s, d.next) \/ x = Page(s)
    OBVIOUS
  <2> HIDE DEF more
  <2> QED
    BY <2>1, Tables
<1> HIDE DEF live, more, bodies, active, mentions, new, both
<1>6. /\ e = [f \in DatabaseFields |-> e[f]]
      /\ e.live = l.live \cup more /\ e.live = live /\ e.evidence = l.evidence
      /\ e.home = l.home /\ e.proposals = l.proposals
  BY <1>2, <1>3, <1>4 DEF IsStore, IsDatabase, DatabaseFields
<1>7. IsFiniteSet(live)
  <2>1. PICK rows : rows = l.live \cup {Revision(t, d.next), Revision(RootOf(t), d.next)}
    OBVIOUS
  <2>2. IsFiniteSet(rows)
    BY <1>2, <2>1, MoreIsFinite
  <2>3. IsFiniteSet(rows \cup {Page(t)})
    BY <2>2, FS_AddElement
  <2>4. IsFiniteSet((rows \cup {Page(t)}) \cup {Page(RootOf(t))})
    BY <2>3, FS_AddElement
  <2>5. live = (rows \cup {Page(t)}) \cup {Page(RootOf(t))}
    BY <1>4, <2>1
  <2> QED
    BY <2>4, <2>5
<1>8. IsStore(e)
  BY <1>2, <1>6, <1>7 DEF IsStore, IsDatabase
<1>9. Aside(more) /\ \A x \in more : x[1] # "file"
  BY <1>5 DEF Aside, ClaimTables, Resting
<1>10. e.live = d.live \cup more /\ e.evidence = d.evidence
  BY <1>2, <1>6
<1> QED
  BY <1>8, <1>9, <1>10, BuildingKeeps

LEMMA LapsedStore ==
  ASSUME NEW d, IsStore(d), NEW ps \in SUBSET d.proposals, NEW ending,
         NEW e, e = Lapsed(d, ps, ending)
  PROVE  IsStore(e) /\ Builds(d, e)
<1> DEFINE outputs == {p.output : p \in ps}
           drafts == {p.output[2] : p \in ps} \cap d.drafts
           Ended(p) == [p EXCEPT !.status = ending, !.about = @ \ {Page(t) : t \in drafts}]
           pages == {Page(t) : t \in drafts}
           live == (d.live \ outputs) \ pages
           bodies == [x \in (DOMAIN d.written) \ outputs |-> d.written[x]]
           active == [t \in Topics |-> IF t \in drafts THEN 0 ELSE d.active[t]]
           endings == {Ended(p) : p \in ps}
<1>1. e = [d EXCEPT !.live = live, !.written = bodies, !.active = active,
                    !.drafts = @ \ drafts, !.proposals = (@ \ ps) \cup endings]
  BY Zenon DEF Lapsed
<1>2. IsDatabase(e)
  BY LapsedFacts DEF IsStore
<1>3. \A p \in ps : Ended(p).output = p.output
  BY DEF IsStore, IsDatabase, ProposalFields
<1>4. \A p \in endings : \E q \in ps : p = Ended(q)
  OBVIOUS
<1>5. \A x \in outputs : x[1] = "revision"
  BY DEF IsStore
<1>6. \A x \in pages : x[1] = "topic"
  <2> HIDE DEF drafts
  <2> QED
    BY Tables
<1>7. live \subseteq d.live /\ \A x \in d.live : x[1] \in ClaimTables => x \in live
  <2> HIDE DEF outputs, pages
  <2> QED
    BY <1>5, <1>6 DEF ClaimTables, Resting
<1> HIDE DEF Ended, live, bodies, active, endings, drafts, outputs, pages
<1>8. /\ e.live = live /\ e.evidence = d.evidence
      /\ e.proposals = (d.proposals \ ps) \cup endings
  BY <1>1 DEF IsStore, IsDatabase, DatabaseFields
<1>9. \A p \in e.proposals : p.output[1] = "revision"
  BY <1>3, <1>4, <1>8 DEF IsStore
<1>10. IsFiniteSet(e.live)
  <2>1. IsFiniteSet(d.live) /\ e.live \in SUBSET d.live
    BY <1>7, <1>8 DEF IsStore
  <2> QED
    BY <2>1, FS_Subset
<1>11. IsStore(e)
  BY <1>2, <1>8, <1>9, <1>10 DEF IsStore
<1> QED
  BY <1>7, <1>8, <1>11 DEF Builds, Takes

LEMMA ProposedStore ==
  ASSUME NEW d, IsStore(d), NEW t, RootOf(t) \in Topics, NEW claim,
         NEW e, e = Proposed(d, t, claim)
  PROVE  IsStore(e) /\ Builds(d, e)
<1> DEFINE over == TakenOver(d, t)
           changed == ChangedBy(d, t, claim)
           shown == changed \cup UNION {Shown(d, s) : s \in InUse(d, {t})}
<1>1. PICK l : l = Lapsed(d, over, "superseded")
  OBVIOUS
<1>2. over \in SUBSET d.proposals
  BY DEF TakenOver, Pending
<1>3. IsStore(l) /\ Builds(d, l)
  <2> HIDE DEF over
  <2> QED
    BY <1>1, <1>2, LapsedStore
<1> DEFINE new == Revision(t, l.next)
           draft == Page(t) \notin l.live
           proposal ==
             [topic |-> RootOf(t), changed |-> changed, output |-> new, status |-> "pending",
              about |-> Cited(d, shown) \cup BasesOf(d, t) \cup {Page(t), Page(RootOf(t))},
              guards |-> {StateOf(d, x) : x \in shown}]
           bodies == (new :> [author |-> "proposal", cites |-> Cited(d, shown)]) @@ l.written
           active == IF draft THEN [l.active EXCEPT ![t] = l.next] ELSE l.active
           drafts == IF draft THEN l.drafts \cup {t} ELSE l.drafts
<1>4. e = [l EXCEPT !.live = @ \cup {new, Page(t)}, !.written = bodies, !.active = active,
                    !.drafts = drafts, !.proposals = @ \cup {proposal}, !.next = @ + 1]
  BY <1>1, Zenon DEF Proposed
<1>5. proposal.output[1] = "revision" /\ new[1] = "revision" /\ Page(t)[1] = "topic"
  BY Tables
<1>6. IsDatabase(e)
  BY ProposedFacts DEF IsStore
<1> HIDE DEF bodies, active, drafts, proposal, new, changed, over
<1>7. /\ e.live = l.live \cup {new, Page(t)} /\ e.evidence = l.evidence
      /\ e.proposals = l.proposals \cup {proposal}
  BY <1>3, <1>4 DEF IsStore, IsDatabase, DatabaseFields
<1>8. IsFiniteSet(e.live)
  <2>1. IsFiniteSet(l.live \cup {new, Page(t)})
    BY <1>3, MoreIsFinite
  <2> QED
    BY <1>7, <2>1
<1>9. IsStore(e)
  BY <1>3, <1>5, <1>6, <1>7, <1>8 DEF IsStore
<1>10. Aside({new, Page(t)}) /\ \A x \in {new, Page(t)} : x[1] # "file"
  BY <1>5 DEF Aside, ClaimTables, Resting
<1>11. Builds(l, e)
  BY <1>7, <1>10, BuildingKeeps
<1> QED
  BY <1>3, <1>9, <1>11, BuildsTwice

\* While memory is built: the turns are there, and the source of every file.
IsBuilt(d, n) ==
  /\ \A k \in 1..n : Prompt(k) \in d.live /\ Answer(k) \in d.live
  /\ \A k \in 1..Turns : File(k) \in d.live => Source \in d.live

IsSound(d, n) == IsStore(d) /\ IsSupported(d) /\ IsBuilt(d, n)

LEMMA BuildingIsSound ==
  ASSUME NEW d, NEW n, IsSound(d, n), NEW e, IsStore(e), Builds(d, e)
  PROVE  IsSound(e, n)
<1>1. IsSupported(e)
  BY NothingGoes DEF IsSound, Builds
<1>2. \A x \in d.live : x[1] \in ClaimTables => x \in e.live
  BY DEF Builds, Takes
<1>3. IsBuilt(e, n)
  BY <1>2, Tables DEF Builds, IsBuilt, IsSound, ClaimTables, Resting
<1> QED
  BY <1>1, <1>3 DEF IsSound

LEMMA LearnedIsSound ==
  ASSUME NEW n, IsSound(db, n), NEW k, NEW c \in 1..Turns, NEW from,
         NEW home \in Topics \cup {NoTopic}, from # {},
         \A x \in from : x \in db.live /\ x[1] \in Resting,
         NEW d, d = Learned(k, c, from, home)
  PROVE  IsSound(d, n)
<1>1. /\ IsDatabase(d) /\ d.live = db.live \cup {Claim(c)} /\ d.proposals = db.proposals
  BY LearnedFacts DEF IsSound, IsStore
<1>2. d.evidence = [db.evidence EXCEPT ![c] = @ \cup from]
  BY DEF Learned, IsSound, IsStore, IsDatabase, DatabaseFields
<1>3. /\ d.evidence = [j \in 1..Turns |-> d.evidence[j]]
      /\ \A j \in 1..Turns :
           d.evidence[j] = IF j = c THEN db.evidence[c] \cup from ELSE db.evidence[j]
  <2>1. db.evidence = [j \in 1..Turns |-> db.evidence[j]]
    BY DEF IsSound, IsStore
  <2> QED
    BY <1>2, <2>1
<1>4. IsFiniteSet(d.live)
  <2>1. IsFiniteSet(db.live)
    BY DEF IsSound, IsStore
  <2> QED
    BY <1>1, <2>1, FS_AddElement
<1>5. IsStore(d)
  BY <1>1, <1>3, <1>4 DEF IsSound, IsStore
<1>6. ASSUME NEW j \in 1..Turns
      PROVE  /\ \A x \in d.evidence[j] : x \in d.live /\ x[1] \in Resting
             /\ Claim(j) \in d.live => d.evidence[j] # {}
  <2>1. IsSupported(db)
    BY DEF IsSound
  <2>2. CASE j = c
    BY <1>1, <1>3, <2>1, <2>2 DEF IsSupported
  <2>3. CASE j # c
    <3>1. Claim(j) # Claim(c)
      BY <2>3 DEF Claim
    <3> QED
      BY <1>1, <1>3, <2>1, <2>3, <3>1 DEF IsSupported
  <2> QED
    BY <2>2, <2>3
<1>7. IsBuilt(d, n)
  <2>1. \A j : File(j) # Claim(c)
    BY DEF File, Claim
  <2> QED
    BY <1>1, <2>1 DEF IsSound, IsBuilt
<1> QED
  BY <1>5, <1>6, <1>7 DEF IsSound, IsSupported

LEMMA CompileIsSound ==
  ASSUME ShardAssumption, turn \in 0..Turns, Turns \in Nat, IsSound(db, turn), Compile
  PROVE  IsSound(db', turn)
<1> DEFINE From == {{Prompt(turn)}, {Answer(turn)}} \cup
                     (IF IsLive(File(turn)) THEN {{Source}} ELSE {})
<1>1. PICK t \in {s \in Topics : ShardOf[s] # NoTopic},
           c \in {j \in 1..turn : j = turn \/ IsLive(Claim(j))}, from \in From :
        db' = IF RootOf(t) \in db.confirm
                THEN Proposed(Learned(turn, c, from, NoTopic), t, Claim(c))
                ELSE LET d == Learned(turn, c, from, RootOf(t))
                         before == IF IsLive(Page(t)) THEN Shown(db, t) ELSE {}
                     IN Published(d, t, Cited(d, before \cup {Claim(c)}))
  BY Zenon DEF Compile
<1>2. RootOf(t) \in Topics /\ NoTopic \notin Topics
  BY DEF ShardAssumption, RootOf
<1>3. turn \in 1..turn /\ turn \in 1..Turns /\ c \in 1..Turns
  OBVIOUS
<1>4. from # {} /\ \A x \in from : x \in db.live /\ x[1] \in Resting
  <2>1. Prompt(turn) \in db.live /\ Answer(turn) \in db.live
    BY <1>3 DEF IsSound, IsBuilt
  <2>2. IsLive(File(turn)) => Source \in db.live
    BY <1>3 DEF IsLive, IsSound, IsBuilt
  <2> QED
    BY <2>1, <2>2, Tables DEF Resting
<1> HIDE DEF From
<1>5. PICK e : e = db'
  OBVIOUS
<1>6. CASE RootOf(t) \in db.confirm
  <2>1. PICK d : d = Learned(turn, c, from, NoTopic)
    OBVIOUS
  <2>2. IsSound(d, turn)
    BY <1>3, <1>4, <2>1, LearnedIsSound
  <2>3. e = Proposed(d, t, Claim(c))
    BY <1>1, <1>5, <1>6, <2>1
  <2>4. IsStore(e) /\ Builds(d, e)
    BY <1>2, <2>2, <2>3, ProposedStore DEF IsSound
  <2> QED
    BY <1>5, <2>2, <2>4, BuildingIsSound
<1>7. CASE RootOf(t) \notin db.confirm
  <2>1. PICK d : d = Learned(turn, c, from, RootOf(t))
    OBVIOUS
  <2>2. IsSound(d, turn)
    BY <1>2, <1>3, <1>4, <2>1, LearnedIsSound
  <2>3. PICK cites : e = Published(d, t, cites)
    BY <1>1, <1>5, <1>7, <2>1
  <2>4. IsStore(e) /\ Builds(d, e)
    BY <2>2, <2>3, PublishedStore DEF IsSound
  <2> QED
    BY <1>5, <2>2, <2>4, BuildingIsSound
<1> QED
  BY <1>6, <1>7

LEMMA AcceptIsSound ==
  ASSUME ShardAssumption, NEW n, IsSound(db, n), NEW p \in db.proposals, AcceptProposal(p),
         IsDatabase(db')
  PROVE  IsSound(db', n)
<1> DEFINE t == p.output[2]
           index == Revision(p.topic, db.next)
           old == ActiveOf(db, p.topic)
           stale == StaleWith(p)
           kept == Pending(db) \ ({p} \cup stale)
           Rebased(q) == [q EXCEPT !.about = (@ \ {old}) \cup {index}]
           accepted == [p EXCEPT !.status = "accepted"]
           rebased == {Rebased(q) : q \in kept}
<1>1. PICK l : l = Lapsed(db, stale, "stale")
  OBVIOUS
<1>2. stale \in SUBSET db.proposals
  BY DEF StaleWith, Pending
<1>3. IsStore(l) /\ Builds(db, l)
  <2> HIDE DEF stale
  <2> QED
    BY <1>1, <1>2, LapsedStore DEF IsSound
<1>4. PICK d : d = Linked(l, t, db.written[p.output].cites)
  OBVIOUS
<1>5. IsStore(d) /\ d.live = l.live /\ d.evidence = l.evidence
  <2> HIDE DEF t
  <2> QED
    BY <1>3, <1>4, LinkedStore
<1> DEFINE bodies == (index :> [author |-> "model", cites |-> {}]) @@ d.written
           active == [d.active EXCEPT ![t] = p.output[3], ![p.topic] = db.next]
           home == [k \in 1..Turns |-> IF Claim(k) \in p.changed THEN p.topic ELSE d.home[k]]
           proposals == ((d.proposals \ {p}) \ kept) \cup {accepted} \cup rebased
           mentions == d.mentions \cup {{Page(t)}, {Page(p.topic)}}
<1>6. db' = [d EXCEPT !.live = @ \cup {index}, !.written = bodies, !.active = active,
                      !.home = home, !.drafts = @ \ {t}, !.proposals = proposals,
                      !.mentions = mentions, !.next = @ + 1]
  BY <1>1, <1>4, Zenon DEF AcceptProposal
<1>7. accepted.output = p.output
  BY DEF IsSound, IsStore, IsDatabase, ProposalFields
<1>8. \A q \in kept : q \in db.proposals /\ Rebased(q).output = q.output
  <2> SUFFICES ASSUME NEW q \in kept PROVE q \in db.proposals /\ Rebased(q).output = q.output
    OBVIOUS
  <2>1. q \in db.proposals
    BY DEF Pending
  <2>2. q = [f \in ProposalFields |-> q[f]]
    BY <2>1 DEF IsSound, IsStore, IsDatabase
  <2>3. Rebased(q) = [q EXCEPT !.about = (q.about \ {old}) \cup {index}]
    OBVIOUS
  <2> HIDE DEF Rebased, index, old
  <2> QED
    BY <2>1, <2>2, <2>3 DEF ProposalFields
<1>9. \A r \in rebased : \E q \in kept : r = Rebased(q)
  OBVIOUS
<1>10. \A q \in proposals : q \in d.proposals \/ q = accepted \/ q \in rebased
  OBVIOUS
<1>11. index[1] = "revision"
  BY Tables
<1> HIDE DEF Rebased, accepted, rebased, kept, stale, index, old, t, bodies, active, home,
             proposals, mentions
<1>12. PICK e : e = db'
  OBVIOUS
<1>13. /\ e.live = d.live \cup {index} /\ e.evidence = d.evidence /\ e.proposals = proposals
  BY <1>5, <1>6, <1>12 DEF IsStore, IsDatabase, DatabaseFields
<1>14. \A q \in e.proposals : q.output[1] = "revision"
  <2>1. \A q \in db.proposals : q.output[1] = "revision"
    BY DEF IsSound, IsStore
  <2>2. \A q \in d.proposals : q.output[1] = "revision"
    BY <1>5 DEF IsStore
  <2>3. accepted.output[1] = "revision"
    BY <1>7, <2>1
  <2>4. \A q \in rebased : q.output[1] = "revision"
    BY <1>8, <1>9, <2>1
  <2> QED
    BY <1>10, <1>13, <2>2, <2>3, <2>4
<1>15. IsFiniteSet(e.live)
  <2>1. IsFiniteSet(d.live)
    BY <1>5 DEF IsStore
  <2> QED
    BY <1>13, <2>1, FS_AddElement
<1>16. IsStore(e)
  BY <1>5, <1>12, <1>13, <1>14, <1>15 DEF IsStore
<1>17. Aside({index}) /\ \A x \in {index} : x[1] # "file"
  BY <1>11 DEF Aside, ClaimTables, Resting
<1>18. e.live = l.live \cup {index} /\ e.evidence = l.evidence
  BY <1>5, <1>13
<1>19. Builds(l, e)
  BY <1>17, <1>18, BuildingKeeps
<1>20. Builds(db, e)
  BY <1>3, <1>19, BuildsTwice
<1> QED
  BY <1>12, <1>16, <1>20, BuildingIsSound

LEMMA RejectIsSound ==
  ASSUME NEW n, IsSound(db, n), NEW p \in db.proposals, RejectProposal(p), IsDatabase(db')
  PROVE  IsSound(db', n)
<1>0. PICK ps : ps = {p}
  OBVIOUS
<1>1. PICK l : l = Lapsed(db, ps, "rejected")
  OBVIOUS
<1>2. IsStore(l) /\ Builds(db, l)
  <2>1. ps \in SUBSET db.proposals
    BY <1>0
  <2> QED
    BY <1>1, <2>1, LapsedStore DEF IsSound
<1>3. PICK e : e = db'
  OBVIOUS
<1>4. e = [l EXCEPT !.mentions = @ \cup {{Page(p.topic)}}]
  BY <1>0, <1>1, <1>3 DEF RejectProposal
<1>5. e.live = l.live /\ e.evidence = l.evidence /\ e.proposals = l.proposals
  BY <1>2, <1>4 DEF IsStore, IsDatabase, DatabaseFields
<1>6. IsStore(e)
  BY <1>2, <1>3, <1>5 DEF IsStore
<1>7. Builds(db, e)
  BY <1>2, <1>5 DEF Builds, Takes
<1> QED
  BY <1>3, <1>6, <1>7, BuildingIsSound

LEMMA EditIsSound ==
  ASSUME NEW n, IsSound(db, n), NEW t \in Topics, EditPage(t), IsDatabase(db')
  PROVE  IsSound(db', n)
<1> DEFINE new == Revision(t, db.next)
           sources == db.written[ActiveOf(db, t)].cites \ Shown(db, t)
           bodies == (new :> [author |-> "user", cites |-> sources]) @@ db.written
<1>1. db' = [db EXCEPT !.live = @ \cup {new}, !.written = bodies, !.active[t] = db.next,
                       !.confirm = @ \cup {t}, !.next = @ + 1]
  BY Zenon DEF EditPage
<1>2. Aside({new}) /\ \A x \in {new} : x[1] # "file"
  BY Tables DEF Aside, ClaimTables, Resting
<1> HIDE DEF new, bodies
<1>3. PICK e : e = db'
  OBVIOUS
<1>4. /\ e.live = db.live \cup {new} /\ e.evidence = db.evidence
      /\ e.proposals = db.proposals
  BY <1>1, <1>3 DEF IsSound, IsStore, IsDatabase, DatabaseFields
<1>5. IsFiniteSet(e.live)
  <2>1. IsFiniteSet(db.live)
    BY DEF IsSound, IsStore
  <2> QED
    BY <1>4, <2>1, FS_AddElement
<1>6. IsStore(e)
  BY <1>3, <1>4, <1>5 DEF IsSound, IsStore
<1>7. Builds(db, e)
  BY <1>2, <1>4, BuildingKeeps
<1> QED
  BY <1>3, <1>6, <1>7, BuildingIsSound

LEMMA ConverseIsSound ==
  ASSUME turn \in 0..Turns, Turns \in Nat, IsSound(db, turn), Converse, IsDatabase(db')
  PROVE  turn' \in 0..Turns /\ IsSound(db', turn')
<1> DEFINE k == turn + 1
           said == {Prompt(k), Answer(k), Run(k)}
<1>1. PICK parts, uses, mentions :
        /\ db' = [db EXCEPT !.live = @ \cup said \cup parts,
                            !.uses[k] = uses, !.mentions = mentions]
        /\ parts = {} \/ parts = {File(k), Source}
  <2>1. PICK attached \in {FALSE, turn + 1 \in Attaching},
             read \in {{}, PagesOf(db) \ db.drafts} :
          LET parts == IF attached THEN {File(k), Source} ELSE {}
              earlier == {Prompt(j) : j \in 1..turn} \cup {Answer(j) : j \in 1..turn}
          IN db' = [db EXCEPT
               !.live = @ \cup {Prompt(k), Answer(k), Run(k)} \cup parts,
               !.uses[k] = earlier \cup parts \cup UNION {ReferencesTo(db, t) : t \in read},
               !.mentions = @ \cup {{Prompt(k), Answer(k), Run(k)}}]
    BY Zenon DEF Converse
  <2> DEFINE parts == IF attached THEN {File(k), Source} ELSE {}
             earlier == {Prompt(j) : j \in 1..turn} \cup {Answer(j) : j \in 1..turn}
             uses == earlier \cup parts \cup UNION {ReferencesTo(db, t) : t \in read}
             mentions == db.mentions \cup {{Prompt(k), Answer(k), Run(k)}}
  <2>2. db' = [db EXCEPT !.live = @ \cup said \cup parts,
                         !.uses[k] = uses, !.mentions = mentions]
    BY <2>1, Zenon
  <2>3. parts = {} \/ parts = {File(k), Source}
    OBVIOUS
  <2> HIDE DEF parts, uses, mentions
  <2> QED
    BY <2>2, <2>3, Zenon
<1>2. PICK e : e = db'
  OBVIOUS
<1>3. turn' = turn + 1 /\ turn < Turns
  BY DEF Converse
<1>4. PICK more : more = said \cup parts
  OBVIOUS
<1>5. IsFiniteSet(more)
  <2>1. IsFiniteSet(said)
    <3>1. IsFiniteSet({Prompt(k)})
      BY FS_Singleton
    <3>2. IsFiniteSet({Prompt(k)} \cup {Answer(k)})
      BY <3>1, FS_AddElement
    <3>3. IsFiniteSet(({Prompt(k)} \cup {Answer(k)}) \cup {Run(k)})
      BY <3>2, FS_AddElement
    <3>4. said = ({Prompt(k)} \cup {Answer(k)}) \cup {Run(k)}
      OBVIOUS
    <3> QED
      BY <3>3, <3>4
  <2>2. IsFiniteSet(said \cup {File(k)})
    BY <2>1, FS_AddElement
  <2>3. IsFiniteSet((said \cup {File(k)}) \cup {Source})
    BY <2>2, FS_AddElement
  <2>4. more = said \/ more = (said \cup {File(k)}) \cup {Source}
    BY <1>1, <1>4
  <2> QED
    BY <2>1, <2>3, <2>4
<1>6. /\ Prompt(k) \in more /\ Answer(k) \in more
      /\ \A x \in more : x[1] # "claim"
      /\ \A x \in more : x[1] = "file" => Source \in more
  BY <1>1, <1>4, Tables
<1> HIDE DEF said
<1>7. e.live = db.live \cup more /\ e.evidence = db.evidence /\ e.proposals = db.proposals
  <2>1. db.live \cup said \cup parts = db.live \cup more
    BY <1>4
  <2>2. PICK used : used = [db.uses EXCEPT ![k] = uses]
    OBVIOUS
  <2>3. e = [db EXCEPT !.live = db.live \cup more, !.uses = used, !.mentions = mentions]
    BY <1>1, <1>2, <2>1, <2>2 DEF IsSound, IsStore, IsDatabase, DatabaseFields
  <2> QED
    BY <2>3 DEF IsSound, IsStore, IsDatabase, DatabaseFields
<1>8. IsFiniteSet(e.live)
  <2>1. IsFiniteSet(db.live)
    BY DEF IsSound, IsStore
  <2>2. IsFiniteSet(db.live \cup more)
    BY <1>5, <2>1, FS_Union
  <2> QED
    BY <1>7, <2>2
<1>9. IsStore(e)
  BY <1>2, <1>7, <1>8 DEF IsSound, IsStore
<1>10. IsSupported(e)
  <2>1. \A j \in 1..Turns : Claim(j) \in e.live => Claim(j) \in db.live
    BY <1>6, <1>7, Tables
  <2> QED
    BY <1>7, <2>1 DEF IsSound, IsSupported
<1>11. IsBuilt(e, k)
  <2>1. \A j \in 1..k : j \in 1..turn \/ j = k
    OBVIOUS
  <2> HIDE DEF k
  <2>2. \A j \in 1..k : Prompt(j) \in e.live /\ Answer(j) \in e.live
    BY <1>6, <1>7, <2>1 DEF IsSound, IsBuilt
  <2>3. \A j \in 1..Turns : File(j) \in e.live => Source \in e.live
    BY <1>6, <1>7, Tables DEF IsSound, IsBuilt
  <2> QED
    BY <2>2, <2>3 DEF IsBuilt
<1> QED
  BY <1>2, <1>3, <1>9, <1>10, <1>11 DEF IsSound

\* The deletions under way know which runs go with them.
IsFrame(f) ==
  /\ f = [n \in {"of", "todo", "runs"} |-> f[n]]
  /\ \A r \in f.runs : r[1] = "run"
FramesAreSound == stack \in Seq({f \in {stack[i] : i \in DOMAIN stack} : IsFrame(f)})

SupportInv ==
  /\ deletionsDone \in Nat /\ turn \in 0..Turns
  /\ IsStore(db) /\ IsSupported(db)
  /\ IsStore(saved) /\ IsSupported(saved)
  /\ FramesAreSound
  /\ deletionsDone = 0 => stack = <<>> /\ IsBuilt(db, turn)
  /\ deletionsDone # 0 /\ ~overflowed => DecidedSince(saved, db, asked)

LEMMA FramesAreFrames ==
  ASSUME NEW S, \A f \in S : IsFrame(f), NEW s \in Seq(S)
  PROVE  s \in Seq({f \in {s[i] : i \in DOMAIN s} : IsFrame(f)})
<1>1. \A i \in 1..Len(s) : s[i] \in {f \in {s[j] : j \in DOMAIN s} : IsFrame(f)}
  OBVIOUS
<1>2. s = [i \in 1..Len(s) |-> s[i]] /\ Len(s) \in Nat
  OBVIOUS
<1> QED
  BY <1>1, <1>2

LEMMA NewFrame ==
  ASSUME NEW x
  PROVE  IsFrame(FrameFor(x))
<1> DEFINE found == ClosureOf(db, Direct(x))
           todo == In("answer", found) \ Direct(x)
           runs == In("run", found) \cup (IF x[1] = "file" THEN {} ELSE RunsOf(Direct(x)))
<1>1. FrameFor(x) = [of |-> x, todo |-> todo, runs |-> runs]
  BY Zenon DEF FrameFor, Frame
<1>2. \A r \in runs : r[1] = "run"
  <2>1. \A r \in In("run", found) : r[1] = "run"
    BY DEF In
  <2>2. \A r \in RunsOf(Direct(x)) : r[1] = "run"
    BY Tables DEF RunsOf
  <2> HIDE DEF found
  <2> QED
    BY <2>1, <2>2
<1> HIDE DEF todo, runs
<1> QED
  BY <1>1, <1>2 DEF IsFrame

\* The deletion on top, and those below.
LEMMA StackFacts ==
  ASSUME FramesAreSound, stack # <<>>
  PROVE  /\ IsFrame(Top)
         /\ \E S : Below \in Seq(S) /\ stack \in Seq(S) /\ \A f \in S : IsFrame(f)
<1> DEFINE S == {f \in {stack[i] : i \in DOMAIN stack} : IsFrame(f)}
<1>1. stack \in Seq(S) /\ \A f \in S : IsFrame(f)
  BY DEF FramesAreSound
<1> HIDE DEF S
<1>2. Len(stack) \in Nat /\ Len(stack) # 0
  BY <1>1
<1>3. Top \in S
  BY <1>1, <1>2 DEF Top
<1>4. Below \in Seq(S)
  BY <1>1, <1>2 DEF Below
<1> QED
  BY <1>1, <1>3, <1>4

LEMMA WaitingIsAFrame ==
  ASSUME FramesAreSound, stack # <<>>, NEW a
  PROVE  \E S : Waiting(a) \in Seq(S) /\ \A f \in S : IsFrame(f)
<1>1. IsFrame(Top)
  BY StackFacts
<1>2. PICK S : Below \in Seq(S) /\ \A f \in S : IsFrame(f)
  BY StackFacts
<1>3. PICK f : f = [Top EXCEPT !.todo = @ \ {a}]
  OBVIOUS
<1>4. IsFrame(f)
  BY <1>1, <1>3 DEF IsFrame
<1>5. PICK W : W = S \cup {f}
  OBVIOUS
<1>6. Below \in Seq(W) /\ f \in W
  BY <1>2, <1>5
<1>7. Waiting(a) = Below \o <<f>>
  BY <1>3 DEF Waiting
<1>8. Waiting(a) \in Seq(W)
  <2>1. <<f>> \in Seq(W)
    BY <1>6
  <2> HIDE DEF Below
  <2> QED
    BY <1>6, <1>7, <2>1
<1> QED
  BY <1>2, <1>4, <1>5, <1>8

LEMMA FramesStay ==
  ASSUME NEW S, \A f \in S : IsFrame(f), stack' \in Seq(S)
  PROVE  FramesAreSound'
<1>1. PICK s : s = stack'
  OBVIOUS
<1>2. s \in Seq({f \in {s[i] : i \in DOMAIN s} : IsFrame(f)})
  BY <1>1, FramesAreFrames
<1> QED
  BY <1>1, <1>2 DEF FramesAreSound

LEMMA SupportDeleteAnswer == ASSUME SupportInv, DeleteAnswer PROVE SupportInv'
<1>1. /\ stack # <<>>
      /\ UNCHANGED <<db, saved, turn, deletionsDone, asked, overflowed>>
  BY Zenon DEF DeleteAnswer
<1>2. PICK a : stack' = IF IsLive(a) THEN Append(Waiting(a), FrameFor(a)) ELSE Waiting(a)
  BY Zenon DEF DeleteAnswer
<1>3. PICK w : w = Waiting(a)
  OBVIOUS
<1>4. PICK f : f = FrameFor(a)
  OBVIOUS
<1>5. IsFrame(f)
  BY <1>4, NewFrame
<1>6. PICK S : w \in Seq(S) /\ \A g \in S : IsFrame(g)
  BY <1>1, <1>3, WaitingIsAFrame DEF SupportInv
<1>7. stack' = Append(w, f) \/ stack' = w
  BY <1>2, <1>3, <1>4
<1>8. PICK W : W = S \cup {f}
  OBVIOUS
<1>9. stack' \in Seq(W) /\ \A g \in W : IsFrame(g)
  BY <1>5, <1>6, <1>7, <1>8
<1>10. FramesAreSound'
  BY <1>9, FramesStay
<1>11. deletionsDone # 0
  BY <1>1 DEF SupportInv
<1> QED
  BY <1>1, <1>10, <1>11 DEF SupportInv

LEMMA SupportOverflow == ASSUME SupportInv, Overflow PROVE SupportInv'
<1>1. /\ stack # <<>> /\ db' = saved /\ stack' = <<>> /\ overflowed' = TRUE
      /\ UNCHANGED <<saved, turn, deletionsDone, asked>>
  BY Zenon DEF Overflow
<1>2. FramesAreSound'
  <2>1. stack' \in Seq({})
    BY <1>1
  <2> QED
    BY <2>1, FramesStay
<1>3. deletionsDone # 0
  BY <1>1 DEF SupportInv
<1> QED
  BY <1>1, <1>2, <1>3 DEF SupportInv

LEMMA SupportFinishDeletion == ASSUME SupportInv, FinishDeletion PROVE SupportInv'
<1>1. /\ stack # <<>> /\ stack' = Below
      /\ UNCHANGED <<saved, turn, deletionsDone, asked, overflowed>>
  BY Zenon DEF FinishDeletion
<1>2. PICK direct, runs : direct = Direct(Top.of) /\ runs = Top.runs
  OBVIOUS
<1>3. db' = IF Top.of[1] \in {"claim", "topic"} THEN Without(db, runs)
                                                ELSE Erased(db, direct, runs)
  BY <1>2, Zenon DEF FinishDeletion
<1>4. Aside(runs)
  <2>1. IsFrame(Top)
    BY <1>1, StackFacts DEF SupportInv
  <2> QED
    BY <1>2, <2>1 DEF IsFrame, Aside, ClaimTables, Resting
<1>5. \A x \in direct : x[1] # "claim"
  <2>1. \A x \in Answers(Top.of[2]) : x[1] = "answer"
    BY Tables DEF Answers
  <2> QED
    BY <1>2, <2>1, Tables DEF Direct
<1>6. IsStore(db) /\ IsSupported(db) /\ IsSupported(saved)
  BY DEF SupportInv
<1>7. PICK e : e = db'
  OBVIOUS
<1>8. \E gone : IsStore(e) /\ Erases(db, gone, e)
  <2>1. CASE Top.of[1] \in {"claim", "topic"}
    <3>1. e = Without(db, runs)
      BY <1>3, <1>7, <2>1
    <3>2. IsStore(e) /\ Takes(db, runs, e)
      BY <1>6, <3>1, WithoutFacts
    <3>3. Erases(db, {}, e)
      BY <1>4, <1>6, <3>2, TakingIsErasing
    <3> QED
      BY <3>2, <3>3
  <2>2. CASE Top.of[1] \notin {"claim", "topic"}
    <3>1. e = Erased(db, direct, runs)
      BY <1>3, <1>7, <2>2
    <3>2. IsStore(e) /\ Erases(db, direct, e)
      BY <1>4, <1>5, <1>6, <3>1, ErasedFacts
    <3> QED
      BY <3>2
  <2> QED
    BY <2>1, <2>2
<1>9. PICK gone : IsStore(e) /\ Erases(db, gone, e)
  BY <1>8
<1>10. IsSupported(e)
  BY <1>6, <1>9, ErasingIsSound
<1>11. DecidedSince(saved, db, asked) => DecidedSince(saved, e, asked)
  BY <1>6, <1>9, ErasingDecides
<1>12. FramesAreSound'
  <2>1. PICK S : Below \in Seq(S) /\ \A f \in S : IsFrame(f)
    BY <1>1, StackFacts DEF SupportInv
  <2> HIDE DEF Below
  <2>2. stack' \in Seq(S)
    BY <1>1, <2>1
  <2> QED
    BY <2>1, <2>2, FramesStay
<1>13. deletionsDone # 0
  BY <1>1 DEF SupportInv
<1> QED
  BY <1>1, <1>7, <1>9, <1>10, <1>11, <1>12, <1>13 DEF SupportInv

\* A deletion starts from a database whose claims are supported.
LEMMA SupportBegins ==
  ASSUME SupportInv, NEW x,
         DeleteEvent(x) \/ DeleteAttachment(x) \/ DeleteClaim(x) \/ DeleteTopic(x)
  PROVE  SupportInv'
<1>1. Begin(x)
  BY Zenon DEF DeleteEvent, DeleteAttachment, DeleteClaim, DeleteTopic
<1>2. /\ saved' = db /\ asked' = x /\ overflowed' = FALSE /\ turn' = turn
      /\ deletionsDone' = deletionsDone + 1
  BY <1>1 DEF Begin
<1>3. IsStore(db) /\ IsSupported(db)
  BY DEF SupportInv
<1>4. IsStore(db') /\ IsSupported(db') /\ DecidedSince(db, db', x)
  <2>1. CASE DeleteEvent(x) \/ DeleteAttachment(x)
    <3>1. db' = db
      BY <2>1, Zenon DEF DeleteEvent, DeleteAttachment
    <3>2. DecidedSince(db, db, x)
      BY <1>3 DEF DecidedSince, IsSupported
    <3> QED
      BY <1>3, <3>1, <3>2
  <2>2. CASE DeleteClaim(x)
    BY <1>3, <2>2, DeleteClaimDecides
  <2>3. CASE DeleteTopic(x)
    BY <1>3, <2>3, DeleteTopicDecides
  <2> QED
    BY <2>1, <2>2, <2>3
<1>5. PICK f : stack' = <<f>> /\ IsFrame(f)
  <2>1. CASE DeleteEvent(x) \/ DeleteAttachment(x)
    <3>1. stack' = <<FrameFor(x)>>
      BY <2>1, Zenon DEF DeleteEvent, DeleteAttachment
    <3> QED
      BY <3>1, NewFrame
  <2>2. CASE DeleteClaim(x) \/ DeleteTopic(x)
    <3>1. PICK found : stack' = <<Frame(x, In("answer", found), In("run", found))>>
      BY <2>2, Zenon DEF DeleteClaim, DeleteTopic
    <3>2. IsFrame(Frame(x, In("answer", found), In("run", found)))
      BY DEF IsFrame, Frame, In
    <3> QED
      BY <3>1, <3>2
  <2> QED
    BY <2>1, <2>2
<1>6. FramesAreSound'
  <2>1. stack' \in Seq({f}) /\ \A g \in {f} : IsFrame(g)
    BY <1>5
  <2> QED
    BY <2>1, FramesStay
<1>7. deletionsDone' \in Nat /\ deletionsDone' # 0
  BY <1>2 DEF SupportInv
<1>8. PICK e : e = db'
  OBVIOUS
<1>9. IsStore(e) /\ IsSupported(e) /\ DecidedSince(saved', e, asked')
  BY <1>2, <1>4, <1>8
<1> QED
  BY <1>2, <1>3, <1>6, <1>7, <1>8, <1>9 DEF SupportInv

\* A step that builds memory keeps it sound.
LEMMA SupportBuilds ==
  ASSUME SupportInv, stack = <<>>, deletionsDone = 0, IsSound(db', turn'), turn' \in 0..Turns,
         UNCHANGED <<saved, stack, deletionsDone, asked, overflowed>>
  PROVE  SupportInv'
<1>1. FramesAreSound'
  <2>1. stack' \in Seq({})
    OBVIOUS
  <2> QED
    BY <2>1, FramesStay
<1> QED
  BY <1>1 DEF SupportInv, IsSound

LEMMA SupportStep ==
  ASSUME ShardAssumption, Turns \in Nat, ProposalsInv, ProposalsInv', SupportInv,
         [DeletionNext]_deletionVars
  PROVE  SupportInv'
<1>1. deletionsDone = 0 => IsSound(db, turn)
  BY DEF SupportInv, IsSound
<1>2. deletionsDone' = 0 => IsDatabase(db')
  BY DEF ProposalsInv
<1>3. turn \in 0..Turns
  BY DEF SupportInv
<1>4. CASE Converse
  <2>1. /\ stack = <<>> /\ deletionsDone = 0
        /\ UNCHANGED <<saved, stack, deletionsDone, asked, overflowed>>
    BY <1>4, Zenon DEF Converse
  <2>2. turn' \in 0..Turns /\ IsSound(db', turn')
    BY <1>1, <1>2, <1>3, <1>4, <2>1, ConverseIsSound
  <2> QED
    BY <2>1, <2>2, SupportBuilds
<1>5. CASE Compile
  <2>1. /\ stack = <<>> /\ deletionsDone = 0 /\ turn' = turn
        /\ UNCHANGED <<saved, stack, deletionsDone, asked, overflowed>>
    BY <1>5, Zenon DEF Compile
  <2>2. IsSound(db', turn)
    BY <1>1, <1>3, <1>5, <2>1, CompileIsSound
  <2> QED
    BY <1>3, <2>1, <2>2, SupportBuilds
<1>6. ASSUME NEW t \in Topics, EditPage(t) PROVE SupportInv'
  <2>1. /\ stack = <<>> /\ deletionsDone = 0 /\ turn' = turn
        /\ UNCHANGED <<saved, stack, deletionsDone, asked, overflowed>>
    BY <1>6, Zenon DEF EditPage
  <2>2. IsSound(db', turn)
    BY <1>1, <1>2, <1>6, <2>1, EditIsSound
  <2> QED
    BY <1>3, <2>1, <2>2, SupportBuilds
<1>7. ASSUME NEW p \in db.proposals, AcceptProposal(p) \/ RejectProposal(p) PROVE SupportInv'
  <2>1. /\ stack = <<>> /\ deletionsDone = 0 /\ turn' = turn
        /\ UNCHANGED <<saved, stack, deletionsDone, asked, overflowed>>
    BY <1>7, Zenon DEF AcceptProposal, RejectProposal
  <2>2. IsSound(db', turn)
    BY <1>1, <1>2, <1>7, <2>1, AcceptIsSound, RejectIsSound
  <2> QED
    BY <1>3, <2>1, <2>2, SupportBuilds
<1>8. CASE DeletionStep
  BY <1>8, SupportDeleteAnswer, SupportOverflow, SupportFinishDeletion DEF DeletionStep
<1>9. CASE UNCHANGED deletionVars
  BY <1>9 DEF deletionVars, SupportInv, FramesAreSound
<1> QED
  BY <1>4, <1>5, <1>6, <1>7, <1>8, <1>9, SupportBegins, Zenon DEF DeletionNext

LEMMA SupportInitially == ASSUME DeletionInit, Turns \in Nat PROVE SupportInv
<1>1. /\ db = EmptyDatabase /\ saved = EmptyDatabase /\ stack = <<>> /\ turn = 0
      /\ deletionsDone = 0
  BY DEF DeletionInit
<1>2. IsDatabase(EmptyDatabase)
  BY DEF IsDatabase, EmptyDatabase, DatabaseFields
<1>3. /\ EmptyDatabase.live = {} /\ EmptyDatabase.proposals = {}
      /\ EmptyDatabase.evidence = [k \in 1..Turns |-> {}]
  BY DEF EmptyDatabase
<1>4. IsStore(EmptyDatabase)
  BY <1>2, <1>3, FS_EmptySet DEF IsStore
<1>5. IsSupported(EmptyDatabase)
  BY <1>3 DEF IsSupported
<1>6. IsBuilt(EmptyDatabase, 0)
  BY <1>3 DEF IsBuilt
<1>7. FramesAreSound
  BY <1>1 DEF FramesAreSound
<1> QED
  BY <1>1, <1>4, <1>5, <1>6, <1>7 DEF SupportInv

\* A claim that no one asked to delete stays exactly if some of its evidence stays, and
\* is left with that: whatever the conversation, its topics and shards, the proposals
\* that were decided, and the answers that are deleted one inside the other
\* (hardDeleteEvent, hardDeleteAttachment, hardDeleteClaim, hardDeleteTopic).
THEOREM EvidenceDecides == DeletionSpec => []SupportDecides
<1>0. Turns \in Nat
  BY DeletionBoundsAssumption
<1>1. DeletionInit => SupportInv /\ ProposalsInv
  BY <1>0, SupportInitially, ProposalsInitInv
<1>2. /\ SupportInv /\ ProposalsInv /\ [DeletionNext]_deletionVars => (SupportInv /\ ProposalsInv)'
  BY <1>0, SupportStep, ProposalsStepInv, ShardAssumption
<1>3. SupportInv => SupportDecides
  BY DEF SupportInv, SupportDecides, Settled, DecidedSince
<1> QED
  BY <1>1, <1>2, <1>3, PTL DEF DeletionSpec

-----------------------------------------------------------------------------
(* The page of a topic follows the ledger *)

(* Jobs that read the page's claims and write the page anew.                    *)
CompiledClaims == {"a", "b", "w"}
IsRebuild(j) == j[1] \in {"dirty", "answered", "revision", "correction"}
IsCompilation(j) == \E c \in CompiledClaims : j = Compilation(c)

(* One of them is still to read.                                               *)
LookAhead ==
  \E j \in open : IsRebuild(j) /\ ~(task.job = j /\ task.at \in {"rewrite", "done"})

Excused == correcting \/ mishaps # {} \/ LookAhead

ShownAs(s) == IF s \in {"current", "superseded"} THEN s ELSE "absent"
PageIsRight == \A c \in Claims : page[c] = Due(c)

JobsAreKnown ==
  /\ \A j \in open \cup past :
       \/ IsCompilation(j) \/ j = Expiry \/ IsRebuild(j)
  /\ \A c \in Claims, t \in Nat : Repair(c, t) \in open \cup past => t <= token
  /\ NewAnswer("b") \in open \cup past => Compilation("b") \in open \cup past
  /\ correcting \/ Correction \in open \cup past => status["v"] # "none"
  /\ correcting => Correction \notin open \cup past
  /\ status["b"] # "none" => Compilation("b") \in open \cup past

ClaimsAreKnown ==
  /\ chosen \in Alternatives
  /\ \A c \in CompiledClaims : status[c] \in {"none", "current"}
  /\ \A c \in placed : status[c] # "none"
  /\ \A c \in Claims : mark[c] # 0 => c \in placed

(* A job that compiles has stored its claim.                                    *)
Compiling == task.at \in {"replay", "patch", "place", "render"}

(* What the worker does goes with its job.                                     *)
TaskFits ==
  /\ task = [f \in {"job", "at", "told", "marks", "todo"} |-> task[f]]
  /\ task.at \in {"idle", "extract", "expire", "replay", "patch", "place", "render", "rebuild",
                  "rewrite", "done"}
  /\ task.at # "idle" => task.job \in open
  /\ task.at = "expire" => task.job = Expiry
  /\ task.at \in {"extract", "place"} => IsCompilation(task.job)
  /\ task.at \in {"replay", "patch", "render"} => IsCompilation(task.job) \/ task.job = Expiry
  /\ task.at \in {"rebuild", "rewrite"} => IsRebuild(task.job) \/ task.job = Expiry
  /\ task.at = "render" => ~sharded
  /\ Compiling => \A c \in CompiledClaims : task.job = Compilation(c) => status[c] # "none"

(* What it has been told.                                                      *)
ToldIsClear ==
  /\ \A t \in task.told : t = <<t[1], t[2]>> /\ t[1] \in Claims
  /\ \A s, t \in task.told : s[1] = t[1] => s = t
  /\ Compiling =>
       \A t \in task.told :
          /\ t[2] \in {"current", "superseded", "expired", "absent"}
          /\ ShownAs(t[2]) # "absent" =>
               /\ status[t[1]] # "none"
               /\ t[1] \notin placed => task.job = Compilation(t[1]) /\ t[2] = status[t[1]]
  /\ task.at = "patch" =>
       \A c \in task.todo : \E t \in task.told : t[1] = c /\ (ShownAs(t[2]) # "absent" => c \in placed)
  /\ task.at = "rewrite" =>
       \A c \in Claims : \E s \in {"absent", "current", "superseded"} : <<c, s>> \in task.told

(* Unless the page is looked at again, it is as the ledger has it, or about to   *)
(* be, and what the worker knows of its claims is true.                         *)
Follows ==
  ~Excused =>
    /\ task.at # "rewrite" \/ task.job = Expiry => PageIsRight
    /\ task.at = "rewrite" => \A c \in Claims : <<c, Due(c)>> \in task.told
    /\ task.at = "extract" \/ Compiling =>
         \A c \in Alternatives :
            task.job = Compilation(c) => Supported(c) \/ (sharded /\ c \notin placed)
    /\ Compiling => \A t \in task.told : t[1] \in placed => ShownAs(t[2]) = Due(t[1])

PagesInv ==
  /\ PagesTypeOK /\ token \in Nat
  /\ JobsAreKnown /\ ClaimsAreKnown /\ TaskFits /\ ToldIsClear /\ Follows

(* The keys of jobs tell them apart.                                           *)
LEMMA KeysDiffer ==
  /\ ~IsRebuild(Expiry) /\ \A c : ~IsRebuild(Compilation(c)) /\ Compilation(c) # Expiry
  /\ \A c, d : Compilation(c) = Compilation(d) => c = d
  /\ \A c : Compilation(c)[2] = c /\ Compilation(c)[1] = "memory.compile"
  /\ \A c, t : IsRebuild(Repair(c, t)) /\ Repair(c, t) # Correction
  /\ \A c, d, t : Repair(c, t) # NewAnswer(d) /\ Repair(c, t) # NewChoice(d)
                 /\ NewAnswer(c) # NewChoice(d)
  /\ \A c, d, t, n : Repair(c, t) = Repair(d, n) => t = n
  /\ \A c : IsRebuild(NewAnswer(c)) /\ IsRebuild(NewChoice(c)) /\ NewAnswer(c) # Correction
            /\ NewChoice(c) # Correction
  /\ IsRebuild(Correction)
  /\ \A j : IsRebuild(j) => j[1] # "memory.compile" /\ j[1] # "memory.expire"
  /\ Expiry[1] = "memory.expire" /\ Expiry[2] = "u"
BY DEF IsRebuild, Expiry, Compilation, Repair, NewAnswer, NewChoice, Correction

(* What is due is one of three things.                                         *)
LEMMA DueIsShown ==
  ASSUME NEW c
  PROVE  /\ Due(c) \in {"absent", "current", "superseded"} /\ ShownAs(Due(c)) = Due(c)
         /\ c \notin placed => Due(c) = "absent"
         /\ c \in placed /\ Supported(c) => Due(c) = ShownAs(status[c])
         /\ Due(c) # "absent" => c \in placed /\ Supported(c) /\ Due(c) = status[c]
BY DEF Due, ShownAs

(* It is the same as long as the claim's status, topic and answer are.           *)
LEMMA DueStays ==
  ASSUME NEW c, status'[c] = status[c], (c \in placed') = (c \in placed),
         c \in Alternatives => (c = chosen') = (c = chosen)
  PROVE  Due(c)' = Due(c)
BY DEF Due, Supported

(* The page has begun with one claim.                                           *)
LEMMA PagesInitially == PagesInit => PagesInv
<1> SUFFICES ASSUME PagesInit PROVE PagesInv
  OBVIOUS
<1>1. PICK job \in {Compilation("w"), Expiry} : open = {Compilation("a"), job}
  BY DEF PagesInit
<1>2. past = {} /\ token = 0 /\ task = NoTask /\ correcting = FALSE /\ mishaps = {} /\ placed = {"u"}
      /\ chosen = "a"
  BY DEF PagesInit
<1>3. /\ status = [c \in Claims |-> IF c = "u" THEN "current" ELSE "none"]
      /\ page = [c \in Claims |-> IF c = "u" THEN "current" ELSE "absent"]
      /\ mark = [c \in Claims |-> 0]
  BY DEF PagesInit
<1>4. PagesTypeOK /\ token \in Nat
  BY <1>1, <1>2, <1>3 DEF PagesTypeOK, Claims, Alternatives
<1>5. JobsAreKnown
  <2>1. \A j \in open \cup past : IsCompilation(j) \/ j = Expiry
    BY <1>1, <1>2 DEF IsCompilation, CompiledClaims
  <2>2. \A j \in open \cup past : ~IsRebuild(j)
    BY <2>1, KeysDiffer DEF IsCompilation
  <2> QED BY <1>2, <1>3, <2>1, <2>2, KeysDiffer DEF JobsAreKnown, Claims, Alternatives
<1>6. ClaimsAreKnown
  BY <1>2, <1>3 DEF ClaimsAreKnown, Claims, Alternatives, CompiledClaims
<1>7. TaskFits /\ ToldIsClear
  BY <1>2 DEF TaskFits, ToldIsClear, NoTask, Compiling
<1>8. PageIsRight
  BY <1>2, <1>3 DEF PageIsRight, Due, Supported, Claims, Alternatives
<1>9. Follows
  BY <1>2, <1>8 DEF Follows, NoTask, Compiling
<1> QED BY <1>4, <1>5, <1>6, <1>7, <1>9 DEF PagesInv

(* What no step of a job touches.                                              *)
LEMMA LedgerStays ==
  ASSUME PagesInv, UNCHANGED <<chosen, status, placed, mark, token, open, past, correcting>>
  PROVE  JobsAreKnown' /\ ClaimsAreKnown' /\ token' \in Nat
BY DEF PagesInv, JobsAreKnown, ClaimsAreKnown

(* The worker takes a job.                                                     *)
LEMMA PagesTakeJob == ASSUME PagesInv, TakeJob PROVE PagesInv'
<1>1. PICK job \in open :
        task' = [NoTask EXCEPT !.job = job,
                   !.at = IF Skipped(job) THEN "done"
                          ELSE CASE job[1] = "memory.compile" -> "extract"
                                 [] job[1] = "memory.expire" -> "expire"
                                 [] OTHER -> "rebuild"]
  BY DEF TakeJob
<1>2. /\ task.at = "idle"
      /\ UNCHANGED <<sharded, status, placed, chosen, page, mark, token, open, past, correcting,
                     turns, stops, mishaps>>
  BY DEF TakeJob, Doing
<1>3. /\ task'.job = job /\ task'.told = {} /\ task'.todo = {}
      /\ task' = [f \in {"job", "at", "told", "marks", "todo"} |-> task'[f]]
      /\ task'.at = IF Skipped(job) THEN "done"
                    ELSE CASE job[1] = "memory.compile" -> "extract"
                           [] job[1] = "memory.expire" -> "expire"
                           [] OTHER -> "rebuild"
  BY <1>1 DEF NoTask
<1>4. \/ IsCompilation(job) /\ task'.at \in {"extract", "done"} /\ (task'.at = "extract" => ~Skipped(job))
      \/ job = Expiry /\ task'.at = "expire"
      \/ IsRebuild(job) /\ task'.at = "rebuild"
  <2>1. IsCompilation(job) \/ job = Expiry \/ IsRebuild(job)
    BY DEF PagesInv, JobsAreKnown
  <2>2. CASE IsCompilation(job)
    <3>1. job[1] = "memory.compile"
      BY <2>2, KeysDiffer DEF IsCompilation
    <3> QED BY <1>3, <2>2, <3>1
  <2>3. CASE job = Expiry
    <3>1. job[1] = "memory.expire"
      BY <2>3, KeysDiffer
    <3> QED BY <1>3, <2>3, <3>1 DEF Skipped
  <2>4. CASE IsRebuild(job)
    <3>1. job[1] # "memory.compile" /\ job[1] # "memory.expire"
      BY <2>4, KeysDiffer
    <3> QED BY <1>3, <2>4, <3>1 DEF Skipped
  <2> QED BY <2>1, <2>2, <2>3, <2>4
<1>5. TaskFits'
  BY <1>2, <1>3, <1>4 DEF TaskFits, Compiling
<1>6. ToldIsClear'
  BY <1>3, <1>4 DEF ToldIsClear, Compiling
<1>7. Follows'
  <2> SUFFICES ASSUME ~Excused' PROVE Follows'
    BY DEF Follows
  <2>1. ~Excused
    BY <1>2, <1>3, <1>4, KeysDiffer DEF Excused, LookAhead, IsCompilation
  <2>2. PageIsRight
    BY <1>2, <2>1 DEF PagesInv, Follows
  <2>3. PageIsRight'
    BY <1>2, <2>2 DEF PageIsRight, Due, Supported
  <2>4. ASSUME NEW c \in Alternatives, task'.at = "extract", job = Compilation(c) PROVE Supported(c)'
    <3>1. ~Skipped(job) /\ job[1] = "memory.compile" /\ job[2] = c
      BY <1>4, <2>4, KeysDiffer
    <3>2. Supported(c)
      BY <3>1 DEF Skipped
    <3> QED BY <1>2, <3>2 DEF Supported
  <2> QED BY <1>3, <1>4, <2>3, <2>4 DEF Follows, Compiling
<1> QED BY <1>2, <1>5, <1>6, <1>7, LedgerStays DEF PagesInv, PagesTypeOK

(* The job under way has ended, or died with the worker.                         *)
LEMMA PagesEndJob == ASSUME PagesInv, FinishJob \/ WorkerStops PROVE PagesInv'
<1>1. /\ task' = NoTask /\ task.at # "idle"
      /\ UNCHANGED <<sharded, status, placed, chosen, page, mark, token, correcting, mishaps>>
  BY DEF FinishJob, WorkerStops, Doing
<1>2. \/ task.at = "done" /\ open' = open \ {task.job} /\ past' = past \cup {task.job}
      \/ open' = open /\ past' = past
  BY DEF FinishJob, WorkerStops, Doing
<1>3. task.job \in open
  BY <1>1 DEF PagesInv, TaskFits
<1>4. open' \cup past' = open \cup past
  BY <1>2, <1>3
<1>5. PagesTypeOK' /\ token' \in Nat
  BY <1>1, <1>2 DEF PagesInv, PagesTypeOK
<1>6. JobsAreKnown' /\ ClaimsAreKnown'
  <2>1. JobsAreKnown /\ ClaimsAreKnown
    BY DEF PagesInv
  <2> QED BY <1>1, <1>4, <2>1 DEF JobsAreKnown, ClaimsAreKnown
<1>7. TaskFits' /\ ToldIsClear'
  BY <1>1 DEF TaskFits, ToldIsClear, NoTask, Compiling
<1>8. Follows'
  <2> SUFFICES ASSUME ~Excused' PROVE PageIsRight'
    BY <1>1 DEF Follows, NoTask, Compiling
  <2>1. ~Excused
    BY <1>1, <1>2 DEF Excused, LookAhead, NoTask
  <2>2. task.at # "rewrite" \/ task.job = Expiry
    <3>1. CASE task.at = "rewrite"
      <4>1. ~IsRebuild(task.job)
        <5>1. open' = open
          BY <1>2, <3>1
        <5> QED BY <1>1, <1>3, <5>1 DEF Excused, LookAhead, NoTask
      <4> QED BY <3>1, <4>1 DEF PagesInv, TaskFits
    <3> QED BY <3>1
  <2>3. PageIsRight
    BY <2>1, <2>2 DEF PagesInv, Follows
  <2> QED BY <1>1, <2>3 DEF PageIsRight, Due, Supported
<1> QED BY <1>5, <1>6, <1>7, <1>8 DEF PagesInv

(* New markers come with new jobs, which are still to read.                     *)
LEMMA Marking ==
  ASSUME PagesInv, NEW claims, claims \subseteq Claims, claims # {}, MarkDirty(claims),
         past' = past, task.at # "idle", ~IsRebuild(task.job), task'.job = task.job
  PROVE  /\ token' = token + 1 /\ token' \in Nat
         /\ mark' \in [Claims -> Nat]
         /\ \A c \in Claims : mark'[c] # 0 => c \in claims \/ mark[c] # 0
         /\ open \subseteq open' /\ open' \cap past' = {}
         /\ \A j \in open' \cup past' :
              j \in open \cup past \/ \E c \in claims : j = Repair(c, token')
         /\ LookAhead'
<1>1. /\ token' = token + 1 /\ token \in Nat
      /\ mark' = [c \in Claims |-> IF c \in claims THEN token + 1 ELSE mark[c]]
      /\ open' = open \cup ({Repair(c, token + 1) : c \in claims} \ past)
  BY DEF MarkDirty, Enqueued, PagesInv
<1>2. mark \in [Claims -> Nat] /\ open \cap past = {} /\ task.job \in open
  BY DEF PagesInv, PagesTypeOK, TaskFits
<1>3. PICK d \in claims : TRUE
  OBVIOUS
<1>4. Repair(d, token + 1) \notin past
  <2>1. ~(token + 1 <= token) /\ token + 1 \in Nat
    BY <1>1
  <2> QED BY <1>3, <2>1 DEF PagesInv, JobsAreKnown
<1>5. Repair(d, token + 1) \in open' /\ IsRebuild(Repair(d, token + 1))
  BY <1>1, <1>4, KeysDiffer
<1>6. LookAhead'
  BY <1>5 DEF LookAhead
<1> QED BY <1>1, <1>2, <1>6

(* Jobs are known by their keys, whatever is marked.                            *)
LEMMA JobsStayKnown ==
  ASSUME JobsAreKnown, token \in Nat, token' \in Nat, token <= token', correcting' = correcting,
         open \cup past \subseteq open' \cup past',
         \A j \in open' \cup past' : j \in open \cup past \/ \E c : j = Repair(c, token'),
         status'["v"] # "none" <=> status["v"] # "none",
         status'["b"] # "none" => Compilation("b") \in open \cup past
  PROVE  JobsAreKnown'
<1>1. ASSUME NEW j \in open' \cup past' PROVE IsCompilation(j) \/ j = Expiry \/ IsRebuild(j)
  BY <1>1, KeysDiffer DEF JobsAreKnown
<1>2. ASSUME NEW c \in Claims, NEW t \in Nat, Repair(c, t) \in open' \cup past' PROVE t <= token'
  <2>1. CASE Repair(c, t) \in open \cup past
    BY <2>1 DEF JobsAreKnown
  <2>2. CASE \E d : Repair(c, t) = Repair(d, token')
    BY <2>2, KeysDiffer
  <2> QED BY <1>2, <2>1, <2>2
<1>3. NewAnswer("b") \in open' \cup past' => Compilation("b") \in open' \cup past'
  BY KeysDiffer DEF JobsAreKnown
<1>4. Correction \in open' \cup past' => Correction \in open \cup past
  BY KeysDiffer
<1> QED BY <1>1, <1>2, <1>3, <1>4 DEF JobsAreKnown

(* The answer is there: its claim is stored, and one that it replaces is old.    *)
LEMMA PagesPersistClaims == ASSUME PagesInv, PersistClaims PROVE PagesInv'
<1>1. task.at = "extract" /\ IsCompilation(task.job) /\ task.job \in open
  BY DEF PersistClaims, Doing, PagesInv, TaskFits
<1>2. PICK c \in CompiledClaims : task.job = Compilation(c)
  BY <1>1 DEF IsCompilation
<1>3. task.job[2] = c /\ c \in Claims /\ c \notin {"u", "v"} /\ ~IsRebuild(task.job)
  BY <1>2, KeysDiffer DEF CompiledClaims, Claims, Alternatives
<1> DEFINE older == IF c = "w" /\ status[c] = "none" THEN {o \in {"u", "v"} : status[o] = "current"}
                    ELSE {}
           owned == {o \in older : o \in placed}
           changed == owned \cup (IF owned # {} THEN {c} ELSE {})
           told == {<<o, status'[o]>> : o \in changed \cup {c}}
<1>4. /\ status' = [o \in Claims |-> IF o \in older THEN "superseded"
                                     ELSE IF o = c /\ status[c] = "none" THEN "current"
                                     ELSE status[o]]
      /\ placed' = placed \cup changed
      /\ IF changed # {} THEN MarkDirty(changed) ELSE UNCHANGED <<mark, token, open>>
      /\ task' = [task EXCEPT !.at = "replay", !.told = told]
      /\ UNCHANGED <<sharded, chosen, page, past, correcting, turns, stops, mishaps>>
  BY <1>3 DEF PersistClaims
<1>5. /\ older \subseteq {"u", "v"} /\ owned \subseteq older /\ owned \subseteq placed
      /\ changed \subseteq Claims /\ changed \subseteq owned \cup {c}
      /\ \A o \in older : o \in Claims /\ status[o] = "current"
      /\ older # {} => status[c] = "none"
      /\ (changed = {}) = (owned = {}) /\ \A o \in older : o \in placed => changed # {}
  BY <1>3 DEF Claims, Alternatives
<1>6. /\ task' = [f \in {"job", "at", "told", "marks", "todo"} |-> task'[f]]
      /\ task'.at = "replay" /\ task'.told = told /\ task'.job = task.job
  <2> HIDE DEF told
  <2> QED BY <1>4 DEF PagesInv, TaskFits
<1>7. \A t \in told : t = <<t[1], t[2]>> /\ t[1] \in changed \cup {c} /\ t[2] = status'[t[1]]
  OBVIOUS
<1> HIDE DEF told
<1>8. /\ status \in [Claims -> {"none", "current", "superseded", "expired"}]
      /\ \A d \in CompiledClaims : status[d] \in {"none", "current"} /\ d \in Claims
      /\ \A d \in placed : status[d] # "none" /\ placed \subseteq Claims
      /\ \A d \in Claims : mark[d] # 0 => d \in placed
  BY DEF PagesInv, PagesTypeOK, ClaimsAreKnown, CompiledClaims, Claims, Alternatives
<1>9. /\ \A o \in Claims : o \in older => status'[o] = "superseded" /\ status[o] = "current"
      /\ \A o \in Claims : o \notin older \cup {c} => status'[o] = status[o]
      /\ status'[c] = "current" /\ (status[c] # "none" => status[c] = "current")
  BY <1>3, <1>4, <1>5, <1>8
<1> HIDE DEF older, owned
<1>10. status' \in [Claims -> {"none", "current", "superseded", "expired"}]
  <2>1. \A o \in Claims : status'[o] \in {"none", "current", "superseded", "expired"}
    BY <1>8, <1>9
  <2> QED BY <1>4, <2>1
<1> HIDE DEF changed
<1>11. ClaimsAreKnown'
  <2>1. \A d \in CompiledClaims : status'[d] \in {"none", "current"}
    BY <1>5, <1>8, <1>9 DEF CompiledClaims
  <2>2. \A d \in placed' : status'[d] # "none"
    BY <1>3, <1>4, <1>5, <1>8, <1>9
  <2>3. \A d \in Claims : mark'[d] # 0 => d \in placed'
    <3>1. CASE changed = {}
      BY <1>4, <1>8, <3>1
    <3>2. CASE changed # {}
      <4>1. \A d \in Claims : mark'[d] # 0 => d \in changed \/ mark[d] # 0
        BY <1>1, <1>3, <1>4, <1>5, <1>6, <3>2, Marking
      <4> QED BY <1>4, <1>8, <4>1
    <3> QED BY <3>1, <3>2
  <2> QED BY <1>4, <2>1, <2>2, <2>3 DEF PagesInv, ClaimsAreKnown
<1>12. /\ token \in Nat /\ token' \in Nat /\ token <= token' /\ mark' \in [Claims -> Nat]
       /\ open \subseteq open' /\ open' \cap past' = {}
       /\ \A j \in open' \cup past' : j \in open \cup past \/ \E d : j = Repair(d, token')
       /\ changed # {} => LookAhead'
  <2>1. CASE changed = {}
    BY <1>4, <2>1 DEF PagesInv, PagesTypeOK
  <2>2. CASE changed # {}
    BY <1>1, <1>3, <1>4, <1>5, <1>6, <2>2, Marking DEF PagesInv
  <2> QED BY <2>1, <2>2
<1>13. PagesTypeOK'
  BY <1>3, <1>4, <1>5, <1>10, <1>12 DEF PagesInv, PagesTypeOK
<1>14. JobsAreKnown'
  <2>1. (status'["v"] # "none" <=> status["v"] # "none")
        /\ (status'["b"] # "none" => Compilation("b") \in open \cup past)
    <3>1. "v" \in Claims /\ "b" \in Claims /\ "v" # c /\ "b" \notin older
      BY <1>3, <1>5 DEF Claims, Alternatives
    <3>2. status["b"] # "none" => Compilation("b") \in open \cup past
      BY DEF PagesInv, JobsAreKnown
    <3> QED BY <1>1, <1>2, <1>9, <3>1, <3>2
  <2> QED BY <1>4, <1>12, <2>1, JobsStayKnown DEF PagesInv
<1>15. TaskFits'
  BY <1>1, <1>2, <1>6, <1>9, <1>12, KeysDiffer DEF TaskFits, Compiling
<1>16. ToldIsClear'
  <2>1. \A t \in told : /\ t[1] \in Claims
                        /\ t[2] \in {"current", "superseded", "expired", "absent"}
                        /\ status'[t[1]] # "none"
                        /\ t[1] \notin placed' => t[1] = c
    BY <1>3, <1>4, <1>5, <1>7, <1>9, <1>10
  <2> QED BY <1>2, <1>6, <1>7, <2>1 DEF ToldIsClear, Compiling
<1>17. Follows'
  <2> SUFFICES ASSUME ~Excused' PROVE Follows'
    BY DEF Follows
  <2>1. changed = {} /\ UNCHANGED <<mark, token, open, placed>>
    BY <1>4, <1>12 DEF Excused
  <2>2. ~Excused
    BY <1>3, <1>4, <1>6, <2>1 DEF Excused, LookAhead
  <2>3. PageIsRight /\ (c \in Alternatives => Supported(c) \/ (sharded /\ c \notin placed))
    BY <1>1, <1>2, <2>2 DEF PagesInv, Follows
  <2>4. ASSUME NEW o \in Claims PROVE Due(o)' = Due(o)
    <3>1. CASE o \in placed
      <4>1. o \notin older /\ status[o] # "none"
        BY <1>5, <1>8, <2>1, <3>1
      <4>2. status'[o] = status[o]
        BY <1>9, <4>1
      <4> QED BY <1>4, <2>1, <4>2, DueStays
    <3>2. CASE o \notin placed
      BY <2>1, <3>2 DEF Due
    <3> QED BY <3>1, <3>2
  <2>5. PageIsRight'
    BY <1>4, <2>3, <2>4 DEF PageIsRight
  <2>6. ASSUME NEW d \in Alternatives, task'.job = Compilation(d)
        PROVE  (Supported(d) \/ (sharded /\ d \notin placed))'
    <3>1. d = c
      BY <1>2, <1>6, <2>6, KeysDiffer
    <3> QED BY <1>4, <2>1, <2>3, <2>6, <3>1 DEF Supported
  <2>7. ASSUME NEW t \in told, t[1] \in placed' PROVE ShownAs(t[2]) = Due(t[1])'
    <3>1. t[1] = c /\ t[2] = status'[c] /\ status'[c] = "current"
      BY <1>3, <1>7, <1>9, <2>1
    <3>2. c \in placed /\ status[c] = "current"
      BY <1>3, <1>8, <1>9, <2>1, <2>7, <3>1
    <3>3. Supported(c)
      BY <2>3, <3>2 DEF Supported
    <3>4. Due(c) = ShownAs(status[c])
      BY <3>2, <3>3, DueIsShown
    <3> QED BY <1>3, <2>4, <3>1, <3>2, <3>4
  <2> QED BY <1>6, <2>5, <2>6, <2>7 DEF Follows, Compiling
<1> QED BY <1>11, <1>12, <1>13, <1>14, <1>15, <1>16, <1>17 DEF PagesInv

(* A job that has not come to the page ends.                                    *)
LEMMA PagesGoDone ==
  ASSUME PagesInv, task.at # "idle", task.at # "rewrite",
         ~IsRebuild(task.job), task'.at = "done", task'.told = task.told, task'.job = task.job,
         task' = [f \in {"job", "at", "told", "marks", "todo"} |-> task'[f]],
         UNCHANGED <<sharded, status, placed, chosen, page, mark, token, open, past, correcting,
                     mishaps>>
  PROVE  PagesInv'
<1>1. TaskFits' /\ ToldIsClear'
  BY DEF PagesInv, TaskFits, ToldIsClear, Compiling
<1>2. Follows'
  <2> SUFFICES ASSUME ~Excused' PROVE Follows'
    BY DEF Follows
  <2>1. ~Excused
    BY DEF Excused, LookAhead
  <2>2. PageIsRight
    BY <2>1 DEF PagesInv, Follows
  <2>3. PageIsRight'
    BY <2>2 DEF PageIsRight, Due, Supported
  <2> QED BY <2>3 DEF Follows, Compiling
<1> QED BY <1>1, <1>2, LedgerStays DEF PagesInv, PagesTypeOK

(* The claim whose time has passed.                                            *)
LEMMA PagesExpireClaim == ASSUME PagesInv, ExpireClaim PROVE PagesInv'
<1>1. /\ task.at = "expire" /\ task.job \in open /\ task.job = Expiry
      /\ UNCHANGED <<sharded, placed, chosen, page, past, correcting, turns, stops, mishaps>>
  BY DEF ExpireClaim, Doing, PagesInv, TaskFits
<1>2. ~IsRebuild(task.job) /\ "u" \in Claims /\ Expiry # Correction
      /\ \A c \in Alternatives : task.job # Compilation(c)
  BY <1>1, KeysDiffer DEF Claims
<1>3. CASE status["u"] \in {"current", "expired"}
  <2>1. /\ status' = [status EXCEPT !["u"] = "expired"]
        /\ IF "u" \in placed THEN MarkDirty({"u"}) ELSE UNCHANGED <<mark, token, open>>
        /\ task' = [task EXCEPT !.at = IF sharded THEN "replay" ELSE "rebuild",
                                !.told = {<<"u", "expired">>}]
    BY <1>3 DEF ExpireClaim
  <2>2. /\ task' = [f \in {"job", "at", "told", "marks", "todo"} |-> task'[f]]
        /\ task'.at = IF sharded THEN "replay" ELSE "rebuild"
        /\ task'.told = {<<"u", "expired">>} /\ task'.job = task.job
    BY <2>1 DEF PagesInv, TaskFits
  <2>3. /\ token \in Nat /\ token' \in Nat /\ token <= token' /\ mark' \in [Claims -> Nat]
        /\ open \subseteq open' /\ open' \cap past' = {}
        /\ \A j \in open' \cup past' : j \in open \cup past \/ \E d : j = Repair(d, token')
        /\ \A d \in Claims : mark'[d] # 0 => d \in placed'
        /\ "u" \in placed => LookAhead'
    <3>1. \A d \in Claims : mark[d] # 0 => d \in placed
      BY DEF PagesInv, ClaimsAreKnown
    <3>2. CASE "u" \notin placed
      BY <1>1, <2>1, <3>1, <3>2 DEF PagesInv, PagesTypeOK
    <3>3. CASE "u" \in placed
      <4>1. {"u"} \subseteq Claims /\ {"u"} # {} /\ MarkDirty({"u"}) /\ task.at # "idle"
        BY <1>1, <1>2, <2>1, <3>3
      <4>2. token \in Nat
        BY DEF PagesInv
      <4> QED BY <1>1, <1>2, <2>2, <3>1, <3>3, <4>1, <4>2, Marking
    <3> QED BY <3>2, <3>3
  <2>4. /\ status \in [Claims -> {"none", "current", "superseded", "expired"}]
        /\ \A c \in placed : status[c] # "none" /\ placed \subseteq Claims
        /\ \A d \in CompiledClaims : status[d] \in {"none", "current"} /\ d \in Claims /\ d # "u"
    BY DEF PagesInv, PagesTypeOK, ClaimsAreKnown, CompiledClaims, Claims, Alternatives
  <2>5. status'["u"] = "expired" /\ \A c \in Claims : c # "u" => status'[c] = status[c]
    BY <1>2, <2>1, <2>4
  <2>6. status' \in [Claims -> {"none", "current", "superseded", "expired"}]
    BY <2>1, <2>4
  <2>7. PagesTypeOK'
    BY <1>1, <2>3, <2>6 DEF PagesInv, PagesTypeOK
  <2>8. ClaimsAreKnown'
    BY <1>1, <2>3, <2>4, <2>5 DEF PagesInv, ClaimsAreKnown
  <2>9. JobsAreKnown'
    <3>1. "v" \in Claims /\ "b" \in Claims
      BY DEF Claims, Alternatives
    <3>2. (status'["v"] # "none" <=> status["v"] # "none")
          /\ (status'["b"] # "none" => Compilation("b") \in open \cup past)
      BY <2>5, <3>1 DEF PagesInv, JobsAreKnown
    <3> QED BY <1>1, <2>3, <3>2, JobsStayKnown DEF PagesInv
  <2>10. TaskFits'
    BY <1>1, <2>2, <2>3, KeysDiffer DEF TaskFits, Compiling
  <2>11. ToldIsClear'
    BY <1>2, <2>2 DEF ToldIsClear, Compiling, ShownAs
  <2>12. Follows'
    <3> SUFFICES ASSUME ~Excused' PROVE Follows'
      BY DEF Follows
    <3>1. "u" \notin placed /\ open' = open
      BY <2>1, <2>3 DEF Excused
    <3>2. ~Excused
      BY <1>1, <1>2, <2>2, <3>1 DEF Excused, LookAhead
    <3>3. PageIsRight
      BY <1>1, <3>2 DEF PagesInv, Follows
    <3>4. ASSUME NEW c \in Claims PROVE Due(c)' = Due(c)
      <4>1. c = "u" => Due(c)' = Due(c)
        BY <1>1, <3>1 DEF Due
      <4>2. c # "u" => Due(c)' = Due(c)
        BY <1>1, <2>5, DueStays
      <4> QED BY <4>1, <4>2
    <3>5. PageIsRight'
      BY <1>1, <3>3, <3>4 DEF PageIsRight
    <3> QED BY <1>1, <1>2, <2>2, <3>1, <3>5 DEF Follows, Compiling
  <2> QED BY <2>3, <2>7, <2>8, <2>9, <2>10, <2>11, <2>12 DEF PagesInv
<1>4. CASE status["u"] \notin {"current", "expired"}
  <2>1. task' = [task EXCEPT !.at = "done"] /\ UNCHANGED <<status, mark, token, open>>
    BY <1>4 DEF ExpireClaim, Go
  <2>2. /\ task' = [f \in {"job", "at", "told", "marks", "todo"} |-> task'[f]]
        /\ task'.at = "done" /\ task'.told = task.told /\ task'.job = task.job
    BY <2>1 DEF PagesInv, TaskFits
  <2> QED BY <1>1, <1>2, <2>1, <2>2, PagesGoDone DEF ExpireClaim
<1> QED BY <1>3, <1>4
(* What has changed is gathered: what the job knows, and what markers tell.       *)
LEMMA PagesReplay == ASSUME PagesInv, Replay PROVE PagesInv'
<1> DEFINE own == {t[1] : t \in task.told}
           replayed == {<<c, Due(c)>> : c \in Marked \ own}
           told == task.told \cup replayed
           todo == (own \cap placed) \cup Marked
<1>1. /\ task.at = "replay" /\ (IsCompilation(task.job) \/ task.job = Expiry) /\ task.job \in open
      /\ UNCHANGED <<sharded, status, placed, chosen, page, mark, token, open, past, correcting,
                     turns, stops, mishaps>>
      /\ task' = [task EXCEPT !.told = told, !.marks = MarksOf(Claims), !.todo = todo,
                              !.at = IF sharded THEN "patch" ELSE "render"]
  BY DEF Replay, Doing, PagesInv, TaskFits
<1>2. ~IsRebuild(task.job)
  BY <1>1, KeysDiffer DEF IsCompilation
<1>3. /\ \A t \in task.told : t[1] \in own
      /\ \A c \in own : \E t \in task.told : t[1] = c
      /\ \A t \in replayed : t = <<t[1], t[2]>> /\ t[1] \in Marked \ own /\ t[2] = Due(t[1])
      /\ \A c \in Marked \ own : <<c, Due(c)>> \in replayed
      /\ Marked \subseteq Claims /\ \A c \in Marked : c \in placed
  BY DEF Marked, PagesInv, ClaimsAreKnown
<1> HIDE DEF own, replayed
<1>4. /\ task' = [f \in {"job", "at", "told", "marks", "todo"} |-> task'[f]]
      /\ task'.at = IF sharded THEN "patch" ELSE "render"
      /\ task'.told = told /\ task'.job = task.job /\ task'.todo = todo
  <2> HIDE DEF told, todo
  <2> QED BY <1>1 DEF PagesInv, TaskFits
<1>5. TaskFits'
  BY <1>1, <1>4 DEF PagesInv, TaskFits, Compiling
<1>6. /\ \A t \in task.told : t = <<t[1], t[2]>> /\ t[1] \in Claims
      /\ \A s, t \in task.told : s[1] = t[1] => s = t
      /\ \A t \in task.told :
           /\ t[2] \in {"current", "superseded", "expired", "absent"}
           /\ ShownAs(t[2]) # "absent" =>
                /\ status[t[1]] # "none"
                /\ t[1] \notin placed => task.job = Compilation(t[1]) /\ t[2] = status[t[1]]
  BY <1>1 DEF PagesInv, ToldIsClear, Compiling
<1>7. \A t \in replayed :
        /\ t[2] \in {"current", "superseded", "expired", "absent"} /\ t[1] \in placed
        /\ status[t[1]] # "none" /\ ShownAs(t[2]) = Due(t[1])
  BY <1>3, DueIsShown DEF PagesInv, ClaimsAreKnown
<1>8. \A s, t \in told : s[1] = t[1] => s = t
  BY <1>3, <1>6
<1>9. \A t \in told : /\ t = <<t[1], t[2]>> /\ t[1] \in Claims
                      /\ t[2] \in {"current", "superseded", "expired", "absent"}
                      /\ ShownAs(t[2]) # "absent" =>
                           /\ status[t[1]] # "none"
                           /\ t[1] \notin placed => task.job = Compilation(t[1]) /\ t[2] = status[t[1]]
  BY <1>3, <1>6, <1>7
<1>10. \A c \in todo : c \in placed /\ \E t \in told : t[1] = c
  BY <1>3
<1> HIDE DEF told, todo
<1>11. ToldIsClear'
  BY <1>1, <1>4, <1>8, <1>9, <1>10 DEF ToldIsClear, Compiling
<1>12. Follows'
  <2> SUFFICES ASSUME ~Excused' PROVE Follows'
    BY DEF Follows
  <2>1. ~Excused
    BY <1>1, <1>2, <1>4 DEF Excused, LookAhead
  <2>2. /\ PageIsRight
        /\ \A c \in Alternatives :
             task.job = Compilation(c) => Supported(c) \/ (sharded /\ c \notin placed)
        /\ \A t \in task.told : t[1] \in placed => ShownAs(t[2]) = Due(t[1])
    BY <1>1, <2>1 DEF PagesInv, Follows, Compiling
  <2>3. PageIsRight' /\ \A c : Due(c)' = Due(c) /\ (Supported(c)' <=> Supported(c))
    BY <1>1, <2>2 DEF PageIsRight, Due, Supported
  <2>4. \A t \in told : t[1] \in placed => ShownAs(t[2]) = Due(t[1])
    BY <1>7, <2>2 DEF told
  <2> QED BY <1>1, <1>4, <2>2, <2>3, <2>4 DEF Follows, Compiling
<1> QED BY <1>1, <1>5, <1>11, <1>12, LedgerStays DEF PagesInv, PagesTypeOK

(* Any of what a claim has been told is what it is told.                        *)
LEMMA ToldIsTold ==
  ASSUME ToldIsClear, Compiling, NEW t \in task.told, NEW c, t[1] = c
  PROVE  Told(c) = t[2] /\ t[2] \in {"current", "superseded", "expired", "absent"}
<1>1. <<c, t[2]>> \in task.told /\ t[2] \in {"current", "superseded", "expired", "absent"}
  BY DEF ToldIsClear
<1>2. ASSUME NEW s, <<c, s>> \in task.told PROVE s = t[2]
  <2>1. <<c, s>> = t
    BY <1>2 DEF ToldIsClear
  <2> QED BY <2>1
<1> QED BY <1>1, <1>2 DEF Told

(* A shard takes one change.                                                   *)
LEMMA PagesPatchShard == ASSUME PagesInv, PatchShard PROVE PagesInv'
<1>1. PICK c \in task.todo :
        /\ page' = [page EXCEPT ![c] = IF Told(c) \in {"expired", "absent"} THEN "absent"
                                       ELSE IF Member(c) THEN Due(c) ELSE Told(c)]
        /\ task' = [task EXCEPT !.todo = @ \ {c}]
  BY DEF PatchShard
<1>2. /\ task.at = "patch" /\ (IsCompilation(task.job) \/ task.job = Expiry) /\ task.job \in open
      /\ UNCHANGED <<sharded, status, placed, chosen, mark, token, open, past, correcting, turns,
                     stops, mishaps>>
  BY DEF PatchShard, Doing, PagesInv, TaskFits
<1>3. ~IsRebuild(task.job) /\ Compiling
  BY <1>2, KeysDiffer DEF IsCompilation, Compiling
<1>4. PICK t \in task.told : t[1] = c /\ (ShownAs(t[2]) # "absent" => c \in placed)
  BY <1>2 DEF PagesInv, ToldIsClear
<1>5. /\ Told(c) = t[2] /\ t[2] \in {"current", "superseded", "expired", "absent"}
      /\ c \in Claims /\ (ShownAs(t[2]) # "absent" => c \in placed)
  BY <1>3, <1>4, ToldIsTold DEF PagesInv, ToldIsClear
<1>6. /\ task' = [f \in {"job", "at", "told", "marks", "todo"} |-> task'[f]]
      /\ task'.at = task.at /\ task'.told = task.told /\ task'.job = task.job
      /\ task'.todo \subseteq task.todo
  BY <1>1 DEF PagesInv, TaskFits
<1>7. TaskFits' /\ ToldIsClear'
  BY <1>2, <1>6 DEF PagesInv, TaskFits, ToldIsClear, Compiling
<1>8. page' \in [Claims -> {"absent", "current", "superseded"}]
  <2>1. page'[c] \in {"absent", "current", "superseded"}
    BY <1>1, <1>5, DueIsShown DEF PagesInv, PagesTypeOK
  <2> QED BY <1>1, <1>5, <2>1 DEF PagesInv, PagesTypeOK
<1>9. Follows'
  <2> SUFFICES ASSUME ~Excused' PROVE Follows'
    BY DEF Follows
  <2>1. ~Excused
    BY <1>2, <1>3, <1>6 DEF Excused, LookAhead
  <2>2. /\ PageIsRight
        /\ \A d \in Alternatives :
             task.job = Compilation(d) => Supported(d) \/ (sharded /\ d \notin placed)
        /\ \A s \in task.told : s[1] \in placed => ShownAs(s[2]) = Due(s[1])
    BY <1>2, <1>3, <2>1 DEF PagesInv, Follows
  <2>3. \A d : Due(d)' = Due(d) /\ (Supported(d)' <=> Supported(d))
    BY <1>2 DEF Due, Supported
  <2>4. page'[c] = Due(c)
    <3>1. c \in placed => ShownAs(t[2]) = Due(c)
      BY <1>4, <2>2
    <3>2. c \notin placed => Due(c) = "absent"
      BY DueIsShown
    <3>3. page'[c] = IF t[2] \in {"expired", "absent"} THEN "absent"
                     ELSE IF Member(c) THEN Due(c) ELSE t[2]
      BY <1>1, <1>5 DEF PagesInv, PagesTypeOK
    <3> QED BY <1>5, <3>1, <3>2, <3>3 DEF ShownAs
  <2>5. \A d \in Claims : d # c => page'[d] = page[d]
    BY <1>1 DEF PagesInv, PagesTypeOK
  <2>6. PageIsRight'
    BY <2>2, <2>3, <2>4, <2>5 DEF PageIsRight
  <2> QED BY <1>2, <1>6, <2>2, <2>3, <2>6 DEF Follows, Compiling
<1> QED BY <1>2, <1>7, <1>8, <1>9, LedgerStays DEF PagesInv, PagesTypeOK

(* Markers that were told go, unless they were set again.                       *)
LEMMA Consuming ==
  ASSUME PagesInv, NEW marks, Consumed(marks)
  PROVE  mark' \in [Claims -> Nat] /\ \A c \in Claims : mark'[c] # 0 => mark[c] # 0
BY DEF PagesInv, PagesTypeOK, Consumed

(* All shards are written.                                                     *)
LEMMA PagesCompletePatch == ASSUME PagesInv, CompletePatch PROVE PagesInv'
<1>1. /\ task.at = "patch" /\ (IsCompilation(task.job) \/ task.job = Expiry) /\ task.job \in open
      /\ Consumed(task.marks)
      /\ UNCHANGED <<sharded, status, placed, chosen, page, token, open, past, correcting, turns,
                     stops, mishaps>>
  BY DEF CompletePatch, Doing, PagesInv, TaskFits
<1>2. ~IsRebuild(task.job) /\ Compiling /\ Expiry[1] # "memory.compile"
  BY <1>1, KeysDiffer DEF IsCompilation, Compiling
<1>3. PICK at \in {"place", "done"} :
        task' = [task EXCEPT !.at = at] /\ (at = "place" => task.job[1] = "memory.compile")
  BY DEF CompletePatch, Go
<1>4. /\ task' = [f \in {"job", "at", "told", "marks", "todo"} |-> task'[f]]
      /\ task'.at = at /\ task'.told = task.told /\ task'.job = task.job
  BY <1>3 DEF PagesInv, TaskFits
<1>5. mark' \in [Claims -> Nat] /\ \A c \in Claims : mark'[c] # 0 => mark[c] # 0
  BY <1>1, Consuming
<1>6. TaskFits' /\ ToldIsClear'
  BY <1>1, <1>2, <1>3, <1>4 DEF PagesInv, TaskFits, ToldIsClear, Compiling
<1>7. JobsAreKnown' /\ ClaimsAreKnown' /\ PagesTypeOK'
  BY <1>1, <1>5 DEF PagesInv, PagesTypeOK, JobsAreKnown, ClaimsAreKnown
<1>8. Follows'
  <2> SUFFICES ASSUME ~Excused' PROVE Follows'
    BY DEF Follows
  <2>1. ~Excused
    BY <1>1, <1>2, <1>4 DEF Excused, LookAhead
  <2>2. /\ PageIsRight
        /\ \A d \in Alternatives :
             task.job = Compilation(d) => Supported(d) \/ (sharded /\ d \notin placed)
        /\ \A s \in task.told : s[1] \in placed => ShownAs(s[2]) = Due(s[1])
    BY <1>1, <1>2, <2>1 DEF PagesInv, Follows
  <2>3. \A d : Due(d)' = Due(d) /\ (Supported(d)' <=> Supported(d))
    BY <1>1 DEF Due, Supported
  <2>4. PageIsRight'
    BY <1>1, <2>2, <2>3 DEF PageIsRight
  <2> QED BY <1>1, <1>4, <2>2, <2>3, <2>4 DEF Follows, Compiling
<1> QED BY <1>1, <1>6, <1>7, <1>8 DEF PagesInv

(* The claim gets its topic, with a marker and a job.                            *)
LEMMA PagesPlaceClaim == ASSUME PagesInv, PlaceClaim PROVE PagesInv'
<1>1. /\ task.at = "place" /\ IsCompilation(task.job) /\ task.job \in open
      /\ UNCHANGED <<sharded, status, chosen, page, past, correcting, turns, stops, mishaps>>
  BY DEF PlaceClaim, Doing, PagesInv, TaskFits
<1>2. PICK c \in CompiledClaims : task.job = Compilation(c)
  BY <1>1 DEF IsCompilation
<1>3. task.job[2] = c /\ c \in Claims /\ ~IsRebuild(task.job) /\ Compiling /\ c \notin {"u", "v"}
  BY <1>1, <1>2, KeysDiffer DEF CompiledClaims, Claims, Alternatives, Compiling
<1>4. placed' = placed \cup {c} /\ MarkDirty({c})
  BY <1>3 DEF PlaceClaim
<1>5. PICK marks, todo : /\ task' = [task EXCEPT !.at = "patch", !.marks = marks, !.todo = todo]
                         /\ todo = {t[1] : t \in task.told}
  BY DEF PlaceClaim
<1>6. /\ task' = [f \in {"job", "at", "told", "marks", "todo"} |-> task'[f]]
      /\ task'.at = "patch" /\ task'.told = task.told /\ task'.job = task.job
      /\ task'.todo = todo
  BY <1>5 DEF PagesInv, TaskFits
<1>7. /\ token \in Nat /\ token' \in Nat /\ token <= token' /\ mark' \in [Claims -> Nat]
      /\ open \subseteq open' /\ open' \cap past' = {}
      /\ \A j \in open' \cup past' : j \in open \cup past \/ \E d : j = Repair(d, token')
      /\ \A d \in Claims : mark'[d] # 0 => d \in {c} \/ mark[d] # 0
      /\ LookAhead'
  <2>1. {c} \subseteq Claims /\ {c} # {} /\ task.at # "idle"
    BY <1>1, <1>3
  <2>2. token \in Nat
    BY DEF PagesInv
  <2> QED BY <1>1, <1>3, <1>4, <1>6, <2>1, <2>2, Marking
<1>8. JobsAreKnown'
  <2>1. status["b"] # "none" => Compilation("b") \in open \cup past
    BY DEF PagesInv, JobsAreKnown
  <2> QED BY <1>1, <1>7, <2>1, JobsStayKnown DEF PagesInv
<1>9. status[c] # "none"
  BY <1>2, <1>3 DEF PagesInv, TaskFits
<1>10. ClaimsAreKnown' /\ PagesTypeOK'
  BY <1>1, <1>3, <1>4, <1>7, <1>9 DEF PagesInv, PagesTypeOK, ClaimsAreKnown
<1>11. TaskFits'
  BY <1>1, <1>2, <1>6, <1>7, <1>9, KeysDiffer DEF TaskFits, Compiling
<1>12. ToldIsClear'
  <2>1. ToldIsClear
    BY DEF PagesInv
  <2>2. \A t \in task.told : ShownAs(t[2]) # "absent" /\ t[1] \notin placed => t[1] = c
    BY <1>2, <1>3, <2>1, KeysDiffer DEF ToldIsClear
  <2>3. \A d \in todo : \E t \in task.told : t[1] = d /\ (ShownAs(t[2]) # "absent" => d \in placed')
    BY <1>4, <1>5, <2>2
  <2>4. \A t \in task.told :
          /\ t[2] \in {"current", "superseded", "expired", "absent"}
          /\ ShownAs(t[2]) # "absent" =>
               /\ status[t[1]] # "none"
               /\ t[1] \notin placed => task.job = Compilation(t[1]) /\ t[2] = status[t[1]]
    BY <1>3, <2>1 DEF ToldIsClear
  <2>5. task'.at # "rewrite"
    BY <1>6
  <2> QED BY <1>1, <1>4, <1>6, <2>1, <2>3, <2>4, <2>5 DEF ToldIsClear
<1>13. Follows'
  BY <1>7 DEF Follows, Excused
<1> QED BY <1>7, <1>8, <1>10, <1>11, <1>12, <1>13 DEF PagesInv

(* What a full compilation shows of a claim.                                    *)
LEMMA RenderedClaim ==
  ASSUME ToldIsClear, Compiling, NEW c \in Claims
  PROVE  \/ \E t \in task.told : t[1] = c /\ ShownAs(t[2]) # "absent" /\ Rendered(task.told)[c] = t[2]
         \/ /\ \A t \in task.told : t[1] = c => ShownAs(t[2]) = "absent"
            /\ Rendered(task.told)[c] = Due(c)
<1>1. CASE \E s \in {"current", "superseded"} : <<c, s>> \in task.told
  <2>1. PICK s \in {"current", "superseded"} : <<c, s>> \in task.told
    BY <1>1
  <2>2. \A r \in {"current", "superseded"} : <<c, r>> \in task.told => r = s
    BY <2>1 DEF ToldIsClear
  <2>3. Rendered(task.told)[c] = s
    BY <2>1, <2>2 DEF Rendered
  <2> QED BY <2>1, <2>3 DEF ShownAs
<1>2. CASE ~\E s \in {"current", "superseded"} : <<c, s>> \in task.told
  <2>1. Rendered(task.told)[c] = Due(c)
    BY <1>2 DEF Rendered
  <2>2. ASSUME NEW t \in task.told, t[1] = c PROVE ShownAs(t[2]) = "absent"
    <3>1. t = <<c, t[2]>>
      BY <2>2 DEF ToldIsClear
    <3> QED BY <1>2, <3>1 DEF ShownAs
  <2> QED BY <2>1, <2>2
<1> QED BY <1>1, <1>2

(* The page is compiled as a whole.                                            *)
LEMMA PagesRenderPage == ASSUME PagesInv, RenderPage PROVE PagesInv'
<1>1. /\ task.at = "render" /\ (IsCompilation(task.job) \/ task.job = Expiry) /\ task.job \in open
      /\ ~sharded /\ Compiling
      /\ page' = Rendered(task.told)
      /\ placed' = placed \cup {c \in Claims : page'[c] # "absent"}
      /\ Consumed(task.marks)
      /\ task' = [task EXCEPT !.at = "done"]
      /\ UNCHANGED <<sharded, status, chosen, token, open, past, correcting, turns, stops, mishaps>>
  BY DEF RenderPage, Doing, Go, PagesInv, TaskFits, Compiling
<1>2. ~IsRebuild(task.job)
  BY <1>1, KeysDiffer DEF IsCompilation
<1>3. /\ task' = [f \in {"job", "at", "told", "marks", "todo"} |-> task'[f]]
      /\ task'.at = "done" /\ task'.told = task.told /\ task'.job = task.job
  BY <1>1 DEF PagesInv, TaskFits
<1>4. mark' \in [Claims -> Nat] /\ \A c \in Claims : mark'[c] # 0 => mark[c] # 0
  BY <1>1, Consuming
<1>5. ASSUME NEW c \in Claims
      PROVE  \/ \E t \in task.told : t[1] = c /\ ShownAs(t[2]) # "absent" /\ page'[c] = t[2]
             \/ /\ \A t \in task.told : t[1] = c => ShownAs(t[2]) = "absent"
                /\ page'[c] = Due(c)
  BY <1>1, RenderedClaim DEF PagesInv
<1>6. \A t \in task.told :
        /\ t[2] \in {"current", "superseded", "expired", "absent"} /\ t[1] \in Claims
        /\ ShownAs(t[2]) # "absent" =>
             /\ status[t[1]] # "none"
             /\ t[1] \notin placed => task.job = Compilation(t[1]) /\ t[2] = status[t[1]]
  BY <1>1 DEF PagesInv, ToldIsClear
<1>7. \A c \in placed : status[c] # "none"
  BY DEF PagesInv, ClaimsAreKnown
<1>8. \A c \in Claims : page'[c] # "absent" => status[c] # "none"
  BY <1>5, <1>6, <1>7, DueIsShown
<1>9. ClaimsAreKnown'
  BY <1>1, <1>4, <1>7, <1>8 DEF PagesInv, ClaimsAreKnown
<1>10. page' \in [Claims -> {"absent", "current", "superseded"}]
  <2>1. \A c \in Claims : page'[c] \in {"absent", "current", "superseded"}
    BY <1>5, <1>6, DueIsShown DEF ShownAs
  <2>2. page' = [c \in Claims |-> page'[c]]
    BY <1>1 DEF Rendered
  <2> QED BY <2>1, <2>2
<1>11. PagesTypeOK' /\ JobsAreKnown'
  BY <1>1, <1>4, <1>10 DEF PagesInv, PagesTypeOK, JobsAreKnown
<1>12. TaskFits' /\ ToldIsClear'
  BY <1>1, <1>3 DEF PagesInv, TaskFits, ToldIsClear, Compiling
<1>13. Follows'
  <2> SUFFICES ASSUME ~Excused' PROVE Follows'
    BY DEF Follows
  <2>1. ~Excused
    BY <1>1, <1>2, <1>3 DEF Excused, LookAhead
  <2>2. /\ \A d \in Alternatives :
             task.job = Compilation(d) => Supported(d) \/ (sharded /\ d \notin placed)
        /\ \A s \in task.told : s[1] \in placed => ShownAs(s[2]) = Due(s[1])
    BY <1>1, <2>1 DEF PagesInv, Follows
  <2>3. ASSUME NEW c \in Claims PROVE page'[c] = Due(c)'
    <3>1. CASE \E t \in task.told : t[1] = c /\ ShownAs(t[2]) # "absent" /\ page'[c] = t[2]
      <4>1. PICK t \in task.told : t[1] = c /\ ShownAs(t[2]) # "absent" /\ page'[c] = t[2]
        BY <3>1
      <4>2. t[2] \in {"current", "superseded"} /\ c \in placed'
        BY <1>1, <4>1 DEF ShownAs
      <4>3. CASE c \in placed
        <5>1. Due(c)' = Due(c)
          BY <1>1, <4>2, <4>3 DEF Due, Supported
        <5> QED BY <2>2, <4>1, <4>2, <4>3, <5>1 DEF ShownAs
      <4>4. CASE c \notin placed
        <5>1. task.job = Compilation(c) /\ t[2] = status[c]
          BY <1>6, <4>1, <4>4
        <5>2. Supported(c)
          BY <1>1, <2>2, <5>1 DEF Supported
        <5>3. Due(c)' = status[c]
          BY <1>1, <4>2, <5>1, <5>2 DEF Due, Supported
        <5> QED BY <4>1, <5>1, <5>3
      <4> QED BY <4>3, <4>4
    <3>2. CASE page'[c] = Due(c)
      <4>1. c \in placed' => c \in placed
        BY <1>1, <3>2, DueIsShown
      <4>2. Due(c)' = Due(c)
        BY <1>1, <4>1 DEF Due, Supported
      <4> QED BY <3>2, <4>2
    <3> QED BY <1>5, <3>1, <3>2
  <2>4. PageIsRight'
    BY <2>3 DEF PageIsRight
  <2> QED BY <1>3, <2>4 DEF Follows, Compiling
<1> QED BY <1>1, <1>9, <1>11, <1>12, <1>13 DEF PagesInv

(* A rebuild reads what is due ...                                             *)
LEMMA PagesReadPage == ASSUME PagesInv, ReadPage PROVE PagesInv'
<1> DEFINE told == {<<c, Due(c)>> : c \in Claims}
<1>1. /\ task.at = "rebuild" /\ (IsRebuild(task.job) \/ task.job = Expiry) /\ task.job \in open
      /\ task' = [task EXCEPT !.at = "rewrite", !.marks = MarksOf(Claims), !.told = told]
      /\ UNCHANGED <<sharded, status, placed, chosen, page, mark, token, open, past, correcting,
                     turns, stops, mishaps>>
  BY DEF ReadPage, Doing, PagesInv, TaskFits
<1>2. /\ \A t \in told : t = <<t[1], t[2]>> /\ t[1] \in Claims /\ t[2] = Due(t[1])
      /\ \A c \in Claims : <<c, Due(c)>> \in told
  OBVIOUS
<1> HIDE DEF told
<1>3. /\ task' = [f \in {"job", "at", "told", "marks", "todo"} |-> task'[f]]
      /\ task'.at = "rewrite" /\ task'.told = told /\ task'.job = task.job
  BY <1>1 DEF PagesInv, TaskFits
<1>4. TaskFits'
  BY <1>1, <1>3 DEF TaskFits, Compiling
<1>5. ToldIsClear'
  <2>1. \A s, t \in told : s[1] = t[1] => s = t
    BY <1>2
  <2>2. \A c \in Claims : \E s \in {"absent", "current", "superseded"} : <<c, s>> \in told
    BY <1>2, DueIsShown
  <2> QED BY <1>2, <1>3, <2>1, <2>2 DEF ToldIsClear, Compiling
<1>6. Follows'
  <2>1. \A c : Due(c)' = Due(c)
    BY <1>1 DEF Due, Supported
  <2>2. ASSUME ~Excused', task.job = Expiry PROVE PageIsRight'
    <3>1. ~Excused
      BY <1>1, <1>3, <2>2, KeysDiffer DEF Excused, LookAhead
    <3>2. PageIsRight
      BY <1>1, <3>1 DEF PagesInv, Follows
    <3> QED BY <1>1, <2>1, <3>2 DEF PageIsRight
  <2> QED BY <1>2, <1>3, <2>1, <2>2 DEF Follows, Compiling
<1> QED BY <1>1, <1>4, <1>5, <1>6, LedgerStays DEF PagesInv, PagesTypeOK

(* ... and writes it.                                                          *)
LEMMA PagesRewritePage == ASSUME PagesInv, RewritePage PROVE PagesInv'
<1>1. /\ task.at = "rewrite" /\ (IsRebuild(task.job) \/ task.job = Expiry) /\ task.job \in open
      /\ task' = [task EXCEPT !.at = "done"]
      /\ UNCHANGED <<sharded, status, chosen, token, open, past, correcting, turns, stops, mishaps>>
  BY DEF RewritePage, Doing, Go, PagesInv, TaskFits
<1>2. /\ task' = [f \in {"job", "at", "told", "marks", "todo"} |-> task'[f]]
      /\ task'.at = "done" /\ task'.told = task.told /\ task'.job = task.job
  BY <1>1 DEF PagesInv, TaskFits
<1>3. /\ \A c \in Claims : \E s \in {"absent", "current", "superseded"} : <<c, s>> \in task.told
      /\ \A c, r, s : <<c, r>> \in task.told /\ <<c, s>> \in task.told => r = s
  <2>1. ToldIsClear
    BY DEF PagesInv
  <2>2. ASSUME NEW c, NEW r, NEW s, <<c, r>> \in task.told, <<c, s>> \in task.told PROVE r = s
    <3>1. <<c, r>> = <<c, s>>
      BY <2>1, <2>2 DEF ToldIsClear
    <3> QED BY <3>1
  <2> QED BY <1>1, <2>1, <2>2 DEF ToldIsClear
<1>4. TaskFits' /\ ToldIsClear'
  BY <1>1, <1>2 DEF PagesInv, TaskFits, ToldIsClear, Compiling
<1>5. JobsAreKnown'
  BY <1>1 DEF PagesInv, JobsAreKnown
<1>6. ~Excused' => ~Excused
  BY <1>1, <1>2 DEF Excused, LookAhead
<1>7. CASE {t \in task.told : t[2] # "absent"} = {}
  <2>1. page' = [c \in Claims |-> "absent"] /\ placed' = {} /\ mark' = [c \in Claims |-> 0]
    BY <1>7 DEF RewritePage
  <2>2. PagesTypeOK' /\ ClaimsAreKnown'
    BY <1>1, <2>1 DEF PagesInv, PagesTypeOK, ClaimsAreKnown
  <2>3. PageIsRight'
    BY <2>1 DEF PageIsRight, Due
  <2>4. Follows'
    BY <1>2, <2>3 DEF Follows, Compiling
  <2> QED BY <1>1, <1>4, <1>5, <2>2, <2>4 DEF PagesInv
<1>8. CASE {t \in task.told : t[2] # "absent"} # {}
  <2>1. /\ page' = [c \in Claims |-> CHOOSE s \in {"current", "superseded", "absent"} :
                                      <<c, s>> \in task.told]
        /\ Consumed(task.marks) /\ placed' = placed
    BY <1>8 DEF RewritePage
  <2>2. \A c \in Claims : page'[c] \in {"absent", "current", "superseded"} /\ <<c, page'[c]>> \in task.told
    BY <1>3, <2>1
  <2>3. mark' \in [Claims -> Nat] /\ \A c \in Claims : mark'[c] # 0 => mark[c] # 0
    BY <2>1, Consuming
  <2>4. page' \in [Claims -> {"absent", "current", "superseded"}]
    BY <2>1, <2>2
  <2>5. PagesTypeOK' /\ ClaimsAreKnown'
    BY <1>1, <2>1, <2>3, <2>4 DEF PagesInv, PagesTypeOK, ClaimsAreKnown
  <2>6. Follows'
    <3> SUFFICES ASSUME ~Excused' PROVE Follows'
      BY DEF Follows
    <3>1. \A c \in Claims : <<c, Due(c)>> \in task.told
      BY <1>1, <1>6 DEF PagesInv, Follows
    <3>2. \A c \in Claims : page'[c] = Due(c)
      BY <1>3, <2>2, <3>1
    <3>3. \A c : Due(c)' = Due(c)
      BY <1>1, <2>1 DEF Due, Supported
    <3>4. PageIsRight'
      BY <3>2, <3>3 DEF PageIsRight
    <3> QED BY <1>2, <3>4 DEF Follows, Compiling
  <2> QED BY <1>1, <1>4, <1>5, <2>5, <2>6 DEF PagesInv
<1> QED BY <1>7, <1>8

(* As long as no claim of the two answers is on the page, choosing between them   *)
(* leaves it as it is.                                                         *)
LEMMA ChoiceIsElsewhere ==
  ASSUME PagesInv, ~Excused, placed \cap Alternatives = {},
         UNCHANGED <<sharded, status, placed, page, task>>,
         \A d \in Alternatives : (task.at = "extract" \/ Compiling) /\ task.job = Compilation(d) =>
                                 Supported(d)' \/ sharded
  PROVE  Follows'
<1>1. \A c \in Claims : Due(c)' = Due(c)
  BY DEF Due, Supported
<1>2. PagesInv /\ Follows
  BY DEF PagesInv
<1>3. \A t \in task.told : t[1] \in Claims
  BY DEF PagesInv, ToldIsClear
<1>4. \A d \in Alternatives : d \notin placed
  OBVIOUS
<1>5. task.at # "rewrite" \/ task.job = Expiry => PageIsRight'
  BY <1>1, <1>2 DEF Follows, PageIsRight
<1>6. task.at = "rewrite" => \A c \in Claims : <<c, Due(c)'>> \in task.told
  BY <1>1, <1>2 DEF Follows
<1>7. Compiling => \A t \in task.told : t[1] \in placed => ShownAs(t[2]) = Due(t[1])'
  BY <1>1, <1>2, <1>3 DEF Follows
<1> QED BY <1>4, <1>5, <1>6, <1>7 DEF Follows, Compiling

(* What a step that is not the worker's leaves of its task.                     *)
LEMMA TaskStays ==
  ASSUME PagesInv, UNCHANGED <<sharded, status, task>>, placed \subseteq placed',
         task.at # "idle" => task.job \in open'
  PROVE  TaskFits' /\ ToldIsClear'
<1>1. TaskFits /\ ToldIsClear
  BY DEF PagesInv
<1>2. TaskFits'
  BY <1>1 DEF TaskFits, Compiling
<1>3. ToldIsClear'
  BY <1>1 DEF ToldIsClear, Compiling
<1> QED BY <1>2, <1>3

(* The message is answered again.                                              *)
LEMMA PagesAnswerArrives == ASSUME PagesInv, AnswerArrives PROVE PagesInv'
<1> DEFINE rebuilds == IF "a" \in placed THEN {NewAnswer("b")} ELSE {}
<1>1. /\ Compilation("b") \notin open \cup past
      /\ chosen' = "b"
      /\ open' = open \cup (({Compilation("b")} \cup rebuilds) \ past)
      /\ mishaps' = mishaps \cup Overtaken(rebuilds)
      /\ UNCHANGED <<sharded, status, placed, page, mark, token, past, task, correcting, stops>>
  BY DEF AnswerArrives, Enqueued
<1>2. NewAnswer("b") \notin open \cup past /\ status["b"] = "none" /\ "b" \notin placed
  BY <1>1 DEF PagesInv, JobsAreKnown, ClaimsAreKnown
<1>3. open' = open \cup {Compilation("b")} \cup rebuilds
  BY <1>1, <1>2
<1>4. PagesTypeOK' /\ ClaimsAreKnown' /\ token' \in Nat
  BY <1>1, <1>2, <1>3 DEF PagesInv, PagesTypeOK, ClaimsAreKnown, Alternatives
<1>5. JobsAreKnown'
  <2>1. \A j \in open' \cup past' : j \in open \cup past \/ j = Compilation("b") \/ j = NewAnswer("b")
    BY <1>1, <1>3
  <2>2. JobsAreKnown /\ IsCompilation(Compilation("b")) /\ IsRebuild(NewAnswer("b"))
    BY KeysDiffer DEF PagesInv, IsCompilation, CompiledClaims
  <2>3. ASSUME NEW c \in Claims, NEW t \in Nat, Repair(c, t) \in open' \cup past' PROVE t <= token'
    <3>1. IsRebuild(Repair(c, t)) /\ ~IsRebuild(Compilation("b")) /\ Repair(c, t) # NewAnswer("b")
      BY KeysDiffer
    <3>2. Repair(c, t) \in open \cup past
      BY <2>1, <2>3, <3>1
    <3> QED BY <1>1, <2>2, <2>3, <3>2 DEF JobsAreKnown
  <2>4. Correction # Compilation("b") /\ Correction # NewAnswer("b") /\ Compilation("b") \in open'
    <3>1. IsRebuild(Correction) /\ ~IsRebuild(Compilation("b")) /\ Correction # NewAnswer("b")
      BY KeysDiffer
    <3> QED BY <1>3, <3>1
  <2>5. \A j \in open' \cup past' : IsCompilation(j) \/ j = Expiry \/ IsRebuild(j)
    BY <2>1, <2>2 DEF JobsAreKnown
  <2>6. Correction \in open' \cup past' => Correction \in open \cup past
    BY <2>1, <2>4
  <2> QED BY <1>1, <2>2, <2>3, <2>4, <2>5, <2>6 DEF JobsAreKnown
<1>6. TaskFits' /\ ToldIsClear'
  BY <1>1, <1>3, TaskStays DEF PagesInv, TaskFits
<1>7. Follows'
  <2> SUFFICES ASSUME ~Excused' PROVE Follows'
    BY DEF Follows
  <2>1. "a" \notin placed
    <3> SUFFICES ASSUME "a" \in placed PROVE FALSE
      OBVIOUS
    <3>1. NewAnswer("b") \in open' /\ IsRebuild(NewAnswer("b"))
      BY <1>3, KeysDiffer
    <3>2. task.at \in {"rewrite", "done"} => task.job # NewAnswer("b")
      BY <1>2 DEF PagesInv, TaskFits
    <3> QED BY <1>1, <3>1, <3>2 DEF Excused, LookAhead
  <2>2. ~Excused
    BY <1>1, <1>3 DEF Excused, LookAhead
  <2>3. placed \cap Alternatives = {}
    BY <1>2, <2>1 DEF Alternatives
  <2>4. Overtaken({}) = {}
    BY <1>1, <2>1 DEF Excused
  <2>5. ASSUME NEW d \in Alternatives, task.at = "extract" \/ Compiling, task.job = Compilation(d)
        PROVE  Supported(d)' \/ sharded
    <3>1. task.job \in open
      BY <2>5 DEF PagesInv, TaskFits, Compiling
    <3>2. d = "a"
      BY <1>1, <2>5, <3>1 DEF Alternatives
    <3>3. CASE chosen = "a"
      BY <2>4, <2>5, <3>2, <3>3 DEF Overtaken
    <3>4. CASE chosen # "a"
      BY <2>2, <2>5, <3>2, <3>4 DEF PagesInv, Follows, Supported
    <3> QED BY <3>3, <3>4
  <2> QED BY <1>1, <2>2, <2>3, <2>5, ChoiceIsElsewhere
<1> QED BY <1>4, <1>5, <1>6, <1>7 DEF PagesInv

(* The user chooses the other answer.                                           *)
LEMMA PagesChooseAnswer == ASSUME PagesInv, ChooseAnswer PROVE PagesInv'
<1>1. PICK x : x = CHOOSE y \in Alternatives : y # chosen
  OBVIOUS
<1>2. x \in Alternatives /\ x # chosen /\ chosen \in Alternatives
  <2>1. chosen \in Alternatives
    BY DEF PagesInv, ClaimsAreKnown
  <2>2. \E y \in Alternatives : y # chosen
    BY DEF Alternatives
  <2> QED BY <1>1, <2>1, <2>2
<1> DEFINE cancelled == {Compilation(chosen)} \cap (open \ {task.job})
           rebuilds == IF placed \cap Alternatives # {} THEN {NewChoice(x)} ELSE {}
<1>3. /\ chosen' = x
      /\ open' = (open \ cancelled) \cup (rebuilds \ past)
      /\ past' = past \cup cancelled
      /\ mishaps' = mishaps \cup Overtaken(rebuilds)
                     \cup (IF rebuilds \cap (past \cup Reading) # {} THEN {"returned"} ELSE {})
      /\ UNCHANGED <<sharded, status, placed, page, mark, token, task, correcting, stops>>
  BY <1>1 DEF ChooseAnswer
<1>4. /\ cancelled \subseteq open /\ task.job \notin cancelled
      /\ \A j \in cancelled : ~IsRebuild(j)
      /\ rebuilds \subseteq {NewChoice(x)} /\ IsRebuild(NewChoice(x))
  BY KeysDiffer
<1>5. \A j \in rebuilds : j = NewChoice(x) /\ IsRebuild(j)
  BY <1>4
<1> HIDE DEF cancelled
<1>6. open' \cap past' = {}
  BY <1>3, <1>4, <1>5 DEF PagesInv, PagesTypeOK
<1>7. PagesTypeOK' /\ ClaimsAreKnown' /\ token' \in Nat
  BY <1>2, <1>3, <1>6 DEF PagesInv, PagesTypeOK, ClaimsAreKnown
<1>8. JobsAreKnown'
  <2>1. \A j \in open' \cup past' : j \in open \cup past \/ j = NewChoice(x)
    BY <1>3, <1>4
  <2>2. open \cup past \subseteq open' \cup past'
    BY <1>3, <1>4
  <2>3. JobsAreKnown
    BY DEF PagesInv
  <2>4. ASSUME NEW c \in Claims, NEW t \in Nat, Repair(c, t) \in open' \cup past' PROVE t <= token'
    <3>1. Repair(c, t) # NewChoice(x)
      BY KeysDiffer
    <3> QED BY <1>3, <2>1, <2>3, <2>4, <3>1 DEF JobsAreKnown
  <2>5. Correction # NewChoice(x) /\ NewAnswer("b") # NewChoice(x)
    BY KeysDiffer
  <2>6. (Correction \in open' \cup past' => Correction \in open \cup past)
        /\ (NewAnswer("b") \in open' \cup past' => NewAnswer("b") \in open \cup past)
    BY <2>1, <2>5
  <2> QED BY <1>3, <1>4, <2>1, <2>2, <2>3, <2>4, <2>6 DEF JobsAreKnown
<1>9. TaskFits' /\ ToldIsClear'
  BY <1>3, <1>4, TaskStays DEF PagesInv, TaskFits
<1>10. Follows'
  <2> SUFFICES ASSUME ~Excused' PROVE Follows'
    BY DEF Follows
  <2>1. placed \cap Alternatives = {}
    <3> SUFFICES ASSUME placed \cap Alternatives # {} PROVE FALSE
      OBVIOUS
    <3>1. NewChoice(x) \in rebuilds
      OBVIOUS
    <3>2. NewChoice(x) \notin past /\ NewChoice(x) \notin Reading
      BY <1>3, <3>1 DEF Excused
    <3>3. NewChoice(x) \in open'
      BY <1>3, <3>1, <3>2
    <3> QED BY <1>3, <1>4, <3>2, <3>3 DEF Excused, LookAhead, Reading, Doing
  <2>2. ~Excused
    BY <1>3, <1>4 DEF Excused, LookAhead
  <2>3. Overtaken({}) = {}
    BY <1>3, <2>1 DEF Excused
  <2>4. ASSUME NEW d \in Alternatives, task.at = "extract" \/ Compiling, task.job = Compilation(d)
        PROVE  Supported(d)' \/ sharded
    <3>1. CASE d = chosen
      BY <2>3, <2>4, <3>1 DEF Overtaken
    <3>2. CASE d # chosen
      BY <1>2, <1>3, <2>4, <3>2 DEF Alternatives, Supported
    <3> QED BY <3>1, <3>2
  <2> QED BY <1>3, <2>1, <2>2, <2>4, ChoiceIsElsewhere
<1> QED BY <1>7, <1>8, <1>9, <1>10 DEF PagesInv

(* The user corrects a claim ...                                               *)
LEMMA PagesCorrectClaim == ASSUME PagesInv, CorrectClaim PROVE PagesInv'
<1>1. /\ status["v"] = "none"
      /\ status' = [status EXCEPT !["u"] = "superseded", !["v"] = "current"]
      /\ IF "u" \in placed THEN placed' = placed \cup {"v"} /\ correcting' = TRUE
         ELSE UNCHANGED <<placed, correcting>>
      /\ UNCHANGED <<sharded, chosen, page, mark, token, open, past, task, stops, mishaps>>
  BY DEF CorrectClaim
<1>2. /\ status \in [Claims -> {"none", "current", "superseded", "expired"}]
      /\ placed \subseteq Claims /\ "u" \in Claims /\ "v" \in Claims
      /\ \A c \in placed : status[c] # "none"
      /\ \A c \in CompiledClaims : c \in Claims /\ c # "u" /\ c # "v"
      /\ ~correcting /\ Correction \notin open \cup past
  BY <1>1 DEF PagesInv, PagesTypeOK, ClaimsAreKnown, JobsAreKnown, CompiledClaims, Claims, Alternatives
<1>3. /\ \A c \in Claims : c \notin {"u", "v"} => status'[c] = status[c]
      /\ status'["u"] = "superseded" /\ status'["v"] = "current"
      /\ status' \in [Claims -> {"none", "current", "superseded", "expired"}]
  BY <1>1, <1>2
<1>4. placed \subseteq placed' /\ placed' \subseteq placed \cup {"v"} /\ "v" \notin placed
  BY <1>1, <1>2
<1>5. PagesTypeOK' /\ ClaimsAreKnown' /\ token' \in Nat
  BY <1>1, <1>2, <1>3, <1>4 DEF PagesInv, PagesTypeOK, ClaimsAreKnown
<1>6. JobsAreKnown'
  <2>1. status'["b"] = status["b"]
    BY <1>2, <1>3 DEF CompiledClaims
  <2> QED BY <1>1, <1>2, <1>3, <2>1 DEF PagesInv, JobsAreKnown
<1>7. TaskFits'
  BY <1>1, <1>2, <1>3 DEF PagesInv, TaskFits, Compiling
<1>8. ToldIsClear'
  <2>1. ToldIsClear
    BY DEF PagesInv
  <2>2. ASSUME Compiling, NEW t \in task.told, ShownAs(t[2]) # "absent"
        PROVE  /\ status'[t[1]] # "none"
               /\ t[1] \notin placed' => task.job = Compilation(t[1]) /\ t[2] = status'[t[1]]
    <3>1. /\ t[1] \in Claims /\ status[t[1]] # "none"
          /\ t[1] \notin placed => task.job = Compilation(t[1]) /\ t[2] = status[t[1]]
      BY <2>1, <2>2 DEF ToldIsClear
    <3>2. status'[t[1]] # "none"
      BY <1>3, <3>1
    <3>3. ASSUME t[1] \notin placed' PROVE t[1] \in CompiledClaims
      <4>1. task.job = Compilation(t[1])
        BY <1>4, <3>1, <3>3
      <4>2. IsCompilation(task.job)
        BY <2>2, <4>1, KeysDiffer DEF PagesInv, TaskFits, Compiling
      <4> QED BY <4>1, <4>2, KeysDiffer DEF IsCompilation
    <3> QED BY <1>2, <1>3, <1>4, <3>1, <3>2, <3>3
  <2> QED BY <1>1, <1>4, <2>1, <2>2 DEF ToldIsClear, Compiling
<1>9. Follows'
  <2> SUFFICES ASSUME ~Excused' PROVE Follows'
    BY DEF Follows
  <2>1. "u" \notin placed /\ placed' = placed /\ ~Excused
    BY <1>1 DEF Excused, LookAhead
  <2>2. \A c \in Claims : Due(c)' = Due(c)
    <3> SUFFICES ASSUME NEW c \in Claims PROVE Due(c)' = Due(c)
      OBVIOUS
    <3>1. CASE c \in placed
      BY <1>1, <1>3, <1>4, <2>1, <3>1, DueStays
    <3>2. CASE c \notin placed
      BY <2>1, <3>2 DEF Due
    <3> QED BY <3>1, <3>2
  <2>3. \A t \in task.told : t[1] \in Claims
    BY DEF PagesInv, ToldIsClear
  <2>4. Follows
    BY DEF PagesInv
  <2>5. task.at # "rewrite" \/ task.job = Expiry => PageIsRight'
    BY <1>1, <2>1, <2>2, <2>4 DEF Follows, PageIsRight
  <2>6. task.at = "rewrite" => \A c \in Claims : <<c, Due(c)'>> \in task.told
    BY <2>1, <2>2, <2>4 DEF Follows
  <2>7. Compiling => \A t \in task.told : t[1] \in placed => ShownAs(t[2]) = Due(t[1])'
    BY <2>1, <2>2, <2>3, <2>4 DEF Follows
  <2>8. \A d : Supported(d)' <=> Supported(d)
    BY <1>1 DEF Supported
  <2> QED BY <1>1, <2>1, <2>4, <2>5, <2>6, <2>7, <2>8 DEF Follows, Compiling
<1> QED BY <1>5, <1>6, <1>7, <1>8, <1>9 DEF PagesInv

(* ... and its job is enqueued, unless the API ends before.                      *)
LEMMA PagesCorrected == ASSUME PagesInv, RecordCorrection \/ ApiStops PROVE PagesInv'
<1>1. /\ correcting /\ correcting' = FALSE
      /\ UNCHANGED <<sharded, status, placed, chosen, page, mark, token, past, task>>
      /\ \/ open' = open \cup ({Correction} \ past) /\ mishaps' = mishaps
         \/ open' = open /\ mishaps' # {}
  BY DEF RecordCorrection, ApiStops, Enqueued
<1>2. Correction \notin open \cup past /\ status["v"] # "none" /\ IsRebuild(Correction)
  BY <1>1, KeysDiffer DEF PagesInv, JobsAreKnown
<1>3. PagesTypeOK' /\ ClaimsAreKnown' /\ token' \in Nat
  BY <1>1, <1>2 DEF PagesInv, PagesTypeOK, ClaimsAreKnown
<1>4. JobsAreKnown'
  <2>1. \A j \in open' \cup past' : j \in open \cup past \/ j = Correction
    BY <1>1
  <2>2. ASSUME NEW c \in Claims, NEW t \in Nat, Repair(c, t) \in open' \cup past' PROVE t <= token'
    <3>1. Repair(c, t) \in open \cup past
      BY <2>1, <2>2, KeysDiffer
    <3> QED BY <1>1, <3>1 DEF PagesInv, JobsAreKnown
  <2>3. NewAnswer("b") \in open' \cup past' => NewAnswer("b") \in open \cup past
    BY <2>1, KeysDiffer
  <2> QED BY <1>1, <1>2, <2>1, <2>2, <2>3 DEF PagesInv, JobsAreKnown
<1>5. TaskFits' /\ ToldIsClear'
  BY <1>1, TaskStays DEF PagesInv, TaskFits
<1>6. Excused'
  <2>1. CASE mishaps' # {}
    BY <2>1 DEF Excused
  <2>2. CASE mishaps' = {}
    <3>1. Correction \in open'
      BY <1>1, <1>2, <2>2
    <3>2. task.at \in {"rewrite", "done"} => task.job # Correction
      BY <1>2 DEF PagesInv, TaskFits
    <3> QED BY <1>1, <1>2, <3>1, <3>2 DEF Excused, LookAhead
  <2> QED BY <2>1, <2>2
<1> QED BY <1>3, <1>4, <1>5, <1>6 DEF PagesInv, Follows

(* Every step keeps this.                                                      *)
LEMMA PagesInvHolds == PagesSpec => []PagesInv
<1>1. PagesInv /\ [PagesNext]_pagesVars => PagesInv'
  <2> SUFFICES ASSUME PagesInv, [PagesNext]_pagesVars PROVE PagesInv'
    OBVIOUS
  <2>1. CASE UNCHANGED pagesVars
    BY <2>1 DEF pagesVars, PagesInv, PagesTypeOK, JobsAreKnown, ClaimsAreKnown, TaskFits, ToldIsClear,
       Compiling, Follows, Excused, LookAhead, PageIsRight, Due, Supported
  <2> QED BY <2>1, PagesTakeJob, PagesEndJob, PagesPersistClaims, PagesExpireClaim, PagesReplay,
             PagesPatchShard, PagesCompletePatch, PagesPlaceClaim, PagesRenderPage, PagesReadPage,
             PagesRewritePage, PagesAnswerArrives, PagesChooseAnswer, PagesCorrectClaim,
             PagesCorrected
       DEF PagesNext, WorkOnPage
<1> QED BY <1>1, PagesInitially, PTL DEF PagesSpec

(* Claims and what the page shows of them have statuses, and no job is both      *)
(* under way and ended.                                                        *)
THEOREM PagesAreTyped == PagesSpec => []PagesTypeOK
<1>1. PagesInv => PagesTypeOK
  BY DEF PagesInv
<1> QED BY <1>1, PagesInvHolds, PTL

(* However the worker's jobs, new answers, choices and corrections come between   *)
(* each other, and however often the worker dies: once no job is left, the page  *)
(* shows what the ledger says, but for the mishaps named.                        *)
THEOREM PagesFollow == PagesSpec => []PageFollowsLedger
<1>1. PagesInv => PageFollowsLedger
  <2> SUFFICES ASSUME PagesInv, open = {}, ~correcting, mishaps = {}
               PROVE  \A c \in Claims : page[c] = Due(c)
    BY DEF PageFollowsLedger
  <2>1. ~Excused
    BY DEF Excused, LookAhead
  <2>2. task.at = "idle"
    BY DEF PagesInv, TaskFits
  <2> QED BY <2>1, <2>2 DEF PagesInv, Follows, PageIsRight
<1> QED BY <1>1, PagesInvHolds, PTL
=============================================================================

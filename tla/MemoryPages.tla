---------------------------- MODULE MemoryPages -----------------------------
(***************************************************************************)
(* What one automatic topic page shows of the claims behind it.  The       *)
(* worker compiles claims into the page in several transactions            *)
(* (persistClaims, compileAffectedTopics, updateShardedTopic in            *)
(* apps/worker/src/processor.ts), from rows it has read before, while the  *)
(* API changes the rows: another answer becomes the active one, the user   *)
(* corrects a claim (apps/api/src/app.ts).  What holds it together are     *)
(* topic_projection_dirty - a marker for each claim whose page is not up   *)
(* to date, with a repair token - and rebuild jobs.                        *)
(*                                                                         *)
(* Claims "a" and "b" rest on two answers to one message, "w" on a later   *)
(* message that replaces the older "u"; "v" is the user's correction of    *)
(* "u", which is also the one that expires.                                *)
(***************************************************************************)
EXTENDS Naturals, FiniteSets

CONSTANTS
  MaxTurns,        \* a bound on what the user does to the page's claims and the
                   \* deaths of the worker and the API, together
  MaxStops         \* a bound on the deaths

ASSUME PagesBoundsAssumption == {MaxTurns, MaxStops} \subseteq Nat

VARIABLES
  sharded,         \* the page is split into shards
  status,          \* the status of each claim, "none" before it is stored
  placed,          \* the claims whose topic is the page
  chosen,          \* the answer that is active
  page,            \* how the page shows each claim, or "absent"
  mark,            \* the repair token of each claim's dirty marker, 0 without one
  token,           \* the last repair token
  open,            \* the keys of the jobs that are queued or leased
  past,            \* those of the jobs that have ended
  task,            \* what the worker is doing
  correcting,      \* a correction is committed and its rebuild job is not
  turns,
  stops,
  mishaps          \* what has happened that leaves the page behind

pagesVars == <<sharded, status, placed, chosen, page, mark, token, open, past, task,
               correcting, turns, stops, mishaps>>

Alternatives == {"a", "b"}
Claims == Alternatives \cup {"w", "u", "v"}
Compilation(c) == <<"memory.compile", c, 0>>
Expiry == <<"memory.expire", "u", 0>>
Repair(c, t) == <<"dirty", c, t>>          \* the keys of rebuild jobs
NewAnswer(c) == <<"answered", c, 0>>
NewChoice(c) == <<"revision", c, 0>>
Correction == <<"correction", "v", 0>>

NoTask == [job |-> <<"none", "u", 0>>, at |-> "idle", told |-> {}, marks |-> {}, todo |-> {}]
Doing(step) == task.at = step
Go(step) == task' = [task EXCEPT !.at = step]

\* Evidence counts while its answer is the active one.
Supported(c) == c \in Alternatives => c = chosen
\* What the ledger has the page show.
Due(c) ==
  IF c \in placed /\ Supported(c) /\ status[c] \in {"current", "superseded"}
    THEN status[c] ELSE "absent"
Marked == {c \in Claims : mark[c] # 0}
MarksOf(claims) == {<<c, mark[c]>> : c \in claims \cap Marked}
Room == turns + stops < MaxTurns
Enqueued(jobs) == open' = open \cup (jobs \ past)

PagesInit ==
  /\ sharded \in BOOLEAN
  /\ status = [c \in Claims |-> IF c = "u" THEN "current" ELSE "none"]
  /\ placed = {"u"}
  /\ chosen = "a"
  /\ page = [c \in Claims |-> IF c = "u" THEN "current" ELSE "absent"]
  /\ mark = [c \in Claims |-> 0]
  /\ token = 0
  /\ \E job \in {Compilation("w"), Expiry} : open = {Compilation("a"), job}
  /\ past = {}
  /\ task = NoTask
  /\ correcting = FALSE
  /\ turns = 0 /\ stops = 0
  /\ mishaps = {}

-----------------------------------------------------------------------------
(* Dirty markers *)

\* markTopicProjectionDirty and enqueueDirtyProjectionRebuilds, in the transaction
\* of the change: every marker gets a new token, and a job that names it.
MarkDirty(claims) ==
  /\ token' = token + 1
  /\ mark' = [c \in Claims |-> IF c \in claims THEN token + 1 ELSE mark[c]]
  /\ Enqueued({Repair(c, token + 1) : c \in claims})

\* consumeDirtyProjectionGenerations: a marker set again since stays.
Consumed(marks) ==
  mark' = [c \in Claims |-> IF <<c, mark[c]>> \in marks THEN 0 ELSE mark[c]]

-----------------------------------------------------------------------------
(* The worker: one job at a time *)

\* Faulty: it is not.
NeverSkipped(job) == FALSE

\* "assistant revision is no longer active": looked at when the job is taken.
Skipped(job) == job[1] = "memory.compile" /\ ~Supported(job[2])

TakeJob ==
  /\ Doing("idle")
  /\ \E job \in open :
       LET next == CASE job[1] = "memory.compile" -> "extract"
                     [] job[1] = "memory.expire" -> "expire"
                     [] OTHER -> "rebuild"
       IN task' = [NoTask EXCEPT !.job = job, !.at = IF Skipped(job) THEN "done" ELSE next]
  /\ UNCHANGED <<sharded, status, placed, chosen, page, mark, token, open, past, correcting,
                 turns, stops, mishaps>>

FinishJob ==
  /\ Doing("done")
  /\ open' = open \ {task.job}
  /\ past' = past \cup {task.job}
  /\ task' = NoTask
  /\ UNCHANGED <<sharded, status, placed, chosen, page, mark, token, correcting, turns,
                 stops, mishaps>>

\* persistClaims, when the provider has answered.  A claim is new once: the
\* extraction finds it stored when the job is tried again.  "w" inherits the topic of
\* the slot it takes from "u" - or from "v" - and both pages' markers are set.
PersistClaims ==
  /\ Doing("extract")
  /\ LET c == task.job[2]
         older == IF c = "w" /\ status[c] = "none"
                    THEN {o \in {"u", "v"} : status[o] = "current"} ELSE {}
         owned == {o \in older : o \in placed}
         changed == owned \cup (IF owned # {} THEN {c} ELSE {})
     IN /\ status' = [o \in Claims |-> IF o \in older THEN "superseded"
                                       ELSE IF o = c /\ status[c] = "none" THEN "current"
                                       ELSE status[o]]
        /\ placed' = placed \cup changed
        /\ IF changed # {} THEN MarkDirty(changed) ELSE UNCHANGED <<mark, token, open>>
        /\ task' = [task EXCEPT !.at = "replay",
                                !.told = {<<o, status'[o]>> : o \in changed \cup {c}}]
  /\ UNCHANGED <<sharded, chosen, page, past, correcting, turns, stops, mishaps>>

\* #expireMemory's transaction; it marks the page even if the claim has expired, for
\* a delivery that died after it.
ExpireClaim ==
  /\ Doing("expire")
  /\ IF status["u"] \in {"current", "expired"}
       THEN /\ status' = [status EXCEPT !["u"] = "expired"]
            /\ IF "u" \in placed THEN MarkDirty({"u"}) ELSE UNCHANGED <<mark, token, open>>
            /\ task' = [task EXCEPT !.at = IF sharded THEN "replay" ELSE "rebuild",
                                    !.told = {<<"u", "expired">>}]
       ELSE Go("done") /\ UNCHANGED <<status, mark, token, open>>
  /\ UNCHANGED <<sharded, placed, chosen, page, past, correcting, turns, stops, mishaps>>

\* replayDirtyProjectionChanges: the changes this job knows of, and those of every
\* marker, read from the ledger.
Replay ==
  /\ Doing("replay")
  /\ LET own == {t[1] : t \in task.told}
         replayed == {<<c, Due(c)>> : c \in Marked \ own}
     IN task' = [task EXCEPT !.told = @ \cup replayed,
                             !.marks = MarksOf(Claims),
                             !.todo = (own \cap placed) \cup Marked,
                             !.at = IF sharded THEN "patch" ELSE "render"]
  /\ UNCHANGED <<sharded, status, placed, chosen, page, mark, token, open, past, correcting,
                 turns, stops, mishaps>>

\* One shard of updateShardedTopic: members are read again, additions are as told.
Told(c) == CHOOSE s \in {"none", "current", "superseded", "expired", "absent"} :
             <<c, s>> \in task.told
Member(c) == page[c] # "absent"
PatchShard ==
  /\ Doing("patch")
  /\ \E c \in task.todo :
       /\ page' = [page EXCEPT ![c] =
            IF Told(c) \in {"expired", "absent"} THEN "absent"
            ELSE IF Member(c) THEN Due(c) ELSE Told(c)]
       /\ task' = [task EXCEPT !.todo = @ \ {c}]
  /\ UNCHANGED <<sharded, status, placed, chosen, mark, token, open, past, correcting,
                 turns, stops, mishaps>>

\* Its final transaction; a claim without a topic is still to be placed.
CompletePatch ==
  /\ Doing("patch") /\ task.todo = {}
  /\ Consumed(task.marks)
  /\ LET c == task.job[2]
     IN Go(IF task.job[1] = "memory.compile" /\ c \notin placed THEN "place" ELSE "done")
  /\ UNCHANGED <<sharded, status, placed, chosen, page, token, open, past, correcting,
                 turns, stops, mishaps>>

\* "assignTopic", with its own marker and job.
PlaceClaim ==
  /\ Doing("place")
  /\ LET c == task.job[2]
     IN /\ placed' = placed \cup {c}
        /\ MarkDirty({c})
        /\ task' = [task EXCEPT !.at = "patch", !.marks = @ \cup {<<c, token'>>},
                                !.todo = {t[1] : t \in task.told}]
  /\ UNCHANGED <<sharded, status, chosen, page, past, correcting, turns, stops, mishaps>>

\* A full compilation: the rows of the topic, and over them the claims of the job.
Rendered(told) ==
  [c \in Claims |->
     IF \E s \in {"current", "superseded"} : <<c, s>> \in told
       THEN CHOOSE s \in {"current", "superseded"} : <<c, s>> \in told
       ELSE Due(c)]

RenderPage ==
  /\ Doing("render")
  /\ page' = Rendered(task.told)
  /\ placed' = placed \cup {c \in Claims : page'[c] # "absent"}
  /\ Consumed(task.marks)
  /\ Go("done")
  /\ UNCHANGED <<sharded, status, chosen, token, open, past, correcting, turns, stops,
                 mishaps>>

\* #rebuildTopics reads the page's claims and markers ...
ReadPage ==
  /\ Doing("rebuild")
  /\ task' = [task EXCEPT !.at = "rewrite", !.marks = MarksOf(Claims),
                          !.told = {<<c, Due(c)>> : c \in Claims}]
  /\ UNCHANGED <<sharded, status, placed, chosen, page, mark, token, open, past, correcting,
                 turns, stops, mishaps>>

\* ... and replaces the page; one with no claims left goes, and its markers with it.
RewritePage ==
  /\ Doing("rewrite")
  /\ LET shown == {t \in task.told : t[2] # "absent"}
     IN IF shown = {}
          THEN /\ page' = [c \in Claims |-> "absent"]
               /\ placed' = {}
               /\ mark' = [c \in Claims |-> 0]
          ELSE /\ page' = [c \in Claims |-> CHOOSE s \in {"current", "superseded", "absent"} :
                                              <<c, s>> \in task.told]
               /\ Consumed(task.marks)
               /\ UNCHANGED placed
  /\ Go("done")
  /\ UNCHANGED <<sharded, status, chosen, token, open, past, correcting, turns, stops,
                 mishaps>>

\* The job is leased again.
WorkerStops ==
  /\ Room /\ stops < MaxStops /\ ~Doing("idle")
  /\ stops' = stops + 1
  /\ task' = NoTask
  /\ UNCHANGED <<sharded, status, placed, chosen, page, mark, token, open, past, correcting,
                 turns, mishaps>>

-----------------------------------------------------------------------------
(* The API *)

\* The other answer's compilation is running, and no rebuild will follow it: an inline
\* page takes the claims all the same.
Overtaken(rebuilds) ==
  IF task.job = Compilation(chosen) /\ rebuilds = {} /\ ~sharded THEN {"overtaken"} ELSE {}

\* The message is answered again: the new answer is the active one.
AnswerArrives ==
  /\ Room /\ Compilation("b") \notin open \cup past
  /\ turns' = turns + 1
  /\ LET rebuilds == IF "a" \in placed THEN {NewAnswer("b")} ELSE {}
     IN /\ chosen' = "b"
        /\ Enqueued({Compilation("b")} \cup rebuilds)
        /\ mishaps' = mishaps \cup Overtaken(rebuilds)
  /\ UNCHANGED <<sharded, status, placed, page, mark, token, past, task, correcting, stops>>

\* The rebuild job under way, once it has read the page's claims.
Reading == IF Doing("rewrite") \/ Doing("done") THEN {task.job} ELSE {}

\* POST /events/:id/activate: queued compilations of the other answer are cancelled,
\* the pages that either answer touched are rebuilt - if the key of that job is new:
\* one that has ended, or has read already, does not come again.
ChooseAnswer ==
  /\ Room
  /\ Compilation("b") \in open \cup past
  /\ LET x == CHOOSE y \in Alternatives : y # chosen
         cancelled == {Compilation(chosen)} \cap (open \ {task.job})
         rebuilds == IF placed \cap Alternatives # {} THEN {NewChoice(x)} ELSE {}
     IN /\ chosen' = x
        /\ open' = (open \ cancelled) \cup (rebuilds \ past)
        /\ past' = past \cup cancelled
        /\ mishaps' = mishaps \cup Overtaken(rebuilds)
                      \cup (IF rebuilds \cap (past \cup Reading) # {} THEN {"returned"} ELSE {})
  /\ turns' = turns + 1
  /\ UNCHANGED <<sharded, status, placed, page, mark, token, task, correcting, stops>>

\* POST /claims/:id/correct: correctClaim is a transaction of its own, without marker.
CorrectClaim ==
  /\ Room /\ status["v"] = "none"
  /\ turns' = turns + 1
  /\ status' = [status EXCEPT !["u"] = "superseded", !["v"] = "current"]
  /\ IF "u" \in placed
       THEN placed' = placed \cup {"v"} /\ correcting' = TRUE
       ELSE UNCHANGED <<placed, correcting>>
  /\ UNCHANGED <<sharded, chosen, page, mark, token, open, past, task, stops, mishaps>>

RecordCorrection ==
  /\ correcting
  /\ correcting' = FALSE
  /\ Enqueued({Correction})
  /\ UNCHANGED <<sharded, status, placed, chosen, page, mark, token, past, task, turns,
                 stops, mishaps>>

ApiStops ==
  /\ correcting /\ Room /\ stops < MaxStops
  /\ correcting' = FALSE
  /\ mishaps' = mishaps \cup {"unrecorded"}
  /\ stops' = stops + 1
  /\ UNCHANGED <<sharded, status, placed, chosen, page, mark, token, open, past, task,
                 turns>>

-----------------------------------------------------------------------------
WorkOnPage ==
  \/ TakeJob \/ FinishJob
  \/ PersistClaims \/ ExpireClaim \/ Replay
  \/ PatchShard \/ CompletePatch \/ PlaceClaim
  \/ RenderPage \/ ReadPage \/ RewritePage

PagesNext ==
  \/ WorkOnPage \/ WorkerStops
  \/ AnswerArrives \/ ChooseAnswer
  \/ CorrectClaim \/ RecordCorrection \/ ApiStops

PagesSpec == PagesInit /\ [][PagesNext]_pagesVars

-----------------------------------------------------------------------------
(* Properties *)

PagesTypeOK ==
  /\ status \in [Claims -> {"none", "current", "superseded", "expired"}]
  /\ page \in [Claims -> {"absent", "current", "superseded"}]
  /\ placed \subseteq Claims
  /\ mark \in [Claims -> Nat]
  /\ open \cap past = {}

\* With no job left, the page shows what the ledger says.
PageFollowsLedger ==
  open = {} /\ ~correcting /\ mishaps = {} => \A c \in Claims : page[c] = Due(c)
=============================================================================

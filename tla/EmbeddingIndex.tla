--------------------------- MODULE EmbeddingIndex ---------------------------
(***************************************************************************)
(* The vectors of semantic search: what the API and the memory compiler do *)
(* to them when a text changes, and how the worker computes new ones       *)
(* (embedding.index: JobProcessor.#indexEmbeddings in processor.ts).       *)
(*                                                                         *)
(* The worker reads the texts, checks them in a transaction, asks the      *)
(* provider, and checks again in the transaction that stores the answer.   *)
(* A lease may run out while it waits: then another worker does the same   *)
(* job.  A behaviour is about one kind of text, since jobs share nothing   *)
(* but the model.                                                          *)
(***************************************************************************)
EXTENDS Integers, FiniteSets

CONSTANTS
  Workers, Texts, Models,
  NoText,        \* a document that search may not find, or none
  MaxEdits,      \* bounds: changes of texts,
  MaxTroubles    \* leases that run out and requests that fail

Bytes == "bytes"                 \* of the one file, whatever is read from it

ASSUME TextsAssumption == Texts # {} /\ NoText \notin Texts \cup {Bytes}
ASSUME IndexBoundsAssumption == {MaxEdits, MaxTroubles} \subseteq Nat

Replies == {<<"event", 1>>, <<"event", 2>>}
PageText == <<"topic", 0>>
ClaimText == <<"claim", 0>>
WholeFile == <<"chunk", 0>>
Chunk(n, i) == <<"chunk", 2 * n + i>>
Chunks == {Chunk(n, i) : n \in 1..MaxEdits, i \in {0, 1}}
Documents == Replies \cup {PageText, ClaimText} \cup Chunks

VARIABLES
  about,       \* the kind of text this behaviour is about
  text,        \* what each document says, NoText when it is not eligible
  edit,        \* the number of changes so far: revisions, generations, chunk ids
  given, compiling,   \* answers given; those whose compilation goes on
  extracted,   \* chunks are stored, their job is not
  model, vectors,
  jobs, ended,  \* embedding jobs queued or running, and ended
  call,        \* what each worker is doing
  troubles,
  hidden,      \* the claim is not shown, and its vector stays
  excused      \* a text that search may find is known to have no vector

textVars == <<text, edit, given, compiling, extracted>>
indexVars == <<about, textVars, model, vectors, jobs, ended, call, troubles, hidden, excused>>

Idle == [at |-> "idle", job |-> <<>>, docs |-> {}, batch |-> <<>>, leased |-> FALSE]
Vector(doc, t, m) == [of |-> doc, text |-> t, model |-> m]

IndexInit ==
  /\ about \in {"event", "topic", "claim", "chunk"}
  /\ text = [d \in Documents |-> NoText]
  /\ edit = 0
  /\ given = {}
  /\ compiling = {}
  /\ extracted = FALSE
  /\ model = CHOOSE m \in Models : TRUE
  /\ vectors = {}
  /\ jobs = {}
  /\ ended = {}
  /\ call = [w \in Workers |-> Idle]
  /\ troubles = 0
  /\ hidden = FALSE
  /\ excused = FALSE

-----------------------------------------------------------------------------
(* The jobs.  A job is known by its key for good: what it is for, the hash *)
(* of the text or of the file, the model, and for a topic its revision and *)
(* for a claim the time of the change.                                     *)

Job(root, t, nth) == [root |-> root, text |-> t, model |-> model, nth |-> nth]

KeyNumber(doc) == IF doc \in {PageText, ClaimText} THEN edit + 1 ELSE 0

Exact(doc, t) == Vector(doc, t, model) \in vectors
Current(v) == v.text = text[v.of] /\ v.model = model

Queued(new) == jobs' = jobs \cup (new \ ended)

\* enqueueTopicEmbedding, enqueueEventEmbedding, enqueueDurableTopicEmbeddings and
\* enqueueDurableClaimEmbeddings, in the transaction that makes doc say t.
Replaced(doc, t) ==
  /\ vectors' = {v \in vectors : v.of = doc => v.text = t /\ v.model = model}
  /\ Queued(IF t = NoText \/ Exact(doc, t) THEN {} ELSE {Job(doc, t, KeyNumber(doc))})

Edits == edit < MaxEdits /\ edit' = edit + 1

\* One answer of a message is active; what it says does not change.
Said == CHOOSE t \in Texts : TRUE
Chosen(a) == [text EXCEPT ![a] = Said, ![CHOOSE b \in Replies : b # a] = NoText]

\* registerAssistantRevision: the new answer is the active one.
Answered(a) ==
  /\ about = "event" /\ Edits /\ a \notin given
  /\ text' = Chosen(a)
  /\ given' = given \cup {a}
  /\ compiling' = compiling \cup {a}
  /\ vectors' = {v \in vectors : v.of \notin given}
  /\ UNCHANGED <<about, extracted, model, jobs, ended, call, troubles, hidden, excused>>

\* The end of memory.compile, if the answer is still active then.
Compiled(a) ==
  /\ a \in compiling
  /\ compiling' = compiling \ {a}
  /\ Queued(IF text[a] = NoText THEN {} ELSE {Job(a, text[a], 0)})
  /\ UNCHANGED <<about, text, edit, given, extracted, model, vectors, ended, call,
                 troubles, hidden, excused>>

\* POST /events/:id/activate.  Queued compilations of the others are cancelled; the job
\* of this answer may be known already.
Activated(a) ==
  /\ about = "event" /\ Edits /\ a \in given /\ text[a] = NoText
  /\ text' = Chosen(a)
  /\ \E cancelled \in SUBSET (compiling \ {a}) : compiling' = compiling \ cancelled
  /\ vectors' = {v \in vectors : v.of \notin Replies \ {a}}
  /\ Queued({Job(a, Said, 0)})
  /\ excused' = (excused \/ Job(a, Said, 0) \in jobs \cup ended)
  /\ UNCHANGED <<about, given, extracted, model, ended, call, troubles, hidden>>

\* Deletion and excludeEvent.
Excluded(a) ==
  /\ about = "event" /\ text[a] # NoText
  /\ text' = [text EXCEPT ![a] = NoText]
  /\ vectors' = {v \in vectors : v.of # a}
  /\ UNCHANGED <<about, edit, given, compiling, extracted, model, jobs, ended, call,
                 troubles, hidden, excused>>

\* A new active revision of a page, or the page goes out of use.
Revised(t) ==
  /\ about = "topic" /\ Edits
  /\ text' = [text EXCEPT ![PageText] = t]
  /\ Replaced(PageText, t)
  /\ UNCHANGED <<about, given, compiling, extracted, model, ended, call,
                 troubles, hidden, excused>>

\* persistClaims and #expireMemory: the claim is learned, changed or no longer current.
ClaimChanged(t) ==
  /\ about = "claim" /\ Edits
  /\ text' = [text EXCEPT ![ClaimText] = t]
  /\ Replaced(ClaimText, t)
  /\ hidden' = FALSE
  /\ UNCHANGED <<about, given, compiling, extracted, model, ended, call, troubles, excused>>

\* A correction by the user, or evidence that is no longer active: the vector stays, and
\* search does not show the claim.
ClaimHidden ==
  /\ about = "claim" /\ Edits /\ text[ClaimText] # NoText
  /\ text' = [text EXCEPT ![ClaimText] = NoText]
  /\ hidden' = TRUE
  /\ UNCHANGED <<about, given, compiling, extracted, model, vectors, jobs, ended,
                 call, troubles, excused>>

Present == {d \in Chunks : text[d] # NoText}

\* #extractSource, addSourceChunksDetailed: equal text keeps its chunks, other text gets
\* new ones: the file is the same, but what is read from it may differ.
Extracted(t) ==
  /\ about = "chunk" /\ Edits /\ ~extracted
  /\ LET n == edit + 1
         same == {text[d] : d \in Present} = {Said, t} /\ Present # {}
     IN /\ text' = IF same THEN text
                   ELSE [d \in Documents |-> IF d = Chunk(n, 0) THEN Said
                                             ELSE IF d = Chunk(n, 1) THEN t
                                             ELSE IF d \in Chunks THEN NoText ELSE text[d]]
        /\ vectors' = IF same THEN vectors ELSE {}
        /\ excused' = (excused \/ (~same /\ Job(WholeFile, Bytes, 0) \in jobs \cup ended))
  /\ extracted' = TRUE
  /\ UNCHANGED <<about, given, compiling, model, jobs, ended, call, troubles, hidden>>

\* ... and its job; an extraction that stops before is done again.
ChunksEnqueued ==
  /\ extracted
  /\ extracted' = FALSE
  /\ Queued({Job(WholeFile, Bytes, 0)})
  /\ UNCHANGED <<about, text, edit, given, compiling, model, vectors, ended, call,
                 troubles, hidden, excused>>

ExtractionStops ==
  /\ extracted /\ edit < MaxEdits
  /\ extracted' = FALSE
  /\ excused' = TRUE
  /\ UNCHANGED <<about, text, edit, given, compiling, model, vectors, jobs, ended, call,
                 troubles, hidden>>

\* Deleting the file.
SourceDeleted ==
  /\ about = "chunk" /\ Present # {} /\ ~extracted
  /\ text' = [d \in Documents |-> NoText]
  /\ vectors' = {}
  /\ UNCHANGED <<about, edit, given, compiling, extracted, model, jobs, ended, call,
                 troubles, hidden, excused>>

\* validateEmbeddingSetting: only while there is nothing to embed.
ModelChanged(m) ==
  /\ about \in {"event", "topic", "chunk"} /\ m # model
  /\ vectors = {} /\ jobs = {} /\ \A d \in Documents : text[d] = NoText
  /\ model' = m
  /\ UNCHANGED <<about, textVars, vectors, jobs, ended, call, troubles, hidden, excused>>

-----------------------------------------------------------------------------
(* The worker *)

Busy(w, step) == call[w].at = step
Moves(w, step) == call' = [call EXCEPT ![w].at = step]
Root(w) == call[w].job.root

\* authoritativeEmbeddingGeneration, embeddingDocuments
Generation(root) ==
  IF root = WholeFile THEN IF Present = {} THEN NoText ELSE Bytes ELSE text[root]
Readable(root) ==
  {<<d, text[d]>> : d \in IF root = WholeFile THEN Present
                          ELSE {root} \cap {e \in Documents : text[e] # NoText}}

\* Vectors of documents that this root had; orphans are chunks that are gone.
OfRoot(root) == IF root = WholeFile THEN Chunks ELSE {root}
Orphans(root) == IF root = WholeFile THEN {v \in vectors : v.of \in Chunks \ Present} ELSE {}

Take(w) ==
  /\ Busy(w, "idle")
  /\ \E j \in jobs :
       LET holders == {v \in Workers : call[v].leased /\ call[v].job = j}
       IN /\ troubles + Cardinality(holders) <= MaxTroubles
          /\ troubles' = troubles + Cardinality(holders)
          /\ call' = [v \in Workers |->
               IF v = w THEN [Idle EXCEPT !.at = "read", !.job = j, !.leased = TRUE]
               ELSE IF v \in holders THEN [call[v] EXCEPT !.leased = FALSE] ELSE call[v]]
  /\ UNCHANGED <<about, textVars, model, vectors, jobs, ended, hidden, excused>>

ReadDocuments(w) ==
  /\ Busy(w, "read")
  /\ call' = [call EXCEPT ![w].at = IF model # call[w].job.model THEN "done" ELSE "preflight",
                          ![w].docs = Readable(Root(w))]
  /\ UNCHANGED <<about, textVars, model, vectors, jobs, ended, troubles, hidden, excused>>

\* A vector survives the check of a document d that said t.
Survives(v, d, t) ==
  v.of # d \/ (text[d] # NoText /\ IF text[d] = t THEN Exact(d, t) /\ v = Vector(d, t, model)
                                  ELSE v.text = text[d])

\* The transaction before the first request.  It compares with what was read before it,
\* so that it can remove the vector of a text that another worker has embedded since.
Preflight(w) ==
  /\ Busy(w, "preflight")
  /\ LET docs == call[w].docs
         now == Generation(Root(w))
         other == now # NoText /\ now # call[w].job.text
         pending == {d \in docs : text[d[1]] = d[2] /\ ~Exact(d[1], d[2])}
         kept == IF model # call[w].job.model THEN vectors
                 ELSE IF other
                   THEN {v \in vectors : \A d \in docs : v.of = d[1] => v.text = d[2]}
                 ELSE IF docs = {} THEN {v \in vectors : v.of \notin OfRoot(Root(w))}
                 ELSE {v \in vectors : \A d \in docs : Survives(v, d[1], d[2])}
                        \ Orphans(Root(w))
         goesOn == model = call[w].job.model /\ ~other /\ pending # {}
     IN /\ vectors' = kept
        /\ excused' = (excused \/ \E v \in vectors \ kept : Current(v))
        /\ call' = [call EXCEPT ![w].docs = pending,
                                ![w].at = IF goesOn THEN "budget" ELSE "done"]
  /\ UNCHANGED <<about, textVars, model, jobs, ended, troubles, hidden>>

\* "nonessential provider work stops at the reserve threshold"
Budget(w) ==
  /\ Busy(w, "budget")
  /\ \/ Moves(w, "batch") /\ UNCHANGED excused
     \/ Moves(w, "done") /\ excused' = TRUE
  /\ UNCHANGED <<about, textVars, model, vectors, jobs, ended, troubles, hidden>>

\* The next batch, unless the model or the text has changed.
NextBatch(w) ==
  /\ Busy(w, "batch")
  /\ \E d \in call[w].docs :
       LET stale == model # call[w].job.model \/ Generation(Root(w)) # call[w].job.text
           left == call[w].docs \ {d}
       IN call' = [call EXCEPT ![w].docs = left, ![w].batch = d,
                               ![w].at = IF ~stale THEN "embed"
                                         ELSE IF left = {} THEN "done" ELSE "batch"]
  /\ UNCHANGED <<about, textVars, model, vectors, jobs, ended, troubles, hidden, excused>>

After(w) == IF call[w].docs = {} THEN "done" ELSE "batch"

\* Faulty: the answer is stored as it was asked for.
StoreBlindly(w) ==
  /\ Busy(w, "embed")
  /\ LET d == call[w].batch[1]
         asked == Vector(d, call[w].batch[2], call[w].job.model)
     IN vectors' = {v \in vectors : v.of # d} \cup {asked}
  /\ Moves(w, After(w))
  /\ UNCHANGED <<about, textVars, model, jobs, ended, troubles, hidden, excused>>

\* The provider has given: the transaction that stores the vectors.
StoreVectors(w) ==
  /\ Busy(w, "embed")
  /\ LET d == call[w].batch[1]
         t == call[w].batch[2]
         outdated == {v \in vectors : v.of = d /\ v.text # text[d]}
     IN vectors' =
          IF model # call[w].job.model THEN vectors
          ELSE IF Generation(Root(w)) # call[w].job.text THEN vectors \ outdated
          ELSE IF text[d] # t THEN (vectors \ outdated) \ Orphans(Root(w))
          ELSE ({v \in vectors : v.of # d} \cup {Vector(d, t, model)}) \ Orphans(Root(w))
  /\ Moves(w, After(w))
  /\ UNCHANGED <<about, textVars, model, jobs, ended, troubles, hidden, excused>>

\* The request fails: the job is tried again, or fails for good.
RequestFails(w) ==
  /\ Busy(w, "embed") /\ troubles < MaxTroubles
  /\ troubles' = troubles + 1
  /\ call' = [call EXCEPT ![w] = Idle]
  /\ \/ UNCHANGED <<jobs, ended, excused>>
     \/ /\ call[w].leased
        /\ jobs' = jobs \ {call[w].job}
        /\ ended' = ended \cup {call[w].job}
        /\ excused' = TRUE
  /\ UNCHANGED <<about, textVars, model, vectors, hidden>>

\* completeJob, fenced by the lease.
Finish(w) ==
  /\ Busy(w, "done")
  /\ IF call[w].leased
       THEN jobs' = jobs \ {call[w].job} /\ ended' = ended \cup {call[w].job}
       ELSE UNCHANGED <<jobs, ended>>
  /\ call' = [call EXCEPT ![w] = Idle]
  /\ UNCHANGED <<about, textVars, model, vectors, troubles, hidden, excused>>

IndexStep(w) ==
  \/ Take(w) \/ ReadDocuments(w) \/ Preflight(w) \/ Budget(w) \/ NextBatch(w)
  \/ StoreVectors(w) \/ RequestFails(w) \/ Finish(w)

IndexNext ==
  \/ \E a \in Replies : Answered(a) \/ Compiled(a) \/ Activated(a) \/ Excluded(a)
  \/ \E t \in Texts \cup {NoText} : Revised(t) \/ ClaimChanged(t)
  \/ ClaimHidden
  \/ \E t \in Texts : Extracted(t)
  \/ ChunksEnqueued \/ ExtractionStops \/ SourceDeleted
  \/ \E m \in Models : ModelChanged(m)
  \/ \E w \in Workers : IndexStep(w)

IndexSpec == IndexInit /\ [][IndexNext]_indexVars

-----------------------------------------------------------------------------
(* Properties *)

IndexTypeOK ==
  /\ \A v \in vectors : v.of \in Documents /\ v.text \in Texts /\ v.model \in Models
  /\ jobs \cap ended = {}

\* Search never compares a question with a text that is no longer there, or by another
\* model, however late a worker's request is given and whoever has its job by then.
\* And "replaying a completed stable job can never create a vector gap": when there is
\* no job left, every text that search may find has its vector, unless it was excused.
VectorsFollow ==
  /\ ~hidden => \A v \in vectors : Current(v)
  /\ jobs = {} /\ compiling = {} /\ ~extracted /\ ~excused =>
       \A d \in Documents : text[d] # NoText => Exact(d, text[d])
=============================================================================

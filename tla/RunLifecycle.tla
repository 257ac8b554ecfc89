---------------------------- MODULE RunLifecycle ----------------------------
(***************************************************************************)
(* One response run from its message to its end: the rows of runs, events, *)
(* assistant_revisions and run_stream_events (packages/database/src/       *)
(* index.ts) and ResponseOrchestrator.#execute (apps/api/src/              *)
(* orchestrator.ts), which fills them in.                                  *)
(*                                                                         *)
(* The API is one thread: code runs without interruption up to its next    *)
(* await, except that the process may die between any two of its writes.   *)
(* thread names the run inside such a stretch; the runs that await         *)
(* something wait in pc "retrieving", "creating" or "streaming".  A step   *)
(* is one SQLite statement or transaction.                                 *)
(*                                                                         *)
(* A run stands for its idempotency key and for the one assistant event    *)
(* that carries its id.  A text is the number of deltas it is made of.  Of *)
(* the stream only deltas and endings are kept.  A budget reservation is   *)
(* one step here; VaultBudget has its parts.                               *)
(***************************************************************************)
EXTENDS Integers, FiniteSets, Sequences

CONSTANTS
  Runs,
  Questions,   \* the user messages
  Question,    \* the message each run answers
  NoRun,
  MaxDeltas,   \* bounds on the length of an answer and on the number of times
  MaxCrashes   \* the API dies

ASSUME QuestionAssumption == Question \in [Runs -> Questions]
ASSUME NoRunAssumption == NoRun \notin Runs
ASSUME BoundsAssumption == {MaxDeltas, MaxCrashes} \subseteq Nat

VARIABLES
  run,        \* the runs row: status, cancellation_requested and whether
              \* assistant_event_id is set
  answer,     \* the assistant event of each run
  revisions,  \* the answers in assistant_revisions
  chosen,     \* those of them whose row is active
  budget,     \* the reservation of each run
  compile,    \* its memory.compile job
  deltas,     \* the response.delta events in its stream, and the
  endings,    \* run.completed, run.failed and run.cancelled events in it
  exec,       \* where #execute is, the text it has accumulated, whether its
              \* controller is aborted, whether the request is sent, how it ends
  requests,   \* the requests a run has sent to the provider
  server,
  thread,
  crashes

answers == <<answer, revisions, chosen, compile>>
stream == <<deltas, endings>>
process == <<server, crashes>>
vars == <<run, answers, budget, stream, exec, requests, process, thread>>

Ended == {"complete", "failed", "cancelled"}
Idle == [pc |-> "none", text |-> 0, aborted |-> FALSE, sent |-> FALSE, ends |-> "none"]

Init ==
  /\ run = [r \in Runs |-> [status |-> "absent", cancel |-> FALSE, named |-> FALSE]]
  /\ answer = [r \in Runs |-> [status |-> "none", active |-> FALSE, text |-> 0]]
  /\ revisions = {} /\ chosen = {}
  /\ budget = [r \in Runs |-> "none"]
  /\ compile = [r \in Runs |-> "none"]
  /\ deltas = [r \in Runs |-> 0]
  /\ endings = [r \in Runs |-> <<>>]
  /\ exec = [r \in Runs |-> Idle]
  /\ requests = [r \in Runs |-> 0]
  /\ server = "up"
  /\ thread = NoRun
  /\ crashes = 0

\* The other runs that answer the same message.
Siblings(r) == {s \in Runs \ {r} : Question[s] = Question[r]}

\* A request handler or a resumed await has the thread for itself.
Free == server = "up" /\ thread = NoRun

At(r, pc) == thread = r /\ exec[r].pc = pc
Awaits(r, pc) == Free /\ exec[r].pc = pc

\* #execute goes on to its next write, or to its next await.
GoOn(r, pc) == exec' = [exec EXCEPT ![r].pc = pc] /\ thread' = r
Await(r, pc) == exec' = [exec EXCEPT ![r].pc = pc] /\ thread' = NoRun
Return(r) == exec' = [exec EXCEPT ![r] = Idle] /\ thread' = NoRun

SetRunStatus(r, status) == run' = [run EXCEPT ![r].status = status]

-----------------------------------------------------------------------------
(* Requests *)

\* POST /messages and POST /events/:id/regenerate, sent once or again: the
\* transaction creates the run of this key if there is none ...  (Repeated while
\* its run executes, it finds the run and claims nothing: no step at all.)
Post(r) ==
  /\ Free
  /\ exec[r].pc = "none"
  /\ run' = IF run[r].status = "absent" THEN [run EXCEPT ![r].status = "pending"]
                                        ELSE run
  /\ GoOn(r, "start")
  /\ UNCHANGED <<answers, budget, stream, requests, process>>

\* Faulty: the claim does not look at the status.
ClaimAny(r) == run[r].status # "absent"

Claimable(r) == run[r].status = "pending"

\* ... then start claims it, and #execute runs up to the retrieval.
Start(r) ==
  /\ At(r, "start")
  /\ IF Claimable(r)
       THEN SetRunStatus(r, "retrieving") /\ Await(r, "retrieving")
       ELSE Return(r) /\ UNCHANGED run
  /\ UNCHANGED <<answers, budget, stream, requests, process>>

Cancelled(row) ==
  [row EXCEPT !.cancel = TRUE, !.status = IF @ = "pending" THEN "cancelled" ELSE @]

\* POST /runs/:id/cancel, and cancelAll of a maintenance operation.
Cancel(r) ==
  /\ Free
  /\ run[r].status \notin Ended \cup {"absent"}
  /\ run' = [run EXCEPT ![r] = Cancelled(@)]
  /\ exec' = [exec EXCEPT ![r].aborted = TRUE]
  /\ UNCHANGED <<answers, budget, stream, requests, process, thread>>

\* PATCH /events/:id/activate, one transaction.
Activate(r) ==
  /\ Free
  /\ r \in revisions
  /\ answer[r].status = "complete"
  /\ chosen' = (chosen \ Siblings(r)) \cup {r}
  /\ answer' = [s \in Runs |->
       IF s \in revisions /\ Question[s] = Question[r]
         THEN [answer[s] EXCEPT !.active = (s = r)] ELSE answer[s]]
  /\ compile' = [s \in Runs |->
       IF s \in Siblings(r) \cap revisions /\ compile[s] = "queued"
         THEN "cancelled" ELSE compile[s]]
  /\ UNCHANGED <<run, revisions, budget, stream, exec, requests, process, thread>>

-----------------------------------------------------------------------------
(* #execute *)

\* After the retrieval a cancellation is noticed, or the budget asked.
ReserveBudget(r) ==
  /\ Awaits(r, "retrieving")
  /\ ~run[r].cancel
  /\ budget' = [budget EXCEPT ![r] = "reserved"]
  /\ GoOn(r, "append")
  /\ UNCHANGED <<run, answers, stream, requests, process>>

AppendAnswer(r) ==
  /\ At(r, "append")
  /\ answer' = [answer EXCEPT ![r] = [status |-> "streaming", active |-> TRUE, text |-> 0]]
  /\ GoOn(r, "name")
  /\ UNCHANGED <<run, revisions, chosen, compile, budget, stream, requests, process>>

NameAnswer(r) ==
  /\ At(r, "name")
  /\ run' = [run EXCEPT ![r].status = "streaming", ![r].named = TRUE]
  /\ Await(r, "creating")
  /\ UNCHANGED <<answers, budget, stream, requests, process>>

SendRequest(r) ==
  /\ Awaits(r, "creating")
  /\ requests' = [requests EXCEPT ![r] = @ + 1]
  /\ exec' = [exec EXCEPT ![r].pc = "streaming", ![r].sent = TRUE]
  /\ UNCHANGED <<run, answers, budget, stream, process, thread>>

\* A delta is in the stream before anybody sees it; the event's own text follows
\* every now and then.  A cancellation aborts the request; deltas may still come.
Delta(r) ==
  /\ Awaits(r, "streaming")
  /\ exec[r].text < MaxDeltas
  /\ deltas' = [deltas EXCEPT ![r] = @ + 1]
  /\ exec' = [exec EXCEPT ![r].text = @ + 1]
  /\ \/ answer' = [answer EXCEPT ![r].text = exec[r].text + 1]
     \/ UNCHANGED answer
  /\ UNCHANGED <<run, revisions, chosen, compile, budget, endings, requests,
                 process, thread>>

\* The provider has reported its usage and the stream is over.
FinalizeComplete(r) ==
  /\ Awaits(r, "streaming")
  /\ answer' = [answer EXCEPT ![r].status = "complete", ![r].text = exec[r].text]
  /\ GoOn(r, "register")
  /\ UNCHANGED <<run, revisions, chosen, compile, budget, stream, requests, process>>

\* Faulty: the answers that were active stay so.
OlderKept(r) == {}

Older(r) == {s \in Siblings(r) : answer[s].active}

\* The answer replaces every other active answer to the message.  (A run comes
\* here once, so it is not registered yet.)
RegisterAssistantRevision(r) ==
  /\ At(r, "register")
  /\ revisions' = revisions \cup {r}
  /\ chosen' = (chosen \ Siblings(r)) \cup {r}
  /\ answer' = [s \in Runs |-> [answer[s] EXCEPT !.active =
                                  (s = r) \/ (@ /\ s \notin Older(r))]]
  /\ GoOn(r, "record")
  /\ UNCHANGED <<run, compile, budget, stream, requests, process>>

RecordModelCall(r) ==
  /\ At(r, "record")
  /\ budget' = [budget EXCEPT ![r] = "settled"]
  /\ GoOn(r, "enqueue")
  /\ UNCHANGED <<run, answers, stream, requests, process>>

\* Faulty: the run is complete before its answer's memory is taken care of.
CompleteEarly(r) ==
  /\ At(r, "enqueue")
  /\ SetRunStatus(r, "complete")
  /\ endings' = [endings EXCEPT ![r] = Append(@, "complete")]
  /\ compile' = compile
  /\ Return(r)
  /\ UNCHANGED <<answer, revisions, chosen, budget, deltas, requests, process>>

EnqueueCompile(r) ==
  /\ At(r, "enqueue")
  /\ compile' = [compile EXCEPT ![r] = "queued"]
  /\ GoOn(r, "complete")
  /\ UNCHANGED <<run, answer, revisions, chosen, budget, stream, requests, process>>

\* Status and terminal event are one transaction.
Complete(r) ==
  /\ At(r, "complete")
  /\ SetRunStatus(r, "complete")
  /\ endings' = [endings EXCEPT ![r] = Append(@, "complete")]
  /\ Return(r)
  /\ UNCHANGED <<answers, budget, deltas, requests, process>>

\* What #execute awaits or writes fails, or is given up after a cancellation.
Throw(r) ==
  /\ \E how \in {"failed", "cancelled"} :
       /\ \/ /\ thread = r
             /\ exec[r].pc \in {"append", "name", "register", "record", "enqueue",
                               "complete"}
             /\ how = "failed"
          \/ /\ Free
             /\ exec[r].pc \in {"retrieving", "creating", "streaming"}
             /\ how = "cancelled" => exec[r].aborted
       /\ exec' = [exec EXCEPT ![r].pc = "settle", ![r].ends = how]
  /\ thread' = r
  /\ UNCHANGED <<run, answers, budget, stream, requests, process>>

\* A call that was sent is charged, the reservation of another one released.
SettleFailure(r) ==
  /\ At(r, "settle")
  /\ budget' = IF budget[r] = "reserved"
                 THEN [budget EXCEPT ![r] = IF exec[r].sent THEN "settled" ELSE "released"]
                 ELSE budget
  /\ GoOn(r, "spoil")
  /\ UNCHANGED <<run, answers, stream, requests, process>>

FinalizePartial(r) ==
  /\ At(r, "spoil")
  /\ answer' = IF answer[r].status = "none" THEN answer
                 ELSE [answer EXCEPT ![r].text = exec[r].text,
                         ![r].status = IF exec[r].ends = "cancelled" THEN "incomplete"
                                                                     ELSE "failed"]
  /\ GoOn(r, "end")
  /\ UNCHANGED <<run, revisions, chosen, compile, budget, stream, requests, process>>

EndFailed(r) ==
  /\ At(r, "end")
  /\ SetRunStatus(r, exec[r].ends)
  /\ endings' = [endings EXCEPT ![r] = Append(@, exec[r].ends)]
  /\ Return(r)
  /\ UNCHANGED <<answers, budget, deltas, requests, process>>

-----------------------------------------------------------------------------
(* The process dies and is started again *)

Crash ==
  /\ server # "down"
  /\ crashes < MaxCrashes
  /\ crashes' = crashes + 1
  /\ server' = "down"
  /\ thread' = NoRun
  /\ exec' = [r \in Runs |-> Idle]
  /\ UNCHANGED <<run, answers, budget, stream, requests>>

\* Faulty: a run whose retrieval was interrupted is overlooked.
InterruptedStreams == {r \in Runs : run[r].status = "streaming"}

Interrupted == {r \in Runs : run[r].status \in {"retrieving", "streaming"}}

\* Faulty: the text of the event stands as it was last written.
RecoveredTextAsStored(r) == answer[r].text

RecoveredText(r) == IF deltas[r] > 0 THEN deltas[r] ELSE answer[r].text

\* recoverInterruptedRuns, one transaction.
RecoverInterruptedRuns ==
  /\ server = "down"
  /\ server' = "starting"
  /\ answer' = [r \in Runs |->
       IF r \in Interrupted /\ run[r].named
         THEN [status |-> "incomplete", active |-> TRUE, text |-> RecoveredText(r)]
         ELSE answer[r]]
  /\ run' = [r \in Runs |-> IF r \in Interrupted THEN [run[r] EXCEPT !.status = "failed"]
                                                 ELSE run[r]]
  /\ endings' = [r \in Runs |-> IF r \in Interrupted THEN Append(endings[r], "failed")
                                                     ELSE endings[r]]
  /\ UNCHANGED <<revisions, chosen, compile, budget, deltas, exec, requests, thread,
                 crashes>>

\* The pending runs are started before the API listens.
StartPending(r) ==
  /\ server = "starting"
  /\ thread = NoRun
  /\ run[r].status = "pending"
  /\ GoOn(r, "start")
  /\ UNCHANGED <<run, answers, budget, stream, requests, process>>

Listen ==
  /\ server = "starting"
  /\ thread = NoRun
  /\ \A r \in Runs : run[r].status # "pending"
  /\ server' = "up"
  /\ UNCHANGED <<run, answers, budget, stream, exec, requests, thread, crashes>>

-----------------------------------------------------------------------------
(* Specification *)

Execute(r) ==
  \/ Start(r) \/ ReserveBudget(r) \/ AppendAnswer(r) \/ NameAnswer(r)
  \/ SendRequest(r) \/ Delta(r) \/ FinalizeComplete(r)
  \/ RegisterAssistantRevision(r) \/ RecordModelCall(r) \/ EnqueueCompile(r)
  \/ Complete(r) \/ Throw(r) \/ SettleFailure(r) \/ FinalizePartial(r)
  \/ EndFailed(r)

Restart == RecoverInterruptedRuns \/ Listen \/ \E r \in Runs : StartPending(r)

Next ==
  \/ \E r \in Runs : Post(r) \/ Cancel(r) \/ Activate(r) \/ Execute(r)
  \/ Crash \/ Restart

Spec == Init /\ [][Next]_vars

\* What #execute awaits answers, fails or times out (packages/providers/src/
\* index.ts sets a timeout for every request), and the event loop then resumes it
\* however many requests come in between: strong fairness, since a handler takes
\* the thread away.  The launcher starts an API that died.
Fairness ==
  /\ \A r \in Runs : SF_vars(Execute(r))
  /\ WF_vars(Restart)

FairSpec == Spec /\ Fairness

-----------------------------------------------------------------------------
(* Properties *)

RunRow == [status : Ended \cup {"absent", "pending", "retrieving", "streaming"},
           cancel : BOOLEAN, named : BOOLEAN]

AnswerRow == [status : {"none", "streaming", "complete", "failed", "incomplete"},
              active : BOOLEAN, text : 0..MaxDeltas]

\* Where #execute awaits something, and where it is in between.
Suspended == {"none", "retrieving", "creating", "streaming"}
Unsuspended == {"start", "append", "name", "register", "record", "enqueue", "complete",
                "settle", "spoil", "end"}

Execution == [pc : Suspended \cup Unsuspended, text : 0..MaxDeltas, aborted : BOOLEAN,
              sent : BOOLEAN, ends : {"none", "failed", "cancelled"}]

\* Rows and execution states have their types; only the run that has the thread
\* is between two awaits, and nothing executes while the API is down.
TypeOK ==
  /\ run \in [Runs -> RunRow]
  /\ answer \in [Runs -> AnswerRow]
  /\ chosen \subseteq revisions /\ revisions \subseteq Runs
  /\ budget \in [Runs -> {"none", "reserved", "settled", "released"}]
  /\ compile \in [Runs -> {"none", "queued", "cancelled"}]
  /\ deltas \in [Runs -> 0..MaxDeltas]
  /\ endings \in [Runs -> Seq(Ended)]
  /\ exec \in [Runs -> Execution]
  /\ requests \in [Runs -> Nat]
  /\ server \in {"up", "starting", "down"}
  /\ thread \in Runs \cup {NoRun}
  /\ crashes \in 0..MaxCrashes
  /\ \A r \in Runs : /\ exec[r].pc \in Unsuspended <=> thread = r
                     /\ server = "down" => exec[r] = Idle

\* "complete" means every durable derivative required for recovery is already
\* committed: whole answer, active revision, charge, and compilation enqueued.
CompleteIsDurable ==
  \A r \in Runs : run[r].status = "complete" =>
    /\ answer[r].status = "complete" /\ answer[r].text = deltas[r]
    /\ r \in revisions
    /\ budget[r] = "settled"
    /\ compile[r] # "none"

\* A reader of the stream sees exactly one ending, and the one the run's row
\* reports, whoever ended the run: completion, failure, cancellation or recovery.
OneEnding ==
  \A r \in Runs :
    endings[r] = IF run[r].status \in Ended THEN <<run[r].status>> ELSE <<>>

\* However often a message is posted again and wherever the API dies, its
\* request goes to the provider at most once, under a reservation that is kept.
PaidOnce ==
  \A r \in Runs :
    /\ requests[r] <= 1
    /\ requests[r] = 1 => budget[r] \in {"reserved", "settled"}

\* "One active assistant revision is normal-view truth": between requests a
\* message has at most one complete active answer, the chosen revision.  That one
\* is itself not complete only if its own run failed after registering it.
OneAnswer ==
  Free => \A q \in Questions :
    LET all == {r \in Runs : Question[r] = q}
        shown == {r \in all : answer[r].active /\ answer[r].status = "complete"}
    IN  /\ Cardinality(chosen \cap all) <= 1
        /\ shown \subseteq chosen
        /\ \A r \in chosen \cap all :
             answer[r].active /\ (r \in shown \/ run[r].status = "failed")

\* An answer whose run has ended holds every delta that was streamed, and streams
\* no more, unless the process died before the run's row named it.
AnswersEnd ==
  \A r \in Runs : run[r].status \in Ended =>
    /\ answer[r].text = deltas[r]
    /\ answer[r].status = "streaming" => ~run[r].named

\* Once a run's row reports its end nothing of it changes any more: pollers and
\* the maintenance lock rely on it.
NothingAfterEnd ==
  [][\A r \in Runs : run[r].status \in Ended =>
       /\ run'[r] = run[r]
       /\ [answer'[r] EXCEPT !.active = TRUE] = [answer[r] EXCEPT !.active = TRUE]
       /\ budget'[r] = budget[r] /\ deltas'[r] = deltas[r] /\ endings'[r] = endings[r]
       /\ exec'[r].pc \in {"none", "start"}]_vars

\* Every run that was created ends, whatever dies or is cancelled meanwhile.
RunsEnd ==
  \A r \in Runs : run[r].status \in {"pending", "retrieving", "streaming"}
                   ~> run[r].status \in Ended
=============================================================================

------------------------------ MODULE ToolCalls ------------------------------
(***************************************************************************)
(* The local tools of a response: the rounds of OpenAiResponsesProvider    *)
(* .streamResponse (packages/providers/src/index.ts), LocalToolRuntime     *)
(* .execute and the one-use approvals of secret files (apps/api/src/       *)
(* tool-runtime.ts), WorkspaceReader.read and IsolatedSandbox (packages/   *)
(* tools) and what #execute of the orchestrator keeps of a web search.     *)
(*                                                                         *)
(* Tokens, bytes and prices are one small number each: an amount of text   *)
(* is its length.  The model asks for what it likes, from the tools it was *)
(* offered or not.  A call is one row of tool_executions with its          *)
(* tool_result events; its tool_call event is written along with the row.  *)
(* One workspace root is authorized, and what is read there are secrets.   *)
(***************************************************************************)
EXTENDS Integers, Sequences, FiniteSetsExt

CONSTANTS
  Responses,      \* the runs
  Secrets,        \* the secret-like files of the workspace
  Unset,
  Requests,       \* what may be asked for: the tools used in each round of each response
  ToolRounds,     \* RESPONSE_TOOL_ROUNDS
  Lookups,        \* the rounds of a MemoryToolSession
  WebCalls,       \* MAX_BUILT_IN_WEB_SEARCH_CALLS
  PromptSize,     \* the lengths of what a request begins with,
  OutputSize,     \* of an answer at most,
  ResultSize,     \* of a tool's result at most, and
  WebSize,        \* of what a web search adds
  OutputLimit,    \* what the sandbox keeps of a program's output
  MaxWritten,     \* bounds on what a program writes,
  MaxGrants,      \* on the approvals,
  MaxChanges      \* and on the times the root is given up

ASSUME LimitAssumption == OutputLimit \in Nat
ASSUME SizesAssumption ==
  {ToolRounds, WebCalls, PromptSize, OutputSize, ResultSize, WebSize} \subseteq Nat

VARIABLES
  uses,       \* one of Requests; a response without any is not asked for
  loop,       \* where a run is in its rounds
  toolRows,   \* its calls: status and number of results
  webRow,     \* the same of its web search
  carried,    \* what its next request adds to the prompt
  billed,     \* what its requests have cost
  tool,       \* the call under way
  program,    \* the program the sandbox runs
  grants,     \* OneUseWorkspaceSecretGrants
  workspace,  \* the root: whether it is authorized, and how often that changed
  reads,      \* (ghost) the secrets read: which, with which approval, when
  ended,      \* (ghost) how the last program ended, and whether all it wrote is told
  given       \* the approvals so far

loopVars == <<uses, loop, toolRows, webRow, carried, billed>>
worldVars == <<grants, workspace, given>>
toolVars == <<loopVars, tool, program, worldVars, reads, ended>>

NoCall == [pc |-> "none", kind |-> "none", file |-> Unset, grant |-> Unset, seen |-> 0]
NoProgram == [alive |-> FALSE, status |-> "none", code |-> 0, written |-> 0, arrived |-> 0,
              kept |-> 0, total |-> 0, marker |-> "none"]

ToolsInit ==
  /\ uses \in Requests
  /\ loop = [r \in Responses |-> [pc |-> "absent", rounds |-> 0, lookups |-> 0,
                                  aborted |-> FALSE]]
  /\ toolRows = [r \in Responses |-> <<>>]
  /\ webRow = [r \in Responses |-> [status |-> "none", results |-> 0]]
  /\ carried = [r \in Responses |-> 0]
  /\ billed = [r \in Responses |-> 0]
  /\ tool = [r \in Responses |-> NoCall]
  /\ program = [r \in Responses |-> NoProgram]
  /\ grants = [f \in Secrets |-> Unset]
  /\ workspace = [authorized |-> TRUE, epoch |-> 0]
  /\ reads = {} /\ ended = [status |-> "none", whole |-> TRUE]
  /\ given = 0

-----------------------------------------------------------------------------
(* The rounds *)

\* estimateResponseReservationUsd: what is reserved before the first request.
RoundCost(i) ==
  PromptSize + i * (ResultSize + 2 * OutputSize) + WebCalls * WebSize + OutputSize
RequestCosts[i \in Nat] ==
  IF i = 0 THEN RoundCost(0) ELSE RequestCosts[i - 1] + RoundCost(i)
Reserved == RequestCosts[ToolRounds] + WebCalls

\* Faulty: one more round than was reserved.
OneMoreRound(r) == loop[r].rounds <= ToolRounds

\* responseToolPolicy
OffersTools(r) == loop[r].rounds < ToolRounds
OffersWeb(r) == loop[r].rounds = 0

\* boundedProviderEvidence and boundProviderToolOutput
ForProvider(size) == IF size > ResultSize THEN ResultSize ELSE size

Ask(r) ==
  /\ loop[r].pc = "absent" /\ uses[r] # <<>>
  /\ loop' = [loop EXCEPT ![r].pc = "asking"]
  /\ UNCHANGED <<uses, toolRows, webRow, carried, billed, tool, program, worldVars, reads, ended>>

\* The provider searches the web: the row is inserted with its tool_call event.
StartWebSearch(r) ==
  /\ loop[r].pc = "asking" /\ OffersWeb(r) /\ webRow[r].status = "none"
  /\ "web" \in uses[r][1]
  /\ webRow' = [webRow EXCEPT ![r].status = "running"]
  /\ UNCHANGED <<uses, loop, toolRows, carried, billed, tool, program, worldVars, reads, ended>>

\* Faulty: the search of a cancelled answer is left as it is.
OnlyOfFailed(how, row) ==
  CASE row.status # "running" -> row
    [] how = "complete" -> [status |-> "complete", results |-> 1]
    [] how = "failed" -> [status |-> "failed", results |-> 0]
    [] how = "cancelled" -> row

\* The end of #execute, or its catch block, which appends no tool_result event.
WebRowAtEnd(how, row) ==
  CASE row.status # "running" -> row
    [] how = "complete" -> [status |-> "complete", results |-> 1]
    [] OTHER -> [status |-> "failed", results |-> 0]

EndLoop(r, how) ==
  /\ loop' = [loop EXCEPT ![r].pc = "ended"]
  /\ webRow' = [webRow EXCEPT ![r] = WebRowAtEnd(how, @)]

\* The request and what the model has written so far.
Billed(r, output, searches) ==
  billed[r] + PromptSize + carried[r] + searches * (WebSize + 1) + output

\* One response of the provider: its text is the answer, or it calls tools, of
\* which the first one is executed.  The row is there before anything is checked.
Respond(r) ==
  /\ loop[r].pc = "asking" /\ ~loop[r].aborted
  /\ \E output \in 0..OutputSize,
        searches \in IF webRow[r].status = "running" /\ OffersWeb(r) THEN 0..WebCalls ELSE {0} :
        /\ billed' = [billed EXCEPT ![r] = Billed(r, output, searches)]
        /\ \/ /\ EndLoop(r, "complete")
              /\ UNCHANGED <<uses, toolRows, carried, tool>>
           \/ /\ OffersTools(r) /\ loop[r].rounds < Len(uses[r])
              /\ \E kind \in uses[r][loop[r].rounds + 1] \ {"web"}, f \in Secrets :
                    /\ kind # "read" => f = CHOOSE g \in Secrets : TRUE
                    /\ tool' = [tool EXCEPT ![r] = [NoCall EXCEPT !.pc = "begun", !.kind = kind,
                                                                  !.file = f]]
              /\ toolRows' = [toolRows EXCEPT ![r] = Append(@, [status |-> "running",
                                                                results |-> 0])]
              /\ carried' = [carried EXCEPT ![r] = @ + 2 * output + searches * WebSize]
              /\ loop' = [loop EXCEPT ![r].pc = "calling"]
              /\ UNCHANGED webRow
  /\ UNCHANGED <<uses, program, worldVars, reads, ended>>

\* The request fails, or the controller is aborted.
GiveUp(r) ==
  /\ loop[r].pc = "asking"
  /\ EndLoop(r, IF loop[r].aborted THEN "cancelled" ELSE "failed")
  /\ \E output \in 0..OutputSize :
        billed' = [billed EXCEPT ![r] = Billed(r, output, 0)]
  /\ UNCHANGED <<uses, toolRows, carried, tool, program, worldVars, reads, ended>>

\* Cancelling a run; the sandbox listens to it while its program runs.
Abort(r) ==
  /\ loop[r].pc \in {"asking", "calling"} /\ ~loop[r].aborted
  /\ loop' = [loop EXCEPT ![r].aborted = TRUE]
  /\ program' = IF tool[r].pc = "program" /\ program[r].status = "none"
                THEN [program EXCEPT ![r].status = "cancelled"] ELSE program
  /\ UNCHANGED <<uses, toolRows, webRow, carried, billed, tool, worldVars, reads, ended>>

-----------------------------------------------------------------------------
(* A call *)

\* The row and its event are written, and the provider is asked again.
Answer(r, status, size, looked) ==
  /\ toolRows' = [toolRows EXCEPT ![r] =
       [i \in DOMAIN @ |-> IF i = Len(@) THEN [status |-> status, results |-> @[i].results + 1]
                           ELSE @[i]]]
  /\ carried' = [carried EXCEPT ![r] = @ + ForProvider(size)]
  /\ loop' = [loop EXCEPT ![r].pc = "asking", ![r].rounds = @ + 1, ![r].lookups = @ + looked]
  /\ tool' = [tool EXCEPT ![r] = NoCall]
  /\ program' = [program EXCEPT ![r] = NoProgram]
  /\ UNCHANGED <<uses, webRow, billed>>

\* #finishFailure
Fail(r) == Answer(r, "failed", 1, 0)

Succeed(r) == \E size \in {1, ResultSize + 1} : Answer(r, "complete", size, 0)

Goes(r, pc) ==
  /\ tool' = [tool EXCEPT ![r].pc = pc]
  /\ UNCHANGED <<loopVars, program>>

\* A tool that was not offered, an aborted run, an override nobody asked for,
\* arguments that do not fit the tool.
Refuse(r) ==
  /\ tool[r].pc = "begun"
  /\ Fail(r)
  /\ UNCHANGED <<worldVars, reads, ended>>

\* MemoryToolSession: the database answers at once; a round is counted before.
LookUp(r) ==
  /\ tool[r].pc = "begun" /\ tool[r].kind = "lookup" /\ ~loop[r].aborted
  /\ loop[r].lookups < Lookups
  /\ \/ \E size \in {1, ResultSize + 1} : Answer(r, "complete", size, 1)
     \/ Answer(r, "failed", 1, 1)
  /\ UNCHANGED <<worldVars, reads, ended>>

-----------------------------------------------------------------------------
(* Reading a secret *)

\* #resolve: the root as the database has it now, and where it really is.
Resolve(r) ==
  /\ tool[r].pc = "begun" /\ tool[r].kind = "read" /\ ~loop[r].aborted
  /\ workspace.authorized
  /\ Goes(r, "resolved")
  /\ UNCHANGED <<worldVars, reads, ended>>

\* Faulty: the approval stays until the file is read.
StillGranted(f) == grants

\* approve: the approval is gone before anything else can run.
WithoutGrant(f) == [grants EXCEPT ![f] = Unset]

\* #allowed and the approval, which the model has to ask for.
Approve(r) ==
  /\ tool[r].pc = "resolved"
  /\ LET f == tool[r].file
     IN IF grants[f] # Unset
        THEN /\ grants' = WithoutGrant(f)
             /\ tool' = [tool EXCEPT ![r].pc = "approved", ![r].grant = grants[f],
                                     ![r].seen = workspace.epoch]
             /\ UNCHANGED <<loopVars, program>>
        ELSE Fail(r) /\ UNCHANGED grants
  /\ UNCHANGED <<workspace, given, reads, ended>>

\* #openVerified looks at the file, opens it and compares; a file that is too
\* large, or not what it was, is not read, though its approval is spent.
OpenAndRead(r) ==
  /\ tool[r].pc = "approved"
  /\ \/ /\ reads' = reads \cup {[file |-> tool[r].file, grant |-> tool[r].grant,
                                 epoch |-> tool[r].seen, by |-> r, call |-> loop[r].rounds]}
        /\ Succeed(r)
     \/ Fail(r) /\ UNCHANGED reads
  /\ UNCHANGED <<worldVars, ended>>

\* The file is gone, the root has moved, or a rule excludes the file.
CannotRead(r) ==
  /\ tool[r].pc = "resolved"
  /\ Fail(r)
  /\ UNCHANGED <<worldVars, reads, ended>>

-----------------------------------------------------------------------------
(* Running a program *)

\* execute writes the program's directory; an abort meanwhile is not heard of.
Prepare(r) ==
  /\ tool[r].pc = "begun" /\ tool[r].kind = "run" /\ ~loop[r].aborted
  /\ Goes(r, "preparing")
  /\ UNCHANGED <<worldVars, reads, ended>>

\* The runner tells on stderr that it has started, and runs the program.
Spawn(r) ==
  /\ tool[r].pc = "preparing"
  /\ \/ /\ tool' = [tool EXCEPT ![r].pc = "program"]
        /\ program' = [program EXCEPT ![r] = [NoProgram EXCEPT !.alive = TRUE, !.marker = "sent"]]
        /\ UNCHANGED loopVars
     \/ Fail(r)
  /\ UNCHANGED <<worldVars, reads, ended>>

Write(r) ==
  /\ program[r].alive /\ program[r].written < MaxWritten
  /\ program' = [program EXCEPT ![r].written = @ + 1]
  /\ UNCHANGED <<loopVars, tool, worldVars, reads, ended>>

Counts(total, n) == total + n

\* append: no more than the limit is kept of both streams together.
Appended(p, n) ==
  LET total == Counts(p.total, n)
  IN [p EXCEPT !.total = total,
               !.status = IF total > OutputLimit /\ @ = "none" THEN "output_limit" ELSE @]

Room(p) == IF p.total < OutputLimit THEN OutputLimit - p.total ELSE 0

\* What was written arrives, in pieces; the two streams in any order.
ReadOutput(r) ==
  /\ tool[r].pc = "program"
  /\ LET p == program[r]
     IN \/ /\ p.marker = "sent"
           /\ program' = [program EXCEPT ![r] =
                [Appended(p, 1) EXCEPT !.marker = IF Room(p) > 0 THEN "kept" ELSE "lost"]]
        \/ \E n \in 1..(p.written - p.arrived) :
              program' = [program EXCEPT ![r] =
                [Appended(p, n) EXCEPT !.arrived = @ + n,
                                       !.kept = @ + IF n < Room(p) THEN n ELSE Room(p)]]
  /\ UNCHANGED <<loopVars, tool, worldVars, reads, ended>>

\* The timer or the memory monitor; the first cause is the one that is told.
Kill(r) ==
  /\ tool[r].pc = "program" /\ program[r].status = "none"
  /\ \E cause \in {"timed_out", "memory_limit"} :
        program' = [program EXCEPT ![r].status = cause]
  /\ UNCHANGED <<loopVars, tool, worldVars, reads, ended>>

\* The program ends by itself, or is killed once there is a cause.
Exit(r) ==
  /\ program[r].alive
  /\ \E code \in {0, 1} :
        program' = [program EXCEPT ![r].alive = FALSE, ![r].code = code]
  /\ UNCHANGED <<loopVars, tool, worldVars, reads, ended>>

FinalStatus(p) ==
  IF p.status # "none" THEN p.status ELSE IF p.code = 0 THEN "completed" ELSE "failed"

\* close: both streams are at their end.  Without the marker nothing was run.
Close(r) ==
  /\ tool[r].pc = "program" /\ ~program[r].alive
  /\ program[r].arrived = program[r].written /\ program[r].marker # "sent"
  /\ LET p == program[r]
     IN /\ ended' = [status |-> IF p.marker = "lost" THEN "unavailable" ELSE FinalStatus(p),
                       whole |-> p.kept = p.written]
        /\ IF p.marker = "lost" THEN Fail(r) ELSE Succeed(r)
  /\ UNCHANGED <<worldVars, reads>>

-----------------------------------------------------------------------------
(* Approvals *)

\* POST /workspaces/:id/secret-approvals: a later approval replaces an earlier one.
Grant(f) ==
  /\ workspace.authorized /\ given < MaxGrants
  /\ grants' = [grants EXCEPT ![f] = [id |-> given + 1, epoch |-> workspace.epoch]]
  /\ given' = given + 1
  /\ UNCHANGED <<loopVars, workspace, tool, program, reads, ended>>

\* #prune, on its next call or never: an approval that is too old is no approval.
Expire(f) ==
  /\ grants[f] # Unset
  /\ grants' = [grants EXCEPT ![f] = Unset]
  /\ UNCHANGED <<loopVars, workspace, given, tool, program, reads, ended>>

\* revokeRoot, and clear
NoGrants == [f \in Secrets |-> Unset]

\* DELETE /workspaces/:id, also while a file is read.
Revoke ==
  /\ workspace.authorized /\ workspace.epoch < MaxChanges
  /\ workspace' = [authorized |-> FALSE, epoch |-> workspace.epoch + 1]
  /\ grants' = NoGrants
  /\ UNCHANGED <<loopVars, given, tool, program, reads, ended>>

\* authorizeWorkspace: the same folder has the same id again.
Authorize ==
  /\ ~workspace.authorized
  /\ workspace' = [workspace EXCEPT !.authorized = TRUE]
  /\ UNCHANGED <<loopVars, grants, given, tool, program, reads, ended>>

\* The API ends between two steps: what it held in memory is gone, and nothing
\* looks after the calls that were under way.
ToolsDie ==
  /\ \E r \in Responses : loop[r].pc \in {"asking", "calling"}
  /\ loop' = [r \in Responses |->
       IF loop[r].pc \in {"asking", "calling"} THEN [loop[r] EXCEPT !.pc = "lost"] ELSE loop[r]]
  /\ tool' = [r \in Responses |-> NoCall]
  /\ program' = [r \in Responses |-> NoProgram]
  /\ grants' = NoGrants
  /\ UNCHANGED <<uses, toolRows, webRow, carried, billed, workspace, given, reads, ended>>

ToolsNext ==
  \/ \E r \in Responses :
        \/ Ask(r) \/ StartWebSearch(r) \/ Respond(r) \/ GiveUp(r) \/ Abort(r)
        \/ Refuse(r) \/ LookUp(r)
        \/ Resolve(r) \/ Approve(r) \/ OpenAndRead(r) \/ CannotRead(r)
        \/ Prepare(r) \/ Spawn(r) \/ Write(r) \/ ReadOutput(r) \/ Kill(r) \/ Exit(r) \/ Close(r)
  \/ \E f \in Secrets : Grant(f) \/ Expire(f)
  \/ Revoke \/ Authorize \/ ToolsDie

ToolsSpec == ToolsInit /\ [][ToolsNext]_toolVars

-----------------------------------------------------------------------------
(* Properties *)

ToolsTypeOK ==
  /\ \A r \in Responses :
        /\ loop[r].pc \in {"absent", "asking", "calling", "ended", "lost"}
        /\ loop[r].rounds \in 0..ToolRounds /\ loop[r].lookups \in 0..Lookups
        /\ tool[r].pc \in {"none", "begun", "resolved", "approved", "preparing", "program"}
        /\ (tool[r].pc # "none") = (loop[r].pc = "calling")
  /\ \A f \in Secrets : grants[f] = Unset \/ grants[f].id \in 1..given

\* An approval lets a secret file be read once, by one call, and only as long as
\* the folder it was given for has stayed authorized; another file's approval
\* does not help.
SecretsReadOnce ==
  /\ \A a, b \in reads : a.grant.id = b.grant.id => a = b
  /\ \A a \in reads : a.grant.epoch = a.epoch

\* When a response has ended and its API lives on, each tool call and its web
\* search has ended too, and each local call has told its result exactly once; and
\* a program said to have ended by itself has had all its output told.
CallsAreAnswered ==
  /\ \A r \in Responses :
       loop[r].pc = "ended" =>
         /\ webRow[r].status # "running"
         /\ \A i \in DOMAIN toolRows[r] :
               toolRows[r][i].status # "running" /\ toolRows[r][i].results = 1
  /\ ended.status \in {"completed", "failed"} => ended.whole

\* Whatever the tools return and however often the model calls them, the requests
\* of a response together cost no more than was reserved before the first one.
ReserveCovers == \A r \in Responses : billed[r] <= Reserved
=============================================================================

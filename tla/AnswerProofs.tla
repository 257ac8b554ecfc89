---------------------------- MODULE AnswerProofs ----------------------------
(***************************************************************************)
(* Proofs about what goes into an answer.  Its tools, for any number of    *)
(* responses, files, approvals, calls and changes of the folder: an        *)
(* approval lets a secret be read once, and every call of the model is     *)
(* answered, by its result or by the end of the response (ToolCalls).  Its *)
(* context, for any conversation, memory and window: what was sent to the  *)
(* model fits the window, ends with the question when that fits, holds     *)
(* nothing unfinished, and is put together again from what was recorded of *)
(* it (AnswerContext).                                                     *)
(***************************************************************************)
EXTENDS ToolCalls, AnswerContext, FiniteSetTheorems, WellFoundedInduction, TLAPS

(* The shapes of the records that steps change in part.                        *)
Shapes ==
  /\ given \in Nat
  /\ workspace = [authorized |-> workspace.authorized, epoch |-> workspace.epoch]
  /\ grants = [f \in Secrets |-> grants[f]]
  /\ tool = [r \in Responses |-> tool[r]]

CallShape(c) ==
  /\ c = [field \in {"pc", "kind", "file", "grant", "seen"} |-> c[field]]
  /\ c.pc # "none" => c.file \in Secrets

Holds(r) == tool[r].pc = "approved"

(* Each approval is in one place: on offer, taken by one call, or used in one   *)
(* reading; and one on offer was given since the folder was last authorized.    *)
OnOffer ==
  \A f \in Secrets : grants[f] # Unset =>
    /\ grants[f].id \in 1..given
    /\ grants[f].epoch = workspace.epoch
    /\ \A g \in Secrets : grants[g] # Unset /\ grants[g].id = grants[f].id => g = f

Taken ==
  \A r \in Responses : Holds(r) =>
    /\ tool[r].grant.id \in 1..given
    /\ tool[r].grant.epoch = tool[r].seen
    /\ \A f \in Secrets : grants[f] # Unset => grants[f].id # tool[r].grant.id
    /\ \A s \in Responses : Holds(s) /\ tool[s].grant.id = tool[r].grant.id => s = r

Used ==
  \A a \in reads :
    /\ a.grant.id \in 1..given
    /\ \A f \in Secrets : grants[f] # Unset => grants[f].id # a.grant.id
    /\ \A r \in Responses : Holds(r) => tool[r].grant.id # a.grant.id

ApprovalInv ==
  /\ Shapes
  /\ \A r \in Responses : CallShape(tool[r])
  /\ OnOffer /\ Taken /\ Used
  /\ SecretsReadOnce

(* A call keeps its shape as it moves on.                                     *)
LEMMA StageChanges ==
  ASSUME NEW d, CallShape(d), d.pc # "none", NEW pc, NEW c, c = [d EXCEPT !.pc = pc]
  PROVE  CallShape(c) /\ c.pc = pc
BY DEF CallShape

(* No call holds an approval in the beginning.                                 *)
LEMMA ApprovalsInitially == ToolsInit => ApprovalInv
  BY DEF ToolsInit, ApprovalInv, Shapes, CallShape, Holds, OnOffer, Taken, Used, SecretsReadOnce,
         NoCall

(* Steps that look at other things leave the approvals alone.                  *)
LEMMA Unchanged ==
  ASSUME ApprovalInv, UNCHANGED <<tool, worldVars, reads>>
  PROVE  ApprovalInv'
BY DEF ApprovalInv, Shapes, CallShape, OnOffer, Taken, Used, SecretsReadOnce, Holds, worldVars

(* A step of one call that takes no approval.                                  *)
LEMMA CallMovesOn ==
  ASSUME ApprovalInv, NEW r \in Responses, NEW c, CallShape(c), c.pc # "approved",
         tool' = [tool EXCEPT ![r] = c], UNCHANGED <<worldVars, reads>>
  PROVE  ApprovalInv'
<1> USE DEF ApprovalInv, Shapes, Holds, worldVars
<1>1. \A s \in Responses : tool'[s] = IF s = r THEN c ELSE tool[s]
  OBVIOUS
<1>2. Shapes'
  BY <1>1
<1>3. (\A s \in Responses : CallShape(tool[s]))'
  BY <1>1 DEF CallShape
<1>4. OnOffer' BY DEF OnOffer
<1>5. Taken' BY <1>1 DEF Taken
<1>6. Used' BY <1>1 DEF Used
<1>7. SecretsReadOnce' BY DEF SecretsReadOnce
<1> QED BY <1>2, <1>3, <1>4, <1>5, <1>6, <1>7

(* Answering a call ends it.                                                   *)
LEMMA AnswersEndCalls ==
  ASSUME ApprovalInv, NEW r \in Responses, NEW status, NEW size, NEW looked,
         Answer(r, status, size, looked), UNCHANGED <<worldVars, reads>>
  PROVE  ApprovalInv'
<1>1. CallShape(NoCall) /\ NoCall.pc # "approved"
  BY DEF CallShape, NoCall
<1> QED BY <1>1, CallMovesOn DEF Answer

(* The steps of a call on its way, but for the two below.                      *)
LEMMA StepsOfCalls ==
  ASSUME ApprovalInv, NEW r \in Responses,
         \/ Respond(r) \/ Refuse(r) \/ LookUp(r) \/ Resolve(r) \/ CannotRead(r) \/ Prepare(r)
         \/ Spawn(r) \/ Close(r)
  PROVE  ApprovalInv'
<1>1. CASE Respond(r)
  <2>1. CASE tool' = tool
    BY <1>1, <2>1, Unchanged DEF Respond
  <2>2. CASE tool' # tool
    <3>1. PICK output \in 0..OutputSize, searches \in 0..WebCalls \cup {0} :
            \E kind \in uses[r][loop[r].rounds + 1] \ {"web"}, f \in Secrets :
              tool' = [tool EXCEPT ![r] = [NoCall EXCEPT !.pc = "begun", !.kind = kind, !.file = f]]
      BY <1>1, <2>2 DEF Respond
    <3>2. PICK kind \in uses[r][loop[r].rounds + 1] \ {"web"}, f \in Secrets :
            tool' = [tool EXCEPT ![r] = [NoCall EXCEPT !.pc = "begun", !.kind = kind, !.file = f]]
      BY <3>1
    <3> DEFINE c == [NoCall EXCEPT !.pc = "begun", !.kind = kind, !.file = f]
    <3>3. tool' = [tool EXCEPT ![r] = c]
      BY <3>2
    <3>4. CallShape(c) /\ c.pc # "approved"
      BY DEF CallShape, NoCall
    <3>5. UNCHANGED <<worldVars, reads>>
      BY <1>1 DEF Respond
    <3> HIDE DEF c
    <3> QED BY <3>3, <3>4, <3>5, CallMovesOn
  <2> QED BY <2>1, <2>2
<1>2. CASE Refuse(r) \/ LookUp(r) \/ CannotRead(r) \/ Close(r)
  BY <1>2, AnswersEndCalls DEF Refuse, LookUp, CannotRead, Close, Fail, Succeed
<1>3. CASE Resolve(r) \/ Prepare(r) \/ Spawn(r)
  <2>1. CASE Spawn(r) /\ Fail(r)
    BY <2>1, AnswersEndCalls DEF Spawn, Fail
  <2>2. CASE ~(Spawn(r) /\ Fail(r))
    <3>1. PICK pc \in {"resolved", "preparing", "program"} :
            /\ tool' = [tool EXCEPT ![r].pc = pc]
            /\ tool[r].pc # "none"
            /\ UNCHANGED <<worldVars, reads>>
      BY <1>3, <2>2 DEF Resolve, Prepare, Spawn, Goes
    <3> DEFINE c == [tool[r] EXCEPT !.pc = pc]
    <3>2. tool' = [tool EXCEPT ![r] = c]
      BY <3>1
    <3>3. CallShape(tool[r]) /\ tool[r].pc # "none"
      BY <3>1 DEF ApprovalInv
    <3> DEFINE d == tool[r]
    <3>5. c = [d EXCEPT !.pc = pc] /\ CallShape(d) /\ d.pc # "none"
      BY <3>3
    <3> HIDE DEF c, d
    <3>4. CallShape(c) /\ c.pc # "approved"
      BY <3>5, StageChanges
    <3> QED BY <3>1, <3>2, <3>4, CallMovesOn
  <2> QED BY <2>1, <2>2
<1> QED BY <1>1, <1>2, <1>3

(* Taking an approval takes it off the offer ...                               *)
LEMMA ApproveMovesIt ==
  ASSUME ApprovalInv, NEW r \in Responses, Approve(r)
  PROVE  ApprovalInv'
<1> DEFINE f == tool[r].file
<1>1. CASE grants[f] = Unset
  <2>1. Fail(r) /\ UNCHANGED <<worldVars, reads>>
    BY <1>1 DEF Approve, worldVars
  <2> QED BY <2>1, AnswersEndCalls DEF Fail
<1>2. CASE grants[f] # Unset
  <2> DEFINE c == [tool[r] EXCEPT !.pc = "approved", !.grant = grants[f],
                                  !.seen = workspace.epoch]
  <2>1. /\ grants' = [grants EXCEPT ![f] = Unset]
        /\ tool' = [tool EXCEPT ![r] = c]
        /\ tool[r].pc = "resolved"
        /\ UNCHANGED <<workspace, given, reads>>
    BY <1>2 DEF Approve, WithoutGrant
  <2>2. f \in Secrets
    BY <2>1 DEF ApprovalInv, CallShape
  <2>3. c.pc = "approved" /\ c.grant = grants[f] /\ c.seen = workspace.epoch /\ CallShape(c)
    <3>1. CallShape(tool[r]) /\ tool[r].pc # "none"
      BY <2>1 DEF ApprovalInv
    <3> DEFINE d == tool[r]
               g == grants[f]
               p == "approved"
               e == workspace.epoch
    <3>2. /\ c = [d EXCEPT !.pc = p, !.grant = g, !.seen = e]
          /\ CallShape(d) /\ d.pc # "none"
      BY <3>1
    <3> HIDE DEF c, d, g, p, e
    <3>3. CallShape(c) /\ c.pc = p /\ c.grant = g /\ c.seen = e
      BY <3>2 DEF CallShape
    <3> QED BY <3>3 DEF g, p, e
  <2> HIDE DEF c, f
  <2>4. \A s \in Responses : tool'[s] = IF s = r THEN c ELSE tool[s]
    BY <2>1 DEF ApprovalInv, Shapes
  <2>5. \A g \in Secrets : grants'[g] = IF g = f THEN Unset ELSE grants[g]
    BY <2>1 DEF ApprovalInv, Shapes
  <2>6. Shapes'
    BY <2>1, <2>4, <2>5 DEF ApprovalInv, Shapes
  <2>7. (\A s \in Responses : CallShape(tool[s]))'
    BY <2>3, <2>4 DEF ApprovalInv, CallShape
  <2>8. OnOffer'
    BY <2>1, <2>5 DEF ApprovalInv, OnOffer
  <2>9. Taken'
    BY <1>2, <2>1, <2>2, <2>3, <2>4, <2>5 DEF ApprovalInv, OnOffer, Taken, Holds
  <2>10. Used'
    BY <1>2, <2>1, <2>2, <2>3, <2>4, <2>5 DEF ApprovalInv, Used, Holds
  <2>11. SecretsReadOnce'
    BY <2>1 DEF ApprovalInv, SecretsReadOnce
  <2> QED BY <2>6, <2>7, <2>8, <2>9, <2>10, <2>11 DEF ApprovalInv
<1> QED BY <1>1, <1>2

(* ... and reading uses it up.                                                 *)
LEMMA ReadingUsesItUp ==
  ASSUME ApprovalInv, NEW r \in Responses, OpenAndRead(r)
  PROVE  ApprovalInv'
<1>1. CASE UNCHANGED reads
  BY <1>1, AnswersEndCalls DEF OpenAndRead, Fail, Succeed
<1>2. CASE ~UNCHANGED reads
  <2> DEFINE a == [file |-> tool[r].file, grant |-> tool[r].grant, epoch |-> tool[r].seen,
                   by |-> r, call |-> loop[r].rounds]
  <2>1. /\ reads' = reads \cup {a}
        /\ tool' = [tool EXCEPT ![r] = NoCall]
        /\ Holds(r)
        /\ UNCHANGED worldVars
    BY <1>2 DEF OpenAndRead, Succeed, Answer, Fail, Holds
  <2>2. \A s \in Responses : tool'[s] = IF s = r THEN NoCall ELSE tool[s]
    BY <2>1 DEF ApprovalInv, Shapes
  <2>3. a.grant = tool[r].grant /\ a.epoch = tool[r].seen
    OBVIOUS
  <2>4. CallShape(NoCall) /\ NoCall.pc # "approved"
    BY DEF CallShape, NoCall
  <2> HIDE DEF a
  <2>5. Shapes'
    BY <2>1, <2>2 DEF ApprovalInv, Shapes, worldVars
  <2>6. (\A s \in Responses : CallShape(tool[s]))'
    BY <2>2, <2>4 DEF ApprovalInv, CallShape
  <2>7. OnOffer'
    BY <2>1 DEF ApprovalInv, OnOffer, worldVars
  <2>8. Taken'
    BY <2>1, <2>2, <2>4 DEF ApprovalInv, Taken, Holds, worldVars
  <2>9. Used'
    BY <2>1, <2>2, <2>3, <2>4 DEF ApprovalInv, Used, Taken, Holds, worldVars
  <2>10. SecretsReadOnce'
    BY <2>1, <2>3 DEF ApprovalInv, SecretsReadOnce, Used, Taken, Holds
  <2> QED BY <2>5, <2>6, <2>7, <2>8, <2>9, <2>10 DEF ApprovalInv
<1> QED BY <1>1, <1>2

(* Approvals given, withdrawn and forgotten.                                   *)
LEMMA ApprovalsComeAndGo ==
  ASSUME ApprovalInv,
         \/ \E f \in Secrets : Grant(f) \/ Expire(f)
         \/ Revoke \/ Authorize \/ ToolsDie
  PROVE  ApprovalInv'
<1> USE DEF ApprovalInv, Shapes, CallShape, OnOffer, Taken, Used, SecretsReadOnce, Holds
<1>1. CASE \E f \in Secrets : Grant(f)
  BY <1>1 DEF Grant
<1>2. CASE \E f \in Secrets : Expire(f)
  BY <1>2 DEF Expire
<1>3. CASE Revoke
  BY <1>3 DEF Revoke, NoGrants
<1>4. CASE Authorize
  BY <1>4 DEF Authorize
<1>5. CASE ToolsDie
  BY <1>5 DEF ToolsDie, NoGrants, NoCall
<1> QED BY <1>1, <1>2, <1>3, <1>4, <1>5

(* A secret is read once for each approval, and only while the folder it was   *)
(* given for stays authorized.                                                 *)
THEOREM ApprovalsAreUsedOnce == ToolsSpec => []SecretsReadOnce
<1>1. ApprovalInv /\ [ToolsNext]_toolVars => ApprovalInv'
  <2> SUFFICES ASSUME ApprovalInv, [ToolsNext]_toolVars PROVE ApprovalInv'
    OBVIOUS
  <2>1. ASSUME NEW r \in Responses,
               \/ Ask(r) \/ StartWebSearch(r) \/ GiveUp(r) \/ Abort(r)
               \/ Write(r) \/ ReadOutput(r) \/ Kill(r) \/ Exit(r)
        PROVE  UNCHANGED <<tool, worldVars, reads>>
    BY <2>1 DEF Ask, StartWebSearch, GiveUp, Abort, Write, ReadOutput, Kill, Exit
  <2>2. UNCHANGED toolVars => UNCHANGED <<tool, worldVars, reads>>
    BY DEF toolVars
  <2> QED BY <2>1, <2>2, Unchanged, StepsOfCalls, ApproveMovesIt, ReadingUsesItUp,
             ApprovalsComeAndGo DEF ToolsNext
<1>2. ApprovalInv => SecretsReadOnce
  BY DEF ApprovalInv
<1> QED BY <1>1, <1>2, ApprovalsInitially, PTL DEF ToolsSpec

-----------------------------------------------------------------------------
(* Calls are answered                                                        *)

Row == [status : {"running", "complete", "failed"}, results : Nat]
Told(rows, n) == \A i \in 1..n : rows[i].status # "running" /\ rows[i].results = 1

(* A run whose last request is answered has told the results of all its calls, *)
(* and one that executes a call those of all but the last.                     *)
ResponseIsSound(l, rows, web, c) ==
  /\ l = [f \in {"pc", "rounds", "lookups", "aborted"} |-> l[f]]
  /\ rows \in Seq(Row)
  /\ c = [f \in {"pc", "kind", "file", "grant", "seen"} |-> c[f]]
  /\ c.pc # "none" => l.pc = "calling"
  /\ l.pc \in {"absent", "asking", "ended"} => Told(rows, Len(rows))
  /\ l.pc = "calling" =>
       Len(rows) > 0 /\ Told(rows, Len(rows) - 1) /\ rows[Len(rows)].results = 0
  /\ l.pc = "ended" => web.status # "running"

(* As long as nobody stops the program, all that has arrived is kept.          *)
ProgramIsSound(p) ==
  /\ p = [f \in {"alive", "status", "code", "written", "arrived", "kept", "total", "marker"} |-> p[f]]
  /\ p.written \in Nat /\ p.arrived \in Nat /\ p.kept \in Nat /\ p.total \in Nat
  /\ p.status \in {"none", "cancelled", "output_limit", "timed_out", "memory_limit"}
  /\ p.status = "none" => p.kept = p.arrived

EndIsTold == ended.status \in {"completed", "failed"} => ended.whole

AnswerInv ==
  /\ loop = [r \in Responses |-> loop[r]] /\ toolRows = [r \in Responses |-> toolRows[r]]
  /\ webRow = [r \in Responses |-> webRow[r]] /\ tool = [r \in Responses |-> tool[r]]
  /\ program = [r \in Responses |-> program[r]]
  /\ \A r \in Responses : ResponseIsSound(loop[r], toolRows[r], webRow[r], tool[r])
  /\ \A r \in Responses : ProgramIsSound(program[r])
  /\ EndIsTold

(* A step that is about one run changes what belongs to it.                    *)
Only(r, f, g) == g = [s \in Responses |-> IF s = r THEN g[r] ELSE f[s]]
StepOfRun(r) ==
  /\ Only(r, loop, loop') /\ Only(r, toolRows, toolRows') /\ Only(r, webRow, webRow')
  /\ Only(r, tool, tool') /\ Only(r, program, program')

LEMMA RunMovesOn ==
  ASSUME AnswerInv, NEW r \in Responses, StepOfRun(r), EndIsTold',
         ResponseIsSound(loop'[r], toolRows'[r], webRow'[r], tool'[r]),
         ProgramIsSound(program'[r])
  PROVE  AnswerInv'
<1>1. \A s \in Responses \ {r} :
        /\ loop'[s] = loop[s] /\ toolRows'[s] = toolRows[s] /\ webRow'[s] = webRow[s]
        /\ tool'[s] = tool[s] /\ program'[s] = program[s]
  BY DEF StepOfRun, Only
<1>2. /\ loop' = [s \in Responses |-> loop'[s]] /\ toolRows' = [s \in Responses |-> toolRows'[s]]
      /\ webRow' = [s \in Responses |-> webRow'[s]] /\ tool' = [s \in Responses |-> tool'[s]]
      /\ program' = [s \in Responses |-> program'[s]]
  BY DEF StepOfRun, Only
<1>3. \A s \in Responses : ResponseIsSound(loop'[s], toolRows'[s], webRow'[s], tool'[s])
  BY <1>1 DEF AnswerInv
<1>4. \A s \in Responses : ProgramIsSound(program'[s])
  BY <1>1 DEF AnswerInv
<1> QED BY <1>2, <1>3, <1>4 DEF AnswerInv

LEMMA OnlyOf ==
  ASSUME NEW f, f = [s \in Responses |-> f[s]], NEW r \in Responses, NEW x
  PROVE  /\ Only(r, f, f)
         /\ Only(r, f, [f EXCEPT ![r] = x])
         /\ [f EXCEPT ![r] = x][r] = x
BY DEF Only

LEMMA NothingIsLeft == ProgramIsSound(NoProgram)
BY DEF ProgramIsSound, NoProgram

LEMMA SequenceOf ==
  ASSUME NEW S, NEW n \in Nat, NEW s, s = [i \in 1..n |-> s[i]], \A i \in 1..n : s[i] \in S
  PROVE  s \in Seq(S) /\ Len(s) = n
OBVIOUS

(* The row of a call is answered once, and the next request follows.           *)
LEMMA AnswersAreTold ==
  ASSUME AnswerInv, NEW r \in Responses, tool[r].pc # "none", NEW status \in {"complete", "failed"},
         NEW size, NEW looked, Answer(r, status, size, looked), EndIsTold'
  PROVE  AnswerInv'
<1> DEFINE rows == toolRows[r]
           next == [i \in DOMAIN rows |->
                      IF i = Len(rows) THEN [status |-> status, results |-> rows[i].results + 1]
                      ELSE rows[i]]
           l == [loop[r] EXCEPT !.pc = "asking", !.rounds = @ + 1, !.lookups = @ + looked]
<1>1. /\ toolRows' = [toolRows EXCEPT ![r] = next] /\ loop' = [loop EXCEPT ![r] = l]
      /\ tool' = [tool EXCEPT ![r] = NoCall] /\ program' = [program EXCEPT ![r] = NoProgram]
      /\ webRow' = webRow
  BY DEF Answer
<1>2. /\ loop[r].pc = "calling" /\ rows \in Seq(Row) /\ Len(rows) > 0
      /\ Told(rows, Len(rows) - 1) /\ rows[Len(rows)].results = 0
      /\ loop[r] = [f \in {"pc", "rounds", "lookups", "aborted"} |-> loop[r][f]]
  BY DEF AnswerInv, ResponseIsSound
<1>3. l = [f \in {"pc", "rounds", "lookups", "aborted"} |-> l[f]] /\ l.pc = "asking"
  BY <1>2
<1> HIDE DEF l
<1>4. next \in Seq(Row) /\ Told(next, Len(next))
  <2>1. \A i \in DOMAIN rows : rows[i] \in Row
    BY <1>2
  <2>2. \A i \in DOMAIN rows : next[i] \in Row
    <3>1. [status |-> status, results |-> 1] \in Row
      BY DEF Row
    <3> QED BY <1>2, <2>1, <3>1
  <2>3. \A i \in DOMAIN rows : /\ i = Len(rows) => next[i].status # "running" /\ next[i].results = 1
                               /\ i # Len(rows) => next[i] = rows[i]
    BY <1>2
  <2>4. next = [i \in DOMAIN rows |-> next[i]]
    OBVIOUS
  <2> HIDE DEF next
  <2>5. DOMAIN rows = 1..Len(rows) /\ Len(rows) \in Nat
    BY <1>2
  <2>6. next \in Seq(Row) /\ Len(next) = Len(rows)
    BY <2>2, <2>4, <2>5, SequenceOf
  <2>7. Told(next, Len(rows))
    BY <1>2, <2>3, <2>5 DEF Told
  <2> QED BY <2>6, <2>7
<1> HIDE DEF next
<1>5. /\ StepOfRun(r)
      /\ loop'[r] = l /\ toolRows'[r] = next /\ tool'[r] = NoCall /\ program'[r] = NoProgram
  BY <1>1, OnlyOf DEF AnswerInv, StepOfRun
<1>6. ResponseIsSound(l, next, webRow'[r], NoCall)
  BY <1>3, <1>4 DEF ResponseIsSound, NoCall
<1> QED BY <1>5, <1>6, NothingIsLeft, RunMovesOn

(* The loop of a run goes from one request to the next, or ends.               *)
LEMMA RoundsMoveOn ==
  ASSUME AnswerInv, NEW r \in Responses,
         Ask(r) \/ StartWebSearch(r) \/ Respond(r) \/ GiveUp(r) \/ Abort(r)
  PROVE  AnswerInv'
<1>1. /\ ResponseIsSound(loop[r], toolRows[r], webRow[r], tool[r]) /\ ProgramIsSound(program[r])
      /\ ended' = ended /\ EndIsTold
  BY DEF AnswerInv, Ask, StartWebSearch, Respond, GiveUp, Abort
<1>2. EndIsTold'
  BY <1>1 DEF EndIsTold
<1>3. ASSUME NEW l, l = [f \in {"pc", "rounds", "lookups", "aborted"} |-> l[f]], NEW pc
      PROVE  LET m == [l EXCEPT !.pc = pc]
             IN m = [f \in {"pc", "rounds", "lookups", "aborted"} |-> m[f]] /\ m.pc = pc
  BY <1>3
<1>4. CASE Ask(r)
  <2> DEFINE l == [loop[r] EXCEPT !.pc = "asking"]
  <2>1. /\ loop' = [loop EXCEPT ![r] = l] /\ loop[r].pc = "absent"
        /\ UNCHANGED <<toolRows, webRow, tool, program>>
    BY <1>4 DEF Ask
  <2>2. l = [f \in {"pc", "rounds", "lookups", "aborted"} |-> l[f]] /\ l.pc = "asking"
    BY <1>1, <1>3 DEF ResponseIsSound
  <2> HIDE DEF l
  <2>3. StepOfRun(r) /\ loop'[r] = l
    BY <2>1, OnlyOf DEF AnswerInv, StepOfRun
  <2>4. ResponseIsSound(l, toolRows[r], webRow[r], tool[r])
    BY <1>1, <2>1, <2>2 DEF ResponseIsSound
  <2> QED BY <1>1, <1>2, <2>1, <2>3, <2>4, RunMovesOn
<1>5. CASE StartWebSearch(r)
  <2> DEFINE w == [webRow[r] EXCEPT !.status = "running"]
  <2>1. /\ webRow' = [webRow EXCEPT ![r] = w] /\ loop[r].pc = "asking"
        /\ UNCHANGED <<loop, toolRows, tool, program>>
    BY <1>5 DEF StartWebSearch
  <2> HIDE DEF w
  <2>2. StepOfRun(r) /\ webRow'[r] = w
    BY <2>1, OnlyOf DEF AnswerInv, StepOfRun
  <2>3. ResponseIsSound(loop[r], toolRows[r], w, tool[r])
    BY <1>1, <2>1 DEF ResponseIsSound
  <2> QED BY <1>1, <1>2, <2>1, <2>2, <2>3, RunMovesOn
<1>6. ASSUME NEW how \in {"complete", "failed", "cancelled"}, EndLoop(r, how), loop[r].pc = "asking",
             UNCHANGED <<toolRows, tool, program>>
      PROVE  AnswerInv'
  <2> DEFINE l == [loop[r] EXCEPT !.pc = "ended"]
             w == WebRowAtEnd(how, webRow[r])
  <2>1. loop' = [loop EXCEPT ![r] = l] /\ webRow' = [webRow EXCEPT ![r] = w]
    BY <1>6 DEF EndLoop
  <2>2. l = [f \in {"pc", "rounds", "lookups", "aborted"} |-> l[f]] /\ l.pc = "ended"
    BY <1>1, <1>3 DEF ResponseIsSound
  <2>3. w.status # "running"
    BY <1>6 DEF WebRowAtEnd
  <2> HIDE DEF l, w
  <2>4. StepOfRun(r) /\ loop'[r] = l /\ webRow'[r] = w
    BY <1>6, <2>1, OnlyOf DEF AnswerInv, StepOfRun
  <2>5. ResponseIsSound(l, toolRows[r], w, tool[r])
    BY <1>1, <1>6, <2>2, <2>3 DEF ResponseIsSound
  <2> QED BY <1>1, <1>2, <1>6, <2>4, <2>5, RunMovesOn
<1>7. CASE GiveUp(r)
  BY <1>6, <1>7 DEF GiveUp
<1>8. CASE Respond(r)
  <2>1. loop[r].pc = "asking" /\ program' = program
    BY <1>8 DEF Respond
  <2>2. CASE EndLoop(r, "complete") /\ UNCHANGED <<toolRows, tool>>
    BY <1>6, <2>1, <2>2
  <2>3. CASE ~(EndLoop(r, "complete") /\ UNCHANGED <<toolRows, tool>>)
    <3>1. /\ \E output \in 0..OutputSize, kind \in uses[r][loop[r].rounds + 1] \ {"web"}, f \in Secrets :
               tool' = [tool EXCEPT ![r] = [NoCall EXCEPT !.pc = "begun", !.kind = kind, !.file = f]]
          /\ toolRows' = [toolRows EXCEPT ![r] = Append(@, [status |-> "running", results |-> 0])]
          /\ loop' = [loop EXCEPT ![r].pc = "calling"]
          /\ UNCHANGED webRow
      BY <1>8, <2>3 DEF Respond
    <3> DEFINE rows == Append(toolRows[r], [status |-> "running", results |-> 0])
               l == [loop[r] EXCEPT !.pc = "calling"]
    <3>2. PICK kind, f :
            tool' = [tool EXCEPT ![r] = [NoCall EXCEPT !.pc = "begun", !.kind = kind, !.file = f]]
      BY <3>1
    <3> DEFINE c == [NoCall EXCEPT !.pc = "begun", !.kind = kind, !.file = f]
    <3>3. /\ toolRows' = [toolRows EXCEPT ![r] = rows] /\ loop' = [loop EXCEPT ![r] = l]
          /\ tool' = [tool EXCEPT ![r] = c]
      BY <3>1, <3>2
    <3>4. c = [g \in {"pc", "kind", "file", "grant", "seen"} |-> c[g]]
      BY DEF NoCall
    <3>5. l = [g \in {"pc", "rounds", "lookups", "aborted"} |-> l[g]] /\ l.pc = "calling"
      BY <1>1, <1>3 DEF ResponseIsSound
    <3>6. rows \in Seq(Row) /\ Len(rows) > 0 /\ Told(rows, Len(rows) - 1) /\ rows[Len(rows)].results = 0
      <4>1. toolRows[r] \in Seq(Row) /\ Told(toolRows[r], Len(toolRows[r]))
        BY <1>1, <2>1 DEF ResponseIsSound
      <4>2. [status |-> "running", results |-> 0] \in Row
        BY DEF Row
      <4>3. /\ rows \in Seq(Row) /\ Len(rows) = Len(toolRows[r]) + 1 /\ Len(toolRows[r]) \in Nat
            /\ \A i \in 1..Len(toolRows[r]) : rows[i] = toolRows[r][i]
            /\ rows[Len(rows)] = [status |-> "running", results |-> 0]
        BY <4>1, <4>2
      <4> HIDE DEF rows
      <4>4. Len(rows) - 1 = Len(toolRows[r])
        BY <4>3
      <4> QED BY <4>1, <4>3, <4>4 DEF Told
    <3> HIDE DEF rows, l, c
    <3>7. StepOfRun(r) /\ loop'[r] = l /\ toolRows'[r] = rows /\ tool'[r] = c
      <4>1. webRow' = webRow
        BY <3>1
      <4> QED BY <2>1, <3>3, <4>1, OnlyOf DEF AnswerInv, StepOfRun
    <3>8. ResponseIsSound(l, rows, webRow[r], c)
      BY <3>4, <3>5, <3>6 DEF ResponseIsSound
    <3> QED BY <1>1, <1>2, <2>1, <3>1, <3>7, <3>8, RunMovesOn
  <2> QED BY <2>2, <2>3
<1>9. CASE Abort(r)
  <2> DEFINE l == [loop[r] EXCEPT !.aborted = TRUE]
             p == [program[r] EXCEPT !.status = "cancelled"]
  <2>1. /\ loop' = [loop EXCEPT ![r] = l]
        /\ program' = program \/ program' = [program EXCEPT ![r] = p]
        /\ UNCHANGED <<toolRows, webRow, tool>>
    BY <1>9 DEF Abort
  <2>2. l = [f \in {"pc", "rounds", "lookups", "aborted"} |-> l[f]] /\ l.pc = loop[r].pc
    BY <1>1 DEF ResponseIsSound
  <2>3. ProgramIsSound(p)
    BY <1>1 DEF ProgramIsSound
  <2> HIDE DEF l, p
  <2>4. StepOfRun(r) /\ loop'[r] = l /\ program'[r] \in {program[r], p}
    <3>1. Only(r, program, program') /\ program'[r] \in {program[r], p}
      <4>1. CASE program' = program
        BY <4>1, OnlyOf DEF AnswerInv
      <4>2. CASE program' = [program EXCEPT ![r] = p]
        BY <4>2, OnlyOf DEF AnswerInv
      <4> QED BY <2>1, <4>1, <4>2
    <3>2. UNCHANGED <<toolRows, webRow, tool>> /\ loop' = [loop EXCEPT ![r] = l]
      BY <2>1
    <3> QED BY <3>1, <3>2, OnlyOf DEF AnswerInv, StepOfRun
  <2>5. ResponseIsSound(l, toolRows[r], webRow[r], tool[r])
    BY <1>1, <2>2 DEF ResponseIsSound
  <2> QED BY <1>1, <1>2, <2>1, <2>3, <2>4, <2>5, RunMovesOn
<1> QED BY <1>4, <1>5, <1>7, <1>8, <1>9

(* A call that waits for something stays the call it is.                       *)
LEMMA CallWaits ==
  ASSUME AnswerInv, NEW r \in Responses, NEW pc, tool[r].pc # "none", NEW p, ProgramIsSound(p),
         tool' = tool \/ tool' = [tool EXCEPT ![r].pc = pc] \/
           \E g, e : tool' = [tool EXCEPT ![r].pc = pc, ![r].grant = g, ![r].seen = e],
         program' = program \/ program' = [program EXCEPT ![r] = p],
         UNCHANGED loopVars, ended' = ended
  PROVE  AnswerInv'
<1>1. ResponseIsSound(loop[r], toolRows[r], webRow[r], tool[r]) /\ ProgramIsSound(program[r])
  BY DEF AnswerInv
<1>2. PICK c : /\ tool' = [tool EXCEPT ![r] = c]
               /\ c = [f \in {"pc", "kind", "file", "grant", "seen"} |-> c[f]]
  <2>1. CASE tool' = tool
    <3>1. tool' = [tool EXCEPT ![r] = tool[r]]
      BY <2>1 DEF AnswerInv
    <3>2. tool[r] = [f \in {"pc", "kind", "file", "grant", "seen"} |-> tool[r][f]]
      BY <1>1 DEF ResponseIsSound
    <3> QED BY <3>1, <3>2
  <2>2. CASE tool' = [tool EXCEPT ![r].pc = pc]
    <3> DEFINE c == [tool[r] EXCEPT !.pc = pc]
    <3>1. tool' = [tool EXCEPT ![r] = c]
      BY <2>2
    <3>2. c = [f \in {"pc", "kind", "file", "grant", "seen"} |-> c[f]]
      BY <1>1 DEF ResponseIsSound
    <3> QED BY <3>1, <3>2
  <2>3. CASE \E g, e : tool' = [tool EXCEPT ![r].pc = pc, ![r].grant = g, ![r].seen = e]
    <3>1. PICK g, e : tool' = [tool EXCEPT ![r].pc = pc, ![r].grant = g, ![r].seen = e]
      BY <2>3
    <3> DEFINE c == [tool[r] EXCEPT !.pc = pc, !.grant = g, !.seen = e]
    <3>2. tool' = [tool EXCEPT ![r] = c]
      BY <3>1 DEF AnswerInv
    <3>3. c = [f \in {"pc", "kind", "file", "grant", "seen"} |-> c[f]]
      BY <1>1 DEF ResponseIsSound
    <3> QED BY <3>2, <3>3
  <2> QED BY <2>1, <2>2, <2>3
<1>3. loop' = loop /\ toolRows' = toolRows /\ webRow' = webRow
  BY DEF loopVars
<1>4. Only(r, program, program') /\ program'[r] \in {program[r], p}
  <2>1. CASE program' = program
    BY <2>1, OnlyOf DEF AnswerInv
  <2>2. CASE program' = [program EXCEPT ![r] = p]
    BY <2>2, OnlyOf DEF AnswerInv
  <2> QED BY <2>1, <2>2
<1>5. StepOfRun(r) /\ tool'[r] = c
  BY <1>2, <1>3, <1>4, OnlyOf DEF AnswerInv, StepOfRun
<1>6. ResponseIsSound(loop[r], toolRows[r], webRow[r], c)
  BY <1>1, <1>2 DEF ResponseIsSound
<1>7. EndIsTold'
  BY DEF AnswerInv, EndIsTold
<1> QED BY <1>1, <1>3, <1>4, <1>5, <1>6, <1>7, RunMovesOn

LEMMA ProgramsRun ==
  ASSUME AnswerInv, NEW r \in Responses, Write(r) \/ ReadOutput(r) \/ Kill(r) \/ Exit(r)
  PROVE  AnswerInv'
<1> DEFINE p == program[r]
<1>1. /\ UNCHANGED <<loopVars, tool, ended>> /\ ProgramIsSound(p)
      /\ ResponseIsSound(loop[r], toolRows[r], webRow[r], tool[r])
  BY DEF Write, ReadOutput, Kill, Exit, AnswerInv
<1>2. ASSUME NEW q, ProgramIsSound(q), program' = [program EXCEPT ![r] = q]
      PROVE  AnswerInv'
  <2>1. loop' = loop /\ toolRows' = toolRows /\ webRow' = webRow /\ tool' = tool
    BY <1>1 DEF loopVars
  <2>2. StepOfRun(r) /\ program'[r] = q
    BY <1>2, <2>1, OnlyOf DEF AnswerInv, StepOfRun
  <2>3. EndIsTold'
    BY <1>1 DEF AnswerInv, EndIsTold
  <2> QED BY <1>1, <1>2, <2>1, <2>2, <2>3, RunMovesOn
<1> DEFINE Shaped(q) == q = [f \in {"alive", "status", "code", "written", "arrived", "kept", "total",
                                    "marker"} |-> q[f]]
<1>3. /\ Shaped(p) /\ p.written \in Nat /\ p.arrived \in Nat /\ p.kept \in Nat /\ p.total \in Nat
      /\ p.status \in {"none", "cancelled", "output_limit", "timed_out", "memory_limit"}
      /\ p.status = "none" => p.kept = p.arrived
  BY <1>1 DEF ProgramIsSound
<1>4. CASE Write(r)
  <2> DEFINE q == [p EXCEPT !.written = @ + 1]
  <2>1. program' = [program EXCEPT ![r] = q]
    BY <1>4 DEF Write
  <2>2. ProgramIsSound(q)
    BY <1>3 DEF ProgramIsSound
  <2> QED BY <1>2, <2>1, <2>2
<1>5. CASE Kill(r)
  <2>1. PICK cause \in {"timed_out", "memory_limit"} : program' = [program EXCEPT ![r].status = cause]
    BY <1>5 DEF Kill
  <2> DEFINE q == [p EXCEPT !.status = cause]
  <2>2. program' = [program EXCEPT ![r] = q]
    BY <2>1
  <2>3. ProgramIsSound(q)
    BY <1>3 DEF ProgramIsSound
  <2> QED BY <1>2, <2>2, <2>3
<1>6. CASE Exit(r)
  <2>1. PICK code \in {0, 1} : program' = [program EXCEPT ![r].alive = FALSE, ![r].code = code]
    BY <1>6 DEF Exit
  <2> DEFINE q == [p EXCEPT !.alive = FALSE, !.code = code]
  <2>2. program' = [program EXCEPT ![r] = q]
    BY <2>1 DEF AnswerInv
  <2>3. ProgramIsSound(q)
    BY <1>3 DEF ProgramIsSound
  <2> QED BY <1>2, <2>2, <2>3
<1>7. CASE ReadOutput(r)
  <2>1. \A n \in Nat : LET a == Appended(p, n)
                      IN /\ Shaped(a) /\ a.total = p.total + n
                         /\ a.written = p.written /\ a.arrived = p.arrived /\ a.kept = p.kept
                         /\ a.status \in {"none", "cancelled", "output_limit", "timed_out", "memory_limit"}
                         /\ a.status = "none" => p.status = "none" /\ p.total + n <= OutputLimit
    <3> SUFFICES ASSUME NEW n \in Nat
                 PROVE  LET a == Appended(p, n)
                        IN /\ Shaped(a) /\ a.total = p.total + n
                           /\ a.written = p.written /\ a.arrived = p.arrived /\ a.kept = p.kept
                           /\ a.status \in {"none", "cancelled", "output_limit", "timed_out",
                                            "memory_limit"}
                           /\ a.status = "none" => p.status = "none" /\ p.total + n <= OutputLimit
      OBVIOUS
    <3> DEFINE total == p.total + n
               status == IF total > OutputLimit /\ p.status = "none" THEN "output_limit" ELSE p.status
    <3>1. Appended(p, n) = [p EXCEPT !.total = total, !.status = status]
      BY DEF Appended, Counts
    <3>2. /\ status \in {"none", "cancelled", "output_limit", "timed_out", "memory_limit"}
          /\ status = "none" => p.status = "none" /\ total <= OutputLimit
      BY <1>3, LimitAssumption
    <3> HIDE DEF total, status
    <3> DEFINE a == Appended(p, n)
    <3>3. /\ Shaped(a) /\ a.total = total /\ a.status = status
          /\ a.written = p.written /\ a.arrived = p.arrived /\ a.kept = p.kept
      BY <1>3, <3>1
    <3> HIDE DEF a
    <3>4. total = p.total + n
      BY DEF total
    <3> QED BY <3>2, <3>3, <3>4 DEF a
  <2> HIDE DEF Shaped
  <2>2. CASE \E m : program' = [program EXCEPT ![r] = [Appended(p, 1) EXCEPT !.marker = m]]
    <3>1. PICK m : program' = [program EXCEPT ![r] = [Appended(p, 1) EXCEPT !.marker = m]]
      BY <2>2
    <3> DEFINE a == Appended(p, 1)
               q == [a EXCEPT !.marker = m]
    <3>2. /\ Shaped(a) /\ a.total = p.total + 1
          /\ a.written = p.written /\ a.arrived = p.arrived /\ a.kept = p.kept
          /\ a.status \in {"none", "cancelled", "output_limit", "timed_out", "memory_limit"}
          /\ a.status = "none" => p.status = "none"
      BY <2>1
    <3> HIDE DEF a
    <3>3. ProgramIsSound(q)
      BY <1>3, <3>2 DEF ProgramIsSound, Shaped
    <3> QED BY <1>2, <3>1, <3>3 DEF a
  <2>3. CASE \E n \in 1..(p.written - p.arrived) :
               program' = [program EXCEPT ![r] =
                 [Appended(p, n) EXCEPT !.arrived = @ + n,
                                        !.kept = @ + IF n < Room(p) THEN n ELSE Room(p)]]
    <3>1. PICK n \in 1..(p.written - p.arrived) :
               program' = [program EXCEPT ![r] =
                 [Appended(p, n) EXCEPT !.arrived = @ + n,
                                        !.kept = @ + IF n < Room(p) THEN n ELSE Room(p)]]
      BY <2>3
    <3> DEFINE a == Appended(p, n)
               more == IF n < Room(p) THEN n ELSE Room(p)
               q == [a EXCEPT !.arrived = @ + n, !.kept = @ + more]
    <3>2. n \in Nat \ {0}
      BY <1>3
    <3>3. /\ Shaped(a) /\ a.total = p.total + n
          /\ a.written = p.written /\ a.arrived = p.arrived /\ a.kept = p.kept
          /\ a.status \in {"none", "cancelled", "output_limit", "timed_out", "memory_limit"}
          /\ a.status = "none" => p.status = "none" /\ p.total + n <= OutputLimit
      BY <2>1, <3>2
    <3>4. more \in Nat /\ (a.status = "none" => more = n)
      BY <1>3, <3>2, <3>3, LimitAssumption DEF Room
    <3> HIDE DEF a, more
    <3>5. /\ Shaped(q) /\ q.written = a.written /\ q.total = a.total /\ q.status = a.status
          /\ q.arrived = a.arrived + n /\ q.kept = a.kept + more
      BY <3>3 DEF Shaped
    <3> HIDE DEF q
    <3>6. ProgramIsSound(q)
      BY <1>3, <3>2, <3>3, <3>4, <3>5 DEF ProgramIsSound, Shaped
    <3> QED BY <1>2, <3>1, <3>6 DEF a, more, q
  <2> QED BY <1>7, <2>2, <2>3 DEF ReadOutput
<1> QED BY <1>4, <1>5, <1>6, <1>7

(* A program that nobody stopped has ended with all it wrote kept.             *)
LEMMA ProgramsEnd ==
  ASSUME AnswerInv, NEW r \in Responses, Close(r)
  PROVE  AnswerInv'
<1> DEFINE p == program[r]
<1>1. /\ tool[r].pc = "program" /\ p.arrived = p.written /\ ProgramIsSound(p)
      /\ ended' = [status |-> IF p.marker = "lost" THEN "unavailable" ELSE FinalStatus(p),
                   whole |-> p.kept = p.written]
  BY DEF Close, AnswerInv
<1>2. EndIsTold'
  <2>1. ended'.whole = (p.kept = p.written)
    BY <1>1
  <2>2. ended'.status = IF p.marker = "lost" THEN "unavailable" ELSE FinalStatus(p)
    BY <1>1
  <2>3. ended'.status \in {"completed", "failed"} => p.status = "none"
    BY <1>1, <2>2 DEF FinalStatus, ProgramIsSound
  <2>4. p.status = "none" => p.kept = p.written
    BY <1>1 DEF ProgramIsSound
  <2> QED BY <2>1, <2>3, <2>4 DEF EndIsTold
<1>3. Fail(r) \/ Succeed(r)
  BY DEF Close
<1> QED BY <1>1, <1>2, <1>3, AnswersAreTold DEF Fail, Succeed

LEMMA CallsMoveOn ==
  ASSUME AnswerInv, NEW r \in Responses,
         \/ Refuse(r) \/ LookUp(r) \/ Resolve(r) \/ Approve(r) \/ OpenAndRead(r) \/ CannotRead(r)
         \/ Prepare(r) \/ Spawn(r)
  PROVE  AnswerInv'
<1>1. tool[r].pc # "none" /\ ended' = ended
  BY DEF Refuse, LookUp, Resolve, Approve, OpenAndRead, CannotRead, Prepare, Spawn
<1>2. EndIsTold'
  BY <1>1 DEF AnswerInv, EndIsTold
<1>3. ASSUME Fail(r) \/ Succeed(r) PROVE AnswerInv'
  BY <1>1, <1>2, <1>3, AnswersAreTold DEF Fail, Succeed
<1>4. CASE Refuse(r) \/ OpenAndRead(r) \/ CannotRead(r)
  BY <1>3, <1>4 DEF Refuse, OpenAndRead, CannotRead
<1>5. CASE LookUp(r)
  BY <1>1, <1>2, <1>5, AnswersAreTold DEF LookUp
<1>6. CASE Resolve(r) \/ Prepare(r)
  <2>1. PICK pc \in {"resolved", "preparing"} : Goes(r, pc)
    BY <1>6 DEF Resolve, Prepare
  <2> QED BY <1>1, <2>1, NothingIsLeft, CallWaits DEF Goes
<1>7. CASE Approve(r)
  <2>1. CASE Fail(r)
    BY <1>3, <2>1
  <2>2. CASE ~Fail(r)
    <3>1. /\ tool' = [tool EXCEPT ![r].pc = "approved", ![r].grant = grants[tool[r].file],
                                  ![r].seen = workspace.epoch]
          /\ UNCHANGED <<loopVars, program>>
      BY <1>7, <2>2 DEF Approve
    <3> QED BY <1>1, <3>1, NothingIsLeft, CallWaits
  <2> QED BY <2>1, <2>2
<1>8. CASE Spawn(r)
  <2>1. CASE Fail(r)
    BY <1>3, <2>1
  <2>2. CASE ~Fail(r)
    <3> DEFINE q == [NoProgram EXCEPT !.alive = TRUE, !.marker = "sent"]
    <3>1. /\ tool' = [tool EXCEPT ![r].pc = "program"]
          /\ program' = [program EXCEPT ![r] = q]
          /\ UNCHANGED loopVars
      BY <1>8, <2>2 DEF Spawn
    <3>2. ProgramIsSound(q)
      BY DEF ProgramIsSound, NoProgram
    <3> HIDE DEF q
    <3> QED BY <1>1, <3>1, <3>2, CallWaits
  <2> QED BY <2>1, <2>2
<1> QED BY <1>4, <1>5, <1>6, <1>7, <1>8

(* Nothing is answered any more once the API has ended.                        *)
LEMMA DeathIsSilent ==
  ASSUME AnswerInv, ToolsDie
  PROVE  AnswerInv'
<1>1. /\ loop' = [r \in Responses |->
           IF loop[r].pc \in {"asking", "calling"} THEN [loop[r] EXCEPT !.pc = "lost"] ELSE loop[r]]
      /\ tool' = [r \in Responses |-> NoCall] /\ program' = [r \in Responses |-> NoProgram]
      /\ UNCHANGED <<toolRows, webRow, ended>>
  BY DEF ToolsDie
<1>2. ASSUME NEW r \in Responses
      PROVE  ResponseIsSound(loop'[r], toolRows'[r], webRow'[r], tool'[r]) /\ ProgramIsSound(program'[r])
  <2>1. ResponseIsSound(loop[r], toolRows[r], webRow[r], tool[r])
    BY <1>2 DEF AnswerInv
  <2>2. tool'[r] = NoCall /\ program'[r] = NoProgram /\ toolRows'[r] = toolRows[r] /\ webRow'[r] = webRow[r]
    BY <1>1
  <2>3. CASE loop[r].pc \in {"asking", "calling"}
    <3> DEFINE l == [loop[r] EXCEPT !.pc = "lost"]
    <3>1. loop'[r] = l
      BY <1>1, <2>3
    <3>2. l = [f \in {"pc", "rounds", "lookups", "aborted"} |-> l[f]] /\ l.pc = "lost"
      BY <2>1 DEF ResponseIsSound
    <3> HIDE DEF l
    <3>3. ResponseIsSound(l, toolRows[r], webRow[r], NoCall)
      BY <2>1, <3>2 DEF ResponseIsSound, NoCall
    <3> QED BY <2>2, <3>1, <3>3, NothingIsLeft
  <2>4. CASE loop[r].pc \notin {"asking", "calling"}
    <3>1. loop'[r] = loop[r]
      BY <1>1, <2>4
    <3>2. ResponseIsSound(loop[r], toolRows[r], webRow[r], NoCall)
      BY <2>1, <2>4 DEF ResponseIsSound, NoCall
    <3> QED BY <2>2, <3>1, <3>2, NothingIsLeft
  <2> QED BY <2>3, <2>4
<1>3. /\ loop' = [r \in Responses |-> loop'[r]] /\ toolRows' = [r \in Responses |-> toolRows'[r]]
      /\ webRow' = [r \in Responses |-> webRow'[r]] /\ tool' = [r \in Responses |-> tool'[r]]
      /\ program' = [r \in Responses |-> program'[r]]
  BY <1>1 DEF AnswerInv
<1>4. EndIsTold'
  BY <1>1 DEF AnswerInv, EndIsTold
<1> QED BY <1>2, <1>3, <1>4 DEF AnswerInv

(* Every step keeps this.                                                      *)
LEMMA AnswerInvHolds == ToolsSpec => []AnswerInv
<1>1. ToolsInit => AnswerInv
  <2> SUFFICES ASSUME ToolsInit PROVE AnswerInv
    OBVIOUS
  <2>1. \A r \in Responses : ProgramIsSound(program[r])
    BY NothingIsLeft DEF ToolsInit
  <2>2. \A r \in Responses : ResponseIsSound(loop[r], toolRows[r], webRow[r], tool[r])
    <3> SUFFICES ASSUME NEW r \in Responses
                 PROVE  ResponseIsSound(loop[r], toolRows[r], webRow[r], tool[r])
      OBVIOUS
    <3>1. toolRows[r] = <<>> /\ tool[r] = NoCall
          /\ loop[r] = [pc |-> "absent", rounds |-> 0, lookups |-> 0, aborted |-> FALSE]
      BY DEF ToolsInit
    <3>2. toolRows[r] \in Seq(Row) /\ Told(toolRows[r], Len(toolRows[r]))
      BY <3>1 DEF Told
    <3> QED BY <3>1, <3>2 DEF ResponseIsSound, NoCall
  <2>3. EndIsTold
    BY DEF ToolsInit, EndIsTold
  <2>4. /\ loop = [r \in Responses |-> loop[r]] /\ toolRows = [r \in Responses |-> toolRows[r]]
        /\ webRow = [r \in Responses |-> webRow[r]] /\ tool = [r \in Responses |-> tool[r]]
        /\ program = [r \in Responses |-> program[r]]
    BY DEF ToolsInit
  <2> QED BY <2>1, <2>2, <2>3, <2>4 DEF AnswerInv
<1>2. AnswerInv /\ [ToolsNext]_toolVars => AnswerInv'
  <2> SUFFICES ASSUME AnswerInv, [ToolsNext]_toolVars PROVE AnswerInv'
    OBVIOUS
  <2>1. ASSUME UNCHANGED <<loopVars, tool, program, ended>> PROVE AnswerInv'
    BY <2>1 DEF AnswerInv, EndIsTold, loopVars
  <2>2. (\E f \in Secrets : Grant(f) \/ Expire(f)) \/ Revoke \/ Authorize \/ UNCHANGED toolVars
          => UNCHANGED <<loopVars, tool, program, ended>>
    BY DEF Grant, Expire, Revoke, Authorize, toolVars
  <2> QED BY <2>1, <2>2, RoundsMoveOn, CallsMoveOn, ProgramsRun, ProgramsEnd, DeathIsSilent DEF ToolsNext
<1> QED BY <1>1, <1>2, PTL DEF ToolsSpec

(* Once a response has ended with its API alive, every call of it has told its *)
(* result once, and its web search has ended; a program that ended by itself   *)
(* has had all it wrote told.                                                  *)
THEOREM CallsTellTheirResults == ToolsSpec => []CallsAreAnswered
<1>1. AnswerInv => CallsAreAnswered
  <2> SUFFICES ASSUME AnswerInv, NEW r \in Responses, loop[r].pc = "ended"
               PROVE  /\ webRow[r].status # "running"
                      /\ \A i \in DOMAIN toolRows[r] :
                            toolRows[r][i].status # "running" /\ toolRows[r][i].results = 1
    BY DEF CallsAreAnswered, AnswerInv, EndIsTold
  <2>1. ResponseIsSound(loop[r], toolRows[r], webRow[r], tool[r])
    BY DEF AnswerInv
  <2>2. DOMAIN toolRows[r] = 1..Len(toolRows[r])
    BY <2>1 DEF ResponseIsSound
  <2> QED BY <2>1, <2>2 DEF ResponseIsSound, Told
<1> QED BY <1>1, AnswerInvHolds, PTL

-----------------------------------------------------------------------------
(* What is reserved *)

(* A set of naturals that holds no first element is empty.                     *)
LEMMA NoFirst ==
  ASSUME NEW S, S \subseteq Nat, \A n \in S : \E m \in S : m < n
  PROVE  S = {}
<1> SUFFICES ASSUME S # {} PROVE FALSE
  OBVIOUS
<1> DEFINE R == OpToRel(<, Nat)
<1>1. IsWellFoundedOn(R, Nat)
  BY NatLessThanWellFounded
<1>2. PICK x \in S : \A y \in S : ~(<<y, x>> \in R)
  BY <1>1, WFMin
<1>3. \A y \in S : ~(y < x)
  BY <1>2 DEF OpToRel
<1> QED BY <1>3

(* Products of neighbours.                                                     *)
LEMMA ProductsOfNeighbours ==
  ASSUME NEW n \in Nat, n # 0
  PROVE  n * (n + 1) = (n - 1) * ((n - 1) + 1) + 2 * n
<1>1. (n - 1) * ((n - 1) + 1) = n * n - n
  OBVIOUS
<1>2. n * (n + 1) = n * n + n
  OBVIOUS
<1> QED BY <1>1, <1>2

(* The sum of the first rounds, and that there is one.                         *)
Half(i) == CHOOSE t \in Nat : 2 * t = i * (i + 1)
LEMMA HalfIsWhole ==
  ASSUME NEW i \in Nat
  PROVE  Half(i) \in Nat /\ 2 * Half(i) = i * (i + 1)
<1> DEFINE S == {n \in Nat : ~\E t \in Nat : 2 * t = n * (n + 1)}
<1>1. ASSUME NEW n \in S PROVE \E m \in S : m < n
  <2>1. n # 0
    <3>1. 0 \in Nat /\ 2 * 0 = 0 * (0 + 1)
      OBVIOUS
    <3> QED BY <3>1
  <2>2. n - 1 \in Nat /\ n - 1 < n
    BY <2>1
  <2> SUFFICES ASSUME n - 1 \notin S PROVE FALSE
    BY <2>2
  <2>3. PICK t \in Nat : 2 * t = (n - 1) * ((n - 1) + 1)
    BY <2>2
  <2>4. 2 * (t + n) = n * (n + 1)
    <3>1. n * (n + 1) = 2 * t + 2 * n
      BY <2>1, <2>3, ProductsOfNeighbours
    <3> QED BY <3>1
  <2>5. t + n \in Nat
    OBVIOUS
  <2> QED BY <2>4, <2>5
<1>2. S = {}
  <2> HIDE DEF S
  <2>1. S \subseteq Nat
    BY DEF S
  <2> QED BY <1>1, <2>1, NoFirst
<1>3. \E t \in Nat : 2 * t = i * (i + 1)
  BY <1>2
<1> QED BY <1>3 DEF Half

(* What a round adds to the request of the next one.                           *)
Growth == ResultSize + 2 * OutputSize
WebContent == WebCalls * WebSize

LEMMA SizesAreNaturals ==
  /\ ToolRounds \in Nat /\ WebCalls \in Nat /\ PromptSize \in Nat /\ OutputSize \in Nat
  /\ ResultSize \in Nat /\ WebSize \in Nat /\ Growth \in Nat /\ WebContent \in Nat
BY SizesAssumption DEF Growth, WebContent

LEMMA RoundCosts ==
  ASSUME NEW i \in Nat
  PROVE  /\ RoundCost(i) \in Nat /\ i * Growth \in Nat
         /\ RoundCost(i) = PromptSize + i * Growth + WebContent + OutputSize
<1>1. RoundCost(i) = PromptSize + i * Growth + WebContent + OutputSize
  BY DEF RoundCost, Growth, WebContent
<1>2. i * Growth \in Nat
  BY SizesAreNaturals
<1> QED BY <1>1, <1>2, SizesAreNaturals

(* The requests' costs are added up from the first one on.                      *)
LEMMA CostsAddUp ==
  /\ RequestCosts[0] = RoundCost(0)
  /\ \A i \in Nat : RequestCosts[i + 1] = RequestCosts[i] + RoundCost(i + 1)
<1> DEFINE first == RoundCost(0)
           F == [i \in Nat |-> (i + 1) * first + Growth * Half(i)]
<1>1. first \in Nat
  BY RoundCosts
<1>2. \A i \in Nat : RoundCost(i) = first + Growth * i
  <2> SUFFICES ASSUME NEW i \in Nat PROVE RoundCost(i) = first + Growth * i
    OBVIOUS
  <2>1. first = PromptSize + 0 * Growth + WebContent + OutputSize
    BY RoundCosts
  <2>2. RoundCost(i) = PromptSize + i * Growth + WebContent + OutputSize
    BY RoundCosts
  <2>3. i * Growth = Growth * i /\ i * Growth \in Nat /\ 0 * Growth = 0
    BY SizesAreNaturals
  <2> HIDE DEF first
  <2> QED BY <2>1, <2>2, <2>3, SizesAreNaturals
<1> HIDE DEF first
<1>3. F[0] = first
  <2>1. Half(0) = 0
    BY HalfIsWhole
  <2>2. Growth * 0 = 0 /\ (0 + 1) * first = first
    BY SizesAreNaturals, <1>1
  <2> QED BY <2>1, <2>2, <1>1
<1>4. ASSUME NEW i \in Nat, i # 0 PROVE F[i] = F[i - 1] + RoundCost(i)
  <2> DEFINE j == i - 1
  <2>1. j \in Nat /\ i = j + 1
    BY <1>4
  <2>2. 2 * Half(i) = i * (i + 1) /\ 2 * Half(j) = j * (j + 1) /\ Half(i) \in Nat /\ Half(j) \in Nat
    BY <2>1, HalfIsWhole
  <2>3. Half(i) = Half(j) + i
    <3>1. i * (i + 1) = j * (j + 1) + 2 * i
      BY <2>1, <1>4, ProductsOfNeighbours
    <3>2. 2 * Half(i) = 2 * Half(j) + 2 * i
      BY <2>2, <3>1
    <3> HIDE DEF j
    <3> QED BY <2>2, <3>2
  <2>4. Growth * (Half(j) + i) = Growth * Half(j) + Growth * i
    BY <2>2, SizesAreNaturals
  <2>5. (i + 1) * first = i * first + first
    BY <1>1
  <2>6. F[i] = (i + 1) * first + Growth * Half(i) /\ F[j] = i * first + Growth * Half(j)
    BY <2>1
  <2>7. Growth * i \in Nat /\ Growth * Half(j) \in Nat /\ i * first \in Nat
    BY <1>1, <2>2, SizesAreNaturals
  <2>8. RoundCost(i) = first + Growth * i
    BY <1>2
  <2>9. Growth * Half(i) = Growth * Half(j) + Growth * i
    BY <2>3, <2>4
  <2> HIDE DEF F
  <2>10. F[i] = F[j] + RoundCost(i)
    BY <1>1, <2>5, <2>6, <2>7, <2>8, <2>9
  <2> QED BY <2>10
<1>5. F = [i \in Nat |-> IF i = 0 THEN RoundCost(0) ELSE F[i - 1] + RoundCost(i)]
  <2>1. \A i \in Nat : F[i] = IF i = 0 THEN RoundCost(0) ELSE F[i - 1] + RoundCost(i)
    BY <1>3, <1>4 DEF first
  <2>2. F = [i \in Nat |-> F[i]]
    OBVIOUS
  <2> HIDE DEF F
  <2> QED BY <2>1, <2>2
<1> HIDE DEF F
<1>6. RequestCosts =
        [i \in Nat |-> IF i = 0 THEN RoundCost(0) ELSE RequestCosts[i - 1] + RoundCost(i)]
  BY <1>5 DEF RequestCosts
<1>7. \A i \in Nat : i + 1 \in Nat /\ i + 1 # 0 /\ (i + 1) - 1 = i
  OBVIOUS
<1> QED BY <1>6, <1>7

(* They are naturals, ...                                                       *)
LEMMA CostsAreNaturals == \A n \in Nat : RequestCosts[n] \in Nat
<1> DEFINE S == {i \in Nat : RequestCosts[i] \notin Nat}
<1>1. ASSUME NEW i \in S PROVE \E j \in S : j < i
  <2>1. i # 0
    BY CostsAddUp, RoundCosts
  <2>2. i - 1 \in Nat /\ i - 1 < i /\ i = (i - 1) + 1
    BY <2>1
  <2>3. RequestCosts[i] = RequestCosts[i - 1] + RoundCost(i) /\ RoundCost(i) \in Nat
    BY <2>2, CostsAddUp, RoundCosts
  <2>4. i - 1 \in S
    BY <2>2, <2>3
  <2> QED BY <2>2, <2>4
<1>2. S = {}
  <2> HIDE DEF S
  <2>1. S \subseteq Nat
    BY DEF S
  <2> QED BY <1>1, <2>1, NoFirst
<1> QED BY <1>2

(* ... and grow with the rounds.                                               *)
LEMMA CostsGrow ==
  ASSUME NEW n \in Nat
  PROVE  \A m \in 0..n : RequestCosts[m] <= RequestCosts[n]
<1> DEFINE S == {i \in Nat : ~\A m \in 0..i : RequestCosts[m] <= RequestCosts[i]}
<1>1. ASSUME NEW i \in S PROVE \E j \in S : j < i
  <2>1. i # 0
    <3>1. RequestCosts[0] \in Nat
      BY CostsAreNaturals
    <3>2. \A m \in 0..0 : RequestCosts[m] <= RequestCosts[0]
      BY <3>1
    <3> QED BY <3>2
  <2>2. i - 1 \in Nat /\ i - 1 < i /\ i = (i - 1) + 1
    BY <2>1
  <2> SUFFICES ASSUME i - 1 \notin S PROVE FALSE
    BY <2>2
  <2>3. \A m \in 0..(i - 1) : RequestCosts[m] <= RequestCosts[i - 1]
    BY <2>2
  <2>4. RequestCosts[i] = RequestCosts[i - 1] + RoundCost(i) /\ RoundCost(i) \in Nat
    BY <2>2, CostsAddUp, RoundCosts
  <2>5. RequestCosts[i] \in Nat /\ RequestCosts[i - 1] <= RequestCosts[i]
    BY <2>2, <2>4, CostsAreNaturals
  <2>6. \A m \in 0..i : RequestCosts[m] <= RequestCosts[i]
    <3> SUFFICES ASSUME NEW m \in 0..i PROVE RequestCosts[m] <= RequestCosts[i]
      OBVIOUS
    <3>1. m = i \/ m \in 0..(i - 1)
      BY <2>2
    <3>2. m \in 0..(i - 1) => RequestCosts[m] <= RequestCosts[i - 1] /\ RequestCosts[m] \in Int
      <4>1. m \in 0..(i - 1) => RequestCosts[m] <= RequestCosts[i - 1]
        BY <2>3
      <4> QED BY <4>1, CostsAreNaturals
    <3> QED BY <3>1, <3>2, <2>2, <2>5, CostsAreNaturals
  <2> QED BY <2>6
<1>2. S = {}
  <2> HIDE DEF S
  <2>1. S \subseteq Nat
    BY DEF S
  <2> QED BY <1>1, <2>1, NoFirst
<1> QED BY <1>2
(* What the first requests have cost at most.                                  *)
SpentBefore(i) == IF i = 0 THEN 0 ELSE RequestCosts[i - 1] + WebCalls

(* Before its next request, a run has paid for those before it and carries what *)
(* those have left; with a call under way it has paid for the next one, too.    *)
RunIsPaid(l, carries, paid) ==
  /\ l.rounds \in 0..ToolRounds /\ carries \in Nat /\ paid \in Nat
  /\ paid <= Reserved
  /\ l.pc \in {"absent", "asking"} =>
       /\ carries <= l.rounds * Growth + (IF l.rounds = 0 THEN 0 ELSE WebContent)
       /\ paid <= SpentBefore(l.rounds)
  /\ l.pc = "calling" =>
       /\ l.rounds < ToolRounds
       /\ carries <= l.rounds * Growth + 2 * OutputSize + WebContent
       /\ paid <= RequestCosts[l.rounds] + WebCalls

ReserveInv ==
  /\ carried = [r \in Responses |-> carried[r]] /\ billed = [r \in Responses |-> billed[r]]
  /\ \A r \in Responses : RunIsPaid(loop[r], carried[r], billed[r])

LEMMA ReservedIsNatural == Reserved \in Nat
BY CostsAreNaturals, SizesAreNaturals DEF Reserved

(* No request costs more than its round was reckoned at.                       *)
LEMMA RequestIsCovered ==
  ASSUME NEW i \in 0..ToolRounds, NEW carries \in Nat, NEW paid \in Nat,
         NEW output \in 0..OutputSize, NEW searches \in 0..WebCalls, i # 0 => searches = 0,
         carries <= i * Growth + (IF i = 0 THEN 0 ELSE WebContent), paid <= SpentBefore(i),
         NEW cost, cost = paid + PromptSize + carries + searches * (WebSize + 1) + output
  PROVE  cost \in Nat /\ cost <= RequestCosts[i] + WebCalls /\ cost <= Reserved
<1>1. i \in Nat /\ ToolRounds \in Nat
  BY SizesAreNaturals
<1>2. /\ RoundCost(i) = PromptSize + i * Growth + WebContent + OutputSize
      /\ i * Growth \in Nat /\ RoundCost(i) \in Nat
  BY <1>1, RoundCosts
<1>3. /\ searches * (WebSize + 1) \in Nat
      /\ searches * (WebSize + 1) <= WebContent + WebCalls
  <2>1. searches * (WebSize + 1) = searches * WebSize + searches /\ searches * WebSize \in Nat
    BY SizesAreNaturals
  <2>2. searches * WebSize <= WebCalls * WebSize
    BY SizesAreNaturals
  <2> QED BY <2>1, <2>2, SizesAreNaturals DEF WebContent
<1>4. cost <= SpentBefore(i) + RoundCost(i) + IF i = 0 THEN WebCalls ELSE 0
  <2>1. SpentBefore(i) \in Nat
    BY <1>1, CostsAreNaturals, SizesAreNaturals DEF SpentBefore
  <2>2. CASE i = 0
    BY <1>2, <1>3, <2>1, <2>2, SizesAreNaturals
  <2>3. CASE i # 0
    <3>1. searches * (WebSize + 1) = 0
      BY <2>3, SizesAreNaturals
    <3> QED BY <1>2, <2>1, <2>3, <3>1, SizesAreNaturals
  <2> QED BY <2>2, <2>3
<1>5. SpentBefore(i) + RoundCost(i) + (IF i = 0 THEN WebCalls ELSE 0) = RequestCosts[i] + WebCalls
  <2>1. CASE i = 0
    BY <2>1, CostsAddUp, CostsAreNaturals, SizesAreNaturals DEF SpentBefore
  <2>2. CASE i # 0
    <3>1. i - 1 \in Nat /\ (i - 1) + 1 = i
      BY <1>1, <2>2
    <3>2. RequestCosts[i] = RequestCosts[i - 1] + RoundCost(i)
      BY <3>1, CostsAddUp
    <3> QED BY <1>2, <2>2, <3>1, <3>2, CostsAreNaturals, SizesAreNaturals DEF SpentBefore
  <2> QED BY <2>1, <2>2
<1>6. cost \in Nat
  BY <1>3, SizesAreNaturals
<1>7. RequestCosts[i] + WebCalls <= Reserved /\ RequestCosts[i] \in Nat
  BY <1>1, CostsGrow, CostsAreNaturals, SizesAreNaturals DEF Reserved
<1> QED BY <1>4, <1>5, <1>6, <1>7, SizesAreNaturals, ReservedIsNatural

(* The next request carries what this one has added.                           *)
LEMMA GrowthOfRound ==
  ASSUME NEW i \in Nat
  PROVE  (i + 1) * Growth = i * Growth + 2 * OutputSize + ResultSize /\ i * Growth \in Nat
<1>1. (i + 1) * Growth = i * Growth + Growth /\ i * Growth \in Nat
  BY SizesAreNaturals
<1> QED BY <1>1, SizesAreNaturals DEF Growth

(* A step of one run, or of none.                                              *)
LEMMA OneRunPays ==
  ASSUME ReserveInv, NEW r \in Responses, NEW carries, NEW paid,
         carried' = [carried EXCEPT ![r] = carries], billed' = [billed EXCEPT ![r] = paid],
         \A s \in Responses \ {r} : loop'[s] = loop[s],
         RunIsPaid(loop'[r], carries, paid)
  PROVE  ReserveInv'
<1>1. \A s \in Responses : /\ carried'[s] = IF s = r THEN carries ELSE carried[s]
                           /\ billed'[s] = IF s = r THEN paid ELSE billed[s]
  BY DEF ReserveInv
<1>2. carried' = [s \in Responses |-> carried'[s]] /\ billed' = [s \in Responses |-> billed'[s]]
  BY DEF ReserveInv
<1>3. \A s \in Responses : RunIsPaid(loop'[s], carried'[s], billed'[s])
  BY <1>1 DEF ReserveInv
<1> QED BY <1>2, <1>3 DEF ReserveInv

(* An answered call, with what it returned.                                    *)
LEMMA AnswersAreCarried ==
  ASSUME AnswerInv, ReserveInv, NEW r \in Responses, tool[r].pc # "none", NEW status,
         NEW size \in Nat, NEW looked, Answer(r, status, size, looked)
  PROVE  ReserveInv'
<1> DEFINE l == [loop[r] EXCEPT !.pc = "asking", !.rounds = @ + 1, !.lookups = @ + looked]
           i == loop[r].rounds
           carries == carried[r] + ForProvider(size)
<1>1. /\ loop' = [loop EXCEPT ![r] = l] /\ carried' = [carried EXCEPT ![r] = carries]
      /\ billed' = billed
  BY DEF Answer
<1>2. /\ loop[r] = [f \in {"pc", "rounds", "lookups", "aborted"} |-> loop[r][f]]
      /\ loop[r].pc = "calling" /\ loop = [s \in Responses |-> loop[s]]
  BY DEF AnswerInv, ResponseIsSound
<1>3. RunIsPaid(loop[r], carried[r], billed[r])
  BY DEF ReserveInv
<1>4. l.pc = "asking" /\ l.rounds = i + 1
  BY <1>2
<1>5. loop'[r] = l /\ \A s \in Responses \ {r} : loop'[s] = loop[s]
  BY <1>1, <1>2
<1>6. ForProvider(size) \in Nat /\ ForProvider(size) <= ResultSize
  BY SizesAreNaturals DEF ForProvider
<1>7. billed' = [billed EXCEPT ![r] = billed[r]]
  BY <1>1 DEF ReserveInv
<1>8. i \in Nat /\ i < ToolRounds /\ carried[r] \in Nat
      /\ carried[r] <= i * Growth + 2 * OutputSize + WebContent
      /\ billed[r] <= RequestCosts[i] + WebCalls
  BY <1>2, <1>3 DEF RunIsPaid
<1> HIDE DEF l
<1>9. RunIsPaid(l, carries, billed[r])
  <2>1. i + 1 \in 0..ToolRounds
    BY <1>8, SizesAreNaturals
  <2>2. carries \in Nat /\ carries <= (i + 1) * Growth + WebContent
    <3> DEFINE was == i * Growth
               result == ForProvider(size)
    <3>1. (i + 1) * Growth = was + 2 * OutputSize + ResultSize /\ was \in Nat
      BY <1>8, GrowthOfRound
    <3>2. /\ carried[r] \in Nat /\ carried[r] <= was + 2 * OutputSize + WebContent
          /\ result \in Nat /\ result <= ResultSize /\ carries = carried[r] + result
      BY <1>6, <1>8
    <3> HIDE DEF was, result, i, carries
    <3> QED BY <3>1, <3>2, SizesAreNaturals
  <2>3. SpentBefore(i + 1) = RequestCosts[i] + WebCalls /\ i + 1 # 0
    BY <1>8 DEF SpentBefore
  <2>4. billed[r] \in Nat /\ billed[r] <= Reserved
    BY <1>3 DEF RunIsPaid
  <2> HIDE DEF i, carries
  <2> QED BY <1>4, <1>8, <2>1, <2>2, <2>3, <2>4 DEF RunIsPaid
<1> HIDE DEF carries
<1> QED BY <1>1, <1>5, <1>7, <1>9, OneRunPays

(* Nothing of this run's account changes but where it is.                       *)
LEMMA AccountsStay ==
  ASSUME ReserveInv, UNCHANGED <<loop, carried, billed>>
  PROVE  ReserveInv'
BY DEF ReserveInv

(* The requests.                                                               *)
LEMMA RequestsArePaid ==
  ASSUME AnswerInv, ReserveInv, NEW r \in Responses,
         Ask(r) \/ Respond(r) \/ GiveUp(r) \/ Abort(r)
  PROVE  ReserveInv'
<1>1. /\ loop[r] = [f \in {"pc", "rounds", "lookups", "aborted"} |-> loop[r][f]]
      /\ loop = [s \in Responses |-> loop[s]]
  BY DEF AnswerInv, ResponseIsSound
<1>2. RunIsPaid(loop[r], carried[r], billed[r])
  BY DEF ReserveInv
<1>3. ASSUME NEW pc, loop' = [loop EXCEPT ![r].pc = pc]
      PROVE  /\ loop'[r].pc = pc /\ loop'[r].rounds = loop[r].rounds
             /\ \A s \in Responses \ {r} : loop'[s] = loop[s]
  BY <1>1, <1>3
<1>4. carried = [carried EXCEPT ![r] = carried[r]] /\ billed = [billed EXCEPT ![r] = billed[r]]
  BY DEF ReserveInv
<1>5. CASE Ask(r)
  <2>1. /\ loop' = [loop EXCEPT ![r].pc = "asking"] /\ loop[r].pc = "absent"
        /\ UNCHANGED <<carried, billed>>
    BY <1>5 DEF Ask
  <2>2. RunIsPaid(loop'[r], carried[r], billed[r])
    BY <1>2, <1>3, <2>1 DEF RunIsPaid
  <2> QED BY <1>3, <1>4, <2>1, <2>2, OneRunPays
<1>6. CASE Abort(r)
  <2>1. loop' = [loop EXCEPT ![r].aborted = TRUE] /\ UNCHANGED <<carried, billed>>
    BY <1>6 DEF Abort
  <2>2. /\ loop'[r].pc = loop[r].pc /\ loop'[r].rounds = loop[r].rounds
        /\ \A s \in Responses \ {r} : loop'[s] = loop[s]
    BY <1>1, <2>1
  <2>3. RunIsPaid(loop'[r], carried[r], billed[r])
    BY <1>2, <2>2 DEF RunIsPaid
  <2> QED BY <1>4, <2>1, <2>2, <2>3, OneRunPays
<1>7. ASSUME loop[r].pc = "asking", NEW output \in 0..OutputSize, NEW searches \in 0..WebCalls,
             loop[r].rounds # 0 => searches = 0,
             billed' = [billed EXCEPT ![r] = Billed(r, output, searches)]
      PROVE  /\ Billed(r, output, searches) \in Nat
             /\ Billed(r, output, searches) <= RequestCosts[loop[r].rounds] + WebCalls
             /\ Billed(r, output, searches) <= Reserved
  <2> DEFINE cost == Billed(r, output, searches)
             i == loop[r].rounds
             before == carried[r]
             paid == billed[r]
  <2>1. /\ i \in 0..ToolRounds /\ before \in Nat /\ paid \in Nat
        /\ before <= i * Growth + (IF i = 0 THEN 0 ELSE WebContent)
        /\ paid <= SpentBefore(i)
    BY <1>2, <1>7 DEF RunIsPaid
  <2>2. cost = paid + PromptSize + before + searches * (WebSize + 1) + output
    BY DEF Billed
  <2>3. i # 0 => searches = 0
    BY <1>7
  <2> HIDE DEF cost, i, before, paid
  <2>4. cost \in Nat /\ cost <= RequestCosts[i] + WebCalls /\ cost <= Reserved
    BY <2>1, <2>2, <2>3, RequestIsCovered
  <2> QED BY <2>4 DEF cost, i
<1>8. CASE GiveUp(r)
  <2>1. PICK output \in 0..OutputSize : billed' = [billed EXCEPT ![r] = Billed(r, output, 0)]
    BY <1>8 DEF GiveUp
  <2>2. loop[r].pc = "asking" /\ loop' = [loop EXCEPT ![r].pc = "ended"] /\ carried' = carried
    BY <1>8 DEF GiveUp, EndLoop
  <2>3. Billed(r, output, 0) \in Nat /\ Billed(r, output, 0) <= Reserved
    <3>1. 0 \in 0..WebCalls
      BY SizesAreNaturals
    <3> QED BY <1>7, <2>1, <2>2, <3>1
  <2>4. RunIsPaid(loop'[r], carried[r], Billed(r, output, 0))
    BY <1>2, <1>3, <2>2, <2>3 DEF RunIsPaid
  <2> QED BY <1>3, <1>4, <2>1, <2>2, <2>4, OneRunPays
<1>9. CASE Respond(r)
  <2>1. loop[r].pc = "asking"
    BY <1>9 DEF Respond
  <2>2. PICK output \in 0..OutputSize,
             searches \in IF webRow[r].status = "running" /\ OffersWeb(r) THEN 0..WebCalls ELSE {0} :
          /\ billed' = [billed EXCEPT ![r] = Billed(r, output, searches)]
          /\ \/ EndLoop(r, "complete") /\ carried' = carried
             \/ /\ OffersTools(r)
                /\ carried' = [carried EXCEPT ![r] = @ + 2 * output + searches * WebSize]
                /\ loop' = [loop EXCEPT ![r].pc = "calling"]
    BY <1>9 DEF Respond
  <2> DEFINE cost == Billed(r, output, searches)
  <2>3. searches \in 0..WebCalls /\ (loop[r].rounds # 0 => searches = 0)
    BY SizesAreNaturals DEF OffersWeb
  <2>4. cost \in Nat /\ cost <= RequestCosts[loop[r].rounds] + WebCalls /\ cost <= Reserved
    BY <1>7, <2>1, <2>2, <2>3
  <2>5. CASE EndLoop(r, "complete") /\ carried' = carried
    <3>1. loop' = [loop EXCEPT ![r].pc = "ended"]
      BY <2>5 DEF EndLoop
    <3>2. RunIsPaid(loop'[r], carried[r], cost)
      BY <1>2, <1>3, <2>4, <3>1 DEF RunIsPaid
    <3> QED BY <1>3, <1>4, <2>2, <2>5, <3>1, <3>2, OneRunPays
  <2>6. CASE /\ OffersTools(r)
             /\ carried' = [carried EXCEPT ![r] = @ + 2 * output + searches * WebSize]
             /\ loop' = [loop EXCEPT ![r].pc = "calling"]
    <3> DEFINE i == loop[r].rounds
               before == carried[r]
               carries == before + 2 * output + searches * WebSize
    <3>1. carried' = [carried EXCEPT ![r] = carries]
      BY <2>6
    <3>2. i \in 0..ToolRounds /\ i < ToolRounds /\ before \in Nat
          /\ before <= i * Growth + (IF i = 0 THEN 0 ELSE WebContent)
      BY <1>2, <2>1, <2>6 DEF RunIsPaid, OffersTools
    <3>3. searches * WebSize \in Nat /\ searches * WebSize <= WebContent
          /\ (i # 0 => searches * WebSize = 0)
      BY <2>3, SizesAreNaturals DEF WebContent
    <3>4. carries \in Nat /\ carries <= i * Growth + 2 * OutputSize + WebContent
      <4>1. i \in Nat /\ i * Growth \in Nat
        BY <3>2, SizesAreNaturals
      <4>2. output \in Nat /\ output <= OutputSize
        BY SizesAreNaturals
      <4> DEFINE web == searches * WebSize
                 so == i * Growth
      <4>3. web \in Nat /\ web <= WebContent /\ (i # 0 => web = 0) /\ so \in Nat
        BY <3>3, <4>1
      <4>4. before <= so + (IF i = 0 THEN 0 ELSE WebContent) /\ before \in Nat
        BY <3>2
      <4> HIDE DEF web, so, i, before
      <4>5. before + 2 * output + web \in Nat
            /\ before + 2 * output + web <= so + 2 * OutputSize + WebContent
        BY <4>2, <4>3, <4>4, SizesAreNaturals
      <4> QED BY <4>5 DEF web, so
    <3>5. RunIsPaid(loop'[r], carries, cost)
      <4> HIDE DEF carries, cost
      <4>1. loop'[r].pc = "calling" /\ loop'[r].rounds = i
        BY <1>3, <2>6
      <4>2. cost \in Nat /\ cost <= RequestCosts[i] + WebCalls /\ cost <= Reserved
        BY <2>4
      <4> HIDE DEF i, before
      <4> QED BY <3>2, <3>4, <4>1, <4>2 DEF RunIsPaid
    <3> HIDE DEF carries
    <3> QED BY <1>3, <2>2, <2>6, <3>1, <3>5, OneRunPays
  <2> QED BY <2>2, <2>5, <2>6
<1> QED BY <1>5, <1>6, <1>8, <1>9

(* Calls cost nothing but what they return.                                     *)
LEMMA CallsAreFree ==
  ASSUME AnswerInv, ReserveInv, NEW r \in Responses,
         \/ Refuse(r) \/ LookUp(r) \/ Resolve(r) \/ Approve(r) \/ OpenAndRead(r) \/ CannotRead(r)
         \/ Prepare(r) \/ Spawn(r) \/ Close(r)
  PROVE  ReserveInv'
<1>1. tool[r].pc # "none"
  BY DEF Refuse, LookUp, Resolve, Approve, OpenAndRead, CannotRead, Prepare, Spawn, Close
<1>2. \/ \E status, looked : \E size \in {1, ResultSize + 1} : Answer(r, status, size, looked)
      \/ UNCHANGED loopVars
  BY DEF Refuse, LookUp, Resolve, Approve, OpenAndRead, CannotRead, Prepare, Spawn, Close, Goes,
         Fail, Succeed
<1>3. {1, ResultSize + 1} \subseteq Nat
  BY SizesAreNaturals
<1>4. CASE UNCHANGED loopVars
  BY <1>4, AccountsStay DEF loopVars
<1> QED BY <1>1, <1>2, <1>3, <1>4, AnswersAreCarried

(* However often the model calls its tools and whatever they return, a response's *)
(* requests cost no more than was reserved before the first of them.            *)
THEOREM ReserveIsEnough == ToolsSpec => []ReserveCovers
<1>1. ToolsInit => ReserveInv
  <2> SUFFICES ASSUME ToolsInit PROVE ReserveInv
    OBVIOUS
  <2>1. \A r \in Responses : loop[r].pc = "absent" /\ loop[r].rounds = 0 /\ carried[r] = 0 /\ billed[r] = 0
    BY DEF ToolsInit
  <2>2. 0 * Growth = 0
    BY SizesAreNaturals
  <2>3. \A r \in Responses : RunIsPaid(loop[r], carried[r], billed[r])
    BY <2>1, <2>2, ReservedIsNatural, SizesAreNaturals DEF RunIsPaid, SpentBefore
  <2> QED BY <2>3 DEF ToolsInit, ReserveInv
<1>2. AnswerInv /\ ReserveInv /\ [ToolsNext]_toolVars => ReserveInv'
  <2> SUFFICES ASSUME AnswerInv, ReserveInv, [ToolsNext]_toolVars PROVE ReserveInv'
    OBVIOUS
  <2>1. CASE UNCHANGED <<loop, carried, billed>>
    BY <2>1, AccountsStay
  <2>2. ASSUME \/ (\E f \in Secrets : Grant(f) \/ Expire(f)) \/ Revoke \/ Authorize
               \/ UNCHANGED toolVars
               \/ \E r \in Responses :
                     StartWebSearch(r) \/ Write(r) \/ ReadOutput(r) \/ Kill(r) \/ Exit(r)
        PROVE  UNCHANGED <<loop, carried, billed>>
    BY <2>2
       DEF Grant, Expire, Revoke, Authorize, StartWebSearch, Write, ReadOutput, Kill, Exit, toolVars,
           loopVars
  <2>3. CASE ToolsDie
    <3>1. ASSUME NEW r \in Responses PROVE RunIsPaid(loop'[r], carried[r], billed[r])
      <4>1. RunIsPaid(loop[r], carried[r], billed[r])
            /\ loop[r] = [f \in {"pc", "rounds", "lookups", "aborted"} |-> loop[r][f]]
        BY DEF AnswerInv, ResponseIsSound, ReserveInv
      <4>2. loop'[r] = IF loop[r].pc \in {"asking", "calling"} THEN [loop[r] EXCEPT !.pc = "lost"]
                       ELSE loop[r]
        BY <2>3 DEF ToolsDie
      <4>3. loop'[r] = loop[r] \/ (loop'[r].pc = "lost" /\ loop'[r].rounds = loop[r].rounds)
        BY <4>1, <4>2
      <4> QED BY <4>1, <4>3 DEF RunIsPaid
    <3> QED BY <2>3, <3>1 DEF ToolsDie, ReserveInv
  <2> QED BY <2>1, <2>2, <2>3, RequestsArePaid, CallsAreFree DEF ToolsNext
<1>3. ReserveInv => ReserveCovers
  BY DEF ReserveInv, RunIsPaid, ReserveCovers
<1> QED BY <1>1, <1>2, <1>3, AnswerInvHolds, PTL DEF ToolsSpec

-----------------------------------------------------------------------------
(* What was sent can be shown *)

\* The fields of a response and of what was found for it.
RunFields == {"step", "question", "fresh", "answer", "turns", "found", "moved", "packet"}
PacketFields == {"turns", "last", "evidence", "notices", "room"}

RunShape(run) ==
  /\ run = [f \in RunFields |-> run[f]]
  /\ run.packet = [f \in PacketFields |-> run.packet[f]]
  /\ run.moved \in BOOLEAN
  /\ run.step \in {"classifying", "reranking"} => run.packet.evidence = {}

\* What was found is as it was read, unless the page moved; and what was recorded rebuilds.
RunRebuilds(run) ==
  ~run.moved => /\ \A c \in run.found : c.content = Content(c.doc)
                /\ Rebuilds(run.packet)

IsRunSeq(s) == s \in Seq({s[i] : i \in DOMAIN s})

PacketInv ==
  /\ IsRunSeq(runs)
  /\ \A r \in DOMAIN runs : RunShape(runs[r]) /\ RunRebuilds(runs[r])

LEMMA SeqOfItsOwn == \A X : \A s \in Seq(X) : IsRunSeq(s)
<1> SUFFICES ASSUME NEW X, NEW s \in Seq(X) PROVE IsRunSeq(s)
  OBVIOUS
<1>1. s = [i \in 1..Len(s) |-> s[i]] /\ Len(s) \in Nat /\ DOMAIN s = 1..Len(s)
  OBVIOUS
<1>2. [i \in 1..Len(s) |-> s[i]] \in Seq({s[i] : i \in DOMAIN s})
  BY <1>1
<1> QED
  BY <1>1, <1>2 DEF IsRunSeq

\* Only one response changes, and it goes on to rebuild.
LEMMA OneRunRebuilds ==
  ASSUME PacketInv, NEW r \in DOMAIN runs, NEW new, runs' = [runs EXCEPT ![r] = new],
         RunShape(new), RunRebuilds(new), UNCHANGED page
  PROVE  PacketInv'
<1>1. IsRunSeq(runs) /\ DOMAIN runs' = DOMAIN runs
  BY DEF PacketInv
<1>2. PICK X : X = {runs[i] : i \in DOMAIN runs} \cup {new}
  OBVIOUS
<1>3. runs \in Seq(X) /\ new \in X
  BY <1>1, <1>2 DEF IsRunSeq
<1>6. runs' \in Seq(X)
  BY <1>3
<1>7. IsRunSeq(runs')
  BY <1>6, SeqOfItsOwn
<1>4. \A i \in DOMAIN runs' : runs'[i] = IF i = r THEN new ELSE runs[i]
  BY <1>1
<1>5. \A run : RunRebuilds(run)' <=> RunRebuilds(run)
  BY DEF RunRebuilds, Rebuilds, BodyText, Content
<1> QED
  BY <1>1, <1>7, <1>4, <1>5 DEF PacketInv, IsRunSeq

\* A response that starts has found nothing.
LEMMA StartedRebuilds ==
  ASSUME PacketInv, NEW events, NEW question, NEW fresh, runs' = StartRun(events, question, fresh),
         UNCHANGED page
  PROVE  PacketInv'
<1> DEFINE new == [step |-> "classifying", question |-> question, fresh |-> fresh, answer |-> 0,
                   turns |-> TurnsOf(events, question), found |-> {}, moved |-> FALSE,
                   packet |-> NoPacket]
<1>1. runs' = Append(runs, new)
  BY DEF StartRun
<1>2. RunShape(new)
  BY DEF RunShape, RunFields, PacketFields, NoPacket
<1>3. new.found = {} /\ new.packet.evidence = {}
  BY DEF NoPacket
<1> HIDE DEF new
<1>4. PICK X : X = {runs[i] : i \in DOMAIN runs} \cup {new}
  OBVIOUS
<1>5. runs \in Seq({runs[i] : i \in DOMAIN runs}) /\ new \in X
  BY <1>4 DEF PacketInv, IsRunSeq
<1>8. runs \in Seq(X)
  BY <1>4, <1>5
<1>9. /\ Len(runs) \in Nat /\ DOMAIN runs = 1..Len(runs)
      /\ DOMAIN runs' = 1..(Len(runs) + 1)
      /\ \A r \in DOMAIN runs : runs'[r] = runs[r]
      /\ runs'[Len(runs) + 1] = new
      /\ runs' \in Seq(X)
  BY <1>1, <1>5, <1>8
<1>10. IsRunSeq(runs')
  BY <1>9, SeqOfItsOwn
<1>6. \A run : RunRebuilds(run)' <=> RunRebuilds(run)
  BY DEF RunRebuilds, Rebuilds, BodyText, Content
<1>7. RunRebuilds(new)
  BY <1>3 DEF RunRebuilds, Rebuilds
<1> QED
  BY <1>2, <1>9, <1>10, <1>6, <1>7 DEF PacketInv, IsRunSeq

\* A revision of the page: whoever has read it has moved.
LEMMA MovedRebuilds ==
  ASSUME PacketInv, NEW author, NEW sources, Revise(author, sources)
  PROVE  PacketInv'
<1>1. runs' = Moved
  BY DEF Revise
<1>2. /\ IsRunSeq(runs) /\ Len(runs) \in Nat /\ DOMAIN runs = 1..Len(runs)
      /\ DOMAIN runs' = DOMAIN runs
  BY <1>1 DEF Moved, PacketInv, IsRunSeq
<1>3. \A r \in DOMAIN runs :
        runs'[r] = IF PageDoc \in {c.doc : c \in runs[r].found}
                   THEN [runs[r] EXCEPT !.moved = TRUE] ELSE runs[r]
  BY <1>1 DEF Moved
<1>4. IsRunSeq(runs)'
  <2>1. runs' = [r \in 1..Len(runs) |-> runs'[r]]
    BY <1>1, <1>2 DEF Moved
  <2>2. runs' \in Seq({runs'[r] : r \in 1..Len(runs)})
    BY <1>2, <2>1
  <2> QED
    BY <1>2, <2>2 DEF IsRunSeq
<1>5. ASSUME NEW r \in DOMAIN runs, NEW run, run = runs'[r]
      PROVE  RunShape(run) /\ RunRebuilds(run)'
  <2>1. RunShape(runs[r]) /\ RunRebuilds(runs[r])
    BY <1>5 DEF PacketInv
  <2>2. CASE PageDoc \in {c.doc : c \in runs[r].found}
    <3>1. run = [runs[r] EXCEPT !.moved = TRUE]
      BY <1>3, <1>5, <2>2
    <3>2. RunShape(run) /\ run.moved
      BY <3>1, <2>1 DEF RunShape, RunFields
    <3> QED
      BY <3>2 DEF RunRebuilds
  <2>3. CASE PageDoc \notin {c.doc : c \in runs[r].found}
    <3>1. run = runs[r]
      BY <1>3, <1>5, <2>3
    <3>2. \A c \in run.found : Content(c.doc)' = Content(c.doc)
      BY <2>3, <3>1 DEF Content
    <3> QED
      BY <3>1, <3>2, <2>1 DEF RunRebuilds, Rebuilds, BodyText
  <2> QED
    BY <2>2, <2>3
<1>6. \A r \in DOMAIN runs : \A run : run = runs'[r] => RunShape(run) /\ RunRebuilds(run)'
  BY <1>5
<1> QED
  BY <1>2, <1>4, <1>6 DEF PacketInv

\* The responses and the page stay: nothing is disturbed.
LEMMA SameRunsRebuild ==
  ASSUME PacketInv, UNCHANGED <<runs, page>>
  PROVE  PacketInv'
BY DEF PacketInv, IsRunSeq, RunShape, RunRebuilds, Rebuilds, BodyText, Content

LEMMA PacketSend == ASSUME PacketInv, NEW t \in Texts, Send(t) PROVE PacketInv'
BY StartedRebuilds DEF Send

LEMMA PacketRegenerate ==
  ASSUME PacketInv, NEW e \in DOMAIN chat, Regenerate(e) PROVE PacketInv'
BY StartedRebuilds DEF Regenerate

LEMMA PacketGenerate ==
  ASSUME PacketInv, NEW r \in DOMAIN runs, Generate(r) PROVE PacketInv'
<1>1. PICK D : runs' = [runs EXCEPT ![r].step = "reranking",
                                    ![r].found = {Candidate(d) : d \in D},
                                    ![r].moved = FALSE]
  BY DEF Generate
<1> DEFINE new == [runs[r] EXCEPT !.step = "reranking", !.found = {Candidate(d) : d \in D},
                                  !.moved = FALSE]
<1>2. RunShape(runs[r]) /\ RunRebuilds(runs[r])
  BY DEF PacketInv
<1>9. runs[r].step = "classifying"
  BY DEF Generate
<1>3. /\ RunShape(new) /\ new.packet = runs[r].packet
      /\ new.found = {Candidate(d) : d \in D}
  BY <1>2, <1>9 DEF RunShape, RunFields
<1>4. \A c \in new.found : c.content = Content(c.doc)
  BY <1>3 DEF Candidate
<1>5. runs[r].packet.evidence = {}
  BY <1>2 DEF RunShape, Generate
<1>6. RunRebuilds(new)
  BY <1>3, <1>4, <1>5 DEF RunRebuilds, Rebuilds
<1>7. UNCHANGED page /\ runs' = [runs EXCEPT ![r] = new]
  BY <1>1 DEF Generate
<1> HIDE DEF new
<1> QED
  BY <1>3, <1>6, <1>7, OneRunRebuilds

LEMMA PacketCompose ==
  ASSUME PacketInv, NEW r \in DOMAIN runs, Compose(r) PROVE PacketInv'
<1> DEFINE attached == IF HasFile(runs[r].question) THEN {Candidate(FileDoc)} ELSE {}
           rest == {c \in runs[r].found : c.doc # FileDoc \/ attached = {}}
<1> DEFINE run == runs[r]
           whole == {g \in GroupsOf(run.turns) : IsWhole(run.turns, g)}
           required == NewestThatFit(run.turns, LatestOf(whole, MinimumTurns), Capacity)
           room == Capacity - GroupsSize(run.turns, required)
           notices == NoticesThatFit(run.found, room)
           left == room - NoticeSize * Cardinality(notices)
           older(evidence) == NewestThatFit(run.turns, whole \ required, left - EvidenceSize(evidence))
           sent(evidence) == TurnsIn(run.turns, required \cup older(evidence))
           recorded(evidence) ==
             [turns |-> {t.event : t \in sent(evidence)}, last |-> LastOf(sent(evidence)),
              evidence |-> {Reference(c) : c \in evidence}, notices |-> notices, room |-> left]
<1>1. PICK E \in FittingEvidence(rest, attached, Share(left)) :
        runs' = [runs EXCEPT ![r].step = "composed", ![r].turns = {}, ![r].found = {},
                             ![r].packet = recorded(E)]
  BY DEF Compose
<1>2. PICK T, l, N, room1 : recorded(E) = [turns |-> T, last |-> l,
                             evidence |-> {Reference(c) : c \in E}, notices |-> N,
                             room |-> room1]
  OBVIOUS
<1> HIDE DEF recorded, older, sent, left, notices, room, required, whole
<1> DEFINE packet == [turns |-> T, last |-> l, evidence |-> {Reference(c) : c \in E},
                      notices |-> N, room |-> room1]
           new == [runs[r] EXCEPT !.step = "composed", !.turns = {}, !.found = {},
                                  !.packet = packet]
<1>3. RunShape(runs[r]) /\ RunRebuilds(runs[r])
  BY DEF PacketInv
<1>4. \A c \in E : c \in runs[r].found \/ c = Candidate(FileDoc)
  BY <1>1 DEF FittingEvidence
<1>5. ~runs[r].moved => \A c \in E : c.content = Content(c.doc)
  BY <1>3, <1>4 DEF RunRebuilds, Candidate
<1>6. /\ packet = [f \in PacketFields |-> packet[f]]
      /\ packet.evidence = {Reference(c) : c \in E}
  BY DEF PacketFields
<1>7. ~runs[r].moved => Rebuilds(packet)
  BY <1>5, <1>6 DEF Rebuilds, Reference, BodyText
<1> HIDE DEF packet
<1>8. RunShape(new) /\ new.packet = packet /\ new.found = {} /\ new.moved = runs[r].moved
  BY <1>3, <1>6 DEF RunShape, RunFields
<1>9. RunRebuilds(new)
  BY <1>7, <1>8 DEF RunRebuilds
<1>10. UNCHANGED page /\ runs' = [runs EXCEPT ![r] = new]
  BY <1>1, <1>2 DEF Compose, packet
<1> HIDE DEF new
<1> QED
  BY <1>8, <1>9, <1>10, OneRunRebuilds

\* The later steps of a response leave what was recorded of its prompt.
LEMMA PacketAnswer ==
  ASSUME PacketInv, NEW r \in DOMAIN runs, BeginAnswer(r) \/ FinishAnswer(r) \/ BreakOff(r)
  PROVE  PacketInv'
<1>1. RunShape(runs[r]) /\ RunRebuilds(runs[r])
  BY DEF PacketInv
<1>2. CASE BeginAnswer(r)
  <2> DEFINE new == [runs[r] EXCEPT !.step = "answering", !.answer = Len(chat')]
  <2>1. /\ RunShape(new) /\ new.packet = runs[r].packet /\ new.found = runs[r].found
        /\ new.moved = runs[r].moved
    BY <1>1 DEF RunShape, RunFields
  <2>2. UNCHANGED page /\ runs' = [runs EXCEPT ![r] = new]
    BY <1>2 DEF BeginAnswer
  <2> HIDE DEF new
  <2>3. RunRebuilds(new)
    BY <1>1, <2>1 DEF RunRebuilds
  <2> QED
    BY <2>1, <2>2, <2>3, OneRunRebuilds
<1>3. CASE FinishAnswer(r)
  <2> DEFINE new == [runs[r] EXCEPT !.step = "complete"]
  <2>1. /\ RunShape(new) /\ new.packet = runs[r].packet /\ new.found = runs[r].found
        /\ new.moved = runs[r].moved
    BY <1>1 DEF RunShape, RunFields
  <2>2. UNCHANGED page /\ runs' = [runs EXCEPT ![r] = new]
    BY <1>3 DEF FinishAnswer
  <2> HIDE DEF new
  <2>3. RunRebuilds(new)
    BY <1>1, <2>1 DEF RunRebuilds
  <2> QED
    BY <2>1, <2>2, <2>3, OneRunRebuilds
<1>4. CASE BreakOff(r)
  <2> DEFINE new == [runs[r] EXCEPT !.step = "failed", !.turns = {}, !.found = {}]
  <2>1. /\ RunShape(new) /\ new.packet = runs[r].packet /\ new.found = {}
        /\ new.moved = runs[r].moved
    BY <1>1 DEF RunShape, RunFields
  <2>2. UNCHANGED page /\ runs' = [runs EXCEPT ![r] = new]
    BY <1>4 DEF BreakOff
  <2> HIDE DEF new
  <2>3. RunRebuilds(new)
    BY <1>1, <2>1 DEF RunRebuilds
  <2> QED
    BY <2>1, <2>2, <2>3, OneRunRebuilds
<1> QED
  BY <1>2, <1>3, <1>4

LEMMA PacketMemory ==
  ASSUME PacketInv,
         \/ \E a \in DOMAIN chat, contradicts \in BOOLEAN : Learn(a, contradicts)
         \/ \E c \in DOMAIN claims : Correct(c) \/ ExpireClaim(c)
         \/ EditPage
         \/ \E e \in DOMAIN chat : ChooseAnswer(e)
         \/ \E r \in DOMAIN runs : CallTool(r)
  PROVE  PacketInv'
<1>1. \/ \E author, sources : Revise(author, sources)
      \/ UNCHANGED <<runs, page>>
  BY DEF Learn, Correct, ExpireClaim, EditPage, ChooseAnswer, CallTool
<1> QED
  BY <1>1, MovedRebuilds, SameRunsRebuild

LEMMA PacketStep == PacketInv /\ [ContextNext]_contextVars => PacketInv'
<1> SUFFICES ASSUME PacketInv, [ContextNext]_contextVars PROVE PacketInv'
  OBVIOUS
<1>1. CASE UNCHANGED contextVars
  BY <1>1, SameRunsRebuild DEF contextVars
<1>2. CASE ContextNext
  <2>1. CASE \/ \E t \in Texts : Send(t)
             \/ \E e \in DOMAIN chat : Regenerate(e)
    BY <2>1, PacketSend, PacketRegenerate
  <2>2. CASE \E r \in DOMAIN runs :
               Generate(r) \/ Compose(r) \/ BeginAnswer(r) \/ FinishAnswer(r) \/ BreakOff(r)
    BY <2>2, PacketGenerate, PacketCompose, PacketAnswer
  <2> QED
    BY <1>2, <2>1, <2>2, PacketMemory DEF ContextNext
<1> QED
  BY <1>1, <1>2

\* However memory changes while a response is prepared and afterwards, what was sent can
\* be shown again, unless the page was revised between its reading and the record
\* (composeStoredContextPacket, reconstructStoredContextPacket).
THEOREM PacketsRebuild == ContextSpec => []PacketRebuilds
<1>1. ContextInit => PacketInv
  BY DEF ContextInit, PacketInv, IsRunSeq
<1>2. PacketInv => PacketRebuilds
  BY DEF PacketInv, PacketRebuilds, RunRebuilds
<1> QED
  BY <1>1, <1>2, PacketStep, PTL DEF ContextSpec

-----------------------------------------------------------------------------
(* What texts take together *)

AreSizes(f) == IsFiniteSet(DOMAIN f) /\ \A x \in DOMAIN f : f[x] \in Nat

(* What a function makes of a finite set is finite.                            *)
LEMMA FiniteImage ==
  ASSUME NEW S, IsFiniteSet(S), NEW f, S \subseteq DOMAIN f
  PROVE  IsFiniteSet({f[x] : x \in S})
<1> DEFINE T == {f[x] : x \in S}
           g == [x \in S |-> f[x]]
<1>1. g \in Surjection(S, T)
  BY DEF Surjection
<1> QED
  BY <1>1, FS_Surjection

(* The tokens of texts can be counted.                                         *)
LEMMA TotalIsNatural ==
  ASSUME NEW f, AreSizes(f)
  PROVE  IsFiniteSet(Tokens(f)) /\ TotalOf(f) \in Nat
<1> DEFINE own == [x \in DOMAIN f |-> {x} \X (1..f[x])]
           parts == {own[x] : x \in DOMAIN f}
<1>1. IsFiniteSet(parts)
  <2>1. DOMAIN own = DOMAIN f /\ IsFiniteSet(DOMAIN f)
    BY DEF AreSizes
  <2> HIDE DEF own
  <2> QED BY <2>1, FiniteImage
<1>2. \A T \in parts : IsFiniteSet(T)
  <2>1. ASSUME NEW x \in DOMAIN f PROVE IsFiniteSet({x} \X (1..f[x]))
    <3>1. IsFiniteSet({x}) /\ f[x] \in Int
      BY FS_Singleton DEF AreSizes
    <3>2. IsFiniteSet(1..f[x])
      BY <3>1, FS_Interval
    <3> QED BY <3>1, <3>2, FS_Product
  <2> QED BY <2>1
<1>3. Tokens(f) = UNION parts
  BY DEF Tokens
<1>4. IsFiniteSet(Tokens(f))
  BY <1>1, <1>2, <1>3, FS_UNION
<1> QED BY <1>4, FS_CardinalityType DEF TotalOf

(* A token is of one text.                                                     *)
LEMMA TokensAreOf ==
  ASSUME NEW f, NEW u
  PROVE  u \in Tokens(f) <=> u = <<u[1], u[2]>> /\ u[1] \in DOMAIN f /\ u[2] \in 1..f[u[1]]
BY DEF Tokens

(* Texts of two kinds.                                                         *)
LEMMA TotalOfParts ==
  ASSUME NEW f, AreSizes(f), NEW A, NEW B, DOMAIN f = A \cup B, A \cap B = {}
  PROVE  /\ TotalOf(f) = TotalOf([x \in A |-> f[x]]) + TotalOf([x \in B |-> f[x]])
         /\ AreSizes([x \in A |-> f[x]]) /\ AreSizes([x \in B |-> f[x]])
<1> DEFINE a == [x \in A |-> f[x]]
           b == [x \in B |-> f[x]]
<1>1. AreSizes(a) /\ AreSizes(b)
  BY FS_Subset DEF AreSizes
<1>2. Tokens(f) = Tokens(a) \cup Tokens(b)
  <2>1. \A u : u \in Tokens(f) <=> u \in Tokens(a) \/ u \in Tokens(b)
    <3> TAKE u
    <3>1. DOMAIN a = A /\ DOMAIN b = B /\ (\A x \in A : a[x] = f[x]) /\ (\A x \in B : b[x] = f[x])
      OBVIOUS
    <3> HIDE DEF a, b
    <3> QED BY <3>1, TokensAreOf
  <2> QED BY <2>1
<1>3. Tokens(a) \cap Tokens(b) = {}
  BY TokensAreOf
<1>4. /\ IsFiniteSet(Tokens(a)) /\ IsFiniteSet(Tokens(b))
      /\ TotalOf(a) \in Nat /\ TotalOf(b) \in Nat
  BY <1>1, TotalIsNatural
<1>5. Cardinality(Tokens(f)) = Cardinality(Tokens(a)) + Cardinality(Tokens(b)) - Cardinality({})
  BY <1>2, <1>3, <1>4, FS_Union
<1> QED BY <1>1, <1>4, <1>5, FS_EmptySet DEF TotalOf

(* No text takes nothing.                                                      *)
LEMMA TotalOfNone ==
  ASSUME NEW f, DOMAIN f = {}
  PROVE  TotalOf(f) = 0
BY FS_EmptySet DEF TotalOf, Tokens

(* One text takes its size.                                                    *)
LEMMA TotalOfOne ==
  ASSUME NEW f, NEW a, DOMAIN f = {a}, f[a] \in Nat
  PROVE  TotalOf(f) = f[a]
<1>1. Tokens(f) = {a} \X (1..f[a])
  BY DEF Tokens
<1>3. /\ IsFiniteSet({a}) /\ IsFiniteSet(1..f[a])
      /\ Cardinality({a}) = 1 /\ Cardinality(1..f[a]) = f[a]
  <2>1. 1 \in Int /\ f[a] \in Int
    OBVIOUS
  <2>2. IsFiniteSet(1..f[a]) /\ Cardinality(1..f[a]) = IF 1 > f[a] THEN 0 ELSE f[a] - 1 + 1
    BY <2>1, FS_Interval
  <2>3. Cardinality(1..f[a]) = f[a]
    BY <2>2
  <2>4. IsFiniteSet({a}) /\ Cardinality({a}) = 1
    BY FS_Singleton
  <2> QED BY <2>2, <2>3, <2>4
<1>2. Cardinality({a} \X (1..f[a])) = Cardinality({a}) * Cardinality(1..f[a])
  BY <1>3, FS_Product
<1>4. 1 * f[a] = f[a]
  OBVIOUS
<1> QED BY <1>1, <1>2, <1>3, <1>4 DEF TotalOf

(* The same sizes under other names.                                           *)
LEMMA TotalOfRenamed ==
  ASSUME NEW f, AreSizes(f), NEW g, NEW h, DOMAIN h = DOMAIN f,
         DOMAIN g = {h[x] : x \in DOMAIN f},
         \A x, y \in DOMAIN f : h[x] = h[y] => x = y,
         \A x \in DOMAIN f : g[h[x]] = f[x]
  PROVE  TotalOf(g) = TotalOf(f)
<1> DEFINE b == [u \in Tokens(f) |-> <<h[u[1]], u[2]>>]
<1>1. b \in [Tokens(f) -> Tokens(g)]
  <2>1. ASSUME NEW u \in Tokens(f) PROVE <<h[u[1]], u[2]>> \in Tokens(g)
    BY TokensAreOf
  <2> QED BY <2>1
<1>2. \A u, v \in Tokens(f) : b[u] = b[v] => u = v
  BY TokensAreOf
<1>3. \A v \in Tokens(g) : \E u \in Tokens(f) : b[u] = v
  <2>1. ASSUME NEW v \in Tokens(g) PROVE \E u \in Tokens(f) : b[u] = v
    <3>1. v = <<v[1], v[2]>> /\ v[1] \in DOMAIN g /\ v[2] \in 1..g[v[1]]
      BY TokensAreOf
    <3>2. PICK x \in DOMAIN f : v[1] = h[x]
      BY <3>1
    <3>3. <<x, v[2]>> \in Tokens(f)
      BY <3>1, <3>2, TokensAreOf
    <3> QED BY <3>1, <3>2, <3>3
  <2> QED BY <2>1
<1>4. b \in Bijection(Tokens(f), Tokens(g))
  BY <1>1, <1>2, <1>3 DEF Bijection, Injection, Surjection, IsInjective
<1>5. ExistsBijection(Tokens(f), Tokens(g))
  BY <1>4 DEF ExistsBijection
<1> QED BY <1>5, TotalIsNatural, FS_Bijection DEF TotalOf

(* The least of some naturals.                                                 *)
LEMMA LeastExists ==
  ASSUME NEW S, S \subseteq Nat, S # {}
  PROVE  \E n \in S : \A m \in S : n <= m
<1>1. ~\A n \in S : \E m \in S : m < n
  BY NoFirst
<1> QED BY <1>1

AreTurns(turns) ==
  IsFiniteSet(turns) /\ \A t \in turns : t.index \in Nat /\ t.size \in Nat

LEMMA TurnSizes ==
  ASSUME NEW turns, AreTurns(turns), NEW T, T \subseteq turns
  PROVE  AreSizes([t \in T |-> t.size])
BY FS_Subset DEF AreTurns, AreSizes

(* The turns of some groups and those of others.                               *)
LEMMA GroupsAddUp ==
  ASSUME NEW turns, AreTurns(turns), NEW A, NEW B, A \cap B = {}
  PROVE  /\ GroupsSize(turns, A \cup B) = GroupsSize(turns, A) + GroupsSize(turns, B)
         /\ GroupsSize(turns, A) \in Nat /\ GroupsSize(turns, B) \in Nat
<1> DEFINE a == TurnsIn(turns, A)
           b == TurnsIn(turns, B)
           f == [t \in TurnsIn(turns, A \cup B) |-> t.size]
<1>1. DOMAIN f = a \cup b /\ a \cap b = {}
  BY DEF TurnsIn
<1>2. AreSizes(f)
  BY TurnSizes DEF TurnsIn
<1>3. /\ [t \in a |-> f[t]] = [t \in a |-> t.size]
      /\ [t \in b |-> f[t]] = [t \in b |-> t.size]
  BY DEF TurnsIn
<1>4. GroupsSize(turns, A \cup B) = TotalOf(f)
  BY DEF GroupsSize
<1>5. /\ TotalOf(f) = TotalOf([t \in a |-> f[t]]) + TotalOf([t \in b |-> f[t]])
      /\ AreSizes([t \in a |-> f[t]]) /\ AreSizes([t \in b |-> f[t]])
  <2> HIDE DEF f, a, b
  <2> QED BY <1>1, <1>2, TotalOfParts
<1>6. /\ GroupsSize(turns, A) = TotalOf([t \in a |-> f[t]])
      /\ GroupsSize(turns, B) = TotalOf([t \in b |-> f[t]])
  BY <1>3 DEF GroupsSize
<1>7. TotalOf([t \in a |-> f[t]]) \in Nat /\ TotalOf([t \in b |-> f[t]]) \in Nat
  <2> HIDE DEF f, a, b
  <2> QED BY <1>5, TotalIsNatural
<1> HIDE DEF f, a, b
<1> QED BY <1>4, <1>5, <1>6, <1>7

LEMMA GroupsAreCounted ==
  ASSUME NEW turns, AreTurns(turns), NEW A
  PROVE  GroupsSize(turns, A) \in Nat
<1>1. A \cap {} = {}
  OBVIOUS
<1> QED BY <1>1, GroupsAddUp

LEMMA NoGroups ==
  ASSUME NEW turns
  PROVE  GroupsSize(turns, {}) = 0
<1>1. DOMAIN [t \in TurnsIn(turns, {}) |-> t.size] = {}
  BY DEF TurnsIn
<1> QED BY <1>1, TotalOfNone DEF GroupsSize

(* Fitting ends: there is a choice that passes over just what does not fit.     *)
IsFit(turns, groups, room, fit) ==
  \A g \in groups : g \in fit <=> GroupsSize(turns, {h \in fit : h > g} \cup {g}) <= room

LEMMA FitExists ==
  ASSUME NEW turns, NEW groups, NEW top \in Nat, groups \subseteq 0..top, NEW room
  PROVE  \E fit \in SUBSET groups : IsFit(turns, groups, room, fit)
<1> DEFINE From(n) == {g \in groups : g > top - n}
           Fails == {n \in Nat : ~\E fit \in SUBSET From(n) : IsFit(turns, From(n), room, fit)}
<1>0. \A g \in groups : g \in Nat /\ g <= top
  OBVIOUS
<1>1. ASSUME NEW n \in Fails PROVE \E m \in Fails : m < n
  <2>0. n \in Nat
    OBVIOUS
  <2>1. n # 0
    <3>1. From(0) = {}
      <4>1. \A g \in groups : ~(g > top - 0)
        BY <1>0
      <4> QED BY <4>1
    <3>2. IsFit(turns, From(0), room, {})
      BY <3>1 DEF IsFit
    <3> QED BY <3>1, <3>2
  <2>9. n - 1 \in Nat /\ n - 1 < n
    BY <2>0, <2>1
  <2>2. SUFFICES ASSUME n - 1 \notin Fails PROVE FALSE
    BY <2>9, Zenon
  <2>3. PICK old \in SUBSET From(n - 1) : IsFit(turns, From(n - 1), room, old)
    <3> HIDE DEF From
    <3> QED BY <2>9, <2>2
  <2> DEFINE g == top - n + 1
             takes == g \in groups /\ GroupsSize(turns, old \cup {g}) <= room
             fit == IF takes THEN old \cup {g} ELSE old
  <2>10. g \in Int /\ \A h \in groups : h > top - n <=> h > top - (n - 1) \/ h = g
    BY <1>0, <2>0
  <2>11. \A h \in From(n - 1) : h > g /\ h \in Int
    BY <1>0, <2>0
  <2>12. From(n) = From(n - 1) \cup (IF g \in groups THEN {g} ELSE {})
    <3> HIDE DEF g
    <3> QED BY <2>10
  <2>4. /\ From(n) = From(n - 1) \cup (IF g \in groups THEN {g} ELSE {})
        /\ \A h \in From(n - 1) : h > g /\ h \in Int
        /\ fit \in SUBSET From(n) /\ g \in Int
    <3> HIDE DEF g, From
    <3> QED BY <2>10, <2>11, <2>12
  <2>5. \A h \in From(n - 1) : {i \in fit : i > h} = {i \in old : i > h} /\ (h \in fit <=> h \in old)
    BY <2>4
  <2>6. {i \in fit : i > g} = old
    <3>1. ~(g > g) /\ \A h \in old : h > g
      BY <2>4
    <3> HIDE DEF g, From
    <3> QED BY <3>1
  <2>7. g \in fit <=> takes
    BY <2>4
  <2>8. IsFit(turns, From(n), room, fit)
    <3> HIDE DEF From, fit
    <3>1. ASSUME NEW h \in From(n)
          PROVE  h \in fit <=> GroupsSize(turns, {i \in fit : i > h} \cup {h}) <= room
      <4>1. CASE h \in From(n - 1)
        <5>1. h \in old <=> GroupsSize(turns, {i \in old : i > h} \cup {h}) <= room
          BY <2>3, <4>1 DEF IsFit
        <5> QED BY <2>5, <4>1, <5>1
      <4>2. CASE h = g /\ g \in groups
        BY <2>6, <2>7, <4>2
      <4> HIDE DEF g
      <4> QED BY <2>4, <4>1, <4>2
    <3> QED BY <3>1 DEF IsFit
  <2> QED BY <2>4, <2>8
<1>2. Fails = {}
  <2> HIDE DEF Fails
  <2>1. Fails \subseteq Nat
    BY DEF Fails
  <2> QED BY <1>1, <2>1, NoFirst
<1>3. top + 1 \notin Fails
  BY <1>2
<1>4. From(top + 1) = groups
  <2>1. \A g \in groups : g > top - (top + 1)
    BY <1>0
  <2> QED BY <2>1
<1> QED BY <1>3, <1>4

LEMMA FitFits ==
  ASSUME NEW turns, AreTurns(turns), NEW groups, NEW top \in Nat, groups \subseteq 0..top,
         NEW room \in Nat
  PROVE  /\ NewestThatFit(turns, groups, room) \subseteq groups
         /\ GroupsSize(turns, NewestThatFit(turns, groups, room)) <= room
         /\ \A g \in groups :
              (\A h \in groups : h <= g) /\ GroupsSize(turns, {g}) <= room
                => g \in NewestThatFit(turns, groups, room)
<1> DEFINE fit == NewestThatFit(turns, groups, room)
<1>1. fit = CHOOSE f \in SUBSET groups : IsFit(turns, groups, room, f)
  BY DEF NewestThatFit, IsFit
<1>2. fit \in SUBSET groups /\ IsFit(turns, groups, room, fit)
  <2> HIDE DEF fit
  <2> QED BY <1>1, FitExists
<1> HIDE DEF fit
<1>0. \A g \in groups : g \in Nat
  OBVIOUS
<1>5. fit \subseteq Nat
  BY <1>0, <1>2
<1>3. GroupsSize(turns, fit) <= room
  <2>1. CASE fit = {}
    BY <2>1, NoGroups
  <2>2. CASE fit # {}
    <3>1. PICK g \in fit : \A h \in fit : g <= h
      BY <1>5, <2>2, LeastExists
    <3>2. {h \in fit : h > g} \cup {g} = fit
      <4>1. \A h \in fit : h > g \/ h = g
        BY <1>5, <3>1
      <4> QED BY <3>1, <4>1
    <3>3. GroupsSize(turns, {h \in fit : h > g} \cup {g}) <= room
      BY <1>2, <3>1 DEF IsFit
    <3> QED BY <3>2, <3>3
  <2> QED BY <2>1, <2>2
<1>4. ASSUME NEW g \in groups, \A h \in groups : h <= g, GroupsSize(turns, {g}) <= room
      PROVE  g \in fit
  <2>1. {h \in fit : h > g} = {}
    <3>1. \A h \in fit : ~(h > g)
      BY <1>0, <1>2, <1>4
    <3> QED BY <3>1
  <2>2. {h \in fit : h > g} \cup {g} = {g}
    BY <2>1
  <2> QED BY <1>2, <1>4, <2>2 DEF IsFit
<1> QED BY <1>2, <1>3, <1>4 DEF fit

-----------------------------------------------------------------------------
(* What is in a prompt *)

EventFields == {"role", "text", "size", "status", "parent", "active"}

EventIsSound(e) ==
  /\ chat[e] = [f \in EventFields |-> chat[e][f]]
  /\ chat[e].size \in Nat
  /\ chat[e].role = "assistant" => chat[e].parent \in DOMAIN chat

ChatIsSound ==
  /\ IsRunSeq(chat) /\ IsRunSeq(claims)
  /\ \A e \in DOMAIN chat : EventIsSound(e)

TurnIsSound(events, t) ==
  /\ t.event \in DOMAIN events /\ t.index \in Nat /\ t.size = events[t.event].size
  /\ t.complete => events[t.event].status = "complete"

TurnsAreSound(events, turns) ==
  /\ IsFiniteSet(turns)
  /\ \E top \in Nat : \A t \in turns : t.index <= top
  /\ \A t \in turns : TurnIsSound(events, t)
  /\ \A t, u \in turns : t.event = u.event => t = u

\* The question is the last turn of all.
AsksLast(turns, question) ==
  \E q \in turns : /\ q.event = question /\ q.complete
                   /\ \A u \in turns : u # q => u.index < q.index

DocIsKnown(doc) ==
  /\ doc[1] \in {"event", "claim", "topic", "chunk"}
  /\ doc[1] = "event" => doc[2] \in DOMAIN chat /\ chat[doc[2]].status = "complete"

CandidateIsSound(c) ==
  c = [f \in {"doc", "content", "status"} |-> c[f]] /\ DocIsKnown(c.doc)

PacketTotal(packet) ==
  TotalOf([e \in packet.turns |-> chat[e].size])
    + NoticeSize * Cardinality(packet.notices) + EvidenceSize(packet.evidence)

PacketIsSound(packet) ==
  /\ \A e \in packet.turns : e \in DOMAIN chat /\ chat[e].status = "complete"
  /\ \A ref \in packet.evidence : DocIsKnown(ref.doc)
  /\ (\E ref \in packet.evidence : ref.status = "conflicted") /\ packet.room >= NoticeSize
       => "conflict" \in packet.notices

Composed(run) == run.step \in {"composed", "answering", "complete"}

RunIsSound(run) ==
  /\ run.question \in DOMAIN chat
  /\ TurnsAreSound(chat, run.turns)
  /\ run.step \in {"classifying", "reranking"} /\ run.fresh => AsksLast(run.turns, run.question)
  /\ IsFiniteSet(run.found) /\ \A c \in run.found : CandidateIsSound(c)
  /\ PacketIsSound(run.packet)
  /\ Composed(run) => PacketTotal(run.packet) <= Capacity
  /\ Composed(run) /\ run.fresh /\ chat[run.question].size <= Capacity =>
       run.packet.last = run.question

Steps == {"classifying", "reranking", "composed", "answering", "complete", "failed"}

\* A response has an answer when it writes one, and not before.
HasItsAnswer(run) ==
  /\ run.step \in Steps
  /\ run.step \in {"classifying", "reranking", "composed"} => run.answer = 0
  /\ run.step = "answering" =>
       run.answer \in DOMAIN chat /\ chat[run.answer].status = "streaming"

\* No two responses write the same answer.
AnswersAreApart ==
  /\ \A r \in DOMAIN runs : HasItsAnswer(runs[r])
  /\ \A r, s \in DOMAIN runs :
       r # s /\ runs[r].step = "answering" /\ runs[s].step = "answering" =>
         runs[r].answer # runs[s].answer

PromptInv ==
  /\ PacketInv /\ ChatIsSound /\ AnswersAreApart
  /\ \A r \in DOMAIN runs : RunIsSound(runs[r])

(* The conversation only grows, and what is complete in it stays so.            *)
ChatGrows ==
  \A e \in DOMAIN chat :
    /\ e \in DOMAIN chat' /\ chat'[e].size = chat[e].size
    /\ chat[e].status = "complete" => chat'[e].status = "complete"

(* What is known of a document, a turn and a packet stays known.                *)
LEMMA DocStaysKnown ==
  ASSUME ChatGrows, NEW doc, DocIsKnown(doc)
  PROVE  DocIsKnown(doc)' /\ DocSize(doc)' = DocSize(doc)
<1>1. DocIsKnown(doc)'
  BY DEF ChatGrows, DocIsKnown
<1>2. DocSize(doc)' = DocSize(doc)
  BY DEF ChatGrows, DocIsKnown, DocSize
<1> QED BY <1>1, <1>2

LEMMA TurnsStaySound ==
  ASSUME ChatGrows, NEW turns, TurnsAreSound(chat, turns)
  PROVE  TurnsAreSound(chat, turns)'
BY DEF ChatGrows, TurnsAreSound, TurnIsSound

LEMMA PacketStaysSound ==
  ASSUME ChatGrows, NEW packet, PacketIsSound(packet)
  PROVE  PacketIsSound(packet)' /\ PacketTotal(packet)' = PacketTotal(packet)
<1>1. \A ref \in packet.evidence : DocIsKnown(ref.doc)' /\ DocSize(ref.doc)' = DocSize(ref.doc)
  BY DocStaysKnown DEF PacketIsSound
<1>2. PacketIsSound(packet)'
  BY <1>1 DEF PacketIsSound, ChatGrows
<1>3. [ref \in packet.evidence |-> DocSize(ref.doc)]'
        = [ref \in packet.evidence |-> DocSize(ref.doc)]
  BY <1>1
<1>4. EvidenceSize(packet.evidence)' = EvidenceSize(packet.evidence)
  BY <1>3 DEF EvidenceSize, TotalOf, Tokens
<1>5. [e \in packet.turns |-> chat'[e].size] = [e \in packet.turns |-> chat[e].size]
  BY DEF PacketIsSound, ChatGrows
<1> QED BY <1>2, <1>4, <1>5 DEF PacketTotal, TotalOf, Tokens

LEMMA RunStaysSound ==
  ASSUME ChatGrows, NEW run, RunIsSound(run)
  PROVE  RunIsSound(run)'
<1>1. TurnsAreSound(chat, run.turns)'
  BY TurnsStaySound DEF RunIsSound
<1>2. /\ PacketIsSound(run.packet)'
      /\ PacketTotal(run.packet)' = PacketTotal(run.packet)
  BY PacketStaysSound DEF RunIsSound
<1>3. \A c \in run.found : CandidateIsSound(c)'
  BY DocStaysKnown DEF RunIsSound, CandidateIsSound
<1>4. run.question \in DOMAIN chat' /\ chat'[run.question].size = chat[run.question].size
  BY DEF RunIsSound, ChatGrows
<1> QED BY <1>1, <1>2, <1>3, <1>4 DEF RunIsSound, AsksLast, Composed

(* Sequences that grow by one, or change in place.                             *)
LEMMA AppendFacts ==
  ASSUME NEW s, IsRunSeq(s), NEW x, NEW t, t = Append(s, x)
  PROVE  /\ IsRunSeq(t) /\ Len(s) \in Nat /\ DOMAIN s = 1..Len(s)
         /\ Len(t) = Len(s) + 1 /\ DOMAIN t = 1..(Len(s) + 1) /\ t[Len(s) + 1] = x
         /\ \A i \in DOMAIN s : i \in DOMAIN t /\ t[i] = s[i] /\ i # Len(s) + 1
<1>1. PICK X : X = {s[i] : i \in DOMAIN s} \cup {x}
  OBVIOUS
<1>2. s \in Seq({s[i] : i \in DOMAIN s}) /\ x \in X
  BY <1>1 DEF IsRunSeq
<1>3. s \in Seq(X)
  BY <1>1, <1>2
<1>4. t \in Seq(X)
  BY <1>2, <1>3
<1>5. IsRunSeq(t)
  BY <1>4, SeqOfItsOwn
<1>6. /\ Len(s) \in Nat /\ DOMAIN s = 1..Len(s)
      /\ Len(t) = Len(s) + 1 /\ DOMAIN t = 1..(Len(s) + 1) /\ t[Len(s) + 1] = x
      /\ \A i \in 1..Len(s) : t[i] = s[i]
  BY <1>2, <1>3
<1> QED BY <1>5, <1>6

LEMMA SameLength ==
  ASSUME NEW s, IsRunSeq(s), NEW t, t = [i \in DOMAIN s |-> t[i]]
  PROVE  IsRunSeq(t)
<1>1. DOMAIN s = 1..Len(s) /\ Len(s) \in Nat
  BY DEF IsRunSeq
<1>2. t \in Seq({t[i] : i \in 1..Len(s)})
  BY <1>1
<1> QED BY <1>2, SeqOfItsOwn

(* The turns that are read when a response starts.                             *)
LEMMA TurnsReadAreSound ==
  ASSUME NEW events, IsRunSeq(events), NEW question \in DOMAIN events
  PROVE  /\ TurnsAreSound(events, TurnsOf(events, question))
         /\ /\ question = Len(events)
            /\ events[question].role = "user" /\ events[question].status = "complete"
            => AsksLast(TurnsOf(events, question), question)
<1> DEFINE active == {e \in DOMAIN events : events[e].active}
           recent == {e \in active : Cardinality({d \in active : d > e}) < Window}
           messages == {e \in recent : events[e].role \in {"user", "assistant"}}
           until(e) == {d \in messages : d <= e /\ events[d].role = "user"}
           turn(e, index) == [event |-> e, index |-> index,
                              complete |-> events[e].status = "complete",
                              size |-> events[e].size]
           last == Cardinality(until(Len(events)))
           read == [e \in messages |-> turn(e, Cardinality(until(e)))]
           asked == turn(question, last + 1)
           turns == TurnsOf(events, question)
<1>1. turns = {read[e] : e \in messages} \cup (IF question \in messages THEN {} ELSE {asked})
  BY DEF TurnsOf
<1>2. Len(events) \in Nat /\ DOMAIN events = 1..Len(events) /\ messages \subseteq DOMAIN events
  BY DEF IsRunSeq
<1>3. IsFiniteSet(messages)
  <2> HIDE DEF messages
  <2>1. IsFiniteSet(1..Len(events))
    BY <1>2, FS_Interval
  <2> QED BY <1>2, <2>1, FS_Subset
<1>4. \A e \in DOMAIN events : /\ IsFiniteSet(until(e)) /\ Cardinality(until(e)) \in Nat
                              /\ Cardinality(until(e)) <= last
                              /\ last \in Nat
  <2>1. ASSUME NEW e \in DOMAIN events
        PROVE  until(e) \in SUBSET until(Len(events)) /\ until(Len(events)) \in SUBSET messages
    BY <1>2
  <2> HIDE DEF until, messages
  <2> QED BY <1>3, <2>1, FS_Subset, FS_CardinalityType
<1>5. /\ \A e \in messages : /\ read[e].event = e /\ read[e].index = Cardinality(until(e))
                             /\ (read[e].complete <=> events[e].status = "complete")
                             /\ read[e].size = events[e].size
      /\ asked.event = question /\ asked.index = last + 1
      /\ (asked.complete <=> events[question].status = "complete")
      /\ asked.size = events[question].size
      /\ DOMAIN read = messages
  OBVIOUS
<1>6. \A t \in turns : TurnIsSound(events, t) /\ t.index <= last + 1
  <2>1. ASSUME NEW e \in messages PROVE TurnIsSound(events, read[e]) /\ read[e].index <= last + 1
    <3>1. e \in DOMAIN events
      BY <1>2
    <3> HIDE DEF messages, until, read, last
    <3>2. Cardinality(until(e)) <= last /\ last \in Nat /\ Cardinality(until(e)) \in Nat
      BY <1>4, <3>1
    <3>3. read[e].index \in Nat /\ read[e].index <= last + 1
      BY <1>5, <3>2
    <3> QED BY <1>5, <3>1, <3>3 DEF TurnIsSound
  <2>2. TurnIsSound(events, asked) /\ asked.index <= last + 1
    <3> HIDE DEF messages, until, asked, last
    <3>2. last \in Nat
      BY <1>4
    <3>3. asked.index \in Nat /\ asked.index <= last + 1
      BY <1>5, <3>2
    <3> QED BY <1>5, <3>3 DEF TurnIsSound
  <2> HIDE DEF messages, read, asked, turns, last
  <2> QED BY <1>1, <2>1, <2>2
<1>7. IsFiniteSet(turns)
  <2> HIDE DEF messages, read, asked, turns
  <2>1. IsFiniteSet({read[e] : e \in messages})
    BY <1>3, <1>5, FiniteImage
  <2>2. IsFiniteSet({asked}) /\ IsFiniteSet({})
    BY FS_Singleton, FS_EmptySet
  <2> QED BY <1>1, <2>1, <2>2, FS_Union
<1>8. \A t, u \in turns : t.event = u.event => t = u
  <2> HIDE DEF messages, read, asked, turns
  <2>1. \A t \in turns : t = IF t.event \in messages THEN read[t.event] ELSE asked
    BY <1>1, <1>5
  <2> QED BY <2>1, <1>5
<1>9. TurnsAreSound(events, turns)
  <2>1. last + 1 \in Nat
    <3> HIDE DEF last, until
    <3> QED BY <1>4
  <2> HIDE DEF turns, last
  <2> QED BY <1>6, <1>7, <1>8, <2>1 DEF TurnsAreSound
<1>10. ASSUME question = Len(events), events[question].role = "user",
              events[question].status = "complete"
       PROVE  AsksLast(turns, question)
  <2>1. CASE question \in messages
    <3>1. ASSUME NEW e \in messages, e # question
          PROVE  Cardinality(until(e)) < Cardinality(until(question))
      <4>1. until(e) \in SUBSET until(question) /\ question \in until(question) \ until(e)
        BY <1>2, <1>10, <2>1, <3>1
      <4>2. IsFiniteSet(until(question)) /\ Cardinality(until(question)) \in Nat
            /\ Cardinality(until(e)) \in Nat
        BY <1>2, <1>4, <3>1
      <4> HIDE DEF until
      <4>3. /\ Cardinality(until(e)) <= Cardinality(until(question))
            /\ Cardinality(until(e)) # Cardinality(until(question))
        BY <4>1, <4>2, FS_Subset
      <4> QED BY <4>2, <4>3
    <3>2. read[question] \in turns /\ read[question].event = question /\ read[question].complete
      <4> HIDE DEF messages, read, turns
      <4> QED BY <1>1, <1>5, <1>10, <2>1
    <3>3. ASSUME NEW u \in turns, u # read[question] PROVE u.index < read[question].index
      <4> HIDE DEF messages, read, turns, until
      <4> QED BY <1>1, <1>5, <2>1, <3>1, <3>3
    <3> HIDE DEF read, turns
    <3> QED BY <3>2, <3>3 DEF AsksLast
  <2>2. CASE question \notin messages
    <3>1. asked \in turns /\ asked.event = question /\ asked.complete
      <4> HIDE DEF messages, asked, turns, read
      <4> QED BY <1>1, <1>5, <1>10, <2>2
    <3>2. ASSUME NEW u \in turns, u # asked PROVE u.index < asked.index
      <4>1. PICK e \in messages : u = read[e]
        <5> HIDE DEF messages, asked, turns, read
        <5> QED BY <1>1, <3>2
      <4> HIDE DEF messages, asked, turns, read, until, last
      <4> QED BY <1>2, <1>4, <1>5, <4>1
    <3> HIDE DEF asked, turns
    <3> QED BY <3>1, <3>2 DEF AsksLast
  <2> QED BY <2>1, <2>2
<1> HIDE DEF turns
<1> QED BY <1>9, <1>10 DEF turns

LEMMA SizesInTokens ==
  /\ {Capacity, NoticeSize, AnswerSize, ClaimSize, PageSize, ChunkSize, Window, MinimumTurns}
       \subseteq Nat
  /\ MinimumTurns # 0
BY ContextAssumption

LEMMA DocsHaveSizes ==
  ASSUME ChatIsSound, NEW doc, DocIsKnown(doc)
  PROVE  DocSize(doc) \in Nat
BY SizesInTokens DEF DocIsKnown, DocSize, ChatIsSound, EventIsSound

LEMMA EvidenceSizes ==
  ASSUME ChatIsSound, NEW E, IsFiniteSet(E), \A c \in E : DocIsKnown(c.doc)
  PROVE  AreSizes([c \in E |-> DocSize(c.doc)]) /\ EvidenceSize(E) \in Nat
<1>1. AreSizes([c \in E |-> DocSize(c.doc)])
  BY DocsHaveSizes DEF AreSizes
<1>2. TotalOf([c \in E |-> DocSize(c.doc)]) \in Nat
  BY <1>1, TotalIsNatural
<1> QED BY <1>1, <1>2 DEF EvidenceSize

(* The notices take no more room than there is.                                *)
LEMMA NoticesFit ==
  ASSUME NEW found, NEW room \in Nat
  PROVE  LET notices == NoticesThatFit(found, room)
         IN /\ Cardinality(notices) \in Nat
            /\ NoticeSize * Cardinality(notices) \in Nat
            /\ NoticeSize * Cardinality(notices) <= room
            /\ (\E c \in found : c.status = "conflicted") /\ NoticeSize <= room
                 => "conflict" \in notices
<1> DEFINE s == Notices(found)
           J == {j \in DOMAIN s : j * NoticeSize <= room}
           notices == NoticesThatFit(found, room)
<1>1. /\ DOMAIN s \subseteq {1, 2, 3}
      /\ (\E c \in found : c.status = "conflicted") => 1 \in DOMAIN s /\ s[1] = "conflict"
  BY DEF Notices
<1>2. notices = {s[i] : i \in J}
  BY DEF NoticesThatFit
<1>3. NoticeSize \in Nat
  BY SizesInTokens
<1> HIDE DEF s
<1>4. (\E c \in found : c.status = "conflicted") /\ NoticeSize <= room => "conflict" \in notices
  <2>1. 1 * NoticeSize = NoticeSize
    BY <1>3
  <2> HIDE DEF notices
  <2> QED BY <1>1, <1>2, <2>1
<1>5. CASE J = {}
  <2>1. notices = {}
    BY <1>2, <1>5
  <2>2. Cardinality(notices) = 0 /\ NoticeSize * 0 = 0
    BY <1>3, <2>1, FS_EmptySet
  <2> QED BY <1>4, <2>2
<1>6. CASE J # {}
  <2>1. PICK m \in J : J \subseteq 1..m /\ m \in {1, 2, 3}
    <3>1. CASE 3 \in J
      BY <1>1, <3>1
    <3>2. CASE 3 \notin J /\ 2 \in J
      BY <1>1, <3>2
    <3>3. CASE 3 \notin J /\ 2 \notin J
      BY <1>1, <1>6, <3>3
    <3> QED BY <3>1, <3>2, <3>3
  <2>2. IsFiniteSet(1..m) /\ Cardinality(1..m) = m
    <3>1. IsFiniteSet(1..m) /\ Cardinality(1..m) = IF 1 > m THEN 0 ELSE m - 1 + 1
      BY <2>1, FS_Interval
    <3> QED BY <2>1, <3>1
  <2>3. IsFiniteSet(J) /\ Cardinality(J) <= m /\ Cardinality(J) \in Nat
    <3> HIDE DEF J
    <3> QED BY <2>1, <2>2, FS_Subset, FS_CardinalityType
  <2>4. [i \in J |-> s[i]] \in Surjection(J, notices)
    <3> HIDE DEF J, notices
    <3> QED BY <1>2 DEF Surjection
  <2> HIDE DEF notices
  <2>5. /\ IsFiniteSet(notices) /\ Cardinality(notices) \in Nat
        /\ Cardinality(notices) <= Cardinality(J)
    <3> HIDE DEF J
    <3> QED BY <2>3, <2>4, FS_Surjection, FS_CardinalityType
  <2>6. Cardinality(notices) \in {0, 1, 2, 3} /\ Cardinality(notices) <= m
    BY <2>1, <2>3, <2>5
  <2>7. m * NoticeSize <= room /\ m \in {1, 2, 3}
    BY <2>1
  <2> DEFINE count == Cardinality(notices)
  <2>8. NoticeSize * count \in Nat /\ NoticeSize * count <= room
    <3>1. count \in {0, 1, 2, 3} /\ count <= m
      BY <2>6
    <3> HIDE DEF count
    <3>2. CASE count = 0
      BY <1>3, <3>2
    <3>3. CASE count = 1
      BY <1>3, <2>7, <3>1, <3>3
    <3>4. CASE count = 2
      BY <1>3, <2>7, <3>1, <3>4
    <3>5. CASE count = 3
      BY <1>3, <2>7, <3>1, <3>5
    <3> QED BY <3>1, <3>2, <3>3, <3>4, <3>5
  <2> QED BY <1>4, <2>5, <2>8 DEF notices
<1> QED BY <1>5, <1>6

(* Memory's share is no more than the room.                                    *)
LEMMA ShareIsLess ==
  ASSUME NEW room \in Nat
  PROVE  Share(room) \in Nat /\ Share(room) <= room
<1>1. (Capacity * 45) \div 100 \in Nat
  BY SizesInTokens
<1> DEFINE part == (Capacity * 45) \div 100
           least == CHOOSE x \in {room, part} : \A y \in {room, part} : x <= y
<1>2. Share(room) = least
  BY DEF Share, Min
<1> HIDE DEF part
<1>3. \E x \in {room, part} : \A y \in {room, part} : x <= y
  BY <1>1 DEF part
<1>4. least \in {room, part} /\ \A y \in {room, part} : least <= y
  BY <1>3
<1>5. part \in Nat
  BY <1>1 DEF part
<1> HIDE DEF least
<1> QED BY <1>2, <1>4, <1>5

(* What is put together fits the window, ends with a question that fits, and holds no *)
(* unfinished text.                                                            *)
IsComposed(run, whole, required, room, notices, left, attached, E, older, sent, packet) ==
  /\ whole = {g \in GroupsOf(run.turns) : IsWhole(run.turns, g)}
  /\ required = NewestThatFit(run.turns, LatestOf(whole, MinimumTurns), Capacity)
  /\ room = Capacity - GroupsSize(run.turns, required)
  /\ notices = NoticesThatFit(run.found, room)
  /\ left = room - NoticeSize * Cardinality(notices)
  /\ attached \subseteq {Candidate(FileDoc)}
  /\ E \in FittingEvidence({c \in run.found : c.doc # FileDoc \/ attached = {}}, attached,
                           Share(left))
  /\ older = NewestThatFit(run.turns, whole \ required, left - EvidenceSize(E))
  /\ sent = TurnsIn(run.turns, required \cup older)
  /\ packet = [turns |-> {t.event : t \in sent}, last |-> LastOf(sent),
               evidence |-> {Reference(c) : c \in E}, notices |-> notices, room |-> left]

LEMMA ComposedIsSound ==
  ASSUME ChatIsSound, NEW run, RunIsSound(run), run.step = "reranking",
         NEW whole, NEW required, NEW room, NEW notices, NEW left, NEW attached, NEW E,
         NEW older, NEW sent, NEW packet,
         IsComposed(run, whole, required, room, notices, left, attached, E, older, sent, packet)
  PROVE  /\ PacketIsSound(packet)
         /\ PacketTotal(packet) <= Capacity
         /\ run.fresh /\ chat[run.question].size <= Capacity => packet.last = run.question
<1> USE DEF IsComposed
<1>0. /\ Capacity \in Nat /\ NoticeSize \in Nat /\ MinimumTurns \in Nat /\ MinimumTurns # 0
  BY SizesInTokens
<1>1. /\ TurnsAreSound(chat, run.turns)
      /\ IsFiniteSet(run.found) /\ \A c \in run.found : CandidateIsSound(c)
  BY DEF RunIsSound
<1>2. AreTurns(run.turns)
  BY <1>1 DEF AreTurns, TurnsAreSound, TurnIsSound, ChatIsSound, EventIsSound
<1>3. PICK top \in Nat : \A t \in run.turns : t.index \in Nat /\ t.index <= top
  BY <1>1 DEF TurnsAreSound, TurnIsSound
<1>4. whole \subseteq 0..top
  BY <1>3 DEF GroupsOf
<1>5. /\ required \subseteq LatestOf(whole, MinimumTurns) /\ required \subseteq whole
      /\ GroupsSize(run.turns, required) <= Capacity
      /\ GroupsSize(run.turns, required) \in Nat
      /\ \A g \in LatestOf(whole, MinimumTurns) :
           /\ \A h \in LatestOf(whole, MinimumTurns) : h <= g
           /\ GroupsSize(run.turns, {g}) <= Capacity
           => g \in required
  <2>1. /\ LatestOf(whole, MinimumTurns) \subseteq 0..top
        /\ LatestOf(whole, MinimumTurns) \subseteq whole
    BY <1>4 DEF LatestOf
  <2>2. GroupsSize(run.turns, required) \in Nat
    BY <1>2, GroupsAreCounted
  <2> QED BY <1>0, <1>2, <2>1, <2>2, FitFits
<1>6. room \in Nat
  BY <1>0, <1>5
<1>7. /\ Cardinality(notices) \in Nat
      /\ NoticeSize * Cardinality(notices) \in Nat
      /\ NoticeSize * Cardinality(notices) <= room
      /\ (\E c \in run.found : c.status = "conflicted") /\ NoticeSize <= room
           => "conflict" \in notices
  BY <1>6, NoticesFit
<1> DEFINE noticed == NoticeSize * Cardinality(notices)
<1>8. left \in Nat /\ left = room - noticed /\ noticed \in Nat /\ noticed <= room
  BY <1>6, <1>7
<1> HIDE DEF noticed
<1>9. /\ \A c \in E : c \in run.found \/ c = Candidate(FileDoc)
      /\ EvidenceSize(E) <= Share(left)
      /\ E \subseteq run.found \cup {Candidate(FileDoc)}
  BY DEF FittingEvidence
<1>10. IsFiniteSet(E) /\ \A c \in E : CandidateIsSound(c)
  <2>1. CandidateIsSound(Candidate(FileDoc))
    BY DEF CandidateIsSound, Candidate, FileDoc, DocIsKnown
  <2>2. IsFiniteSet({Candidate(FileDoc)})
    BY FS_Singleton
  <2>3. IsFiniteSet(run.found \cup {Candidate(FileDoc)})
    BY <1>1, <2>2, FS_Union
  <2> QED BY <1>1, <1>9, <2>1, <2>3, FS_Subset
<1>11. EvidenceSize(E) \in Nat /\ EvidenceSize(E) <= left
       /\ AreSizes([c \in E |-> DocSize(c.doc)])
  <2>1. \A c \in E : DocIsKnown(c.doc)
    BY <1>10 DEF CandidateIsSound
  <2>2. Share(left) \in Nat /\ Share(left) <= left
    BY <1>8, ShareIsLess
  <2>3. EvidenceSize(E) \in Nat /\ AreSizes([c \in E |-> DocSize(c.doc)])
    BY <1>10, <2>1, EvidenceSizes
  <2> QED BY <1>8, <1>9, <2>2, <2>3
<1>12. /\ older \subseteq whole \ required
       /\ GroupsSize(run.turns, older) <= left - EvidenceSize(E)
       /\ GroupsSize(run.turns, older) \in Nat
  <2>1. left - EvidenceSize(E) \in Nat /\ whole \ required \subseteq 0..top
    BY <1>4, <1>8, <1>11
  <2>2. GroupsSize(run.turns, older) \in Nat
    BY <1>2, GroupsAreCounted
  <2> QED BY <1>2, <2>1, <2>2, FitFits
<1>13. /\ packet.turns = {t.event : t \in sent} /\ packet.last = LastOf(sent)
       /\ packet.evidence = {Reference(c) : c \in E} /\ packet.notices = notices
       /\ packet.room = left
  OBVIOUS
<1>14. \A t \in sent : t \in run.turns /\ t.index \in whole /\ t.complete
  BY <1>5, <1>12 DEF TurnsIn, GroupsOf, IsWhole
<1>15. GroupsSize(run.turns, required \cup older)
         = GroupsSize(run.turns, required) + GroupsSize(run.turns, older)
  <2>1. required \cap older = {}
    BY <1>12
  <2> HIDE DEF IsComposed
  <2> QED BY <1>2, <2>1, GroupsAddUp
<1>16. TotalOf([e \in packet.turns |-> chat[e].size]) = GroupsSize(run.turns, required \cup older)
  <2> DEFINE f == [t \in sent |-> t.size]
             g == [e \in packet.turns |-> chat[e].size]
             h == [t \in sent |-> t.event]
  <2>1. AreSizes(f)
    BY <1>2, <1>14, TurnSizes
  <2>2. /\ DOMAIN h = DOMAIN f /\ DOMAIN g = {h[x] : x \in DOMAIN f}
    BY <1>13
  <2>3. \A x, y \in DOMAIN f : h[x] = h[y] => x = y
    BY <1>1, <1>14 DEF TurnsAreSound
  <2>4. \A x \in DOMAIN f : g[h[x]] = f[x]
    <3>1. ASSUME NEW t \in sent
          PROVE  t.event \in packet.turns /\ chat[t.event].size = t.size
      BY <1>1, <1>13, <1>14 DEF TurnsAreSound, TurnIsSound
    <3> QED BY <3>1
  <2>5. GroupsSize(run.turns, required \cup older) = TotalOf(f)
    BY DEF GroupsSize
  <2> HIDE DEF f, g, h
  <2>6. TotalOf(g) = TotalOf(f)
    BY <2>1, <2>2, <2>3, <2>4, TotalOfRenamed
  <2> QED BY <2>5, <2>6 DEF g
<1>17. EvidenceSize(packet.evidence) = EvidenceSize(E)
  <2> DEFINE f == [c \in E |-> DocSize(c.doc)]
             g == [c \in packet.evidence |-> DocSize(c.doc)]
             h == [c \in E |-> Reference(c)]
  <2>1. DOMAIN h = DOMAIN f /\ DOMAIN g = {h[x] : x \in DOMAIN f}
    BY <1>13
  <2>2. \A x, y \in DOMAIN f : h[x] = h[y] => x = y
    <3>1. ASSUME NEW x \in E, NEW y \in E, Reference(x) = Reference(y) PROVE x = y
      <4>1. x.doc = y.doc /\ x.content = y.content /\ x.status = y.status
        BY <3>1 DEF Reference
      <4> QED BY <1>10, <4>1 DEF CandidateIsSound
    <3> QED BY <3>1
  <2>3. \A x \in DOMAIN f : g[h[x]] = f[x]
    <3>1. ASSUME NEW x \in E PROVE Reference(x) \in packet.evidence /\ Reference(x).doc = x.doc
      BY <1>13 DEF Reference
    <3> QED BY <3>1
  <2>4. EvidenceSize(E) = TotalOf(f) /\ EvidenceSize(packet.evidence) = TotalOf(g) /\ AreSizes(f)
    BY <1>11 DEF EvidenceSize
  <2> HIDE DEF f, g, h
  <2> QED BY <2>1, <2>2, <2>3, <2>4, TotalOfRenamed
<1>18. PacketTotal(packet) <= Capacity
  <2>1. PacketTotal(packet) = GroupsSize(run.turns, required) + GroupsSize(run.turns, older)
                                + noticed + EvidenceSize(E)
    BY <1>13, <1>15, <1>16, <1>17 DEF PacketTotal, noticed
  <2> QED BY <1>0, <1>5, <1>8, <1>11, <1>12, <2>1
<1>19. PacketIsSound(packet)
  <2>1. \A e \in packet.turns : e \in DOMAIN chat /\ chat[e].status = "complete"
    BY <1>1, <1>13, <1>14 DEF TurnsAreSound, TurnIsSound
  <2>2. ASSUME NEW ref \in packet.evidence
        PROVE  DocIsKnown(ref.doc) /\ \E c \in E : c.status = ref.status
    <3>1. PICK c \in E : ref = Reference(c)
      BY <1>13
    <3> QED BY <1>10, <3>1 DEF Reference, CandidateIsSound
  <2>3. ASSUME NEW c \in E, c.status = "conflicted" PROVE c \in run.found
    <3>1. Candidate(FileDoc).status = "current"
      BY DEF Candidate, FileDoc
    <3> QED BY <1>9, <2>3, <3>1
  <2>4. left >= NoticeSize => NoticeSize <= room
    BY <1>0, <1>6, <1>8
  <2>5. (\E ref \in packet.evidence : ref.status = "conflicted") /\ packet.room >= NoticeSize
          => "conflict" \in packet.notices
    BY <1>7, <1>13, <2>2, <2>3, <2>4
  <2> QED BY <2>1, <2>2, <2>5 DEF PacketIsSound
<1>20. ASSUME run.fresh, chat[run.question].size <= Capacity
       PROVE  packet.last = run.question
  <2>1. PICK q \in run.turns : /\ q.event = run.question /\ q.complete
                               /\ \A u \in run.turns : u # q => u.index < q.index
    BY <1>20 DEF RunIsSound, AsksLast
  <2>2. /\ q.index \in Nat /\ q.size = chat[run.question].size /\ q.size \in Nat
        /\ \A u \in run.turns : u.index \in Nat /\ (u.index = q.index => u = q)
    BY <1>1, <1>2, <2>1 DEF TurnsAreSound, TurnIsSound, AreTurns
  <2>3. q.index \in whole /\ \A g \in whole : g \in Nat /\ g <= q.index
    BY <2>1, <2>2 DEF GroupsOf, IsWhole
  <2>4. q.index \in LatestOf(whole, MinimumTurns)
    <3>1. {h \in whole : h > q.index} = {}
      <4>1. \A h \in whole : ~(h > q.index)
        BY <2>2, <2>3
      <4> QED BY <4>1
    <3>2. Cardinality({h \in whole : h > q.index}) < MinimumTurns
      <4>1. Cardinality({h \in whole : h > q.index}) = 0
        BY <3>1, FS_EmptySet, Zenon
      <4>2. 0 < MinimumTurns
        BY <1>0
      <4> QED BY <4>1, <4>2
    <3> QED BY <2>3, <3>2 DEF LatestOf
  <2>5. GroupsSize(run.turns, {q.index}) = q.size
    <3> DEFINE f == [t \in TurnsIn(run.turns, {q.index}) |-> t.size]
    <3>1. DOMAIN f = {q} /\ f[q] = q.size
      BY <2>1, <2>2 DEF TurnsIn
    <3>2. GroupsSize(run.turns, {q.index}) = TotalOf(f)
      BY DEF GroupsSize
    <3> HIDE DEF f
    <3> QED BY <2>2, <3>1, <3>2, TotalOfOne
  <2>6. q.index \in required
    <3>1. \A h \in LatestOf(whole, MinimumTurns) : h <= q.index
      BY <2>3 DEF LatestOf
    <3> QED BY <1>5, <1>20, <2>2, <2>4, <2>5, <3>1
  <2>7. q \in sent /\ \A u \in sent : u \in run.turns
    BY <2>6 DEF TurnsIn
  <2>8. ASSUME NEW t \in sent,
               \A u \in sent : t.index > u.index \/ (t.index = u.index /\ t.event >= u.event)
        PROVE  t = q
    <3>1. t.index > q.index \/ t.index = q.index
      BY <2>7, <2>8
    <3>2. t # q => t.index < q.index
      BY <2>1, <2>7
    <3> QED BY <2>2, <2>7, <3>1, <3>2
  <2>9. \A u \in sent : q.index > u.index \/ (q.index = u.index /\ q.event >= u.event)
    <3>1. ASSUME NEW u \in sent, u # q PROVE q.index > u.index
      BY <2>1, <2>2, <2>7, <3>1
    <3>2. q.event \in Int
      BY <2>1 DEF RunIsSound, ChatIsSound, IsRunSeq
    <3> QED BY <3>1, <3>2
  <2> DEFINE lastOne == CHOOSE t \in sent : \A u \in sent :
                  t.index > u.index \/ (t.index = u.index /\ t.event >= u.event)
  <2>10. lastOne = q
    <3>1. lastOne \in sent /\ \A u \in sent :
            lastOne.index > u.index \/ (lastOne.index = u.index /\ lastOne.event >= u.event)
      BY <2>7, <2>9
    <3> HIDE DEF lastOne
    <3> QED BY <2>8, <3>1
  <2>11. LastOf(sent) = lastOne.event
    BY <2>7 DEF LastOf
  <2> QED BY <1>13, <2>1, <2>10, <2>11
<1> QED BY <1>18, <1>19, <1>20

-----------------------------------------------------------------------------
\* A message is added to the conversation.
LEMMA AppendedChat ==
  ASSUME ChatIsSound, IsRunSeq(claims)',
         NEW role, NEW text, NEW size \in Nat, NEW status, NEW parent,
         role = "assistant" => parent \in DOMAIN chat,
         chat' = AppendEvent(role, text, size, status, parent)
  PROVE  /\ ChatIsSound' /\ ChatGrows
         /\ Len(chat) \in Nat /\ Len(chat') = Len(chat) + 1 /\ Len(chat') \in DOMAIN chat'
         /\ Len(chat') \notin DOMAIN chat
         /\ chat'[Len(chat')].role = role /\ chat'[Len(chat')].status = status
         /\ \A e \in DOMAIN chat : chat'[e] = chat[e]
<1> DEFINE new == [role |-> role, text |-> text, size |-> size, status |-> status,
                   parent |-> parent, active |-> TRUE]
<1>1. chat' = Append(chat, new)
  BY DEF AppendEvent
<1>2. /\ new = [f \in EventFields |-> new[f]] /\ new.size \in Nat /\ new.role = role
      /\ new.parent = parent /\ new.status = status
  BY DEF EventFields
<1> HIDE DEF new
<1>3. IsRunSeq(chat)
  BY DEF ChatIsSound
<1>4. PICK t : t = chat'
  OBVIOUS
<1>5. /\ IsRunSeq(t) /\ Len(chat) \in Nat /\ DOMAIN chat = 1..Len(chat)
      /\ Len(t) = Len(chat) + 1 /\ DOMAIN t = 1..(Len(chat) + 1) /\ t[Len(chat) + 1] = new
      /\ \A i \in DOMAIN chat : i \in DOMAIN t /\ t[i] = chat[i] /\ i # Len(chat) + 1
  <2>1. PICK X : X = {chat[i] : i \in DOMAIN chat} \cup {new}
    OBVIOUS
  <2>2. chat \in Seq({chat[i] : i \in DOMAIN chat}) /\ new \in X
    BY <1>3, <2>1 DEF IsRunSeq
  <2>3. chat \in Seq(X)
    BY <2>1, <2>2
  <2>4. /\ Len(chat) \in Nat /\ DOMAIN chat = 1..Len(chat)
        /\ Len(chat') = Len(chat) + 1 /\ DOMAIN chat' = 1..(Len(chat) + 1)
        /\ chat'[Len(chat) + 1] = new
        /\ \A i \in DOMAIN chat : i \in DOMAIN chat' /\ chat'[i] = chat[i] /\ i # Len(chat) + 1
        /\ chat' \in Seq(X)
    BY <1>1, <2>2, <2>3
  <2>5. IsRunSeq(chat')
    BY <2>4, SeqOfItsOwn
  <2> QED BY <1>4, <2>4, <2>5
<1>6. Len(t) \in DOMAIN t /\ Len(t) \notin DOMAIN chat /\ t[Len(t)] = new
  BY <1>5
<1>7. \A i \in DOMAIN t : i \in DOMAIN chat \/ i = Len(t)
  BY <1>5
<1>8. \A e \in DOMAIN t : EventIsSound(e)'
  <2>1. ASSUME NEW e \in DOMAIN t PROVE EventIsSound(e)'
    <3>1. CASE e \in DOMAIN chat
      <4>1. EventIsSound(e) /\ t[e] = chat[e]
        BY <1>5, <3>1 DEF ChatIsSound
      <4> QED BY <1>4, <1>5, <4>1 DEF EventIsSound
    <3>2. CASE e = Len(t)
      <4>1. t[e] = new
        BY <1>6, <3>2
      <4>2. role = "assistant" => parent \in DOMAIN t
        BY <1>5
      <4> QED BY <1>2, <1>4, <4>1, <4>2 DEF EventIsSound
    <3> QED BY <1>7, <2>1, <3>1, <3>2
  <2> QED BY <2>1
<1>9. ChatIsSound'
  BY <1>4, <1>5, <1>8 DEF ChatIsSound
<1>10. ChatGrows
  BY <1>4, <1>5 DEF ChatGrows
<1> QED BY <1>2, <1>4, <1>5, <1>6, <1>9, <1>10

\* The messages are what they were, but for their status and whether they are chosen.
LEMMA ChangedChat ==
  ASSUME ChatIsSound, UNCHANGED claims, chat' = [e \in DOMAIN chat |-> chat'[e]],
         \A e \in DOMAIN chat :
           /\ chat'[e] = [f \in EventFields |-> chat'[e][f]]
           /\ \A f \in {"role", "size", "parent"} : chat'[e][f] = chat[e][f]
           /\ chat[e].status = "complete" => chat'[e].status = "complete"
  PROVE  ChatIsSound' /\ ChatGrows
<1>1. DOMAIN chat' = DOMAIN chat
  OBVIOUS
<1>2. PICK t : t = chat'
  OBVIOUS
<1>3. IsRunSeq(t)
  BY <1>2, SameLength DEF ChatIsSound
<1>4. \A e \in DOMAIN chat : chat'[e].size = chat[e].size /\ chat'[e].role = chat[e].role
                             /\ chat'[e].parent = chat[e].parent
  OBVIOUS
<1>5. \A e \in DOMAIN chat : EventIsSound(e)'
  BY <1>1, <1>4 DEF ChatIsSound, EventIsSound
<1>6. ChatIsSound'
  BY <1>1, <1>2, <1>3, <1>5 DEF ChatIsSound, IsRunSeq
<1>7. ChatGrows
  BY <1>1, <1>4 DEF ChatGrows
<1> QED BY <1>6, <1>7

\* Answers being written stay apart while responses do not step and messages stay.
AnswersStay ==
  \A e \in DOMAIN chat : chat[e].status = "streaming" =>
    e \in DOMAIN chat' /\ chat'[e].status = "streaming"

LEMMA OneRunSound ==
  ASSUME PromptInv, PacketInv', ChatIsSound', ChatGrows,
         NEW r \in DOMAIN runs, NEW new, runs' = [runs EXCEPT ![r] = new], RunIsSound(new)',
         AnswersAreApart'
  PROVE  PromptInv'
<1>1. DOMAIN runs' = DOMAIN runs /\ \A s \in DOMAIN runs : runs'[s] = IF s = r THEN new ELSE runs[s]
  BY DEF PromptInv, PacketInv, IsRunSeq
<1>2. \A s \in DOMAIN runs : RunIsSound(runs[s])'
  BY RunStaysSound DEF PromptInv
<1>3. ASSUME NEW s \in DOMAIN runs PROVE \A run : run = runs'[s] => RunIsSound(run)'
  BY <1>1, <1>2
<1> QED BY <1>1, <1>3 DEF PromptInv

LEMMA SameRunsSound ==
  ASSUME PromptInv, PacketInv', ChatIsSound', ChatGrows, AnswersStay, UNCHANGED runs
  PROVE  PromptInv'
<1>1. AnswersAreApart'
  BY DEF PromptInv, AnswersAreApart, HasItsAnswer, AnswersStay
<1>2. ASSUME NEW s \in DOMAIN runs PROVE \A run : run = runs[s] => RunIsSound(run)'
  BY RunStaysSound DEF PromptInv
<1> QED BY <1>1, <1>2 DEF PromptInv

LEMMA MovedRunsSound ==
  ASSUME PromptInv, PacketInv', NEW author, NEW sources, Revise(author, sources),
         IsRunSeq(claims)', UNCHANGED chat
  PROVE  PromptInv'
<1>1. ChatIsSound' /\ ChatGrows
  BY DEF PromptInv, ChatIsSound, EventIsSound, ChatGrows, IsRunSeq
<1>2. /\ DOMAIN runs' = DOMAIN runs
      /\ \A r \in DOMAIN runs : runs'[r] = IF PageDoc \in {c.doc : c \in runs[r].found}
                                          THEN [runs[r] EXCEPT !.moved = TRUE] ELSE runs[r]
  BY DEF Revise, Moved
<1>3. ASSUME NEW r \in DOMAIN runs
      PROVE  \A f \in RunFields \ {"moved"} : runs'[r][f] = runs[r][f]
  <2>1. RunShape(runs[r])
    BY DEF PromptInv, PacketInv
  <2> QED BY <1>2, <2>1 DEF RunShape, RunFields
<1>4. ASSUME NEW r \in DOMAIN runs
      PROVE  /\ runs'[r].question = runs[r].question /\ runs'[r].turns = runs[r].turns
             /\ runs'[r].step = runs[r].step /\ runs'[r].fresh = runs[r].fresh
             /\ runs'[r].found = runs[r].found /\ runs'[r].packet = runs[r].packet
             /\ runs'[r].answer = runs[r].answer
  BY <1>3 DEF RunFields
<1>5. ASSUME NEW r \in DOMAIN runs PROVE \A run : run = runs'[r] => RunIsSound(run)'
  <2>1. PICK old : old = runs[r]
    OBVIOUS
  <2>2. RunIsSound(old)'
    BY <1>1, <2>1, RunStaysSound DEF PromptInv
  <2>3. PICK run : run = runs'[r]
    OBVIOUS
  <2>4. /\ run.question = old.question /\ run.turns = old.turns /\ run.step = old.step
        /\ run.fresh = old.fresh /\ run.found = old.found /\ run.packet = old.packet
    BY <1>4, <2>1, <2>3
  <2>5. RunIsSound(run)'
    BY <2>2, <2>4 DEF RunIsSound, Composed
  <2> QED BY <2>3, <2>5
<1>6. AnswersAreApart'
  BY <1>2, <1>4 DEF PromptInv, AnswersAreApart, HasItsAnswer
<1> QED BY <1>1, <1>2, <1>5, <1>6 DEF PromptInv

\* A response starts, with what is said last as its question or with an earlier one.
LEMMA StartedSound ==
  ASSUME PromptInv, PacketInv', ChatIsSound', ChatGrows, AnswersStay,
         NEW question \in DOMAIN chat', NEW fresh,
         fresh => /\ question = Len(chat')
                  /\ chat'[question].role = "user" /\ chat'[question].status = "complete",
         runs' = StartRun(chat', question, fresh)
  PROVE  PromptInv'
<1> DEFINE new == [step |-> "classifying", question |-> question, fresh |-> fresh, answer |-> 0,
                   turns |-> TurnsOf(chat', question), found |-> {}, moved |-> FALSE,
                   packet |-> NoPacket]
<1>1. runs' = Append(runs, new)
  BY DEF StartRun
<1>2. /\ new.question = question /\ new.turns = TurnsOf(chat', question) /\ new.found = {}
      /\ new.packet = NoPacket /\ new.step = "classifying" /\ new.fresh = fresh
      /\ new.answer = 0
  OBVIOUS
<1> HIDE DEF new
<1>3. /\ Len(runs) \in Nat /\ DOMAIN runs = 1..Len(runs) /\ DOMAIN runs' = 1..(Len(runs) + 1)
      /\ runs'[Len(runs) + 1] = new
      /\ \A i \in DOMAIN runs : i \in DOMAIN runs' /\ runs'[i] = runs[i]
  <2>1. IsRunSeq(runs)
    BY DEF PromptInv, PacketInv
  <2> QED BY <1>1, <2>1, AppendFacts
<1>4. PICK turns, run : turns = TurnsOf(chat', question) /\ run = new
  OBVIOUS
<1>5. /\ TurnsAreSound(chat', turns)
      /\ /\ question = Len(chat')
         /\ chat'[question].role = "user" /\ chat'[question].status = "complete"
         => AsksLast(turns, question)
  <2>1. IsRunSeq(chat')
    BY DEF ChatIsSound, IsRunSeq
  <2> QED BY <1>4, <2>1, TurnsReadAreSound
<1>6. PacketIsSound(NoPacket)'
  BY DEF PacketIsSound, NoPacket
<1>7. RunIsSound(run)'
  BY <1>2, <1>4, <1>5, <1>6, FS_EmptySet DEF RunIsSound, Composed
<1>8. ASSUME NEW s \in DOMAIN runs' PROVE \A x : x = runs'[s] => RunIsSound(x)'
  <2>1. s \in DOMAIN runs \/ s = Len(runs) + 1
    BY <1>3
  <2>2. CASE s \in DOMAIN runs
    BY <1>3, <2>2, RunStaysSound DEF PromptInv
  <2>3. CASE s = Len(runs) + 1
    BY <1>3, <1>4, <1>7, <2>3
  <2> QED BY <2>1, <2>2, <2>3
<1>9. AnswersAreApart'
  <2>1. \A s \in DOMAIN runs' :
          (s \in DOMAIN runs /\ runs'[s] = runs[s]) \/ runs'[s] = new
    BY <1>3
  <2>2. ASSUME NEW s \in DOMAIN runs PROVE \A x : x = runs[s] => HasItsAnswer(x)'
    BY DEF PromptInv, AnswersAreApart, HasItsAnswer, AnswersStay
  <2>3. \A x : x = new => HasItsAnswer(x)' /\ x.step # "answering"
    BY <1>2 DEF HasItsAnswer, Steps
  <2>4. ASSUME NEW s \in DOMAIN runs' PROVE \A x : x = runs'[s] => HasItsAnswer(x)'
    BY <2>1, <2>2, <2>3
  <2>5. \A r, s \in DOMAIN runs :
          r # s /\ runs[r].step = "answering" /\ runs[s].step = "answering" =>
            runs[r].answer # runs[s].answer
    BY DEF PromptInv, AnswersAreApart
  <2>6. \A r, s \in DOMAIN runs' :
          r # s /\ runs'[r].step = "answering" /\ runs'[s].step = "answering" =>
            runs'[r].answer # runs'[s].answer
    BY <2>1, <2>3, <2>5
  <2> QED BY <2>4, <2>6 DEF AnswersAreApart
<1> QED BY <1>8, <1>9 DEF PromptInv

LEMMA PromptSend ==
  ASSUME PromptInv, PacketInv', NEW t \in Texts, Send(t)
  PROVE  PromptInv'
<1>1. /\ chat' = AppendEvent("user", t, SizeOf(t), "complete", 0)
      /\ runs' = StartRun(chat', Len(chat'), TRUE) /\ UNCHANGED claims
  BY DEF Send
<1>2. SizeOf(t) \in Nat
  BY ContextAssumption
<1>3. ChatIsSound /\ IsRunSeq(claims)'
  BY <1>1 DEF PromptInv, ChatIsSound, IsRunSeq
<1>4. /\ ChatIsSound' /\ ChatGrows /\ Len(chat') \in DOMAIN chat'
      /\ chat'[Len(chat')].role = "user" /\ chat'[Len(chat')].status = "complete"
      /\ \A e \in DOMAIN chat : chat'[e] = chat[e]
  <2>1. PICK size \in Nat : size = SizeOf(t)
    BY <1>2
  <2>2. chat' = AppendEvent("user", t, size, "complete", 0)
    BY <1>1, <2>1
  <2>3. "user" = "assistant" => 0 \in DOMAIN chat
    OBVIOUS
  <2> QED BY <1>3, <2>2, <2>3, AppendedChat
<1>5. AnswersStay
  BY <1>4 DEF AnswersStay, ChatGrows
<1> QED BY <1>1, <1>4, <1>5, StartedSound

LEMMA SameChat ==
  ASSUME ChatIsSound, IsRunSeq(claims)', UNCHANGED chat
  PROVE  ChatIsSound' /\ ChatGrows /\ AnswersStay
BY DEF ChatIsSound, EventIsSound, ChatGrows, AnswersStay, IsRunSeq

LEMMA PromptRegenerate ==
  ASSUME PromptInv, PacketInv', NEW e \in DOMAIN chat, Regenerate(e)
  PROVE  PromptInv'
<1>1. PICK question : question = IF chat[e].role = "assistant" THEN chat[e].parent ELSE e
  OBVIOUS
<1>2. runs' = StartRun(chat', question, FALSE) /\ UNCHANGED <<chat, claims>>
  BY <1>1 DEF Regenerate
<1>3. question \in DOMAIN chat'
  BY <1>1, <1>2 DEF PromptInv, ChatIsSound, EventIsSound
<1>4. ChatIsSound' /\ ChatGrows /\ AnswersStay
  BY <1>2, SameChat DEF PromptInv, ChatIsSound, IsRunSeq
<1> QED BY <1>2, <1>3, <1>4, StartedSound

\* One response steps; the answers of the others are still being written.
LEMMA OneRunApart ==
  ASSUME PromptInv, NEW r \in DOMAIN runs, NEW new, runs' = [runs EXCEPT ![r] = new],
         HasItsAnswer(new)',
         \A s \in DOMAIN runs : s # r /\ runs[s].step = "answering" =>
           /\ runs[s].answer \in DOMAIN chat' /\ chat'[runs[s].answer].status = "streaming"
           /\ new.step = "answering" => new.answer # runs[s].answer
  PROVE  AnswersAreApart'
<1>1. /\ DOMAIN runs' = DOMAIN runs
      /\ \A s \in DOMAIN runs : runs'[s] = IF s = r THEN new ELSE runs[s]
  BY DEF PromptInv, PacketInv, IsRunSeq
<1>2. ASSUME NEW s \in DOMAIN runs PROVE \A x : x = runs'[s] => HasItsAnswer(x)'
  BY <1>1 DEF PromptInv, AnswersAreApart, HasItsAnswer
<1>3. \A t, s \in DOMAIN runs :
        t # s /\ runs'[t].step = "answering" /\ runs'[s].step = "answering" =>
          runs'[t].answer # runs'[s].answer
  BY <1>1 DEF PromptInv, AnswersAreApart
<1> QED BY <1>1, <1>2, <1>3 DEF AnswersAreApart

Findable == FindableEvents \cup FindableClaims \cup FindablePages \cup FindableChunks

\* What can be found is finite, and no unfinished message is part of it.
LEMMA FoundIsSound ==
  ASSUME ChatIsSound,
         NEW D \in SUBSET Findable
  PROVE  /\ IsFiniteSet({Candidate(d) : d \in D})
         /\ \A c \in {Candidate(d) : d \in D} : CandidateIsSound(c)
<1>1. /\ Len(chat) \in Nat /\ DOMAIN chat = 1..Len(chat)
      /\ Len(claims) \in Nat /\ DOMAIN claims = 1..Len(claims)
  BY DEF ChatIsSound, IsRunSeq
<1>2. IsFiniteSet(DOMAIN chat) /\ IsFiniteSet(DOMAIN claims)
  BY <1>1, FS_Interval
<1>3. IsFiniteSet(FindableEvents)
  <2> DEFINE docs == [e \in DOMAIN chat |-> EventDoc(e)]
  <2>1. DOMAIN docs = DOMAIN chat /\ FindableEvents \subseteq {docs[e] : e \in DOMAIN chat}
    BY DEF FindableEvents
  <2> HIDE DEF docs
  <2>2. IsFiniteSet({docs[e] : e \in DOMAIN chat})
    BY <1>2, <2>1, FiniteImage
  <2> QED BY <2>1, <2>2, FS_Subset
<1>4. IsFiniteSet(FindableClaims)
  <2> DEFINE docs == [c \in DOMAIN claims |-> ClaimDoc(c)]
  <2>1. DOMAIN docs = DOMAIN claims /\ FindableClaims \subseteq {docs[c] : c \in DOMAIN claims}
    BY DEF FindableClaims
  <2> HIDE DEF docs
  <2>2. IsFiniteSet({docs[c] : c \in DOMAIN claims})
    BY <1>2, <2>1, FiniteImage
  <2> QED BY <2>1, <2>2, FS_Subset
<1>5. IsFiniteSet(FindablePages) /\ IsFiniteSet(FindableChunks)
  BY FS_EmptySet, FS_Singleton DEF FindablePages, FindableChunks
<1>6. IsFiniteSet(D)
  <2>1. IsFiniteSet(FindableEvents \cup FindableClaims)
    BY <1>3, <1>4, FS_Union
  <2>2. IsFiniteSet((FindableEvents \cup FindableClaims) \cup FindablePages)
    BY <1>5, <2>1, FS_Union
  <2>3. IsFiniteSet(((FindableEvents \cup FindableClaims) \cup FindablePages) \cup FindableChunks)
    BY <1>5, <2>2, FS_Union
  <2> QED BY <2>3, FS_Subset DEF Findable
<1>7. IsFiniteSet({Candidate(d) : d \in D})
  <2> DEFINE image == [d \in D |-> Candidate(d)]
  <2>1. DOMAIN image = D /\ {image[d] : d \in D} = {Candidate(d) : d \in D}
    OBVIOUS
  <2> HIDE DEF image
  <2> QED BY <1>6, <2>1, FiniteImage
<1>8. \A d \in D : DocIsKnown(d)
  <2>1. \A d \in FindableEvents : DocIsKnown(d)
    BY DEF FindableEvents, DocIsKnown, EventDoc
  <2>2. \A d \in FindableClaims : DocIsKnown(d)
    BY DEF FindableClaims, DocIsKnown, ClaimDoc
  <2>3. \A d \in FindablePages \cup FindableChunks : DocIsKnown(d)
    BY DEF FindablePages, FindableChunks, DocIsKnown, PageDoc, FileDoc
  <2> QED BY <2>1, <2>2, <2>3 DEF Findable
<1>9. \A d \in D : CandidateIsSound(Candidate(d))
  <2>1. ASSUME NEW d \in D PROVE CandidateIsSound(Candidate(d))
    <3>1. PICK read, said : Candidate(d) = [doc |-> d, content |-> read, status |-> said]
      BY DEF Candidate
    <3> QED BY <1>8, <3>1 DEF CandidateIsSound
  <2> QED BY <2>1
<1> QED BY <1>7, <1>9

LEMMA PromptGenerate ==
  ASSUME PromptInv, PacketInv', NEW r \in DOMAIN runs, Generate(r)
  PROVE  PromptInv'
<1>1. UNCHANGED <<chat, claims, page>> /\ runs[r].step = "classifying"
  BY DEF Generate
<1>2. PICK D \in SUBSET Findable :
        runs' = [runs EXCEPT ![r].step = "reranking", ![r].found = {Candidate(d) : d \in D},
                             ![r].moved = FALSE]
  <2>1. PICK wanted \in {"anything", "messages", "files", "memory"},
             matched \in SUBSET FindableChunks :
          LET direct ==
                Requested(wanted) \cup (IF wanted \in {"anything", "files"} THEN matched ELSE {})
          IN \E linked \in {{}, Neighbours(direct)} :
               runs' = [runs EXCEPT ![r].step = "reranking",
                                    ![r].found = {Candidate(d) : d \in direct \cup linked},
                                    ![r].moved = FALSE]
    BY DEF Generate
  <2>2. PICK direct : direct = Requested(wanted) \cup
                                 (IF wanted \in {"anything", "files"} THEN matched ELSE {})
    OBVIOUS
  <2>3. PICK linked \in {{}, Neighbours(direct)} :
          runs' = [runs EXCEPT ![r].step = "reranking",
                               ![r].found = {Candidate(d) : d \in direct \cup linked},
                               ![r].moved = FALSE]
    BY <2>1, <2>2
  <2>4. direct \subseteq Findable
    BY <2>2 DEF Requested, Findable
  <2>5. linked \subseteq FindableClaims \cup FindablePages
    BY DEF Neighbours
  <2>6. PICK D : D = direct \cup linked
    OBVIOUS
  <2>7. D \in SUBSET Findable
    BY <2>4, <2>5, <2>6 DEF Findable
  <2> QED BY <2>3, <2>6, <2>7
<1>3. PICK found : found = {Candidate(d) : d \in D}
  OBVIOUS
<1>4. IsFiniteSet(found) /\ \A c \in found : CandidateIsSound(c)
  BY <1>3, FoundIsSound DEF PromptInv
<1>5. RunIsSound(runs[r]) /\ RunShape(runs[r])
  BY DEF PromptInv, PacketInv
<1> DEFINE new == [runs[r] EXCEPT !.step = "reranking", !.found = found, !.moved = FALSE]
<1>6. runs' = [runs EXCEPT ![r] = new]
  BY <1>2, <1>3
<1>7. /\ new.question = runs[r].question /\ new.turns = runs[r].turns /\ new.fresh = runs[r].fresh
      /\ new.packet = runs[r].packet /\ new.step = "reranking" /\ new.found = found
      /\ new.answer = runs[r].answer
  BY <1>5 DEF RunShape, RunFields
<1> HIDE DEF new
<1>8. RunIsSound(new)
  BY <1>1, <1>4, <1>5, <1>7 DEF RunIsSound, Composed
<1>9. ChatIsSound' /\ ChatGrows /\ AnswersStay
  BY <1>1, SameChat DEF PromptInv, ChatIsSound, IsRunSeq
<1>10. PICK run : run = new
  OBVIOUS
<1>11. RunIsSound(run)' /\ runs' = [runs EXCEPT ![r] = run]
  BY <1>6, <1>8, <1>9, <1>10, RunStaysSound
<1>12. HasItsAnswer(run)' /\ run.step = "reranking"
  BY <1>1, <1>7, <1>10 DEF PromptInv, AnswersAreApart, HasItsAnswer, Steps
<1>13. \A s \in DOMAIN runs : runs[s].step = "answering" =>
         runs[s].answer \in DOMAIN chat' /\ chat'[runs[s].answer].status = "streaming"
  BY <1>1 DEF PromptInv, AnswersAreApart, HasItsAnswer
<1>14. AnswersAreApart'
  BY <1>11, <1>12, <1>13, OneRunApart
<1> QED BY <1>9, <1>11, <1>14, OneRunSound

LEMMA PromptCompose ==
  ASSUME PromptInv, PacketInv', NEW r \in DOMAIN runs, Compose(r)
  PROVE  PromptInv'
<1>1. UNCHANGED <<chat, claims, page>> /\ runs[r].step = "reranking"
  BY DEF Compose
<1>2. /\ RunIsSound(runs[r]) /\ RunShape(runs[r]) /\ ChatIsSound
  BY DEF PromptInv, PacketInv
<1>3. PICK packet :
        /\ PacketIsSound(packet)
        /\ PacketTotal(packet) <= Capacity
        /\ runs[r].fresh /\ chat[runs[r].question].size <= Capacity =>
             packet.last = runs[r].question
        /\ runs' = [runs EXCEPT ![r].step = "composed", ![r].turns = {}, ![r].found = {},
                                ![r].packet = packet]
  <2> DEFINE run0 == runs[r]
             attached0 == IF HasFile(run0.question) THEN {Candidate(FileDoc)} ELSE {}
             rest0 == {c \in run0.found : c.doc # FileDoc \/ attached0 = {}}
             whole0 == {g \in GroupsOf(run0.turns) : IsWhole(run0.turns, g)}
             required0 == NewestThatFit(run0.turns, LatestOf(whole0, MinimumTurns), Capacity)
             room0 == Capacity - GroupsSize(run0.turns, required0)
             notices0 == NoticesThatFit(run0.found, room0)
             left0 == room0 - NoticeSize * Cardinality(notices0)
             older0(E) == NewestThatFit(run0.turns, whole0 \ required0, left0 - EvidenceSize(E))
             sent0(E) == TurnsIn(run0.turns, required0 \cup older0(E))
             packet0(E) ==
               [turns |-> {t.event : t \in sent0(E)}, last |-> LastOf(sent0(E)),
                evidence |-> {Reference(c) : c \in E}, notices |-> notices0, room |-> left0]
  <2>1. PICK E \in FittingEvidence(rest0, attached0, Share(left0)) :
          runs' = [runs EXCEPT ![r].step = "composed", ![r].turns = {}, ![r].found = {},
                               ![r].packet = packet0(E)]
    BY DEF Compose
  <2>2. attached0 \subseteq {Candidate(FileDoc)}
    OBVIOUS
  <2>3. IsComposed(run0, whole0, required0, room0, notices0, left0, attached0, E, older0(E),
                   sent0(E), packet0(E))
    BY <2>1, <2>2 DEF IsComposed
  <2>4. PICK run : run = run0
    OBVIOUS
  <2>5. RunIsSound(run) /\ run.step = "reranking" /\ ChatIsSound
    BY <1>1, <1>2, <2>4
  <2>6. run0.fresh = runs[r].fresh /\ run0.question = runs[r].question
    OBVIOUS
  <2> HIDE DEF run0, attached0, rest0, whole0, required0, room0, notices0, left0, older0, sent0,
               packet0
  <2>7. PICK whole, required, room, notices, left, attached, older, sent, packet :
          /\ IsComposed(run, whole, required, room, notices, left, attached, E, older, sent, packet)
          /\ packet = packet0(E)
    BY <2>3, <2>4
  <2>8. /\ PacketIsSound(packet)
        /\ PacketTotal(packet) <= Capacity
        /\ run.fresh /\ chat[run.question].size <= Capacity => packet.last = run.question
    BY <2>5, <2>7, ComposedIsSound
  <2> QED BY <2>1, <2>4, <2>6, <2>7, <2>8
<1> DEFINE new == [runs[r] EXCEPT !.step = "composed", !.turns = {}, !.found = {},
                                  !.packet = packet]
<1>6. runs' = [runs EXCEPT ![r] = new]
  BY <1>3
<1>7. /\ new.question = runs[r].question /\ new.turns = {} /\ new.fresh = runs[r].fresh
      /\ new.packet = packet /\ new.step = "composed" /\ new.found = {}
      /\ new.answer = runs[r].answer
  BY <1>2 DEF RunShape, RunFields
<1> HIDE DEF new
<1>8. RunIsSound(new)
  <2>1. TurnsAreSound(chat, {}) /\ IsFiniteSet({})
    BY FS_EmptySet DEF TurnsAreSound
  <2> QED BY <1>2, <1>3, <1>7, <2>1 DEF RunIsSound
<1>9. ChatIsSound' /\ ChatGrows /\ AnswersStay
  BY <1>1, SameChat DEF PromptInv, ChatIsSound, IsRunSeq
<1>10. PICK run : run = new
  OBVIOUS
<1>11. RunIsSound(run)' /\ runs' = [runs EXCEPT ![r] = run]
  BY <1>6, <1>8, <1>9, <1>10, RunStaysSound
<1>12. HasItsAnswer(run)' /\ run.step = "composed"
  BY <1>1, <1>7, <1>10 DEF PromptInv, AnswersAreApart, HasItsAnswer, Steps
<1>13. \A s \in DOMAIN runs : runs[s].step = "answering" =>
         runs[s].answer \in DOMAIN chat' /\ chat'[runs[s].answer].status = "streaming"
  BY <1>1 DEF PromptInv, AnswersAreApart, HasItsAnswer
<1>14. AnswersAreApart'
  BY <1>11, <1>12, <1>13, OneRunApart
<1> QED BY <1>9, <1>11, <1>14, OneRunSound

LEMMA PromptBeginAnswer ==
  ASSUME PromptInv, PacketInv', NEW r \in DOMAIN runs, BeginAnswer(r)
  PROVE  PromptInv'
<1>1. /\ runs[r].step = "composed" /\ UNCHANGED <<claims, page>>
      /\ chat' = AppendEvent("assistant", "answer", AnswerSize, "streaming", runs[r].question)
      /\ runs' = [runs EXCEPT ![r].step = "answering", ![r].answer = Len(chat')]
  BY DEF BeginAnswer
<1>2. RunIsSound(runs[r]) /\ RunShape(runs[r]) /\ ChatIsSound
  BY DEF PromptInv, PacketInv
<1>3. AnswerSize \in Nat /\ IsRunSeq(claims)' /\ runs[r].question \in DOMAIN chat
  BY <1>1, <1>2, SizesInTokens DEF ChatIsSound, IsRunSeq, RunIsSound
<1>4. /\ ChatIsSound' /\ ChatGrows /\ Len(chat') \in DOMAIN chat' /\ Len(chat') \notin DOMAIN chat
      /\ chat'[Len(chat')].status = "streaming"
      /\ \A e \in DOMAIN chat : chat'[e] = chat[e]
  <2>1. PICK size \in Nat : size = AnswerSize
    BY <1>3
  <2>2. PICK question \in DOMAIN chat : question = runs[r].question
    BY <1>3
  <2>3. chat' = AppendEvent("assistant", "answer", size, "streaming", question)
    BY <1>1, <2>1, <2>2
  <2>4. "assistant" = "assistant" => question \in DOMAIN chat
    OBVIOUS
  <2> QED BY <1>2, <1>3, <2>3, <2>4, AppendedChat
<1> DEFINE new == [runs[r] EXCEPT !.step = "answering", !.answer = Len(chat')]
<1>6. runs' = [runs EXCEPT ![r] = new]
  BY <1>1
<1>7. /\ new.question = runs[r].question /\ new.turns = runs[r].turns /\ new.fresh = runs[r].fresh
      /\ new.packet = runs[r].packet /\ new.step = "answering" /\ new.found = runs[r].found
      /\ new.answer = Len(chat')
  BY <1>2 DEF RunShape, RunFields
<1> HIDE DEF new
<1>10. PICK run : run = new
  OBVIOUS
<1>8. RunIsSound(run)
  BY <1>1, <1>2, <1>7, <1>10 DEF RunIsSound, Composed
<1>11. RunIsSound(run)' /\ runs' = [runs EXCEPT ![r] = run]
  BY <1>4, <1>6, <1>8, <1>10, RunStaysSound
<1>12. HasItsAnswer(run)'
  BY <1>4, <1>7, <1>10 DEF HasItsAnswer, Steps
<1>13. \A s \in DOMAIN runs : runs[s].step = "answering" =>
         /\ runs[s].answer \in DOMAIN chat /\ runs[s].answer \in DOMAIN chat'
         /\ chat'[runs[s].answer].status = "streaming"
  BY <1>4 DEF PromptInv, AnswersAreApart, HasItsAnswer, ChatGrows
<1>14. AnswersAreApart'
  <2>1. \A s \in DOMAIN runs : runs[s].step = "answering" => run.answer # runs[s].answer
    BY <1>4, <1>7, <1>10, <1>13
  <2> QED BY <1>11, <1>12, <1>13, <2>1, OneRunApart
<1> QED BY <1>4, <1>11, <1>14, OneRunSound

\* The tools' results are not messages that are written on.
LEMMA PromptCallTool ==
  ASSUME PromptInv, PacketInv', NEW r \in DOMAIN runs, CallTool(r)
  PROVE  PromptInv'
<1>1. /\ UNCHANGED <<claims, page, runs>>
      /\ chat' = AppendEvent("tool", "tool", 1, "complete", runs[r].question)
  BY DEF CallTool
<1>2. ChatIsSound /\ IsRunSeq(claims)'
  BY <1>1 DEF PromptInv, ChatIsSound, IsRunSeq
<1>3. ChatIsSound' /\ ChatGrows /\ \A e \in DOMAIN chat : chat'[e] = chat[e]
  <2>1. PICK question : question = runs[r].question
    OBVIOUS
  <2>2. chat' = AppendEvent("tool", "tool", 1, "complete", question)
    BY <1>1, <2>1
  <2>3. "tool" = "assistant" => question \in DOMAIN chat
    OBVIOUS
  <2>4. 1 \in Nat
    OBVIOUS
  <2> QED BY <1>2, <2>2, <2>3, <2>4, AppendedChat
<1>4. AnswersStay
  BY <1>3 DEF AnswersStay, ChatGrows
<1> QED BY <1>1, <1>3, <1>4, SameRunsSound

\* A response is finished: its answer is complete and the others to its question are put
\* aside; the answers of other responses are still being written.
LEMMA PromptFinishAnswer ==
  ASSUME PromptInv, PacketInv', NEW r \in DOMAIN runs, FinishAnswer(r)
  PROVE  PromptInv'
<1>1. PICK a : a = runs[r].answer
  OBVIOUS
<1>2. /\ runs[r].step = "answering" /\ UNCHANGED <<claims, page>>
      /\ chat' = [e \in DOMAIN chat |->
                    IF e = a THEN [chat[e] EXCEPT !.status = "complete"]
                    ELSE IF e \in OtherAnswers(a) THEN [chat[e] EXCEPT !.active = FALSE]
                    ELSE chat[e]]
      /\ runs' = [runs EXCEPT ![r].step = "complete"]
  BY <1>1 DEF FinishAnswer
<1>3. /\ RunIsSound(runs[r]) /\ RunShape(runs[r]) /\ HasItsAnswer(runs[r]) /\ ChatIsSound
  BY DEF PromptInv, PacketInv, AnswersAreApart
<1>4. ASSUME NEW e \in DOMAIN chat
      PROVE  /\ chat'[e] = [f \in EventFields |-> chat'[e][f]]
             /\ \A f \in {"role", "size", "parent"} : chat'[e][f] = chat[e][f]
             /\ chat'[e].status = IF e = a THEN "complete" ELSE chat[e].status
  <2>1. chat[e] = [f \in EventFields |-> chat[e][f]]
    BY <1>3 DEF ChatIsSound, EventIsSound
  <2>2. chat'[e] = IF e = a THEN [chat[e] EXCEPT !.status = "complete"]
                   ELSE IF e \in OtherAnswers(a) THEN [chat[e] EXCEPT !.active = FALSE]
                   ELSE chat[e]
    BY <1>2
  <2> QED BY <2>1, <2>2 DEF EventFields
<1>5. chat' = [e \in DOMAIN chat |-> chat'[e]]
  BY <1>2
<1>6. ChatIsSound' /\ ChatGrows
  BY <1>2, <1>3, <1>4, <1>5, ChangedChat
<1> DEFINE new == [runs[r] EXCEPT !.step = "complete"]
<1>7. runs' = [runs EXCEPT ![r] = new]
  BY <1>2
<1>8. /\ new.question = runs[r].question /\ new.turns = runs[r].turns /\ new.fresh = runs[r].fresh
      /\ new.packet = runs[r].packet /\ new.step = "complete" /\ new.found = runs[r].found
      /\ new.answer = runs[r].answer
  BY <1>3 DEF RunShape, RunFields
<1> HIDE DEF new
<1>10. PICK run : run = new
  OBVIOUS
<1>9. RunIsSound(run)
  BY <1>2, <1>3, <1>8, <1>10 DEF RunIsSound, Composed
<1>11. RunIsSound(run)' /\ runs' = [runs EXCEPT ![r] = run]
  BY <1>6, <1>7, <1>9, <1>10, RunStaysSound
<1>12. HasItsAnswer(run)' /\ run.step = "complete"
  BY <1>8, <1>10 DEF HasItsAnswer, Steps
<1>13. ASSUME NEW s \in DOMAIN runs, s # r, runs[s].step = "answering"
       PROVE  runs[s].answer \in DOMAIN chat' /\ chat'[runs[s].answer].status = "streaming"
  <2>1. /\ runs[s].answer \in DOMAIN chat /\ chat[runs[s].answer].status = "streaming"
        /\ runs[s].answer # a
    BY <1>1, <1>2, <1>13 DEF PromptInv, AnswersAreApart, HasItsAnswer
  <2> QED BY <1>4, <1>5, <2>1
<1>14. AnswersAreApart'
  BY <1>11, <1>12, <1>13, OneRunApart
<1> QED BY <1>6, <1>11, <1>14, OneRunSound

\* A response breaks off: what is written of its answer stays, and is not complete.
LEMMA PromptBreakOff ==
  ASSUME PromptInv, PacketInv', NEW r \in DOMAIN runs, BreakOff(r)
  PROVE  PromptInv'
<1>1. PICK a : a = runs[r].answer
  OBVIOUS
<1>2. /\ runs[r].step \notin {"complete", "failed"} /\ UNCHANGED <<claims, page>>
      /\ chat' = IF a = 0 THEN chat ELSE [chat EXCEPT ![a].status = "failed"]
      /\ runs' = [runs EXCEPT ![r].step = "failed", ![r].turns = {}, ![r].found = {}]
  BY <1>1 DEF BreakOff
<1>3. /\ RunIsSound(runs[r]) /\ RunShape(runs[r]) /\ HasItsAnswer(runs[r]) /\ ChatIsSound
  BY DEF PromptInv, PacketInv, AnswersAreApart
<1>4. a # 0 => /\ a \in DOMAIN chat /\ chat[a].status = "streaming"
               /\ runs[r].step = "answering"
  BY <1>1, <1>2, <1>3 DEF HasItsAnswer, Steps
<1>5. DOMAIN chat' = DOMAIN chat /\ chat' = [e \in DOMAIN chat |-> chat'[e]]
  <2>1. chat = [e \in DOMAIN chat |-> chat[e]]
    BY <1>3 DEF ChatIsSound, IsRunSeq
  <2> QED BY <1>2, <2>1
<1>6. ASSUME NEW e \in DOMAIN chat
      PROVE  /\ chat'[e] = [f \in EventFields |-> chat'[e][f]]
             /\ \A f \in {"role", "size", "parent"} : chat'[e][f] = chat[e][f]
             /\ chat'[e].status = IF a # 0 /\ e = a THEN "failed" ELSE chat[e].status
  <2>1. chat[e] = [f \in EventFields |-> chat[e][f]]
    BY <1>3 DEF ChatIsSound, EventIsSound
  <2>2. chat'[e] = IF a # 0 /\ e = a THEN [chat[e] EXCEPT !.status = "failed"] ELSE chat[e]
    BY <1>2
  <2> QED BY <2>1, <2>2 DEF EventFields
<1>7. ChatIsSound' /\ ChatGrows
  <2>1. \A e \in DOMAIN chat : chat[e].status = "complete" => chat'[e].status = "complete"
    BY <1>4, <1>6
  <2> QED BY <1>2, <1>3, <1>5, <1>6, <2>1, ChangedChat
<1> DEFINE new == [runs[r] EXCEPT !.step = "failed", !.turns = {}, !.found = {}]
<1>8. runs' = [runs EXCEPT ![r] = new]
  BY <1>2
<1>9. /\ new.question = runs[r].question /\ new.turns = {} /\ new.fresh = runs[r].fresh
      /\ new.packet = runs[r].packet /\ new.step = "failed" /\ new.found = {}
      /\ new.answer = runs[r].answer
  BY <1>3 DEF RunShape, RunFields
<1> HIDE DEF new
<1>10. PICK run : run = new
  OBVIOUS
<1>11. RunIsSound(run)
  <2>1. TurnsAreSound(chat, {}) /\ IsFiniteSet({})
    BY FS_EmptySet DEF TurnsAreSound
  <2> QED BY <1>3, <1>9, <1>10, <2>1 DEF RunIsSound, Composed
<1>12. RunIsSound(run)' /\ runs' = [runs EXCEPT ![r] = run]
  BY <1>7, <1>8, <1>10, <1>11, RunStaysSound
<1>13. HasItsAnswer(run)' /\ run.step = "failed"
  BY <1>9, <1>10 DEF HasItsAnswer, Steps
<1>14. ASSUME NEW s \in DOMAIN runs, s # r, runs[s].step = "answering"
       PROVE  runs[s].answer \in DOMAIN chat' /\ chat'[runs[s].answer].status = "streaming"
  <2>1. runs[s].answer \in DOMAIN chat /\ chat[runs[s].answer].status = "streaming"
    BY <1>14 DEF PromptInv, AnswersAreApart, HasItsAnswer
  <2>2. a # 0 => runs[s].answer # a
    BY <1>1, <1>4, <1>14 DEF PromptInv, AnswersAreApart
  <2> QED BY <1>5, <1>6, <2>1, <2>2
<1>15. AnswersAreApart'
  BY <1>12, <1>13, <1>14, OneRunApart
<1> QED BY <1>7, <1>12, <1>15, OneRunSound

\* Another answer is chosen: only what is complete is put aside, and no status changes.
LEMMA PromptChooseAnswer ==
  ASSUME PromptInv, PacketInv', NEW e \in DOMAIN chat, ChooseAnswer(e)
  PROVE  PromptInv'
<1>1. /\ UNCHANGED <<claims, page, runs>>
      /\ chat' = [d \in DOMAIN chat |->
                    IF d = e THEN [chat[d] EXCEPT !.active = TRUE]
                    ELSE IF d \in OtherAnswers(e) /\ chat[d].status = "complete"
                      THEN [chat[d] EXCEPT !.active = FALSE]
                    ELSE chat[d]]
  BY DEF ChooseAnswer
<1>2. ChatIsSound
  BY DEF PromptInv
<1>3. ASSUME NEW d \in DOMAIN chat
      PROVE  /\ chat'[d] = [f \in EventFields |-> chat'[d][f]]
             /\ \A f \in {"role", "size", "parent"} : chat'[d][f] = chat[d][f]
             /\ chat'[d].status = chat[d].status
  <2>1. chat[d] = [f \in EventFields |-> chat[d][f]]
    BY <1>2 DEF ChatIsSound, EventIsSound
  <2>2. \/ chat'[d] = [chat[d] EXCEPT !.active = TRUE]
        \/ chat'[d] = [chat[d] EXCEPT !.active = FALSE]
        \/ chat'[d] = chat[d]
    BY <1>1
  <2> QED BY <2>1, <2>2 DEF EventFields
<1>4. chat' = [d \in DOMAIN chat |-> chat'[d]]
  BY <1>1
<1>5. ChatIsSound' /\ ChatGrows
  BY <1>1, <1>2, <1>3, <1>4, ChangedChat
<1>6. AnswersStay
  BY <1>3, <1>4 DEF AnswersStay
<1> QED BY <1>1, <1>5, <1>6, SameRunsSound

\* The claims stay a sequence when one is added and others change.
LEMMA ClaimsGrow ==
  ASSUME NEW s, s = [c \in DOMAIN claims |-> s[c]], IsRunSeq(claims), NEW new,
         claims' = Append(s, new)
  PROVE  IsRunSeq(claims)'
<1>1. IsRunSeq(s)
  <2>1. DOMAIN claims = 1..Len(claims) /\ Len(claims) \in Nat
    BY DEF IsRunSeq
  <2>2. s \in Seq({s[i] : i \in 1..Len(claims)})
    BY <2>1
  <2> QED BY <2>2, SeqOfItsOwn
<1>2. PICK X : X = {s[i] : i \in DOMAIN s} \cup {new}
  OBVIOUS
<1>3. s \in Seq({s[i] : i \in DOMAIN s}) /\ new \in X
  BY <1>1, <1>2 DEF IsRunSeq
<1>4. s \in Seq(X)
  BY <1>2, <1>3
<1>5. claims' \in Seq(X)
  BY <1>3, <1>4
<1>6. IsRunSeq(claims')
  BY <1>5, SeqOfItsOwn
<1> QED BY <1>6 DEF IsRunSeq

\* The worker and the user change what is remembered: prompts stay as they are.
LEMMA PromptMemory ==
  ASSUME PromptInv, PacketInv',
         \/ \E a \in DOMAIN chat, contradicts \in BOOLEAN : Learn(a, contradicts)
         \/ \E c \in DOMAIN claims : Correct(c) \/ ExpireClaim(c)
         \/ EditPage
  PROVE  PromptInv'
<1>1. ChatIsSound /\ IsRunSeq(claims) /\ claims = [c \in DOMAIN claims |-> claims[c]]
  BY DEF PromptInv, ChatIsSound, IsRunSeq
<1>2. ASSUME NEW a \in DOMAIN chat, NEW contradicts \in BOOLEAN, Learn(a, contradicts)
      PROVE  PromptInv'
  <2>1. PICK s, new : claims' = Append(s, new) /\ s = [c \in DOMAIN claims |-> s[c]]
    <3> DEFINE disputed == [c \in DOMAIN claims |->
                 IF claims[c].status = "current" THEN [claims[c] EXCEPT !.status = "conflicted"]
                 ELSE claims[c]]
    <3>1. \/ claims' = Append(disputed, [status |-> "conflicted", sources |-> {a}])
          \/ claims' = Append(claims, [status |-> "current", sources |-> {a}])
      BY <1>2 DEF Learn
    <3>2. disputed = [c \in DOMAIN claims |-> disputed[c]]
      OBVIOUS
    <3> HIDE DEF disputed
    <3> QED BY <1>1, <3>1, <3>2
  <2>2. IsRunSeq(claims)'
    BY <1>1, <2>1, ClaimsGrow
  <2>3. Revise("model", SourcesOf(claims')) /\ UNCHANGED chat
    BY <1>2 DEF Learn
  <2>4. PICK sources : Revise("model", sources)
    BY <2>3
  <2> QED BY <2>2, <2>3, <2>4, MovedRunsSound
<1>3. ASSUME NEW c \in DOMAIN claims, Correct(c) PROVE PromptInv'
  <2>1. /\ chat' = AppendEvent("note", "note", 1, "complete", 0) /\ UNCHANGED runs
        /\ claims' = Append([claims EXCEPT ![c].status = "superseded"],
                            [status |-> "current", sources |-> {Len(chat')}])
    BY <1>3 DEF Correct
  <2>2. PICK s : s = [claims EXCEPT ![c].status = "superseded"]
    OBVIOUS
  <2>3. PICK new : claims' = Append(s, new)
    BY <2>1, <2>2
  <2>4. s = [d \in DOMAIN claims |-> s[d]]
    BY <1>1, <2>2
  <2>5. IsRunSeq(claims)'
    BY <1>1, <2>3, <2>4, ClaimsGrow
  <2>6. ChatIsSound' /\ ChatGrows /\ \A e \in DOMAIN chat : chat'[e] = chat[e]
    <3>1. "note" = "assistant" => 0 \in DOMAIN chat
      OBVIOUS
    <3>2. 1 \in Nat
      OBVIOUS
    <3> QED BY <1>1, <2>1, <2>5, <3>1, <3>2, AppendedChat
  <2>7. AnswersStay
    BY <2>6 DEF AnswersStay, ChatGrows
  <2> QED BY <2>1, <2>6, <2>7, SameRunsSound
<1>4. ASSUME NEW c \in DOMAIN claims, ExpireClaim(c) PROVE PromptInv'
  <2>1. claims' = [claims EXCEPT ![c].status = "expired"] /\ UNCHANGED <<chat, page, runs>>
    BY <1>4 DEF ExpireClaim
  <2>2. PICK s : s = claims'
    OBVIOUS
  <2>3. s = [d \in DOMAIN claims |-> s[d]]
    BY <1>1, <2>1, <2>2
  <2>4. IsRunSeq(claims)'
    <3>1. IsRunSeq(s)
      <4>1. DOMAIN claims = 1..Len(claims) /\ Len(claims) \in Nat
        BY <1>1 DEF IsRunSeq
      <4>2. s \in Seq({s[i] : i \in 1..Len(claims)})
        BY <2>3, <4>1
      <4> QED BY <4>2, SeqOfItsOwn
    <3> QED BY <2>2, <3>1 DEF IsRunSeq
  <2>5. ChatIsSound' /\ ChatGrows /\ AnswersStay
    BY <1>1, <2>1, <2>4, SameChat
  <2> QED BY <2>1, <2>5, SameRunsSound
<1>5. ASSUME EditPage PROVE PromptInv'
  <2>1. Revise("user", {}) /\ UNCHANGED <<chat, claims>>
    BY <1>5 DEF EditPage
  <2>2. IsRunSeq(claims)'
    BY <1>1, <2>1 DEF IsRunSeq
  <2> QED BY <2>1, <2>2, MovedRunsSound
<1> QED BY <1>2, <1>3, <1>4, <1>5

LEMMA PromptStep == PromptInv /\ [ContextNext]_contextVars => PromptInv'
<1> SUFFICES ASSUME PromptInv, [ContextNext]_contextVars PROVE PromptInv'
  OBVIOUS
<1>1. PacketInv'
  BY PacketStep DEF PromptInv
<1>2. CASE UNCHANGED contextVars
  <2>1. UNCHANGED <<chat, claims, page, runs>>
    BY <1>2 DEF contextVars
  <2>2. ChatIsSound' /\ ChatGrows /\ AnswersStay
    BY <2>1, SameChat DEF PromptInv, ChatIsSound, IsRunSeq
  <2> QED BY <1>1, <2>1, <2>2, SameRunsSound
<1>3. CASE ContextNext
  <2>1. CASE \E t \in Texts : Send(t)
    BY <1>1, <2>1, PromptSend
  <2>2. CASE \E e \in DOMAIN chat : Regenerate(e) \/ ChooseAnswer(e)
    BY <1>1, <2>2, PromptRegenerate, PromptChooseAnswer
  <2>3. CASE \E r \in DOMAIN runs : Generate(r) \/ Compose(r) \/ BeginAnswer(r)
    BY <1>1, <2>3, PromptGenerate, PromptCompose, PromptBeginAnswer
  <2>4. CASE \E r \in DOMAIN runs : CallTool(r) \/ FinishAnswer(r) \/ BreakOff(r)
    BY <1>1, <2>4, PromptCallTool, PromptFinishAnswer, PromptBreakOff
  <2> QED BY <1>1, <1>3, <2>1, <2>2, <2>3, <2>4, PromptMemory DEF ContextNext
<1> QED BY <1>2, <1>3

\* Whatever is said, remembered, corrected and regenerated meanwhile: a new question that
\* fits is asked last, what is sent fits the window, nothing unfinished is in it, and a
\* claim in conflict is not shown without a word when there was room for one.
THEOREM PromptsAreSound == ContextSpec => []PromptIsSound
<1>1. ContextInit => PromptInv
  <2> SUFFICES ASSUME ContextInit PROVE PromptInv
    OBVIOUS
  <2>1. chat = <<>> /\ claims = <<>> /\ runs = <<>>
    BY DEF ContextInit
  <2>2. IsRunSeq(<<>>)
    BY DEF IsRunSeq
  <2> QED BY <2>1, <2>2 DEF PromptInv, PacketInv, ChatIsSound, AnswersAreApart
<1>2. PromptInv => PromptIsSound
  <2> SUFFICES ASSUME PromptInv PROVE PromptIsSound
    OBVIOUS
  <2>1. ASSUME NEW r \in DOMAIN runs PROVE RunIsSound(runs[r])
    BY DEF PromptInv
  <2>2. QuestionIsAsked
    BY <2>1 DEF QuestionIsAsked, HasPacket, RunIsSound, Composed
  <2>3. PromptFits
    BY <2>1 DEF PromptFits, HasPacket, RunIsSound, Composed, PacketTotal
  <2>4. UnfinishedStaysOut
    BY <2>1 DEF UnfinishedStaysOut, RunIsSound, PacketIsSound, DocIsKnown
  <2>5. ConflictIsSaid
    BY <2>1 DEF ConflictIsSaid, RunIsSound, PacketIsSound
  <2> QED BY <2>2, <2>3, <2>4, <2>5 DEF PromptIsSound
<1> QED BY <1>1, <1>2, PromptStep, PTL DEF ContextSpec
=============================================================================

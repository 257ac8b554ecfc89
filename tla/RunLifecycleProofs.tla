------------------------- MODULE RunLifecycleProofs -------------------------
(* What a response run promises for any number of runs, questions, deltas and *)
(* crashes.                                                                    *)
EXTENDS RunLifecycle, FiniteSetTheorems, TLAPS

(* What a run's status says of everything else that carries its id.            *)
Untouched(r) ==
  /\ answer[r].status = "none" /\ budget[r] = "none"

RowsAgree(r) ==
  /\ answer[r].text <= deltas[r]
  /\ run[r].status \in {"absent", "pending", "retrieving"} =>
       /\ ~run[r].named /\ deltas[r] = 0 /\ requests[r] = 0
       /\ r \notin revisions
  /\ run[r].status \in {"absent", "pending"} => Untouched(r)
  /\ run[r].status = "streaming" => run[r].named

(* How far #execute is says what it has written so far.                        *)
BeforeRegister == {"retrieving", "append", "name", "creating", "streaming", "register"}
AfterRegister == {"record", "enqueue", "complete"}
Failing == {"settle", "spoil", "end"}

IdleAgrees(r) ==
  /\ exec[r].pc = "none" =>
       /\ exec[r] = Idle
       /\ server = "up" => run[r].status \in Ended \cup {"absent"}
       /\ server = "starting" => run[r].status \in Ended \cup {"absent", "pending"}
  /\ exec[r].pc = "start" =>
       /\ exec[r] = [Idle EXCEPT !.pc = "start"]
       /\ run[r].status \in Ended \cup {"pending"}

ExecAgrees(r) ==
  /\ exec[r].pc \in BeforeRegister \cup AfterRegister \cup Failing =>
       /\ exec[r].text = deltas[r]
       /\ requests[r] = IF exec[r].sent THEN 1 ELSE 0
       /\ run[r].status \in {"retrieving", "streaming"}
  /\ exec[r].pc \in {"retrieving", "append", "name"} => run[r].status = "retrieving"
  /\ exec[r].pc \in {"creating", "streaming", "register"} \cup AfterRegister =>
       run[r].status = "streaming"
  /\ exec[r].pc \in {"retrieving", "append", "name", "creating"} => ~exec[r].sent
  /\ exec[r].pc \in {"streaming", "register"} \cup AfterRegister => exec[r].sent

WritesAgree(r) ==
  /\ exec[r].pc = "retrieving" => budget[r] = "none"
  /\ exec[r].pc \in {"append", "name", "creating", "streaming", "register", "record"} =>
       budget[r] = "reserved"
  /\ exec[r].pc \in {"enqueue", "complete"} => budget[r] = "settled"
  /\ exec[r].pc \in {"retrieving", "append"} => answer[r].status = "none"
  /\ exec[r].pc \in {"name", "creating", "streaming"} => answer[r].status = "streaming"
  /\ exec[r].pc \in {"register"} \cup AfterRegister =>
       answer[r].status = "complete" /\ answer[r].text = deltas[r]
  /\ exec[r].pc \in BeforeRegister => r \notin revisions
  /\ exec[r].pc \in AfterRegister => r \in revisions
  /\ exec[r].pc = "complete" => compile[r] # "none"

FailureAgrees(r) ==
  exec[r].pc \in Failing =>
    /\ exec[r].ends # "none"
    /\ r \in revisions => exec[r].ends = "failed"
    /\ answer[r].status = "none" => deltas[r] = 0 /\ answer[r].text = 0
    /\ exec[r].pc = "end" => /\ answer[r].status \notin {"streaming", "complete"}
                             /\ answer[r].text = deltas[r]

EndedAgrees(r) == run[r].status \in Ended => exec[r].pc \in {"none", "start"}

(* The invariants of RunLifecycle, for one run.                                *)
Promises(r) ==
  /\ run[r].status = "complete" =>
       /\ answer[r].status = "complete" /\ answer[r].text = deltas[r]
       /\ r \in revisions
       /\ budget[r] = "settled"
       /\ compile[r] # "none"
  /\ endings[r] = IF run[r].status \in Ended THEN <<run[r].status>> ELSE <<>>
  /\ requests[r] <= 1
  /\ requests[r] = 1 => budget[r] \in {"reserved", "settled"}
  /\ run[r].status \in Ended =>
       /\ answer[r].text = deltas[r]
       /\ answer[r].status = "streaming" => ~run[r].named

Local(r) ==
  /\ RowsAgree(r) /\ IdleAgrees(r) /\ ExecAgrees(r) /\ WritesAgree(r)
  /\ FailureAgrees(r) /\ EndedAgrees(r) /\ Promises(r)

(* Which answer is chosen, with the exceptions a step within a stretch or a    *)
(* death makes.                                                                *)
OneChosen == \A r, s \in chosen : Question[r] = Question[s] => r = s
ChosenIsActive == \A r \in chosen : answer[r].active
ShownAt(r) ==
  /\ exec[r].pc \in AfterRegister => r \in chosen
  /\ answer[r].active /\ answer[r].status = "complete" /\ r \notin chosen =>
       run[r].status = "streaming" /\ (server = "down" \/ thread = r)
CompleteAt(r) ==
  r \in chosen =>
    \/ answer[r].status = "complete"
    \/ run[r].status = "failed"
    \/ /\ run[r].status = "streaming"
       /\ server = "down" \/ (exec[r].pc = "end" /\ exec[r].ends = "failed")

Choice ==
  OneChosen /\ ChosenIsActive /\ \A r \in Runs : ShownAt(r) /\ CompleteAt(r)

(* The two halves of the type invariant.                                       *)
RowsOK ==
  /\ run \in [Runs -> RunRow]
  /\ answer \in [Runs -> AnswerRow]
  /\ chosen \subseteq revisions /\ revisions \subseteq Runs
  /\ budget \in [Runs -> {"none", "reserved", "settled", "released"}]
  /\ compile \in [Runs -> {"none", "queued", "cancelled"}]
  /\ deltas \in [Runs -> 0..MaxDeltas]
  /\ endings \in [Runs -> Seq(Ended)]
  /\ requests \in [Runs -> Nat]
  /\ server \in {"up", "starting", "down"}
  /\ crashes \in 0..MaxCrashes

ExecOK ==
  /\ exec \in [Runs -> Execution]
  /\ thread \in Runs \cup {NoRun}
  /\ \A r \in Runs : /\ exec[r].pc \in Unsuspended <=> thread = r
                     /\ server = "down" => exec[r] = Idle

IInv == RowsOK /\ ExecOK /\ (\A r \in Runs : Local(r)) /\ Choice

LEMMA Initially == Init => IInv
<1> SUFFICES ASSUME Init PROVE IInv
  OBVIOUS
<1> USE DEF Init, Idle, Ended
<1>1. RowsOK BY BoundsAssumption DEF RowsOK, RunRow, AnswerRow
<1>2. ExecOK
  BY NoRunAssumption, BoundsAssumption DEF ExecOK, Suspended, Unsuspended, Execution
<1>3. \A r \in Runs : Local(r)
  BY BoundsAssumption
  DEF Local, RowsAgree, Untouched, IdleAgrees, ExecAgrees, WritesAgree, FailureAgrees,
      EndedAgrees, Promises, BeforeRegister, AfterRegister, Failing
<1>4. Choice
  BY DEF Choice, OneChosen, ChosenIsActive, ShownAt, CompleteAt, AfterRegister
<1> QED BY <1>1, <1>2, <1>3, <1>4 DEF IInv

(* What a step that leaves a run's rows and execution alone leaves of it.      *)
LEMMA Frame ==
  ASSUME NEW s \in Runs, Local(s),
         run'[s] = run[s], answer'[s].status = answer[s].status,
         answer'[s].text = answer[s].text, s \in revisions' <=> s \in revisions,
         budget'[s] = budget[s], compile'[s] = "none" <=> compile[s] = "none",
         deltas'[s] = deltas[s], endings'[s] = endings[s], exec'[s] = exec[s],
         requests'[s] = requests[s], server' = server
  PROVE  Local(s)'
<1> USE DEF Local
<1>1. RowsAgree(s)' BY DEF RowsAgree, Untouched
<1>2. IdleAgrees(s)' BY DEF IdleAgrees
<1>3. ExecAgrees(s)' BY DEF ExecAgrees
<1>4. WritesAgree(s)' BY DEF WritesAgree
<1>5. FailureAgrees(s)' BY DEF FailureAgrees
<1>6. EndedAgrees(s)' BY DEF EndedAgrees
<1>7. Promises(s)' BY DEF Promises
<1> QED BY <1>1, <1>2, <1>3, <1>4, <1>5, <1>6, <1>7

(* r's execution goes to pc and keeps the rest; the others stay where they are. *)
Moved(r, pc) ==
  /\ exec'[r].pc = pc
  /\ exec'[r].text = exec[r].text /\ exec'[r].sent = exec[r].sent
  /\ exec'[r].ends = exec[r].ends /\ exec'[r].aborted = exec[r].aborted
  /\ \A s \in Runs \ {r} : exec'[s] = exec[s]

LEMMA GoesOn ==
  ASSUME NEW r \in Runs, NEW pc \in Unsuspended, ExecOK, thread \in {NoRun, r},
         server # "down", server' = server, GoOn(r, pc)
  PROVE  ExecOK' /\ Moved(r, pc)
<1>1. exec' \in [Runs -> Execution]
  BY DEF ExecOK, GoOn, Execution
<1>2. Moved(r, pc)
  BY DEF ExecOK, GoOn, Execution, Moved
<1>3. \A s \in Runs : exec'[s].pc \in Unsuspended <=> thread' = s
  BY <1>2, NoRunAssumption DEF ExecOK, GoOn, Moved
<1> QED BY <1>1, <1>2, <1>3 DEF ExecOK, GoOn

LEMMA Waits ==
  ASSUME NEW r \in Runs, NEW pc \in Suspended, ExecOK, thread \in {NoRun, r},
         server # "down", server' = server, Await(r, pc)
  PROVE  ExecOK' /\ Moved(r, pc)
<1>1. exec' \in [Runs -> Execution]
  BY DEF ExecOK, Await, Execution
<1>2. Moved(r, pc)
  BY DEF ExecOK, Await, Execution, Moved
<1>3. \A s \in Runs : exec'[s].pc \in Unsuspended <=> thread' = s
  BY <1>2, NoRunAssumption DEF ExecOK, Await, Moved, Suspended, Unsuspended
<1> QED BY <1>1, <1>2, <1>3 DEF ExecOK, Await

LEMMA Returns ==
  ASSUME NEW r \in Runs, ExecOK, thread \in {NoRun, r},
         server # "down", server' = server, Return(r)
  PROVE  /\ ExecOK' /\ exec'[r] = Idle
         /\ \A s \in Runs \ {r} : exec'[s] = exec[s]
<1>1. exec' \in [Runs -> Execution]
  BY BoundsAssumption DEF ExecOK, Return, Execution, Idle, Suspended
<1>2. exec'[r] = Idle /\ \A s \in Runs \ {r} : exec'[s] = exec[s]
  BY DEF ExecOK, Return
<1>3. \A s \in Runs : exec'[s].pc \in Unsuspended <=> thread' = s
  BY <1>2, NoRunAssumption DEF ExecOK, Return, Unsuspended, Idle
<1> QED BY <1>1, <1>2, <1>3 DEF ExecOK, Return

(* What a step of r leaves of the choice.                                      *)
LEMMA ChoiceFrame ==
  ASSUME NEW r \in Runs, Choice, chosen' = chosen, chosen \subseteq Runs,
         \A s \in Runs \ {r} : run'[s] = run[s] /\ answer'[s] = answer[s] /\ exec'[s] = exec[s],
         server # "down", thread \in {NoRun, r},
         r \in chosen => answer'[r].active,
         ShownAt(r)', CompleteAt(r)'
  PROVE  Choice'
<1>1. OneChosen' BY DEF Choice, OneChosen
<1>2. ChosenIsActive' BY DEF Choice, ChosenIsActive
<1>3. ASSUME NEW s \in Runs \ {r} PROVE ShownAt(s)' /\ CompleteAt(s)'
  BY <1>3, NoRunAssumption DEF Choice, ShownAt, CompleteAt
<1> QED BY <1>1, <1>2, <1>3 DEF Choice

LEMMA PostKeeps == \A r \in Runs : IInv /\ Post(r) => IInv'
<1> SUFFICES ASSUME NEW r \in Runs, IInv, Post(r) PROVE IInv'
  OBVIOUS
<1> USE DEF Post, Free, answers, stream, process
<1>1. RowsOK /\ ExecOK /\ Local(r) /\ Choice BY DEF IInv
<1>2. ExecOK' /\ Moved(r, "start") BY <1>1, GoesOn DEF Unsuspended, RowsOK
<1>3. RowsOK' BY <1>1 DEF RowsOK, RunRow
<1>4. \A s \in Runs \ {r} : Local(s)' BY <1>1, <1>2, Frame DEF IInv, RowsOK, Moved
<1>5. /\ run[r].status \in Ended \cup {"absent"}
      /\ run'[r].named = run[r].named
      /\ run'[r].status = IF run[r].status = "absent" THEN "pending" ELSE run[r].status
      /\ exec'[r] = [Idle EXCEPT !.pc = "start"]
      /\ \A s \in Runs \ {r} : run'[s] = run[s]
  <2>1. exec[r] = Idle /\ run[r].status \in Ended \cup {"absent"}
    BY <1>1 DEF Local, IdleAgrees
  <2>2. exec'[r] = [exec[r] EXCEPT !.pc = "start"]
    BY <1>1, <1>2 DEF ExecOK, GoOn
  <2>3. /\ run'[r].named = run[r].named
        /\ run'[r].status = IF run[r].status = "absent" THEN "pending" ELSE run[r].status
        /\ \A s \in Runs \ {r} : run'[s] = run[s]
    BY <1>1 DEF RowsOK, RunRow
  <2> QED BY <2>1, <2>2, <2>3
<1>6. Local(r)'
  <2> USE DEF Ended
  <2>1. RowsAgree(r)' BY <1>1, <1>5 DEF Local, RowsAgree, Untouched
  <2>2. IdleAgrees(r)' BY <1>1, <1>5 DEF Local, IdleAgrees, Idle
  <2>3. ExecAgrees(r)' /\ WritesAgree(r)' /\ FailureAgrees(r)' /\ EndedAgrees(r)'
    BY <1>5 DEF ExecAgrees, WritesAgree, FailureAgrees, EndedAgrees, Idle,
        BeforeRegister, AfterRegister, Failing
  <2>4. Promises(r)' BY <1>1, <1>5 DEF Local, Promises
  <2> QED BY <2>1, <2>2, <2>3, <2>4 DEF Local
<1>7. ShownAt(r)' /\ CompleteAt(r)' /\ (r \in chosen => answer'[r].active)
  BY <1>1, <1>5, NoRunAssumption
  DEF Choice, ShownAt, CompleteAt, Ended, RowsOK, Local, RowsAgree, Untouched, ChosenIsActive,
      AfterRegister, Idle
<1>8. Choice' BY <1>1, <1>2, <1>5, <1>7, ChoiceFrame DEF RowsOK, Moved
<1> QED BY <1>2, <1>3, <1>4, <1>6, <1>8 DEF IInv

LEMMA StartKeeps == \A r \in Runs : IInv /\ Start(r) => IInv'
<1> SUFFICES ASSUME NEW r \in Runs, IInv, Start(r) PROVE IInv'
  OBVIOUS
<1> USE DEF Start, At, answers, stream, process, SetRunStatus, Claimable
<1>1. RowsOK /\ ExecOK /\ Local(r) /\ Choice BY DEF IInv
<1>2. server # "down" /\ exec[r] = [Idle EXCEPT !.pc = "start"]
      /\ run[r].status \in Ended \cup {"pending"}
  BY <1>1 DEF Local, IdleAgrees, ExecOK, Idle
<1>3. CASE run[r].status = "pending"
  <2>1. Await(r, "retrieving") /\ run' = [run EXCEPT ![r].status = "retrieving"]
    BY <1>3
  <2>2. ExecOK' /\ Moved(r, "retrieving") BY <1>1, <1>2, <2>1, Waits DEF Suspended
  <2>3. RowsOK' BY <1>1, <2>1 DEF RowsOK, RunRow
  <2>4. /\ run'[r].status = "retrieving" /\ run'[r].named = run[r].named
        /\ \A s \in Runs \ {r} : run'[s] = run[s]
    BY <1>1, <2>1 DEF RowsOK, RunRow
  <2>5. \A s \in Runs \ {r} : Local(s)' BY <1>1, <2>2, <2>4, Frame DEF IInv, Moved
  <2>6. Local(r)'
    BY <1>1, <1>2, <1>3, <2>2, <2>4
    DEF Local, RowsAgree, Untouched, IdleAgrees, ExecAgrees, WritesAgree, FailureAgrees,
        EndedAgrees, Promises, BeforeRegister, AfterRegister, Failing, Ended, Idle, Moved
  <2>7. ShownAt(r)' /\ CompleteAt(r)' /\ (r \in chosen => answer'[r].active)
    BY <1>1, <1>3, <2>2, <2>4
    DEF Choice, ShownAt, CompleteAt, RowsOK, Local, RowsAgree, Untouched, ChosenIsActive,
        AfterRegister, Moved
  <2>8. Choice' BY <1>1, <1>2, <2>2, <2>4, <2>7, ChoiceFrame DEF RowsOK, Moved
  <2> QED BY <2>2, <2>3, <2>5, <2>6, <2>8 DEF IInv
<1>4. CASE run[r].status # "pending"
  <2>1. Return(r) /\ run' = run BY <1>4
  <2>2. /\ ExecOK' /\ exec'[r] = Idle
        /\ \A s \in Runs \ {r} : exec'[s] = exec[s]
    BY <1>1, <1>2, <2>1, Returns
  <2>3. RowsOK' BY <1>1, <2>1 DEF RowsOK
  <2>4. \A s \in Runs \ {r} : Local(s)' BY <1>1, <2>1, <2>2, Frame DEF IInv
  <2>5. Local(r)'
    BY <1>1, <1>2, <1>4, <2>1, <2>2
    DEF Local, RowsAgree, Untouched, IdleAgrees, ExecAgrees, WritesAgree, FailureAgrees,
        EndedAgrees, Promises, BeforeRegister, AfterRegister, Failing, Ended, Idle
  <2>6. ShownAt(r)' /\ CompleteAt(r)' /\ (r \in chosen => answer'[r].active)
    BY <1>1, <1>2, <1>4, <2>1, <2>2
    DEF Choice, ShownAt, CompleteAt, ChosenIsActive, Ended, AfterRegister, Idle
  <2>7. Choice' BY <1>1, <1>2, <2>1, <2>2, <2>6, ChoiceFrame DEF RowsOK
  <2> QED BY <2>2, <2>3, <2>4, <2>5, <2>7 DEF IInv
<1> QED BY <1>3, <1>4

LEMMA ReserveBudgetKeeps == \A r \in Runs : IInv /\ ReserveBudget(r) => IInv'
<1> SUFFICES ASSUME NEW r \in Runs, IInv, ReserveBudget(r) PROVE IInv'
  OBVIOUS
<1> USE DEF ReserveBudget, Awaits, Free, answers, stream, process
<1>1. RowsOK /\ ExecOK /\ Local(r) /\ Choice BY DEF IInv
<1>2. ExecOK' /\ Moved(r, "append") BY <1>1, GoesOn DEF Unsuspended, RowsOK
<1>3. /\ RowsOK'
      /\ budget'[r] = "reserved" /\ \A s \in Runs \ {r} : budget'[s] = budget[s]
  BY <1>1 DEF RowsOK
<1>4. \A s \in Runs \ {r} : Local(s)' BY <1>1, <1>2, <1>3, Frame DEF IInv, RowsOK, Moved
<1>5. Local(r)'
  BY <1>1, <1>2, <1>3
  DEF Local, RowsAgree, Untouched, IdleAgrees, ExecAgrees, WritesAgree, FailureAgrees,
      EndedAgrees, Promises, BeforeRegister, AfterRegister, Failing, Ended, Moved
<1>6. ShownAt(r)' /\ CompleteAt(r)' /\ (r \in chosen => answer'[r].active)
  BY <1>1, <1>2
  DEF Choice, ShownAt, CompleteAt, ChosenIsActive, RowsOK, Local, WritesAgree,
      BeforeRegister, AfterRegister, Moved
<1>7. Choice' BY <1>1, <1>2, <1>6, ChoiceFrame DEF RowsOK, Moved
<1> QED BY <1>2, <1>3, <1>4, <1>5, <1>7 DEF IInv

LEMMA AppendAnswerKeeps == \A r \in Runs : IInv /\ AppendAnswer(r) => IInv'
<1> SUFFICES ASSUME NEW r \in Runs, IInv, AppendAnswer(r) PROVE IInv'
  OBVIOUS
<1> USE DEF AppendAnswer, At, stream, process
<1>1. RowsOK /\ ExecOK /\ Local(r) /\ Choice BY DEF IInv
<1>2. server # "down" BY <1>1 DEF ExecOK, Idle
<1>3. ExecOK' /\ Moved(r, "name") BY <1>1, <1>2, GoesOn DEF Unsuspended
<1>4. RowsOK' BY <1>1, BoundsAssumption DEF RowsOK, AnswerRow
<1>5. /\ answer'[r] = [status |-> "streaming", active |-> TRUE, text |-> 0]
      /\ \A s \in Runs \ {r} : answer'[s] = answer[s]
  BY <1>1 DEF RowsOK
<1>6. \A s \in Runs \ {r} : Local(s)' BY <1>1, <1>3, <1>5, Frame DEF IInv, Moved
<1>7. Local(r)'
  BY <1>1, <1>3, <1>5
  DEF Local, RowsAgree, Untouched, IdleAgrees, ExecAgrees, WritesAgree, FailureAgrees,
      EndedAgrees, Promises, BeforeRegister, AfterRegister, Failing, Ended, Moved, RowsOK
<1>8. ShownAt(r)' /\ CompleteAt(r)' /\ (r \in chosen => answer'[r].active)
  BY <1>1, <1>3, <1>5
  DEF ShownAt, CompleteAt, RowsOK, Local, WritesAgree, BeforeRegister, AfterRegister, Moved
<1>9. Choice' BY <1>1, <1>2, <1>3, <1>5, <1>8, ChoiceFrame DEF RowsOK, Moved
<1> QED BY <1>3, <1>4, <1>6, <1>7, <1>9 DEF IInv

LEMMA NameAnswerKeeps == \A r \in Runs : IInv /\ NameAnswer(r) => IInv'
<1> SUFFICES ASSUME NEW r \in Runs, IInv, NameAnswer(r) PROVE IInv'
  OBVIOUS
<1> USE DEF NameAnswer, At, answers, stream, process
<1>1. RowsOK /\ ExecOK /\ Local(r) /\ Choice BY DEF IInv
<1>2. server # "down" BY <1>1 DEF ExecOK, Idle
<1>3. ExecOK' /\ Moved(r, "creating") BY <1>1, <1>2, Waits DEF Suspended
<1>4. RowsOK'
  <2>1. run[r] \in RunRow BY <1>1 DEF RowsOK
  <2>2. [run[r] EXCEPT !.status = "streaming", !.named = TRUE] \in RunRow
    BY <2>1 DEF RunRow
  <2> QED BY <1>1, <2>2 DEF RowsOK
<1>5. /\ run'[r].status = "streaming" /\ run'[r].named
      /\ \A s \in Runs \ {r} : run'[s] = run[s]
  BY <1>1 DEF RowsOK, RunRow
<1>6. \A s \in Runs \ {r} : Local(s)' BY <1>1, <1>3, <1>5, Frame DEF IInv, Moved
<1>7. Local(r)'
  BY <1>1, <1>3, <1>5
  DEF Local, RowsAgree, Untouched, IdleAgrees, ExecAgrees, WritesAgree, FailureAgrees,
      EndedAgrees, Promises, BeforeRegister, AfterRegister, Failing, Ended, Moved
<1>8. ShownAt(r)' /\ CompleteAt(r)' /\ (r \in chosen => answer'[r].active)
  BY <1>1, <1>3
  DEF ShownAt, CompleteAt, RowsOK, Local, WritesAgree, BeforeRegister, AfterRegister, Moved
<1>9. Choice' BY <1>1, <1>2, <1>3, <1>5, <1>8, ChoiceFrame DEF RowsOK, Moved
<1> QED BY <1>3, <1>4, <1>6, <1>7, <1>9 DEF IInv

LEMMA SendRequestKeeps == \A r \in Runs : IInv /\ SendRequest(r) => IInv'
<1> SUFFICES ASSUME NEW r \in Runs, IInv, SendRequest(r) PROVE IInv'
  OBVIOUS
<1> USE DEF SendRequest, Awaits, Free, answers, stream, process
<1>1. RowsOK /\ ExecOK /\ Local(r) /\ Choice BY DEF IInv
<1>2. /\ exec'[r] = [exec[r] EXCEPT !.pc = "streaming", !.sent = TRUE]
      /\ \A s \in Runs \ {r} : exec'[s] = exec[s]
  BY <1>1 DEF ExecOK
<1>3. /\ exec'[r].pc = "streaming" /\ exec'[r].text = exec[r].text /\ exec'[r].sent
      /\ exec'[r].ends = exec[r].ends
  BY <1>1, <1>2 DEF ExecOK, Execution
<1>4. ExecOK'
  <2>1. exec[r] \in Execution BY <1>1 DEF ExecOK
  <2>2. [exec[r] EXCEPT !.pc = "streaming", !.sent = TRUE] \in Execution
    BY <2>1 DEF Execution, Suspended
  <2>3. exec' \in [Runs -> Execution] BY <1>1, <2>2 DEF ExecOK
  <2> QED BY <1>1, <1>2, <1>3, <2>3, NoRunAssumption DEF ExecOK, Unsuspended
<1>5. /\ RowsOK'
      /\ requests'[r] = requests[r] + 1
      /\ \A s \in Runs \ {r} : requests'[s] = requests[s]
  BY <1>1 DEF RowsOK
<1>6. \A s \in Runs \ {r} : Local(s)' BY <1>1, <1>2, <1>5, Frame DEF IInv
<1>7. Local(r)'
  BY <1>1, <1>3, <1>5
  DEF Local, RowsAgree, Untouched, IdleAgrees, ExecAgrees, WritesAgree, FailureAgrees,
      EndedAgrees, Promises, BeforeRegister, AfterRegister, Failing, Ended
<1>8. ShownAt(r)' /\ CompleteAt(r)' /\ (r \in chosen => answer'[r].active)
  BY <1>1, <1>3
  DEF ShownAt, CompleteAt, RowsOK, Local, WritesAgree, BeforeRegister, AfterRegister, Moved
<1>9. Choice' BY <1>1, <1>2, <1>8, ChoiceFrame DEF RowsOK
<1> QED BY <1>4, <1>5, <1>6, <1>7, <1>9 DEF IInv

LEMMA DeltaKeeps == \A r \in Runs : IInv /\ Delta(r) => IInv'
<1> SUFFICES ASSUME NEW r \in Runs, IInv, Delta(r) PROVE IInv'
  OBVIOUS
<1> USE DEF Delta, Awaits, Free, process
<1>1. RowsOK /\ ExecOK /\ Local(r) /\ Choice BY DEF IInv
<1>2. exec[r].text \in Nat /\ exec[r].text + 1 \in 0..MaxDeltas /\ exec[r].text = deltas[r]
  BY <1>1, BoundsAssumption DEF ExecOK, Execution, Local, ExecAgrees, BeforeRegister
<1>3. /\ exec'[r] = [exec[r] EXCEPT !.text = exec[r].text + 1]
      /\ \A s \in Runs \ {r} : exec'[s] = exec[s]
  BY <1>1 DEF ExecOK
<1>4. /\ exec'[r].pc = "streaming" /\ exec'[r].text = exec[r].text + 1
      /\ exec'[r].sent = exec[r].sent /\ exec'[r].ends = exec[r].ends
  BY <1>1, <1>3 DEF ExecOK, Execution
<1>5. ExecOK'
  <2>1. exec' \in [Runs -> Execution] BY <1>1, <1>2 DEF ExecOK, Execution
  <2> QED BY <1>1, <1>3, <1>4, <2>1, NoRunAssumption DEF ExecOK, Unsuspended
<1>6. /\ deltas'[r] = exec[r].text + 1
      /\ \A s \in Runs \ {r} : deltas'[s] = deltas[s] /\ answer'[s] = answer[s]
      /\ answer'[r].status = "streaming" /\ answer'[r].active = answer[r].active
      /\ answer'[r].text \in {answer[r].text, exec[r].text + 1}
  BY <1>1, <1>2 DEF RowsOK, AnswerRow, Local, WritesAgree
<1>7. RowsOK'
  <2>1. deltas' \in [Runs -> 0..MaxDeltas] BY <1>1, <1>2 DEF RowsOK
  <2>2. answer[r] \in AnswerRow BY <1>1 DEF RowsOK
  <2>3. [answer[r] EXCEPT !.text = exec[r].text + 1] \in AnswerRow
    BY <1>2, <2>2 DEF AnswerRow
  <2>4. answer' \in [Runs -> AnswerRow] BY <1>1, <2>3 DEF RowsOK
  <2> QED BY <1>1, <2>1, <2>4 DEF RowsOK
<1>8. \A s \in Runs \ {r} : Local(s)' BY <1>1, <1>3, <1>6, Frame DEF IInv
<1>9. Local(r)'
  <2>1. answer[r].text \in Nat BY <1>1, BoundsAssumption DEF RowsOK, AnswerRow
  <2> QED
    BY <1>1, <1>2, <1>4, <1>6, <2>1
    DEF Local, RowsAgree, Untouched, IdleAgrees, ExecAgrees, WritesAgree, FailureAgrees,
      EndedAgrees, Promises, BeforeRegister, AfterRegister, Failing, Ended
<1>10. ShownAt(r)' /\ CompleteAt(r)' /\ (r \in chosen => answer'[r].active)
  BY <1>1, <1>4, <1>6
  DEF ShownAt, CompleteAt, RowsOK, Local, WritesAgree, BeforeRegister, AfterRegister
<1>11. Choice' BY <1>1, <1>3, <1>6, <1>10, ChoiceFrame DEF RowsOK
<1> QED BY <1>5, <1>7, <1>8, <1>9, <1>11 DEF IInv

LEMMA FinalizeCompleteKeeps == \A r \in Runs : IInv /\ FinalizeComplete(r) => IInv'
<1> SUFFICES ASSUME NEW r \in Runs, IInv, FinalizeComplete(r) PROVE IInv'
  OBVIOUS
<1> USE DEF FinalizeComplete, Awaits, Free, stream, process
<1>1. RowsOK /\ ExecOK /\ Local(r) /\ Choice BY DEF IInv
<1>2. ExecOK' /\ Moved(r, "register") BY <1>1, GoesOn DEF Unsuspended, RowsOK
<1>3. exec[r].text \in 0..MaxDeltas BY <1>1 DEF ExecOK, Execution
<1>4. /\ answer'[r].status = "complete" /\ answer'[r].text = exec[r].text
      /\ answer'[r].active = answer[r].active
      /\ \A s \in Runs \ {r} : answer'[s] = answer[s]
  BY <1>1 DEF RowsOK, AnswerRow
<1>5. RowsOK'
  <2>1. answer[r] \in AnswerRow BY <1>1 DEF RowsOK
  <2>2. [answer[r] EXCEPT !.status = "complete", !.text = exec[r].text] \in AnswerRow
    BY <1>3, <2>1 DEF AnswerRow
  <2>3. answer' \in [Runs -> AnswerRow] BY <1>1, <2>2 DEF RowsOK
  <2> QED BY <1>1, <2>3 DEF RowsOK
<1>6. \A s \in Runs \ {r} : Local(s)' BY <1>1, <1>2, <1>4, Frame DEF IInv, Moved
<1>7. Local(r)'
  BY <1>1, <1>2, <1>3, <1>4
  DEF Local, RowsAgree, Untouched, IdleAgrees, ExecAgrees, WritesAgree, FailureAgrees,
      EndedAgrees, Promises, BeforeRegister, AfterRegister, Failing, Ended, Moved
<1>8. ShownAt(r)' /\ CompleteAt(r)' /\ (r \in chosen => answer'[r].active)
  BY <1>1, <1>2, <1>4
  DEF ShownAt, CompleteAt, RowsOK, Local, WritesAgree, ExecAgrees, BeforeRegister,
      AfterRegister, Moved, GoOn
<1>9. Choice' BY <1>1, <1>2, <1>4, <1>8, ChoiceFrame DEF RowsOK, Moved
<1> QED BY <1>2, <1>5, <1>6, <1>7, <1>9 DEF IInv

LEMMA ActiveType ==
  ASSUME NEW a \in AnswerRow, NEW b \in BOOLEAN
  PROVE  [a EXCEPT !.active = b] \in AnswerRow
BY DEF AnswerRow

LEMMA RegisterKeeps == \A r \in Runs : IInv /\ RegisterAssistantRevision(r) => IInv'
<1> SUFFICES ASSUME NEW r \in Runs, IInv, RegisterAssistantRevision(r) PROVE IInv'
  OBVIOUS
<1> USE DEF RegisterAssistantRevision, At, stream, process
<1>1. RowsOK /\ ExecOK /\ Local(r) /\ Choice BY DEF IInv
<1>2. server # "down" BY <1>1 DEF ExecOK, Idle
<1>3. ExecOK' /\ Moved(r, "record") BY <1>1, <1>2, GoesOn DEF Unsuspended
<1>4. \A s \in Runs :
        /\ answer'[s].status = answer[s].status /\ answer'[s].text = answer[s].text
        /\ answer'[s].active = ((s = r) \/ (answer[s].active /\ s \notin Older(r)))
  BY <1>1 DEF RowsOK, AnswerRow
<1>5. RowsOK'
  <2>1. ASSUME NEW s \in Runs
        PROVE  [answer[s] EXCEPT !.active = (s = r) \/ (@ /\ s \notin Older(r))] \in AnswerRow
    <3>1. answer[s] \in AnswerRow BY <1>1 DEF RowsOK
    <3>2. ((s = r) \/ (answer[s].active /\ s \notin Older(r))) \in BOOLEAN OBVIOUS
    <3> QED BY <3>1, <3>2, ActiveType
  <2>2. answer' \in [Runs -> AnswerRow] BY <2>1
  <2> QED BY <1>1, <2>2 DEF RowsOK, Siblings
<1>6. \A s \in Runs \ {r} : Local(s)' BY <1>1, <1>3, <1>4, Frame DEF IInv, Moved
<1>7. Local(r)'
  BY <1>1, <1>3, <1>4
  DEF Local, RowsAgree, Untouched, IdleAgrees, ExecAgrees, WritesAgree, FailureAgrees,
      EndedAgrees, Promises, BeforeRegister, AfterRegister, Failing, Ended, Moved
<1>8. OneChosen'
  BY <1>1 DEF Choice, OneChosen, Siblings, RowsOK
<1>9. ChosenIsActive'
  <2> SUFFICES ASSUME NEW s \in chosen' PROVE answer'[s].active
    BY DEF ChosenIsActive
  <2>1. CASE s = r BY <2>1, <1>4
  <2>2. CASE s # r
    <3>1. s \in chosen /\ s \notin Siblings(r) BY <2>2
    <3>2. s \in Runs /\ answer[s].active
      BY <3>1, <1>1 DEF RowsOK, Choice, ChosenIsActive
    <3> QED BY <3>1, <3>2, <1>4 DEF Older
  <2> QED BY <2>1, <2>2
<1>10. ASSUME NEW s \in Runs PROVE ShownAt(s)' /\ CompleteAt(s)'
  <2>1. CASE s = r
    BY <2>1, <1>1, <1>4 DEF ShownAt, CompleteAt, Local, WritesAgree
  <2>2. CASE s \in Siblings(r)
    <3>1. exec'[s].pc \notin AfterRegister
      BY <1>1, <1>3, <2>2 DEF ExecOK, Siblings, Moved, AfterRegister, Unsuspended
    <3> QED BY <2>2, <3>1, <1>4 DEF ShownAt, CompleteAt, Siblings, Older
  <2>3. CASE s \notin Siblings(r) \cup {r}
    <3>1. s \in chosen' <=> s \in chosen BY <2>3
    <3>2. answer'[s].active => answer[s].active BY <1>4, <2>3
    <3> QED
      BY <1>1, <1>2, <1>3, <1>4, <2>3, <3>1, <3>2, NoRunAssumption
      DEF Choice, ShownAt, CompleteAt, Moved
  <2> QED BY <2>1, <2>2, <2>3
<1> QED BY <1>3, <1>5, <1>6, <1>7, <1>8, <1>9, <1>10 DEF IInv, Choice

LEMMA RecordModelCallKeeps == \A r \in Runs : IInv /\ RecordModelCall(r) => IInv'
<1> SUFFICES ASSUME NEW r \in Runs, IInv, RecordModelCall(r) PROVE IInv'
  OBVIOUS
<1> USE DEF RecordModelCall, At, answers, stream, process
<1>1. RowsOK /\ ExecOK /\ Local(r) /\ Choice BY DEF IInv
<1>2. server # "down" BY <1>1 DEF ExecOK, Idle
<1>3. ExecOK' /\ Moved(r, "enqueue") BY <1>1, <1>2, GoesOn DEF Unsuspended
<1>4. /\ RowsOK'
      /\ budget'[r] = "settled"
      /\ \A s \in Runs \ {r} : budget'[s] = budget[s]
  BY <1>1 DEF RowsOK
<1>5. \A s \in Runs \ {r} : Local(s)' BY <1>1, <1>3, <1>4, Frame DEF IInv, Moved
<1>6. Local(r)'
  BY <1>1, <1>3, <1>4
  DEF Local, RowsAgree, Untouched, IdleAgrees, ExecAgrees, WritesAgree, FailureAgrees,
      EndedAgrees, Promises, BeforeRegister, AfterRegister, Failing, Ended, Moved
<1>7. ShownAt(r)' /\ CompleteAt(r)' /\ (r \in chosen => answer'[r].active)
  BY <1>1, <1>3, <1>4
  DEF Choice, ChosenIsActive, ShownAt, CompleteAt, Local, WritesAgree, ExecAgrees,
      FailureAgrees, AfterRegister, Failing, Moved, GoOn
<1>8. Choice' BY <1>1, <1>2, <1>3, <1>4, <1>7, ChoiceFrame DEF RowsOK, Moved
<1> QED BY <1>3, <1>4, <1>5, <1>6, <1>8 DEF IInv

LEMMA EnqueueCompileKeeps == \A r \in Runs : IInv /\ EnqueueCompile(r) => IInv'
<1> SUFFICES ASSUME NEW r \in Runs, IInv, EnqueueCompile(r) PROVE IInv'
  OBVIOUS
<1> USE DEF EnqueueCompile, At, stream, process
<1>1. RowsOK /\ ExecOK /\ Local(r) /\ Choice BY DEF IInv
<1>2. server # "down" BY <1>1 DEF ExecOK, Idle
<1>3. ExecOK' /\ Moved(r, "complete") BY <1>1, <1>2, GoesOn DEF Unsuspended
<1>4. /\ RowsOK'
      /\ compile'[r] = "queued"
      /\ \A s \in Runs \ {r} : compile'[s] = compile[s]
  BY <1>1 DEF RowsOK
<1>5. \A s \in Runs \ {r} : Local(s)' BY <1>1, <1>3, <1>4, Frame DEF IInv, Moved
<1>6. Local(r)'
  BY <1>1, <1>3, <1>4
  DEF Local, RowsAgree, Untouched, IdleAgrees, ExecAgrees, WritesAgree, FailureAgrees,
      EndedAgrees, Promises, BeforeRegister, AfterRegister, Failing, Ended, Moved
<1>7. ShownAt(r)' /\ CompleteAt(r)' /\ (r \in chosen => answer'[r].active)
  BY <1>1, <1>3, <1>4
  DEF Choice, ChosenIsActive, ShownAt, CompleteAt, Local, WritesAgree, ExecAgrees,
      FailureAgrees, AfterRegister, Failing, Moved, GoOn
<1>8. Choice' BY <1>1, <1>2, <1>3, <1>4, <1>7, ChoiceFrame DEF RowsOK, Moved
<1> QED BY <1>3, <1>4, <1>5, <1>6, <1>8 DEF IInv

LEMMA SettleFailureKeeps == \A r \in Runs : IInv /\ SettleFailure(r) => IInv'
<1> SUFFICES ASSUME NEW r \in Runs, IInv, SettleFailure(r) PROVE IInv'
  OBVIOUS
<1> USE DEF SettleFailure, At, answers, stream, process
<1>1. RowsOK /\ ExecOK /\ Local(r) /\ Choice BY DEF IInv
<1>2. server # "down" BY <1>1 DEF ExecOK, Idle
<1>3. ExecOK' /\ Moved(r, "spoil") BY <1>1, <1>2, GoesOn DEF Unsuspended
<1>4. /\ RowsOK'
      /\ budget'[r] = IF budget[r] = "reserved"
                       THEN IF exec[r].sent THEN "settled" ELSE "released"
                       ELSE budget[r]
      /\ \A s \in Runs \ {r} : budget'[s] = budget[s]
  BY <1>1 DEF RowsOK
<1>5. \A s \in Runs \ {r} : Local(s)' BY <1>1, <1>3, <1>4, Frame DEF IInv, Moved
<1>6. Local(r)'
  BY <1>1, <1>3, <1>4
  DEF Local, RowsAgree, Untouched, IdleAgrees, ExecAgrees, WritesAgree, FailureAgrees,
      EndedAgrees, Promises, BeforeRegister, AfterRegister, Failing, Ended, Moved
<1>7. ShownAt(r)' /\ CompleteAt(r)' /\ (r \in chosen => answer'[r].active)
  BY <1>1, <1>3, <1>4
  DEF Choice, ChosenIsActive, ShownAt, CompleteAt, Local, WritesAgree, ExecAgrees,
      FailureAgrees, AfterRegister, Failing, Moved, GoOn
<1>8. Choice' BY <1>1, <1>2, <1>3, <1>4, <1>7, ChoiceFrame DEF RowsOK, Moved
<1> QED BY <1>3, <1>4, <1>5, <1>6, <1>8 DEF IInv

LEMMA CompleteKeeps == \A r \in Runs : IInv /\ Complete(r) => IInv'
<1> SUFFICES ASSUME NEW r \in Runs, IInv, Complete(r) PROVE IInv'
  OBVIOUS
<1> USE DEF Complete, At, answers, process, SetRunStatus
<1>1. RowsOK /\ ExecOK /\ Local(r) /\ Choice BY DEF IInv
<1>2. server # "down" BY <1>1 DEF ExecOK, Idle
<1>3. /\ ExecOK' /\ exec'[r] = Idle
      /\ \A s \in Runs \ {r} : exec'[s] = exec[s]
  BY <1>1, <1>2, Returns
<1>4. /\ run'[r].status = "complete" /\ run'[r].named = run[r].named
      /\ \A s \in Runs \ {r} : run'[s] = run[s] /\ endings'[s] = endings[s]
  BY <1>1 DEF RowsOK, RunRow
<1>5. endings[r] = <<>> /\ endings'[r] = <<"complete">>
  <2>1. run[r].status \in {"retrieving", "streaming"}
    BY <1>1 DEF Local, ExecAgrees, AfterRegister
  <2>2. endings[r] = <<>> BY <1>1, <2>1 DEF Local, Promises, Ended
  <2>3. endings'[r] = Append(endings[r], "complete") BY <1>1 DEF RowsOK
  <2> QED BY <2>2, <2>3
<1>6. RowsOK'
  <2>1. run' \in [Runs -> RunRow] BY <1>1 DEF RowsOK, RunRow, Ended
  <2>2. endings' \in [Runs -> Seq(Ended)] BY <1>1, <1>5 DEF RowsOK, Ended
  <2> QED BY <1>1, <2>1, <2>2 DEF RowsOK
<1>7. \A s \in Runs \ {r} : Local(s)' BY <1>1, <1>3, <1>4, Frame DEF IInv
<1>8. Local(r)'
  <2>1. exec'[r].pc = "none" BY <1>3 DEF Idle
  <2> QED
    BY <1>1, <1>2, <1>3, <1>4, <1>5, <2>1
    DEF Local, RowsAgree, Untouched, IdleAgrees, ExecAgrees, WritesAgree, FailureAgrees,
      EndedAgrees, Promises, BeforeRegister, AfterRegister, Failing, Ended
<1>9. ShownAt(r)' /\ CompleteAt(r)' /\ (r \in chosen => answer'[r].active)
  BY <1>1, <1>3, <1>4
  DEF Choice, ChosenIsActive, ShownAt, CompleteAt, Local, WritesAgree, AfterRegister, Idle
<1>10. Choice' BY <1>1, <1>2, <1>3, <1>4, <1>9, ChoiceFrame DEF RowsOK
<1> QED BY <1>3, <1>6, <1>7, <1>8, <1>10 DEF IInv

LEMMA ThrowKeeps == \A r \in Runs : IInv /\ Throw(r) => IInv'
<1> SUFFICES ASSUME NEW r \in Runs, IInv, Throw(r) PROVE IInv'
  OBVIOUS
<1> USE DEF answers, stream, process
<1>1. RowsOK /\ ExecOK /\ Local(r) /\ Choice BY DEF IInv
<1>2. PICK how \in {"failed", "cancelled"} :
        /\ \/ /\ thread = r
              /\ exec[r].pc \in {"append", "name", "register", "record", "enqueue",
                                "complete"}
              /\ how = "failed"
           \/ /\ thread = NoRun
              /\ exec[r].pc \in {"retrieving", "creating", "streaming"}
        /\ exec' = [exec EXCEPT ![r].pc = "settle", ![r].ends = how]
  BY DEF Throw, Free
<1>3. thread' = r /\ UNCHANGED <<run, answers, budget, stream, requests, process>>
  BY DEF Throw
<1>4. server # "down" BY <1>1, <1>2 DEF ExecOK, Idle
<1>5. /\ exec'[r] = [exec[r] EXCEPT !.pc = "settle", !.ends = how]
      /\ \A s \in Runs \ {r} : exec'[s] = exec[s]
  BY <1>1, <1>2 DEF ExecOK
<1>6. /\ exec'[r].pc = "settle" /\ exec'[r].ends = how
      /\ exec'[r].text = exec[r].text /\ exec'[r].sent = exec[r].sent
  BY <1>1, <1>5 DEF ExecOK, Execution
<1>7. ExecOK'
  <2>1. exec[r] \in Execution BY <1>1 DEF ExecOK
  <2>2. [exec[r] EXCEPT !.pc = "settle", !.ends = how] \in Execution
    BY <1>2, <2>1 DEF Execution, Unsuspended
  <2>3. exec' \in [Runs -> Execution] BY <1>1, <1>2, <2>2 DEF ExecOK
  <2> QED BY <1>1, <1>2, <1>3, <1>4, <1>5, <1>6, <2>3, NoRunAssumption DEF ExecOK, Unsuspended
<1>8. RowsOK' BY <1>1, <1>3 DEF RowsOK
<1>9. \A s \in Runs \ {r} : Local(s)' BY <1>1, <1>3, <1>5, Frame DEF IInv
<1>10. Local(r)'
  <2>1. answer[r].status = "none" => exec[r].pc \in {"retrieving", "append"}
    BY <1>1, <1>2 DEF Local, WritesAgree, AfterRegister
  <2>2. answer[r].text \in Nat /\ deltas[r] \in Nat
    BY <1>1, BoundsAssumption DEF RowsOK, AnswerRow
  <2> QED
    BY <1>1, <1>2, <1>3, <1>6, <2>1, <2>2
    DEF Local, RowsAgree, Untouched, IdleAgrees, ExecAgrees, WritesAgree, FailureAgrees,
      EndedAgrees, Promises, BeforeRegister, AfterRegister, Failing, Ended
<1>11. ShownAt(r)' /\ CompleteAt(r)' /\ (r \in chosen => answer'[r].active)
  BY <1>1, <1>2, <1>3, <1>4, <1>6, NoRunAssumption
  DEF Choice, ChosenIsActive, ShownAt, CompleteAt, AfterRegister
<1>12. Choice' BY <1>1, <1>2, <1>3, <1>4, <1>5, <1>11, ChoiceFrame DEF RowsOK
<1> QED BY <1>7, <1>8, <1>9, <1>10, <1>12 DEF IInv

LEMMA PartialType ==
  ASSUME NEW a \in AnswerRow, NEW text \in 0..MaxDeltas, NEW status \in {"failed", "incomplete"}
  PROVE  [a EXCEPT !.text = text, !.status = status] \in AnswerRow
BY DEF AnswerRow

LEMMA FinalizePartialKeeps == \A r \in Runs : IInv /\ FinalizePartial(r) => IInv'
<1> SUFFICES ASSUME NEW r \in Runs, IInv, FinalizePartial(r) PROVE IInv'
  OBVIOUS
<1> USE DEF FinalizePartial, At, stream, process
<1>1. RowsOK /\ ExecOK /\ Local(r) /\ Choice BY DEF IInv
<1>2. server # "down" BY <1>1 DEF ExecOK, Idle
<1>3. ExecOK' /\ Moved(r, "end") BY <1>1, <1>2, GoesOn DEF Unsuspended
<1>4. exec[r].text \in 0..MaxDeltas BY <1>1 DEF ExecOK, Execution
<1>5. /\ answer'[r].active = answer[r].active
      /\ IF answer[r].status = "none" THEN answer'[r] = answer[r]
           ELSE /\ answer'[r].text = exec[r].text
                /\ answer'[r].status \in {"failed", "incomplete"}
      /\ \A s \in Runs \ {r} : answer'[s] = answer[s]
  BY <1>1 DEF RowsOK, AnswerRow
<1>6. RowsOK'
  <2>1. CASE answer[r].status = "none" BY <1>1, <2>1 DEF RowsOK
  <2>2. CASE answer[r].status # "none"
    <3>1. answer' = [answer EXCEPT ![r].text = exec[r].text,
                       ![r].status = IF exec[r].ends = "cancelled" THEN "incomplete"
                                                                   ELSE "failed"]
      BY <2>2
    <3>2. answer[r] \in AnswerRow BY <1>1 DEF RowsOK
    <3>3. [answer[r] EXCEPT !.text = exec[r].text,
             !.status = IF exec[r].ends = "cancelled" THEN "incomplete" ELSE "failed"]
            \in AnswerRow
      BY <1>4, <3>2, PartialType
    <3>4. answer' \in [Runs -> AnswerRow] BY <1>1, <3>1, <3>3 DEF RowsOK
    <3> QED BY <1>1, <3>4 DEF RowsOK
  <2> QED BY <2>1, <2>2
<1>7. \A s \in Runs \ {r} : Local(s)' BY <1>1, <1>3, <1>5, Frame DEF IInv, Moved
<1>8. Local(r)'
  <2>1. deltas[r] \in Nat BY <1>1, BoundsAssumption DEF RowsOK
  <2> QED
    BY <1>1, <1>3, <1>5, <2>1
    DEF Local, RowsAgree, Untouched, IdleAgrees, ExecAgrees, WritesAgree, FailureAgrees,
      EndedAgrees, Promises, BeforeRegister, AfterRegister, Failing, Ended, Moved
<1>9. ShownAt(r)' /\ CompleteAt(r)' /\ (r \in chosen => answer'[r].active)
  <2>1. r \in chosen => exec[r].ends = "failed"
    BY <1>1 DEF RowsOK, Local, FailureAgrees, Failing
  <2>2. run[r].status = "streaming" \/ r \notin chosen
    BY <1>1 DEF RowsOK, Local, ExecAgrees, RowsAgree, Failing
  <2> QED
    BY <1>1, <1>3, <1>5, <2>1, <2>2
    DEF Choice, ChosenIsActive, ShownAt, CompleteAt, AfterRegister, Moved
<1>10. Choice' BY <1>1, <1>2, <1>3, <1>5, <1>9, ChoiceFrame DEF RowsOK, Moved
<1> QED BY <1>3, <1>6, <1>7, <1>8, <1>10 DEF IInv

LEMMA EndFailedKeeps == \A r \in Runs : IInv /\ EndFailed(r) => IInv'
<1> SUFFICES ASSUME NEW r \in Runs, IInv, EndFailed(r) PROVE IInv'
  OBVIOUS
<1> USE DEF EndFailed, At, answers, process, SetRunStatus
<1>1. RowsOK /\ ExecOK /\ Local(r) /\ Choice BY DEF IInv
<1>2. server # "down" BY <1>1 DEF ExecOK, Idle
<1>3. /\ ExecOK' /\ exec'[r] = Idle
      /\ \A s \in Runs \ {r} : exec'[s] = exec[s]
  BY <1>1, <1>2, Returns
<1>4. exec[r].ends \in {"failed", "cancelled"}
  BY <1>1 DEF ExecOK, Execution, Local, FailureAgrees, Failing
<1>5. /\ run'[r].status = exec[r].ends /\ run'[r].named = run[r].named
      /\ \A s \in Runs \ {r} : run'[s] = run[s] /\ endings'[s] = endings[s]
  BY <1>1 DEF RowsOK, RunRow
<1>6. endings[r] = <<>> /\ endings'[r] = <<exec[r].ends>>
  <2>1. run[r].status \in {"retrieving", "streaming"}
    BY <1>1 DEF Local, ExecAgrees, Failing
  <2>2. endings[r] = <<>> BY <1>1, <2>1 DEF Local, Promises, Ended
  <2>3. endings'[r] = Append(endings[r], exec[r].ends) BY <1>1 DEF RowsOK
  <2> QED BY <2>2, <2>3
<1>7. RowsOK'
  <2>1. run' \in [Runs -> RunRow] BY <1>1, <1>4 DEF RowsOK, RunRow, Ended
  <2>2. endings' \in [Runs -> Seq(Ended)] BY <1>1, <1>4, <1>6 DEF RowsOK, Ended
  <2> QED BY <1>1, <2>1, <2>2 DEF RowsOK
<1>8. \A s \in Runs \ {r} : Local(s)' BY <1>1, <1>3, <1>5, Frame DEF IInv
<1>9. Local(r)'
  <2>1. exec'[r].pc = "none" BY <1>3 DEF Idle
  <2>2. RowsAgree(r)' BY <1>1, <1>4, <1>5 DEF Local, RowsAgree, ExecAgrees, Failing
  <2>3. /\ IdleAgrees(r)' /\ ExecAgrees(r)' /\ WritesAgree(r)' /\ FailureAgrees(r)'
        /\ EndedAgrees(r)'
    BY <1>3, <1>4, <1>5, <2>1
    DEF IdleAgrees, ExecAgrees, WritesAgree, FailureAgrees, EndedAgrees, BeforeRegister,
        AfterRegister, Failing, Ended
  <2>4. Promises(r)'
    BY <1>1, <1>4, <1>5, <1>6 DEF Local, Promises, FailureAgrees, Failing, Ended
  <2> QED BY <2>2, <2>3, <2>4 DEF Local
<1>10. ShownAt(r)' /\ CompleteAt(r)' /\ (r \in chosen => answer'[r].active)
  <2>1. r \in chosen => exec[r].ends = "failed"
    BY <1>1 DEF RowsOK, Local, FailureAgrees, Failing
  <2>2. answer[r].status # "complete" BY <1>1 DEF Local, FailureAgrees, Failing
  <2> QED
    BY <1>1, <1>3, <1>5, <2>1, <2>2
    DEF Choice, ChosenIsActive, ShownAt, CompleteAt, AfterRegister, Idle
<1>11. Choice' BY <1>1, <1>2, <1>3, <1>5, <1>10, ChoiceFrame DEF RowsOK
<1> QED BY <1>3, <1>7, <1>8, <1>9, <1>11 DEF IInv

LEMMA CancelKeeps == \A r \in Runs : IInv /\ Cancel(r) => IInv'
<1> SUFFICES ASSUME NEW r \in Runs, IInv, Cancel(r) PROVE IInv'
  OBVIOUS
<1> USE DEF Cancel, Free, answers, stream, process
<1>1. RowsOK /\ ExecOK /\ Local(r) /\ Choice BY DEF IInv
<1>2. exec[r].pc \in {"retrieving", "creating", "streaming"}
      /\ run[r].status \in {"retrieving", "streaming"}
  <2>1. exec[r].pc \in Suspended
    BY <1>1, NoRunAssumption DEF ExecOK, Execution
  <2> QED
    BY <1>1, <2>1
    DEF Suspended, Local, IdleAgrees, ExecAgrees, BeforeRegister, RowsOK, RunRow
<1>3. /\ run'[r].status = run[r].status /\ run'[r].named = run[r].named
      /\ \A s \in Runs \ {r} : run'[s] = run[s]
  BY <1>1, <1>2 DEF RowsOK, RunRow, Cancelled
<1>4. /\ exec'[r].pc = exec[r].pc /\ exec'[r].text = exec[r].text
      /\ exec'[r].sent = exec[r].sent /\ exec'[r].ends = exec[r].ends
      /\ \A s \in Runs \ {r} : exec'[s] = exec[s]
  BY <1>1 DEF ExecOK, Execution
<1>5. ExecOK'
  <2>1. exec' \in [Runs -> Execution] BY <1>1 DEF ExecOK, Execution
  <2> QED BY <1>1, <1>4, <2>1 DEF ExecOK
<1>6. RowsOK'
  <2>1. Cancelled(run[r]) \in RunRow
    <3>1. run[r] \in RunRow BY <1>1 DEF RowsOK
    <3> QED BY <1>2, <3>1 DEF RunRow, Cancelled
  <2>2. run' \in [Runs -> RunRow] BY <1>1, <2>1 DEF RowsOK
  <2> QED BY <1>1, <2>2 DEF RowsOK
<1>7. \A s \in Runs \ {r} : Local(s)' BY <1>1, <1>3, <1>4, Frame DEF IInv
<1>8. Local(r)'
  BY <1>1, <1>2, <1>3, <1>4
  DEF Local, RowsAgree, Untouched, IdleAgrees, ExecAgrees, WritesAgree, FailureAgrees,
      EndedAgrees, Promises, BeforeRegister, AfterRegister, Failing, Ended
<1>9. ShownAt(r)' /\ CompleteAt(r)' /\ (r \in chosen => answer'[r].active)
  BY <1>1, <1>3, <1>4 DEF Choice, ChosenIsActive, ShownAt, CompleteAt
<1>10. Choice' BY <1>1, <1>3, <1>4, <1>9, ChoiceFrame DEF RowsOK
<1> QED BY <1>5, <1>6, <1>7, <1>8, <1>10 DEF IInv

LEMMA ActivateKeeps == \A r \in Runs : IInv /\ Activate(r) => IInv'
<1> SUFFICES ASSUME NEW r \in Runs, IInv, Activate(r) PROVE IInv'
  OBVIOUS
<1> USE DEF Activate, Free, stream, process
<1>1. RowsOK /\ ExecOK /\ Choice BY DEF IInv
<1>2. \A s \in Runs :
        /\ answer'[s].status = answer[s].status /\ answer'[s].text = answer[s].text
        /\ answer'[s].active = IF s \in revisions /\ Question[s] = Question[r]
                                 THEN s = r ELSE answer[s].active
  BY <1>1 DEF RowsOK, AnswerRow
<1>3. compile' \in [Runs -> {"none", "queued", "cancelled"}]
      /\ \A s \in Runs : compile'[s] = "none" <=> compile[s] = "none"
  BY <1>1 DEF RowsOK
<1>4. RowsOK'
  <2>1. ASSUME NEW s \in Runs
        PROVE  (IF s \in revisions /\ Question[s] = Question[r]
                  THEN [answer[s] EXCEPT !.active = (s = r)] ELSE answer[s]) \in AnswerRow
    <3>1. answer[s] \in AnswerRow BY <1>1 DEF RowsOK
    <3>2. (s = r) \in BOOLEAN OBVIOUS
    <3> QED BY <3>1, <3>2, ActiveType
  <2>2. answer' \in [Runs -> AnswerRow] BY <2>1
  <2> QED BY <1>1, <1>3, <2>2 DEF RowsOK, Siblings
<1>5. ExecOK' BY <1>1 DEF ExecOK
<1>6. \A s \in Runs : Local(s)' BY <1>2, <1>3, Frame DEF IInv
<1>7. OneChosen' BY <1>1 DEF Choice, OneChosen, Siblings, RowsOK
<1>8. ChosenIsActive'
  BY <1>1, <1>2 DEF Choice, ChosenIsActive, Siblings, RowsOK
<1>9. ASSUME NEW s \in Runs PROVE ShownAt(s)' /\ CompleteAt(s)'
  <2>1. exec'[s].pc \notin AfterRegister
    BY <1>1, NoRunAssumption DEF ExecOK, AfterRegister, Unsuspended
  <2>2. CASE s = r BY <1>2, <2>1, <2>2 DEF ShownAt, CompleteAt
  <2>3. CASE s \in Siblings(r)
    <3>1. s \notin chosen' BY <2>3 DEF Siblings
    <3>2. answer'[s].active /\ answer[s].status = "complete" => s \in chosen
      BY <1>1, <1>2, <2>3, NoRunAssumption DEF Choice, ShownAt, Siblings
    <3>3. s \in chosen => ~answer'[s].active
      BY <1>1, <1>2, <2>3 DEF RowsOK, Siblings
    <3> QED BY <1>2, <2>1, <3>1, <3>2, <3>3 DEF ShownAt, CompleteAt
  <2>4. CASE s \notin Siblings(r) \cup {r}
    <3>1. s \in chosen' <=> s \in chosen BY <2>4
    <3>2. answer'[s].active = answer[s].active BY <1>2, <2>4 DEF Siblings
    <3> QED BY <1>1, <1>2, <2>1, <3>1, <3>2 DEF Choice, ShownAt, CompleteAt
  <2> QED BY <2>2, <2>3, <2>4
<1> QED BY <1>4, <1>5, <1>6, <1>7, <1>8, <1>9 DEF IInv, Choice

LEMMA CrashKeeps == IInv /\ Crash => IInv'
<1> SUFFICES ASSUME IInv, Crash PROVE IInv'
  OBVIOUS
<1> USE DEF Crash, answers, stream
<1>1. RowsOK /\ ExecOK /\ Choice BY DEF IInv
<1>2. \A s \in Runs : exec'[s] = Idle /\ exec'[s].pc = "none"
  BY DEF Idle
<1>3. RowsOK' BY <1>1, BoundsAssumption DEF RowsOK
<1>4. ExecOK'
  <2>1. exec' \in [Runs -> Execution] BY BoundsAssumption DEF Execution, Idle, Suspended
  <2> QED BY <1>2, <2>1, NoRunAssumption DEF ExecOK, Unsuspended
<1>5. ASSUME NEW s \in Runs PROVE Local(s)'
  BY <1>2, <1>5
  DEF Local, RowsAgree, Untouched, IdleAgrees, ExecAgrees, WritesAgree, FailureAgrees,
      EndedAgrees, Promises, BeforeRegister, AfterRegister, Failing, Ended, IInv
<1>6. Choice'
  BY <1>1, <1>2, NoRunAssumption
  DEF Choice, OneChosen, ChosenIsActive, ShownAt, CompleteAt, AfterRegister, RowsOK
<1> QED BY <1>3, <1>4, <1>5, <1>6 DEF IInv

LEMMA RecoverKeeps == IInv /\ RecoverInterruptedRuns => IInv'
<1> SUFFICES ASSUME IInv, RecoverInterruptedRuns PROVE IInv'
  OBVIOUS
<1> USE DEF RecoverInterruptedRuns
<1>1. RowsOK /\ ExecOK /\ Choice BY DEF IInv
<1>2. \A s \in Runs : exec[s] = Idle /\ exec[s].pc = "none"
  BY <1>1 DEF ExecOK, Idle
<1>3. ExecOK' BY <1>1, <1>2 DEF ExecOK
<1>4. ASSUME NEW s \in Runs, s \in Interrupted
      PROVE  /\ run'[s] \in RunRow
             /\ run'[s].status = "failed" /\ run'[s].named = run[s].named
             /\ endings'[s] = <<"failed">>
  <2>1. run'[s] = [run[s] EXCEPT !.status = "failed"] BY <1>4
  <2>2. run[s] \in RunRow BY <1>1 DEF RowsOK
  <2>3. endings[s] = <<>> BY <1>4 DEF IInv, Local, Promises, Interrupted, Ended
  <2>4. endings'[s] = Append(endings[s], "failed") BY <1>4
  <2>5. endings'[s] = <<"failed">> BY <2>3, <2>4
  <2> QED BY <2>1, <2>2, <2>5 DEF RunRow, Ended
<1>5. ASSUME NEW s \in Runs, s \notin Interrupted
      PROVE  run'[s] = run[s] /\ endings'[s] = endings[s] /\ answer'[s] = answer[s]
  BY <1>5
<1>6. ASSUME NEW s \in Runs, s \in Interrupted
      PROVE  /\ answer'[s] \in AnswerRow /\ answer'[s].text = deltas[s]
             /\ IF run[s].named
                  THEN answer'[s].status = "incomplete" /\ answer'[s].active
                  ELSE answer'[s] = answer[s]
  <2>1. answer[s].text \in 0..MaxDeltas /\ deltas[s] \in 0..MaxDeltas /\ answer[s] \in AnswerRow
    BY <1>1 DEF RowsOK, AnswerRow
  <2>2. answer[s].text <= deltas[s]
        /\ (run[s].status \in {"absent", "pending", "retrieving"} =>
              ~run[s].named /\ deltas[s] = 0)
        /\ (run[s].status = "streaming" => run[s].named)
    BY DEF IInv, Local, RowsAgree
  <2>3. CASE run[s].named
    <3>1. answer'[s] = [status |-> "incomplete", active |-> TRUE, text |-> RecoveredText(s)]
      BY <1>6, <2>3
    <3>2. RecoveredText(s) = deltas[s]
      BY <2>1, <2>2, BoundsAssumption DEF RecoveredText
    <3> QED BY <2>1, <2>3, <3>1, <3>2 DEF AnswerRow
  <2>4. CASE ~run[s].named
    BY <1>6, <2>1, <2>2, <2>4, BoundsAssumption DEF Interrupted
  <2> QED BY <2>3, <2>4
<1>7. RowsOK'
  <2>1. run' \in [Runs -> RunRow] BY <1>1, <1>4, <1>5 DEF RowsOK
  <2>2. answer' \in [Runs -> AnswerRow] BY <1>1, <1>5, <1>6 DEF RowsOK
  <2>3. endings' \in [Runs -> Seq(Ended)]
    <3>1. ASSUME NEW s \in Runs PROVE endings'[s] \in Seq(Ended)
      BY <1>1, <1>4, <1>5 DEF RowsOK, Ended
    <3> QED BY <3>1
  <2> QED BY <1>1, <2>1, <2>2, <2>3 DEF RowsOK
<1>8. ASSUME NEW s \in Runs PROVE Local(s)'
  <2>1. Local(s) BY DEF IInv
  <2>2. deltas[s] \in Nat BY <1>1, BoundsAssumption DEF RowsOK
  <2>3. CASE s \in Interrupted
    <3>1. run'[s].status = "failed" /\ answer'[s].text = deltas[s]
          /\ endings'[s] = <<"failed">> /\ run'[s].named = run[s].named
      BY <1>4, <1>6, <2>3
    <3>2. answer'[s].status = "streaming" => ~run[s].named
      BY <1>6, <2>3
    <3>3. RowsAgree(s)' BY <2>2, <3>1 DEF RowsAgree
    <3>4. /\ IdleAgrees(s)' /\ ExecAgrees(s)' /\ WritesAgree(s)' /\ FailureAgrees(s)'
          /\ EndedAgrees(s)'
      BY <1>2, <3>1
      DEF IdleAgrees, ExecAgrees, WritesAgree, FailureAgrees, EndedAgrees, BeforeRegister,
          AfterRegister, Failing, Ended
    <3>5. Promises(s)' BY <2>1, <3>1, <3>2 DEF Local, Promises, Ended
    <3> QED BY <3>3, <3>4, <3>5 DEF Local
  <2>4. CASE s \notin Interrupted
    BY <1>1, <1>2, <1>5, <2>1, <2>4
    DEF Local, RowsAgree, Untouched, IdleAgrees, ExecAgrees, WritesAgree, FailureAgrees,
      EndedAgrees, Promises, BeforeRegister, AfterRegister, Failing, Ended, Interrupted,
      RowsOK, RunRow
  <2> QED BY <2>3, <2>4
<1>9. OneChosen' BY <1>1 DEF Choice, OneChosen
<1>10. ChosenIsActive' BY <1>1, <1>5, <1>6 DEF Choice, ChosenIsActive, RowsOK
<1>11. ASSUME NEW s \in Runs PROVE ShownAt(s)' /\ CompleteAt(s)'
  <2>1. run[s].status = "streaming" => run[s].named BY DEF IInv, Local, RowsAgree
  <2>2. CASE s \in Interrupted
    BY <1>1, <1>2, <1>4, <1>6, <2>1, <2>2
    DEF Choice, ShownAt, CompleteAt, AfterRegister, Interrupted
  <2>3. CASE s \notin Interrupted
    BY <1>1, <1>2, <1>5, <2>3 DEF Choice, ShownAt, CompleteAt, AfterRegister, Interrupted
  <2> QED BY <2>2, <2>3
<1> QED BY <1>3, <1>7, <1>8, <1>9, <1>10, <1>11 DEF IInv, Choice

LEMMA StartPendingKeeps == \A r \in Runs : IInv /\ StartPending(r) => IInv'
<1> SUFFICES ASSUME NEW r \in Runs, IInv, StartPending(r) PROVE IInv'
  OBVIOUS
<1> USE DEF StartPending, answers, stream, process
<1>1. RowsOK /\ ExecOK /\ Local(r) /\ Choice BY DEF IInv
<1>2. ExecOK' /\ Moved(r, "start") BY <1>1, GoesOn DEF Unsuspended
<1>3. RowsOK' BY <1>1 DEF RowsOK
<1>4. \A s \in Runs \ {r} : Local(s)' BY <1>1, <1>2, Frame DEF IInv, Moved
<1>5. exec'[r] = [Idle EXCEPT !.pc = "start"]
  <2>1. exec[r].pc = "none"
    BY <1>1, NoRunAssumption
    DEF ExecOK, Execution, Suspended, Local, ExecAgrees, BeforeRegister
  <2>2. exec[r] = Idle BY <1>1, <2>1 DEF Local, IdleAgrees
  <2> QED BY <1>1, <2>2 DEF ExecOK, GoOn
<1>6. Local(r)'
  BY <1>1, <1>5
  DEF Local, RowsAgree, Untouched, IdleAgrees, ExecAgrees, WritesAgree, FailureAgrees,
      EndedAgrees, Promises, BeforeRegister, AfterRegister, Failing, Ended, Idle
<1>7. ShownAt(r)' /\ CompleteAt(r)' /\ (r \in chosen => answer'[r].active)
  BY <1>1, <1>5
  DEF Choice, ChosenIsActive, ShownAt, CompleteAt, Local, RowsAgree, Untouched, RowsOK,
      AfterRegister, Idle
<1>8. Choice' BY <1>1, <1>2, <1>7, ChoiceFrame DEF RowsOK, Moved
<1> QED BY <1>2, <1>3, <1>4, <1>6, <1>8 DEF IInv

LEMMA ListenKeeps == IInv /\ Listen => IInv'
<1> SUFFICES ASSUME IInv, Listen PROVE IInv'
  OBVIOUS
<1> USE DEF Listen, answers, stream
<1>1. RowsOK /\ ExecOK /\ Choice BY DEF IInv
<1>2. RowsOK' /\ ExecOK' BY <1>1 DEF RowsOK, ExecOK
<1>3. ASSUME NEW s \in Runs PROVE Local(s)'
  BY <1>3 DEF IInv, Local, RowsAgree, Untouched, IdleAgrees, ExecAgrees, WritesAgree,
              FailureAgrees, EndedAgrees, Promises
<1>4. Choice'
  BY <1>1 DEF Choice, OneChosen, ChosenIsActive, ShownAt, CompleteAt
<1> QED BY <1>2, <1>3, <1>4 DEF IInv

(* The invariant is inductive.                                                  *)
LEMMA Keeps == IInv /\ [Next]_vars => IInv'
<1> SUFFICES ASSUME IInv, [Next]_vars PROVE IInv'
  OBVIOUS
<1>1. ASSUME NEW r \in Runs, Post(r) PROVE IInv' BY <1>1, PostKeeps
<1>2. ASSUME NEW r \in Runs, Cancel(r) PROVE IInv' BY <1>2, CancelKeeps
<1>3. ASSUME NEW r \in Runs, Activate(r) PROVE IInv' BY <1>3, ActivateKeeps
<1>4. ASSUME NEW r \in Runs, Execute(r) PROVE IInv'
  BY <1>4, StartKeeps, ReserveBudgetKeeps, AppendAnswerKeeps, NameAnswerKeeps,
     SendRequestKeeps, DeltaKeeps, FinalizeCompleteKeeps, RegisterKeeps,
     RecordModelCallKeeps, EnqueueCompileKeeps, CompleteKeeps, ThrowKeeps,
     SettleFailureKeeps, FinalizePartialKeeps, EndFailedKeeps
  DEF Execute
<1>5. CASE Crash BY <1>5, CrashKeeps
<1>6. CASE Restart
  BY <1>6, RecoverKeeps, ListenKeeps, StartPendingKeeps DEF Restart
<1>7. CASE UNCHANGED vars
  <2> USE <1>7 DEF vars, answers, stream, process
  <2>1. RowsOK /\ ExecOK /\ Choice BY DEF IInv
  <2>2. RowsOK' /\ ExecOK' BY <2>1 DEF RowsOK, ExecOK
  <2>3. ASSUME NEW s \in Runs PROVE Local(s)' BY Frame DEF IInv
  <2>4. Choice' BY <2>1 DEF Choice, OneChosen, ChosenIsActive, ShownAt, CompleteAt
  <2> QED BY <2>2, <2>3, <2>4 DEF IInv
<1> QED BY <1>1, <1>2, <1>3, <1>4, <1>5, <1>6, <1>7 DEF Next

LEMMA Invariance == Spec => []IInv
BY Initially, Keeps, PTL DEF Spec

(* Rows and execution states keep their types, and only the run that has the   *)
(* thread is between two awaits.                                               *)
THEOREM TypeCorrect == Spec => []TypeOK
<1>1. IInv => TypeOK BY DEF IInv, TypeOK, RowsOK, ExecOK
<1> QED BY <1>1, Invariance, PTL

(* Whatever dies, a run whose row says "complete" has its whole answer, its     *)
(* revision, its charge and its compilation.                                    *)
THEOREM CompletionIsDurable == Spec => []CompleteIsDurable
<1>1. IInv => CompleteIsDurable BY DEF IInv, Local, Promises, CompleteIsDurable
<1> QED BY <1>1, Invariance, PTL

(* A run's stream holds its one ending, the one its row reports, or none.      *)
THEOREM EndsOnce == Spec => []OneEnding
<1>1. IInv => OneEnding BY DEF IInv, Local, Promises, OneEnding
<1> QED BY <1>1, Invariance, PTL

(* No run's request is sent twice, or without a reservation that is kept.      *)
THEOREM NeverPaidTwice == Spec => []PaidOnce
<1>1. IInv => PaidOnce BY DEF IInv, Local, Promises, PaidOnce
<1> QED BY <1>1, Invariance, PTL

(* What a reader was shown of an answer is what is kept of it.                  *)
THEOREM AnswersKeepTheirText == Spec => []AnswersEnd
<1>1. IInv => AnswersEnd BY DEF IInv, Local, Promises, AnswersEnd
<1> QED BY <1>1, Invariance, PTL

(* Between requests a message has at most one complete active answer, the      *)
(* chosen one.                                                                 *)
THEOREM AtMostOneAnswer == Spec => []OneAnswer
<1>1. ASSUME IInv, Free, NEW q \in Questions
      PROVE  LET all == {r \in Runs : Question[r] = q}
                 shown == {r \in all : answer[r].active /\ answer[r].status = "complete"}
             IN  /\ Cardinality(chosen \cap all) <= 1
                 /\ shown \subseteq chosen
                 /\ \A r \in chosen \cap all :
                      answer[r].active /\ (r \in shown \/ run[r].status = "failed")
  <2> DEFINE all == {r \in Runs : Question[r] = q}
             shown == {r \in all : answer[r].active /\ answer[r].status = "complete"}
  <2>1. RowsOK /\ ExecOK /\ Choice BY <1>1 DEF IInv
  <2>2. Cardinality(chosen \cap all) <= 1
    <3>1. CASE chosen \cap all = {}
      BY <3>1, FS_EmptySet
    <3>2. CASE chosen \cap all # {}
      <4>1. PICK x \in chosen \cap all : TRUE BY <3>2
      <4>2. chosen \cap all = {x} BY <2>1, <4>1 DEF Choice, OneChosen
      <4>3. Cardinality({x}) = 1 BY FS_Singleton
      <4> QED BY <4>2, <4>3
    <3> QED BY <3>1, <3>2
  <2>3. shown \subseteq chosen
    BY <1>1, <2>1, NoRunAssumption DEF Choice, ShownAt, Free
  <2>4. ASSUME NEW r \in chosen \cap all
        PROVE  answer[r].active /\ (r \in shown \/ run[r].status = "failed")
    <3>1. answer[r].active BY <2>1 DEF Choice, ChosenIsActive
    <3>2. exec[r].pc # "end"
      BY <1>1, <2>1, NoRunAssumption DEF ExecOK, Free, Unsuspended
    <3>3. answer[r].status = "complete" \/ run[r].status = "failed"
      BY <1>1, <2>1, <3>2 DEF Choice, CompleteAt, Free
    <3> QED BY <3>1, <3>3
  <2> QED BY <2>2, <2>3, <2>4
<1>2. IInv => OneAnswer BY <1>1 DEF OneAnswer
<1> QED BY <1>2, Invariance, PTL

(* Nothing of r that a reader, a poller or maintenance relies on changes.       *)
Kept(r) ==
  /\ run'[r] = run[r]
  /\ [answer'[r] EXCEPT !.active = TRUE] = [answer[r] EXCEPT !.active = TRUE]
  /\ budget'[r] = budget[r] /\ deltas'[r] = deltas[r] /\ endings'[r] = endings[r]
  /\ exec'[r].pc \in {"none", "start"}

LEMMA EndedIsKept ==
  ASSUME IInv, Next, NEW r \in Runs, run[r].status \in Ended
  PROVE  Kept(r)
<1> USE DEF Kept, answers, stream, process
<1>1. /\ RowsOK /\ ExecOK
      /\ exec[r].pc \in {"none", "start"}
  BY DEF IInv, Local, EndedAgrees
<1>2. ASSUME NEW s \in Runs, Post(s) PROVE Kept(r)
  BY <1>1, <1>2 DEF Post, GoOn, RowsOK, RunRow, ExecOK, Execution, Ended
<1>3. ASSUME NEW s \in Runs, Cancel(s) PROVE Kept(r)
  <2>1. s # r BY <1>3 DEF Cancel
  <2> QED BY <1>1, <1>3, <2>1 DEF Cancel, RowsOK, ExecOK
<1>4. ASSUME NEW s \in Runs, Activate(s) PROVE Kept(r)
  BY <1>1, <1>4 DEF Activate, RowsOK, AnswerRow
<1>5. ASSUME NEW s \in Runs, Start(s) PROVE Kept(r)
  <2>1. CASE s = r
    <3>1. ~Claimable(s) BY <2>1 DEF Claimable, Ended
    <3> QED BY <1>1, <1>5, <2>1, <3>1 DEF Start, Return, RowsOK, ExecOK, Idle
  <2>2. CASE s # r
    BY <1>1, <1>5, <2>2
    DEF Start, SetRunStatus, Await, Return, RowsOK, ExecOK
  <2> QED BY <2>1, <2>2
<1>6. ASSUME NEW s \in Runs, RegisterAssistantRevision(s) PROVE Kept(r)
  <2>1. s # r BY <1>1, <1>6 DEF RegisterAssistantRevision, At
  <2> QED
    BY <1>1, <1>6, <2>1 DEF RegisterAssistantRevision, GoOn, RowsOK, AnswerRow, ExecOK
<1>7. ASSUME NEW s \in Runs,
             \/ ReserveBudget(s) \/ AppendAnswer(s) \/ NameAnswer(s) \/ SendRequest(s)
             \/ Delta(s) \/ FinalizeComplete(s) \/ RecordModelCall(s)
      PROVE  Kept(r)
  <2> USE DEF ReserveBudget, AppendAnswer, NameAnswer, SendRequest, Delta, FinalizeComplete,
              RecordModelCall, At, Awaits, GoOn, Await
  <2>1. s # r BY <1>1, <1>7
  <2> QED BY <1>1, <1>7, <2>1 DEF RowsOK, ExecOK
<1>8. ASSUME NEW s \in Runs,
             \/ EnqueueCompile(s) \/ Complete(s) \/ Throw(s) \/ SettleFailure(s)
             \/ FinalizePartial(s) \/ EndFailed(s)
      PROVE  Kept(r)
  <2> USE DEF EnqueueCompile, Complete, Throw, SettleFailure, FinalizePartial, EndFailed,
              At, GoOn, Return, SetRunStatus
  <2>1. s # r BY <1>1, <1>8
  <2> QED BY <1>1, <1>8, <2>1 DEF RowsOK, ExecOK
<1>9. CASE Crash BY <1>1, <1>9 DEF Crash, Idle
<1>10. CASE RecoverInterruptedRuns
  <2>1. r \notin Interrupted BY DEF Interrupted, Ended
  <2> QED BY <1>1, <1>10, <2>1 DEF RecoverInterruptedRuns
<1>11. CASE Listen BY <1>1, <1>11 DEF Listen
<1>12. ASSUME NEW s \in Runs, StartPending(s) PROVE Kept(r)
  <2>1. s # r BY <1>12 DEF StartPending, Ended
  <2> QED BY <1>1, <1>12, <2>1 DEF StartPending, GoOn, ExecOK
<1> QED
  BY <1>2, <1>3, <1>4, <1>5, <1>6, <1>7, <1>8, <1>9, <1>10, <1>11, <1>12
  DEF Next, Execute, Restart

(* Once its row reports an end nothing of a run changes any more.               *)
THEOREM EndIsFinal == Spec => NothingAfterEnd
<1>1. IInv /\ [Next]_vars =>
        [\A r \in Runs : run[r].status \in Ended =>
            /\ run'[r] = run[r]
            /\ [answer'[r] EXCEPT !.active = TRUE] = [answer[r] EXCEPT !.active = TRUE]
            /\ budget'[r] = budget[r] /\ deltas'[r] = deltas[r] /\ endings'[r] = endings[r]
            /\ exec'[r].pc \in {"none", "start"}]_vars
  BY EndedIsKept DEF Kept
<1> QED BY <1>1, Invariance, PTL DEF Spec, NothingAfterEnd

=============================================================================

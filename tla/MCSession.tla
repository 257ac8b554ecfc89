------------------------------ MODULE MCSession ------------------------------
(***************************************************************************)
(* One run for what happens between a message and its answer on the        *)
(* screen: the response run in the API, the stream of its events to the    *)
(* page, the view of the vault around it, the draft and its intent, and    *)
(* the tools a response calls.                                             *)
(* They share no state; part says which of them a behaviour is about.      *)
(***************************************************************************)
EXTENDS MCRunLifecycle, RunStream, VaultView, SendIntents, ToolCalls

VARIABLE part

allVars == <<part, vars, streamVars, viewVars, intentVars, toolVars>>

\* A response that reads a secret file runs beside another one that does; a response
\* that searches the web and runs a program, or calls a tool that is not there, goes
\* through three rounds.
Odd == {"web", "run", "unknown"}
ReadersOrRounds ==
  {<< <<{"read"}>>, <<{"read"}>> >>, << <<Odd, {"lookup"}, {"lookup"}>>, <<>> >>}

SumInit ==
  /\ part \in {"run", "stream", "view", "intents", "tools"}
  /\ Init /\ StreamInit /\ ViewInit /\ IntentsInit /\ ToolsInit
  /\ part # "tools" => uses = CHOOSE u \in ReadersOrRounds : TRUE

ButRun == <<part, streamVars, viewVars, intentVars, toolVars>>
ButStream == <<part, vars, viewVars, intentVars, toolVars>>
ButView == <<part, vars, streamVars, intentVars, toolVars>>
ButIntents == <<part, vars, streamVars, viewVars, toolVars>>
ButTools == <<part, vars, streamVars, viewVars, intentVars>>

Run(A) == part = "run" /\ A /\ UNCHANGED ButRun

SumNext ==
  \/ Run(Next)
  \/ part = "stream" /\ StreamNext /\ UNCHANGED ButStream
  \/ part = "view" /\ ViewNext /\ UNCHANGED ButView
  \/ part = "intents" /\ IntentsNext /\ UNCHANGED ButIntents
  \/ part = "tools" /\ ToolsNext /\ UNCHANGED ButTools
  \* Only the runs are shown to go on: the others stop at their bounds.
  \/ part # "run" /\ UNCHANGED allVars

SumSpec ==
  /\ SumInit /\ [][SumNext]_allVars
  /\ \A r \in Runs : SF_vars(Run(Execute(r)))
  /\ WF_vars(Run(Restart))

=============================================================================

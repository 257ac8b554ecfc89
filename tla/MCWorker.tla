------------------------------ MODULE MCWorker -------------------------------
(***************************************************************************)
(* One run for the job queue and for what the worker does to the ledger of *)
(* claims, to the entities and to the parts of a topic, which share no     *)
(* state.  part says which of them a behaviour is about; the others keep   *)
(* one value.                                                              *)
(***************************************************************************)
EXTENDS MCJobQueue, MCClaimLedger, EntityMerge, ShardChain

CONSTANTS e1, e2, e3, m1, m2

VARIABLE part

SumInit ==
  /\ part \in {"queue", "claims", "entities", "shards"}
  /\ Init /\ LedgerInit /\ EntitiesInit /\ ShardsInit
  /\ part = "shards" <=> rows # NoShards

ButQueue == <<part, ledgerVars, entityVars, shardVars>>
ButClaims == <<part, vars, entityVars, shardVars>>
ButEntities == <<part, vars, ledgerVars, shardVars>>
ButShards == <<part, vars, ledgerVars, entityVars>>

Queue(A) == part = "queue" /\ A /\ UNCHANGED ButQueue

SumNext ==
  \/ Queue(Next)
  \/ part = "claims" /\ LedgerNext /\ UNCHANGED ButClaims
  \/ part = "entities" /\ EntitiesNext /\ UNCHANGED ButEntities
  \/ part = "shards" /\ ShardsNext /\ UNCHANGED ButShards
  \* Only the queue goes on for ever: the others stop at their bounds.
  \/ part # "queue" /\ UNCHANGED <<part, vars, ledgerVars, entityVars, shardVars>>

SumSpec ==
  /\ SumInit /\ [][SumNext]_<<part, vars, ledgerVars, entityVars, shardVars>>
  /\ \A w \in Workers : WF_vars(Queue(WorkerStep(w)))
  /\ \A j \in Jobs : WF_vars(Queue(BackoffEnds(j))) /\ WF_vars(Queue(LeaseExpires(j)))
  /\ WF_vars(Queue(Unlock))
=============================================================================

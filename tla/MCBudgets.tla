------------------------------ MODULE MCBudgets ------------------------------
(***************************************************************************)
(* One run for what limits a response: the installation's ledger, the lock *)
(* around it, the two stores that account for a call, and the window its   *)
(* prompt must fit.  They share no state; part says which of them a        *)
(* behaviour is about.                                                     *)
(***************************************************************************)
EXTENDS MCInstallationBudget, MCBudgetLock, MCVaultBudget, AnswerContext

VARIABLE part

allVars == <<part, budgetVars, vars, accountVars, contextVars>>

Lock(A) == part = "lock" /\ A /\ UNCHANGED <<part, budgetVars, accountVars, contextVars>>
Account(A) == part = "account" /\ A /\ UNCHANGED <<part, budgetVars, vars, contextVars>>
Prompt(A) == part = "prompt" /\ A /\ UNCHANGED <<part, budgetVars, vars, accountVars>>

SizesOfTexts(t) == IF t = "short" THEN 1 ELSE 7

SumInit ==
  /\ part \in {"ledger", "lock", "account", "prompt"}
  /\ BudgetInit /\ Init /\ AccountInit /\ ContextInit
  /\ part # "account" => home = CHOOSE h \in Homes : TRUE

SumNext ==
  \/ part = "ledger" /\ BudgetNext /\ UNCHANGED <<part, vars, accountVars, contextVars>>
  \/ Lock(Next)
  \/ Account(AccountNext)
  \/ Prompt(ContextNext)
  \* A conversation stops at its bounds.
  \/ Prompt(UNCHANGED contextVars)

SumSpec ==
  /\ SumInit /\ [][SumNext]_allVars
  /\ \A p \in Processes : WF_vars(Lock(Step(p)))
  /\ \A p \in Processes \ Crashable : WF_vars(Lock(Begin(p)))
  /\ \A i \in Inodes : WF_vars(Lock(Age(i)))
  /\ \A p \in Programs :
       WF_accountVars(Account(Method(p))) /\ WF_accountVars(Account(BeginSummary(p)))
  /\ \A c \in Calls : WF_accountVars(Account(Expire(c)))
=============================================================================

----------------------------- MODULE ClaimLedger -----------------------------
(***************************************************************************)
(* What is held to be true of one subject and predicate (a slot): claims   *)
(* the worker extracts from messages and reconciles with the earlier ones  *)
(* (reconcileClaim in temporal.ts, persistClaims in processor.ts), the     *)
(* user's corrections (correctClaim), the choice among answers, expiry.    *)
(*                                                                         *)
(* The worker reads the slot before the transaction that writes it, and    *)
(* the API may commit in between.  A claim is never removed here; a value  *)
(* is a member of Sayings; a time is the number of the message.            *)
(***************************************************************************)
EXTENDS Integers, Sequences, FiniteSets

CONSTANTS
  Sayings,       \* the values a claim may have
  Statements,    \* the ways they are said, see StatementsAssumption
  MaxClaims,     \* bounds: claims in the slot
  MaxSwitches    \* and changes of the active answer

Answers2 == {"first", "second"}
Sources == Answers2 \cup {"user", "tool"}

\* Who says it, whether it is a correction, whether it is about the past or out of date when
\* it comes, and whether it holds since an earlier time.
ASSUME StatementsAssumption ==
  Statements \subseteq [by : Sources, correction : BOOLEAN, ago : BOOLEAN,
                        arrived : {"current", "historical", "stale"}]

VARIABLES
  ledger,      \* the claims of the slot, in the order of their rows
  spoken,      \* messages so far
  shown,       \* the answer that is active
  reading,     \* the claim that is being persisted and the rows it was compared with
  switches,
  mixed,       \* somebody else than reconcileClaim has put a second claim beside a current one
  overruled    \* a value the user stated was superseded by somebody else's

ledgerVars == <<ledger, spoken, shown, reading, switches, mixed, overruled>>

Rows == DOMAIN ledger
NoReading == <<>>

LedgerInit ==
  /\ ledger = <<>>
  /\ spoken = 0
  /\ shown = "first"
  /\ reading = NoReading
  /\ switches = 0
  /\ mixed = FALSE
  /\ overruled = FALSE

\* Evidence is active: the user's, a tool's, or that of the chosen answer.
Supported(c) == c.by \in Answers2 => c.by = shown
Open(c) == c.status \in {"current", "conflicted"}

\* authority.  That a claim was an explicit correction is not stored.
Authority(c) ==
  IF c.by = "user" THEN IF c.correction THEN 500 ELSE 400
  ELSE IF c.by = "tool" THEN 300 ELSE 100
Stored(c, status) == [c EXCEPT !.status = status, !.correction = FALSE]

\* listActiveClaimsForSlot
Relevant == {i \in Rows : Open(ledger[i]) /\ Supported(ledger[i])}

\* The newest by validity, then by observation, then by id.
Newer(c, d) == c.at > d.at \/ (c.at = d.at /\ c.said > d.said)
Newest(slot) ==
  CHOOSE i \in DOMAIN slot : \A j \in DOMAIN slot \ {i} :
    Newer(slot[i], slot[j]) \/ (~Newer(slot[j], slot[i]) /\ i < j)

Dominates(c, slot) ==
  \/ c.correction
  \/ /\ c.at > slot[Newest(slot)].at
     /\ Authority(c) >= Authority(slot[Newest(slot)])

\* Faulty: only claims of the same source give way.
SupersededOwn(c, slot) == IF Dominates(c, slot) THEN {i \in DOMAIN slot : slot[i].by = c.by} ELSE {}

Superseded(c, slot) == IF Dominates(c, slot) THEN DOMAIN slot ELSE {}

\* Faulty: a value that was superseded once counts as a duplicate.
SameValueEver(c, slot) == \E i \in Rows : ledger[i].value = c.value

SameValue(c, slot) == \E i \in DOMAIN slot : slot[i].value = c.value

\* reconcileClaim: how c is stored, and what becomes of the claims of the slot.
Reconciled(c, slot) ==
  LET keep == [i \in DOMAIN slot |-> slot[i]]
      all(status) == [i \in DOMAIN slot |-> [slot[i] EXCEPT !.status = status]]
  IN IF c.arrived = "historical" \/ SameValue(c, slot)
       THEN [new |-> Stored(c, "historical"), old |-> keep]
     ELSE IF DOMAIN slot = {}
       THEN [new |-> Stored(c, IF c.arrived = "stale" THEN "expired" ELSE "current"), old |-> keep]
     ELSE IF Dominates(c, slot)
       THEN [new |-> Stored(c, "current"),
             old |-> [i \in DOMAIN slot |->
                        IF i \in Superseded(c, slot)
                          THEN [slot[i] EXCEPT !.status = "superseded"] ELSE slot[i]]]
     ELSE IF Authority(c) < Authority(slot[Newest(slot)])
       THEN [new |-> Stored(c, "conflicted"), old |-> keep]
     ELSE [new |-> Stored(c, "conflicted"), old |-> all("conflicted")]

\* extractionEvidenceEvents: what is extracted is said by the user, by tools or by the
\* answer that is active; only what a tool found goes out of date.
Heard(s) ==
  /\ s.arrived = "stale" => s.by = "tool"
  /\ s.by \in Answers2 => s.by = shown

\* heuristicDelta: the claim that message number n makes.
Arriving(value, s, n) ==
  [value |-> value, by |-> s.by, correction |-> s.correction, arrived |-> s.arrived,
   status |-> "current", said |-> n, at |-> IF s.ago THEN 0 ELSE n]

\* The extraction has answered: the slot is read.  A message may be extracted again.
Extract(value, s, again) ==
  /\ reading = NoReading /\ Len(ledger) < MaxClaims
  /\ again => spoken > 0
  /\ Heard(s)
  /\ spoken' = IF again THEN spoken ELSE spoken + 1
  /\ reading' = [claim |-> Arriving(value, s, spoken'),
                 slot |-> [i \in Relevant |-> ledger[i]], fresh |-> TRUE]
  /\ UNCHANGED <<ledger, shown, switches, mixed, overruled>>

UserValues == {ledger[i].value : i \in {j \in Rows : ledger[j].by = "user"}}

\* The transaction of persistClaims: every claim that changed is written as a whole.
Persist ==
  /\ reading # NoReading
  /\ LET slot == reading.slot
         r == Reconciled(reading.claim, slot)
         changed == {i \in DOMAIN slot : r.old[i] # slot[i]}
     IN /\ ledger' = Append([i \in Rows |-> IF i \in changed THEN r.old[i] ELSE ledger[i]], r.new)
        /\ overruled' = (overruled \/ (/\ reading.claim.by # "user"
                                       /\ \E i \in changed : slot[i].value \in UserValues
                                                             /\ r.old[i].status = "superseded"))
  /\ mixed' = (mixed \/ ~reading.fresh)
  /\ reading' = NoReading
  /\ UNCHANGED <<spoken, shown, switches>>

Interferes == reading' = IF reading = NoReading THEN NoReading ELSE [reading EXCEPT !.fresh = FALSE]

\* correctClaim: any claim can be corrected, and no other one is looked at.
Correct(i, value) ==
  /\ i \in Rows /\ Len(ledger) < MaxClaims
  /\ spoken' = spoken + 1
  /\ ledger' = Append([ledger EXCEPT ![i].status = "superseded"],
                      Arriving(value, [by |-> "user", correction |-> FALSE, arrived |-> "current",
                                       ago |-> FALSE], spoken'))
  /\ mixed' = (mixed \/ \E j \in Relevant \ {i} : ledger[j].status = "current")
  /\ Interferes
  /\ UNCHANGED <<shown, switches, overruled>>

\* #expireMemory, for what a tool has found.
Expire(i) ==
  /\ i \in Rows /\ ledger[i].by = "tool" /\ Open(ledger[i])
  /\ ledger' = [ledger EXCEPT ![i].status = "expired"]
  /\ Interferes
  /\ UNCHANGED <<spoken, shown, switches, mixed, overruled>>

\* Another answer is chosen: its claims count again as they were.
SwitchAnswer ==
  /\ switches < MaxSwitches
  /\ switches' = switches + 1
  /\ shown' = CHOOSE a \in Answers2 : a # shown
  /\ mixed' = (mixed \/ \E i \in Rows : ledger[i].by = shown' /\ ledger[i].status = "current")
  /\ Interferes
  /\ UNCHANGED <<ledger, spoken, overruled>>

LedgerNext ==
  \/ \E value \in Sayings, s \in Statements, again \in BOOLEAN : Extract(value, s, again)
  \/ Persist
  \/ \E i \in Rows : Expire(i) \/ \E value \in Sayings : Correct(i, value)
  \/ SwitchAnswer

LedgerSpec == LedgerInit /\ [][LedgerNext]_ledgerVars

-----------------------------------------------------------------------------
(* Properties *)

\* A slot has one current value at most, through any order of statements, corrections,
\* expiries and second extractions, unless the API put one beside it (mixed).
OneCurrent ==
  ~mixed => Cardinality({i \in Relevant : ledger[i].status = "current"}) <= 1

\* What the user said last is never forgotten: its value is current or in conflict, however
\* late it was extracted, unless it was overruled.  Said by the user after a tool had found
\* it, it is a duplicate of the tool's claim, and expires with that.
LastWords ==
  {i \in Rows : /\ ledger[i].by = "user" /\ ledger[i].arrived # "historical"
                /\ \A j \in Rows : ledger[j].by = "user" => ledger[j].said <= ledger[i].said}
LastWordStands ==
  ~overruled /\ LastWords # {} =>
    \E i \in LastWords : \E j \in Rows :
      /\ ledger[j].value = ledger[i].value
      /\ Open(ledger[j]) \/ ledger[j].status = "expired"

\* "A lower-authority source cannot silently replace explicit user memory" (temporal.ts):
\* a claim of the user stays open when a lower one comes that is no correction.
UserMemoryStands ==
  [][\A i \in Rows :
       /\ ledger[i].by = "user" /\ Open(ledger[i])
       /\ reading # NoReading /\ reading' = NoReading
       /\ reading.claim.by # "user" /\ ~reading.claim.correction
       => Open(ledger'[i])]_ledgerVars
=============================================================================

----------------------------- MODULE SendIntents -----------------------------
(***************************************************************************)
(* A message from the composer to the vault, once: the draft and its       *)
(* revision and the intent with its idempotency key in localStorage        *)
(* (apps/web/src/lib/mutation-intents.ts), sendMessage and the effect that *)
(* recovers intents (apps/web/src/App.tsx), createMessage and              *)
(* recoverMutation (apps/web/src/lib/api-client.ts) and, in the API, the   *)
(* receipts of createMessageAndRun and GET /idempotency-recovery.          *)
(*                                                                         *)
(* A revision stands for the text that was typed with it, an attachment    *)
(* for nothing: that another quality is chosen stands for whatever makes   *)
(* an intent differ from the same draft.  A request that the page has      *)
(* given up may still be on its way.  One page is open at a time; what its *)
(* recovery finds may let the composer send again while a send goes on.    *)
(***************************************************************************)
EXTENDS Integers, FiniteSets

CONSTANTS
  Absent,
  Qualities,
  MaxRevisions,   \* bounds on the drafts that are typed,
  MaxKeys,        \* on the keys,
  MaxTroubles,    \* on the requests that get no answer,
  MaxLoads,       \* on the times the page is loaded
  MaxSends        \* and on the calls of sendMessage under way

ASSUME AbsentAssumption ==
  /\ Absent \notin Nat /\ Absent # "found"
  /\ Absent \notin [key : Nat, revision : Nat, quality : Qualities]
ASSUME IntentBoundsAssumption == Qualities # {} /\ MaxSends \in Nat

VARIABLES
  storage,    \* localStorage: the draft's revision, the draft, the intent
  form,       \* the composer, draftRevisionRef and progress
  sends,      \* the calls of sendMessage under way
  recovery,   \* the intent that the recovery effect asks for, and the answer
  network,    \* the POST requests on their way
  messages,   \* what was committed: the key (its receipt) and the draft
  doubted,    \* (ghost) the keys given up while their request was on its way
  typedOver,  \* (ghost) the drafts over which another one was typed
  crossed,    \* (ghost) the drafts sent while another send was under way
  troubles, formLoads, typings, keys

intentVars == <<storage, form, sends, recovery, network, messages, doubted, typedOver, crossed,
          troubles, formLoads, typings, keys>>
formCounts == <<troubles, formLoads, typings, keys>>
ghosts == <<doubted, typedOver, crossed>>

\* What useState and useRef read when the page is loaded.
LoadedPage(s) ==
  [composer |-> s.draft, revision |-> s.revision, quality |-> CHOOSE q \in Qualities : TRUE,
   stage |-> "idle", attempted |-> {}]

\* A send checks an earlier intent, or has posted its own and may ask for the receipt.
Slots == 1..MaxSends
NoSend == [step |-> "none", revision |-> Absent, quality |-> Absent, key |-> Absent,
           prior |-> Absent, found |-> Absent]
UnderWay == {i \in Slots : sends[i].step # "none"}

IntentsInit ==
  /\ storage = [revision |-> Absent, draft |-> Absent, intent |-> Absent]
  /\ form = LoadedPage(storage)
  /\ sends = [i \in Slots |-> NoSend]
  /\ recovery = Absent
  /\ network = {} /\ messages = {}
  /\ doubted = {} /\ typedOver = {} /\ crossed = {}
  /\ troubles = 0 /\ formLoads = 1 /\ typings = 0 /\ keys = 0

Committed(key) == \E m \in messages : m.key = key
OnItsWay(key) == \E post \in network : post.key = key

-----------------------------------------------------------------------------
(* Composing *)

\* setDraft: every change has a revision of its own, also while a message is sent.
Type ==
  /\ typings < MaxRevisions
  /\ typings' = typings + 1
  /\ form' = [form EXCEPT !.composer = typings', !.revision = typings']
  /\ storage' = [storage EXCEPT !.revision = typings', !.draft = typings']
  /\ typedOver' = typedOver \cup ({storage.revision} \ {Absent})
  /\ UNCHANGED <<sends, recovery, network, messages, doubted, crossed, troubles, formLoads, keys>>

ChangeQuality ==
  /\ form.stage \in {"idle", "failed"} /\ form.composer # Absent
  /\ \E q \in Qualities \ {form.quality} : form' = [form EXCEPT !.quality = q]
  /\ UNCHANGED <<storage, sends, recovery, network, messages, ghosts, formCounts>>

-----------------------------------------------------------------------------
(* Sending *)

\* clearMessageIntent
WithoutIntent(s, key) ==
  IF s.intent # Absent /\ s.intent.key = key THEN [s EXCEPT !.intent = Absent] ELSE s

\* clearCommittedDraft: a draft that was typed since stays.
WithoutDraft(s, revision) ==
  IF s.revision = revision THEN [s EXCEPT !.revision = Absent, !.draft = Absent] ELSE s

PageWithoutDraft(p, s, revision) ==
  IF s.revision # revision THEN p
  ELSE [p EXCEPT !.revision = IF @ = revision THEN Absent ELSE @,
                 !.composer = IF @ = s.draft THEN Absent ELSE @]

SendEnds(i) == sends' = [sends EXCEPT ![i] = NoSend]

\* The intent is stored before anything is sent, and the composer emptied.
Begin(i, s, intent) ==
  /\ storage' = [s EXCEPT !.intent = intent]
  /\ form' = [form EXCEPT !.attempted = @ \cup {intent.key}, !.composer = Absent,
                          !.stage = "saving"]
  /\ sends' = [sends EXCEPT ![i] =
                 [step |-> "saving", revision |-> intent.revision, quality |-> intent.quality,
                  key |-> intent.key, prior |-> Absent, found |-> Absent]]
  /\ network' = network \cup {intent}

\* messageIntentMatches: the same draft is sent again with the key it has.
SameIntent(intent) == intent

NewIntent(revision, quality) ==
  [key |-> keys + 1, revision |-> revision, quality |-> quality]

Matches(intent, p) == intent.revision = p.revision /\ intent.quality = p.quality

Crossing == {sends[i].revision : i \in UnderWay}

\* sendMessage: an earlier intent for something else is checked first.
SendMessage ==
  /\ form.stage \in {"idle", "failed"} /\ form.composer # Absent
  /\ \E i \in Slots \ UnderWay :
       /\ \A j \in Slots : j < i => j \in UnderWay
       /\ LET s == [storage EXCEPT !.revision = form.revision, !.draft = form.composer]
              old == storage.intent
          IN \/ /\ old = Absent
                /\ keys < MaxKeys /\ keys' = keys + 1
                /\ Begin(i, s, NewIntent(form.revision, form.quality))
             \/ /\ old # Absent
                /\ Matches(old, form)
                /\ Begin(i, s, SameIntent(old))
                /\ SameIntent(old).key <= MaxKeys
                /\ keys' = IF SameIntent(old).key > keys THEN SameIntent(old).key ELSE keys
             \/ /\ old # Absent
                /\ ~Matches(old, form)
                /\ storage' = s
                /\ form' = [form EXCEPT !.stage = "saving"]
                /\ sends' = [sends EXCEPT ![i] =
                               [step |-> "checking", revision |-> form.revision,
                                quality |-> form.quality, key |-> Absent, prior |-> old,
                                found |-> Absent]]
                /\ UNCHANGED <<network, keys>>
  /\ crossed' = IF UnderWay = {} THEN crossed ELSE crossed \cup Crossing \cup {form.revision}
  /\ UNCHANGED <<recovery, messages, doubted, typedOver, troubles, formLoads, typings>>

\* POST /messages: a key that has a receipt creates nothing.
Deliver(post) ==
  /\ post \in network
  /\ network' = network \ {post}
  /\ messages' = IF Committed(post.key) THEN messages
                 ELSE messages \cup {[key |-> post.key, revision |-> post.revision]}
  /\ UNCHANGED <<storage, form, sends, recovery, ghosts, formCounts>>

\* The message is saved, or was: intent and draft are cleared.
SavedPage(p, s, intent) == [PageWithoutDraft(p, s, intent.revision) EXCEPT !.stage = "idle"]
SavedStorage(s, intent) == WithoutDraft(WithoutIntent(s, intent.key), intent.revision)

Saved(i, intent) ==
  /\ form' = SavedPage(form, storage, intent)
  /\ storage' = SavedStorage(storage, intent)
  /\ SendEnds(i)

\* The answer arrives.
Answered(i) ==
  /\ sends[i].step = "saving"
  /\ Committed(sends[i].key)
  /\ Saved(i, sends[i])
  /\ UNCHANGED <<recovery, network, messages, ghosts, formCounts>>

\* There is none, or an error: createMessage asks for the receipt.
Unanswered(i) ==
  /\ sends[i].step = "saving" /\ troubles < MaxTroubles
  /\ troubles' = troubles + 1
  /\ \/ network' = network
     \/ network' = {post \in network : post.key # sends[i].key}
  /\ sends' = [sends EXCEPT ![i].step = "asking"]
  /\ UNCHANGED <<storage, form, recovery, messages, ghosts, formLoads, typings, keys>>

\* GET /idempotency-recovery looks for the receipt, or is not answered.
Looked(key) == IF Committed(key) THEN {"found"} ELSE {"missing"}
Unknown == IF troubles < MaxTroubles THEN {"unknown"} ELSE {}
Lost(found) == troubles' = troubles + (IF found = "unknown" THEN 1 ELSE 0)

AskedFor(send) == IF send.step = "checking" THEN send.prior.key ELSE send.key

Look(i) ==
  /\ sends[i].step \in {"checking", "asking"} /\ sends[i].found = Absent
  /\ \E found \in Looked(AskedFor(sends[i])) \cup Unknown :
       /\ sends' = [sends EXCEPT ![i].found = found]
       /\ Lost(found)
  /\ UNCHANGED <<storage, form, recovery, network, messages, ghosts, formLoads, typings, keys>>

\* Faulty: the intent of a message that could not be confirmed is cleared.
ClearedAfterError(s) == [s EXCEPT !.intent = Absent]

KeptAfterError(s) == s

\* createMessage ends: with the receipt the message is saved, else it is kept as a
\* draft with its intent.
AfterError(i) ==
  /\ sends[i].step = "asking" /\ sends[i].found # Absent
  /\ IF sends[i].found = "found"
       THEN Saved(i, sends[i])
       ELSE /\ form' = [form EXCEPT !.stage = "failed",
                          !.composer = IF storage.revision = sends[i].revision
                                         THEN storage.draft ELSE @]
            /\ storage' = KeptAfterError(storage)
            /\ SendEnds(i)
  /\ UNCHANGED <<recovery, network, messages, ghosts, formCounts>>

\* Faulty: an edited draft is sent without knowing what became of the earlier one.
NotUncertain(found) == found \in {"missing", "unknown"}

NotCommitted(found) == found = "missing"

\* The request of a key that is given up may still be on its way, or have arrived.
Doubting(key) == IF OnItsWay(key) \/ Committed(key) THEN doubted \cup {key} ELSE doubted

\* sendMessage goes on after it has checked the earlier intent.
AfterCheck(i) ==
  /\ sends[i].step = "checking" /\ sends[i].found # Absent
  /\ LET found == sends[i].found
         prior == sends[i].prior
     IN \/ /\ NotCommitted(found)
           /\ keys < MaxKeys /\ keys' = keys + 1
           /\ Begin(i, storage, NewIntent(sends[i].revision, sends[i].quality))
           /\ doubted' = IF found = "missing" THEN Doubting(prior.key) ELSE doubted
        \/ /\ found = "found"
           /\ Saved(i, prior)
           /\ UNCHANGED <<network, keys, doubted>>
        \/ /\ ~NotCommitted(found)
           /\ found # "found"
           /\ form' = [form EXCEPT !.stage = "failed"]
           /\ SendEnds(i)
           /\ UNCHANGED <<storage, network, keys, doubted>>
  /\ UNCHANGED <<recovery, messages, typedOver, crossed, troubles, formLoads, typings>>

-----------------------------------------------------------------------------
(* Loading the page *)

OpenForm ==
  /\ formLoads < MaxLoads
  /\ formLoads' = formLoads + 1
  /\ form' = LoadedPage(storage)
  /\ sends' = [i \in Slots |-> NoSend]
  /\ recovery' = Absent
  /\ UNCHANGED <<storage, network, messages, ghosts, troubles, typings, keys>>

\* The recovery effect asks for an intent that this page has not tried.
Recover ==
  /\ recovery = Absent /\ storage.intent # Absent
  /\ storage.intent.key \notin form.attempted
  /\ form' = [form EXCEPT !.attempted = @ \cup {storage.intent.key}]
  /\ recovery' = [intent |-> storage.intent, found |-> Absent]
  /\ UNCHANGED <<storage, sends, network, messages, ghosts, formCounts>>

LookForIntent ==
  /\ recovery # Absent
  /\ recovery.found = Absent
  /\ \E found \in Looked(recovery.intent.key) \cup Unknown :
       /\ recovery' = [recovery EXCEPT !.found = found]
       /\ Lost(found)
  /\ UNCHANGED <<storage, form, sends, network, messages, ghosts, formLoads, typings, keys>>

\* The effect runs again meanwhile: the answer is of no interest any more.
ForgetRecovery ==
  /\ recovery # Absent
  /\ recovery' = Absent
  /\ UNCHANGED <<storage, form, sends, network, messages, ghosts, formCounts>>

Available(intent) == storage.revision = intent.revision /\ storage.draft # Absent

\* Found, it is cleared with its draft; missing, it stays with the draft, unless
\* the draft is gone; unknown, it is asked for again.
Recovered ==
  /\ recovery # Absent
  /\ recovery.found # Absent
  /\ LET intent == recovery.intent
     IN \/ /\ recovery.found = "found"
           /\ storage' = SavedStorage(storage, intent)
           /\ form' = PageWithoutDraft(form, storage, intent.revision)
           /\ UNCHANGED doubted
        \/ /\ recovery.found = "missing"
           /\ Available(intent)
           /\ form' = [form EXCEPT !.composer = storage.draft, !.stage = "failed"]
           /\ UNCHANGED <<storage, doubted>>
        \/ /\ recovery.found = "missing"
           /\ ~Available(intent)
           /\ storage' = WithoutIntent(storage, intent.key)
           /\ form' = [form EXCEPT !.stage = "failed"]
           /\ doubted' = Doubting(intent.key)
        \/ /\ recovery.found = "unknown"
           /\ form' = [form EXCEPT !.attempted = @ \ {intent.key}, !.stage = "failed"]
           /\ UNCHANGED <<storage, doubted>>
  /\ recovery' = Absent
  /\ UNCHANGED <<sends, network, messages, typedOver, crossed, formCounts>>

IntentsNext ==
  \/ Type \/ ChangeQuality
  \/ SendMessage \/ (\E post \in network : Deliver(post))
  \/ \E i \in Slots : Answered(i) \/ Unanswered(i) \/ Look(i) \/ AfterError(i) \/ AfterCheck(i)
  \/ OpenForm \/ Recover \/ LookForIntent \/ ForgetRecovery \/ Recovered

IntentsSpec == IntentsInit /\ [][IntentsNext]_intentVars

-----------------------------------------------------------------------------
(* Properties *)

IntentsTypeOK ==
  /\ storage.revision \in {Absent} \cup 1..MaxRevisions
  /\ storage.intent # Absent => storage.intent.key \in 1..MaxKeys
  /\ form.stage \in {"idle", "saving", "failed"}
  /\ form.attempted \subseteq 1..MaxKeys
  /\ \A i \in UnderWay : /\ sends[i].step \in {"checking", "saving", "asking"}
                         /\ sends[i].revision \in 1..MaxRevisions
  /\ \A m \in messages : m.key \in 1..MaxKeys /\ m.revision \in 1..MaxRevisions
  /\ doubted \subseteq 1..MaxKeys /\ typedOver \cup crossed \subseteq 1..MaxRevisions

\* A draft becomes at most one message however often it is sent, answers are lost
\* and the page is loaded (the recovery that App.tsx announces with "no duplicate was
\* created"), unless its key was given up while its request was still on its way, or
\* what the recovery found let it be sent again beside a send that was under way.
SentOnce ==
  \A m, n \in messages : m.revision = n.revision =>
    m = n \/ {m.key, n.key} \cap doubted # {} \/ m.revision \in crossed

\* A draft that the composer was emptied of is a message or still stored, and a
\* request on its way has its intent stored until it is known what became of it
\* ("Keep the exact browser draft in localStorage until the message mutation is
\* acknowledged or recovered").
DraftIsKept ==
  /\ \A i \in UnderWay :
       \/ sends[i].revision \in typedOver
       \/ storage.draft = sends[i].revision
       \/ \E m \in messages : m.revision = sends[i].revision
  /\ \A post \in network :
       \/ Committed(post.key) \/ post.key \in doubted \/ post.revision \in crossed
       \/ storage.intent # Absent /\ storage.intent.key = post.key
==============================================================================

---------------------------- MODULE BrowserProofs ----------------------------
(***************************************************************************)
(* Proofs about the page: a draft is sent once and kept until it is        *)
(* (SendIntents), what is shown of the vault is one state of it that is    *)
(* never older than what was scrubbed (VaultView), and what is shown of an *)
(* answer is a beginning of what was streamed (RunStream).                 *)
(*                                                                         *)
(* What counts of what was sent is what neither the ghosts doubted nor     *)
(* crossed except.  The page and the storage agree on the draft there is,  *)
(* a key is of one draft wherever it is known, and of what was sent and    *)
(* counts for a draft there is one key: that of the stored intent, if it   *)
(* is the draft there is, and of the prior intent of whoever checks.       *)
(* So a send that finds nothing stored sends for the first time, one that  *)
(* finds the intent of its draft sends with the same key, and one that     *)
(* checks a prior intent gives up the key of whatever it might repeat.     *)
(*                                                                         *)
(* A view is one state of the vault because a removal advances the         *)
(* generation before it changes anything and again when it has: whoever    *)
(* finds the boundary that it was handed still there has read the vault    *)
(* there is.  The same argument, over two bootstraps, is what lets the     *)
(* page show again what it had put aside.                                  *)
(*                                                                         *)
(* A text of a run is a recursive function of its events.  That it only    *)
(* grows is an induction over them, led without an induction theorem: the  *)
(* set of the counterexamples has no first element (NoFirst).  Whatever    *)
(* the page attaches to, the text that it shows, the checkpoint and the    *)
(* cursor are of the same number of events, or a ghost says that they may  *)
(* not be.                                                                 *)
(***************************************************************************)
EXTENDS SendIntents, VaultView, RunStream, WellFoundedInduction, TLAPS


\* The revisions given so far, and the intents they may have.
Revisions == 1..typings
IsIntent(x) == x.key \in 1..keys /\ x.revision \in Revisions

\* A send under way knows its draft and the key it posts or the intent it checks.
SendShape(d) ==
  /\ d = [f \in {"step", "revision", "quality", "key", "prior", "found"} |-> d[f]]
  /\ d.step \in {"none", "checking", "saving", "asking"}
  /\ d.step \in {"saving", "asking"} => IsIntent(d)
  /\ d.step = "checking" =>
       d.revision \in Revisions /\ d.quality \in Qualities /\ IsIntent(d.prior)
  /\ d.step # "none" /\ d.found = "found" => Committed(AskedFor(d))

\* The page and the storage agree on the draft there is.
DraftsAgree ==
  /\ storage = [f \in {"revision", "draft", "intent"} |-> storage[f]]
  /\ form = [f \in {"composer", "revision", "quality", "stage", "attempted"} |-> form[f]]
  /\ storage.revision \in Revisions \cup {Absent}
  /\ storage.draft = storage.revision
  /\ form.revision = storage.revision
  /\ form.composer \in {Absent, storage.revision}
  /\ form.quality \in Qualities

\* What a send or the recovery found committed is committed.
SendsTyped ==
  /\ keys \in Nat /\ typings \in Nat
  /\ sends = [i \in Slots |-> sends[i]] /\ \A i \in Slots : SendShape(sends[i])
  /\ recovery # Absent =>
       /\ recovery = [f \in {"intent", "found"} |-> recovery[f]]
       /\ IsIntent(recovery.intent)
       /\ recovery.found = "found" => Committed(recovery.intent.key)

\* A key is of one revision, wherever it is known.
Owns(key, revision) ==
  \/ \E x \in network \cup messages : x.key = key /\ x.revision = revision
  \/ storage.intent # Absent /\ storage.intent.key = key /\ storage.intent.revision = revision
  \/ recovery # Absent /\ recovery.intent.key = key /\ recovery.intent.revision = revision
  \/ \E i \in Slots :
       \/ /\ sends[i].step \in {"saving", "asking"}
          /\ sends[i].key = key /\ sends[i].revision = revision
       \/ /\ sends[i].step = "checking"
          /\ sends[i].prior.key = key /\ sends[i].prior.revision = revision

KeysName ==
  /\ \A x \in network \cup messages : IsIntent(x)
  /\ storage.intent # Absent => IsIntent(storage.intent)
  /\ \A k \in 1..keys, v, w \in Revisions : Owns(k, v) /\ Owns(k, w) => v = w
  /\ \A m, n \in messages : m.key = n.key => m = n

\* What was sent and may count.
Counts(x) == x.key \notin doubted /\ x.revision \notin crossed
Went(x) == x \in network \cup messages /\ Counts(x)

\* Two sends go on at a time only if the ghost crossed says so.
Alone == \A i \in UnderWay : sends[i].revision \notin crossed => \A j \in UnderWay : j = i

\* What counts of the draft there is has the key of the intent stored and of every prior one.
CurrentIsIntended ==
  \A x : Went(x) /\ x.revision = storage.revision =>
    /\ storage.intent # Absent /\ storage.intent.key = x.key
    /\ \A i \in Slots : sends[i].step = "checking" => sends[i].prior.key = x.key

\* What counts of a draft that waits for a check has the key of the prior intent.
CheckedIsPrior ==
  \A i \in Slots : sends[i].step = "checking" =>
     \A x : Went(x) /\ x.revision = sends[i].revision => x.key = sends[i].prior.key

\* Of what was sent of one draft and counts there is one key.
OneKey == \A x, y : Went(x) /\ Went(y) /\ x.revision = y.revision => x.key = y.key

\* A draft under way is typed over, stored or committed.
Kept ==
  \A i \in UnderWay :
       \/ sends[i].revision \in typedOver
       \/ storage.draft = sends[i].revision
       \/ \E m \in messages : m.revision = sends[i].revision

\* A request on its way has the key of the intent stored, and of every prior one.
PostsAreIntended ==
  \A post \in network : Committed(post.key) \/ ~Counts(post) \/
    /\ storage.intent # Absent /\ storage.intent.key = post.key
    /\ \A i \in Slots : sends[i].step = "checking" => sends[i].prior.key = post.key

IntentsInv ==
  /\ DraftsAgree /\ SendsTyped /\ KeysName /\ Alone /\ CurrentIsIntended /\ CheckedIsPrior
  /\ OneKey /\ Kept /\ PostsAreIntended

\* What most steps of the page leave alone.
Unchanged == UNCHANGED <<network, messages, typedOver, crossed, typings, keys>>

\* Some sends end; the others stay as they are.
SendsEnd ==
  /\ sends' = [j \in Slots |-> sends'[j]]
  /\ \A j \in Slots : sends'[j] \in {sends[j], NoSend}

\* Every key is one given out, of a draft typed.
LEMMA OwnersKnown ==
  ASSUME KeysName, SendsTyped
  PROVE  \A k, v : Owns(k, v) => k \in 1..keys /\ v \in Revisions
BY AbsentAssumption DEF KeysName, SendsTyped, SendShape, IsIntent, Owns, Revisions

\* Keys go on naming one draft each while at most one new key is given out.
LEMMA NamesRemain ==
  ASSUME KeysName, SendsTyped, NEW revision,
         keys' \in {keys, keys + 1}, typings' \in {typings, typings + 1},
         (\A x \in network \cup messages : IsIntent(x))',
         (storage.intent # Absent => IsIntent(storage.intent))',
         (\A m, n \in messages : m.key = n.key => m = n)',
         \A k, v : Owns(k, v)' => Owns(k, v) \/ (k = keys + 1 /\ v = revision)
  PROVE  KeysName'
<1>1. \A k, v : Owns(k, v) => k \in 1..keys /\ v \in Revisions
  BY OwnersKnown
<1>2. keys \in Nat
  BY DEF SendsTyped
<1>3. ASSUME NEW k, NEW v, NEW w, Owns(k, v)', Owns(k, w)'
      PROVE  v = w
  <2>1. CASE k = keys + 1
    BY <1>1, <1>2, <1>3, <2>1
  <2>2. CASE k # keys + 1
    <3>1. Owns(k, v) /\ Owns(k, w)
      BY <1>3, <2>2
    <3> QED BY <1>1, <3>1 DEF KeysName
  <2> QED BY <2>1, <2>2
<1> QED BY <1>3 DEF KeysName

\* Nothing is sent, stored or committed: sends may end and the recovery be forgotten.
LEMMA QuietKeeps ==
  ASSUME IntentsInv, DraftsAgree', storage' = storage, SendsEnd,
         recovery' \in {recovery, Absent}, doubted' = doubted, Unchanged
  PROVE  IntentsInv'
<1> USE AbsentAssumption, IntentBoundsAssumption DEF UnderWay, NoSend, Slots, SendsEnd, Unchanged
<1>1. SendsTyped'
  BY DEF IntentsInv, SendsTyped, SendShape, IsIntent, Revisions, Committed, AskedFor
<1>2. KeysName'
  <2>1. \A k, v : Owns(k, v)' => Owns(k, v)
    BY DEF IntentsInv, SendsTyped, SendShape, Owns
  <2> QED BY <2>1, NamesRemain DEF IntentsInv, KeysName, IsIntent, Revisions
<1>3. Alone'
  BY DEF IntentsInv, Alone
<1>4. CurrentIsIntended' /\ CheckedIsPrior' /\ OneKey' /\ PostsAreIntended'
  BY DEF IntentsInv, CurrentIsIntended, CheckedIsPrior, OneKey, PostsAreIntended, Went, Counts,
         Committed
<1>5. Kept'
  BY DEF IntentsInv, Kept
<1> QED BY <1>1, <1>2, <1>3, <1>4, <1>5 DEF IntentsInv

\* An intent that is committed is cleared with its draft.
LEMMA SavedKeeps ==
  ASSUME IntentsInv, DraftsAgree', NEW intent,
         IsIntent(intent), Committed(intent.key), Owns(intent.key, intent.revision),
         storage'.intent \in {storage.intent, Absent},
         storage'.revision = (IF storage.revision = intent.revision THEN Absent
                              ELSE storage.revision),
         storage.intent # Absent /\ storage.intent.key # intent.key
           => storage'.intent = storage.intent,
         SendsEnd, recovery' \in {recovery, Absent}, doubted' = doubted, Unchanged
  PROVE  IntentsInv'
<1> USE AbsentAssumption, IntentBoundsAssumption DEF UnderWay, NoSend, Slots, SendsEnd, Unchanged
<1>1. SendsTyped'
  BY DEF IntentsInv, SendsTyped, SendShape, IsIntent, Revisions, Committed, AskedFor
<1>2. KeysName'
  <2>1. \A k, v : Owns(k, v)' => Owns(k, v)
    BY DEF IntentsInv, SendsTyped, SendShape, Owns
  <2> QED BY <2>1, NamesRemain DEF IntentsInv, KeysName, IsIntent, Revisions
<1>3. Alone'
  BY DEF IntentsInv, Alone
<1>4. \A m \in messages : m.key = intent.key => m.revision = intent.revision
  <2>1. ASSUME NEW m \in messages, m.key = intent.key
        PROVE  m.revision = intent.revision
    <3>1. Owns(intent.key, m.revision)
      BY <2>1 DEF Owns
    <3> QED BY <3>1, OwnersKnown DEF IntentsInv, KeysName
  <2> QED BY <2>1
<1>5. \A x \in network \cup messages : x.key = intent.key => x.revision = intent.revision
  <2>1. ASSUME NEW x \in network \cup messages, x.key = intent.key
        PROVE  x.revision = intent.revision
    <3>1. Owns(intent.key, x.revision)
      BY <2>1 DEF Owns
    <3> QED BY <3>1, OwnersKnown DEF IntentsInv, KeysName
  <2> QED BY <2>1
<1>6. CurrentIsIntended'
  BY <1>5 DEF IntentsInv, CurrentIsIntended, Went, Counts, KeysName, IsIntent, Revisions
<1>7. CheckedIsPrior' /\ OneKey'
  BY DEF IntentsInv, CheckedIsPrior, OneKey, Went, Counts
<1>8. Kept'
  BY <1>4 DEF IntentsInv, Kept, DraftsAgree, Committed
<1>9. PostsAreIntended'
  BY DEF IntentsInv, PostsAreIntended, Counts, Committed
<1> QED BY <1>1, <1>2, <1>3, <1>6, <1>7, <1>8, <1>9 DEF IntentsInv

\* What SavedStorage and SavedPage do, field by field.
LEMMA SavingClears ==
  ASSUME DraftsAgree, NEW intent, intent.revision # Absent, typings' = typings,
         storage' = SavedStorage(storage, intent),
         form' \in {SavedPage(form, storage, intent),
                    PageWithoutDraft(form, storage, intent.revision)}
  PROVE  /\ DraftsAgree'
         /\ storage'.intent \in {storage.intent, Absent}
         /\ storage'.revision = (IF storage.revision = intent.revision THEN Absent
                                 ELSE storage.revision)
         /\ storage.intent # Absent /\ storage.intent.key # intent.key
              => storage'.intent = storage.intent
<1> DEFINE s == WithoutIntent(storage, intent.key)
           p == PageWithoutDraft(form, storage, intent.revision)
<1>1. /\ s = [f \in {"revision", "draft", "intent"} |-> s[f]]
      /\ s.revision = storage.revision /\ s.draft = storage.draft
      /\ s.intent \in {storage.intent, Absent}
      /\ storage.intent # Absent /\ storage.intent.key # intent.key => s.intent = storage.intent
  BY DEF DraftsAgree, WithoutIntent
<1>2. /\ p = [f \in {"composer", "revision", "quality", "stage", "attempted"} |-> p[f]]
      /\ storage.revision = intent.revision => p.revision = Absent /\ p.composer = Absent
      /\ storage.revision # intent.revision
           => p.revision = form.revision /\ p.composer = form.composer
      /\ p.quality = form.quality
  BY DEF DraftsAgree, PageWithoutDraft
<1>3. storage' = WithoutDraft(s, intent.revision)
  BY DEF SavedStorage
<1>4. form' \in {p, [p EXCEPT !.stage = "idle"]}
  BY DEF SavedPage
<1> HIDE DEF s, p
<1>5. /\ storage' = [f \in {"revision", "draft", "intent"} |-> storage'[f]]
      /\ storage'.intent = s.intent
      /\ s.revision = intent.revision => storage'.revision = Absent /\ storage'.draft = Absent
      /\ s.revision # intent.revision
           => storage'.revision = s.revision /\ storage'.draft = s.draft
  BY <1>1, <1>3 DEF WithoutDraft
<1>6. /\ form' = [f \in {"composer", "revision", "quality", "stage", "attempted"} |-> form'[f]]
      /\ form'.revision = p.revision /\ form'.composer = p.composer
      /\ form'.quality = p.quality
  BY <1>2, <1>4
<1>7. DraftsAgree'
  BY <1>1, <1>2, <1>5, <1>6 DEF DraftsAgree, Revisions
<1> QED BY <1>1, <1>5, <1>7

LEMMA EndingEnds ==
  ASSUME SendsTyped, NEW i \in Slots, SendEnds(i)
  PROVE  SendsEnd
BY DEF SendsTyped, SendEnds, SendsEnd

\* What Begin does, field by field.
LEMMA BeginDoes ==
  ASSUME DraftsAgree, SendsTyped, NEW i \in Slots, NEW intent, Begin(i, storage, intent),
         typings' = typings
  PROVE  /\ DraftsAgree'
         /\ storage'.revision = storage.revision /\ storage'.draft = storage.draft
         /\ storage'.intent = intent
         /\ sends' = [j \in Slots |-> sends'[j]]
         /\ \A j \in Slots \ {i} : sends'[j] = sends[j]
         /\ LET d == sends'[i]
            IN /\ d = [f \in {"step", "revision", "quality", "key", "prior", "found"} |-> d[f]]
               /\ d.step = "saving" /\ d.found = Absent
               /\ d.key = intent.key /\ d.revision = intent.revision
         /\ network' = network \cup {intent}
<1>1. /\ storage' = [f \in {"revision", "draft", "intent"} |-> storage'[f]]
      /\ storage'.revision = storage.revision /\ storage'.draft = storage.draft
      /\ storage'.intent = intent
  BY DEF Begin, DraftsAgree
<1>2. /\ form' = [f \in {"composer", "revision", "quality", "stage", "attempted"} |-> form'[f]]
      /\ form'.revision = form.revision /\ form'.composer = Absent
      /\ form'.quality = form.quality
  BY DEF Begin, DraftsAgree
<1>3. DraftsAgree'
  BY <1>1, <1>2 DEF DraftsAgree, Revisions
<1>4. /\ sends' = [j \in Slots |-> sends'[j]]
      /\ \A j \in Slots \ {i} : sends'[j] = sends[j]
      /\ sends'[i] = [step |-> "saving", revision |-> intent.revision, quality |-> intent.quality,
                      key |-> intent.key, prior |-> Absent, found |-> Absent]
      /\ network' = network \cup {intent}
  BY DEF Begin, SendsTyped
<1> QED BY <1>1, <1>3, <1>4

\* A send that goes on with a key of its own, new or that of the intent stored,
\* leaves no other key for its draft or the draft there is.
LEMMA BeginKeeps ==
  ASSUME IntentsInv, NEW i \in Slots, NEW intent, Begin(i, storage, intent),
         intent.revision \in Revisions,
         \/ intent.key = keys + 1 /\ keys' = keys + 1
         \/ intent = storage.intent /\ storage.intent # Absent /\ keys' = keys,
         intent # Absent,
         \A x \in network \cup messages :
            Counts(x)' /\ x.revision \in {intent.revision, storage.revision}
              => x.key = intent.key,
         \A post \in network : Committed(post.key) \/ ~Counts(post)' \/ post.key = intent.key,
         Alone', Kept', doubted \subseteq doubted', crossed \subseteq crossed',
         UNCHANGED <<recovery, messages, typedOver, typings>>
  PROVE  IntentsInv'
<1> USE AbsentAssumption, IntentBoundsAssumption DEF UnderWay, NoSend, Slots
<1>0. /\ DraftsAgree'
      /\ storage'.revision = storage.revision /\ storage'.draft = storage.draft
      /\ storage'.intent = intent
      /\ sends' = [j \in Slots |-> sends'[j]]
      /\ \A j \in Slots \ {i} : sends'[j] = sends[j]
      /\ LET d == sends'[i]
         IN /\ d = [f \in {"step", "revision", "quality", "key", "prior", "found"} |-> d[f]]
            /\ d.step = "saving" /\ d.found = Absent
            /\ d.key = intent.key /\ d.revision = intent.revision
      /\ network' = network \cup {intent}
  BY BeginDoes DEF IntentsInv
<1>1. keys \in Nat /\ keys' \in Nat /\ keys <= keys' /\ IsIntent(intent)'
  BY DEF IntentsInv, SendsTyped, KeysName, IsIntent, Revisions
<1>2. SendsTyped'
  <2>1. SendShape(sends[i])'
    BY <1>0, <1>1 DEF SendShape, IsIntent, AskedFor
  <2>2. ASSUME NEW j \in Slots \ {i}
        PROVE  SendShape(sends[j])'
    <3>1. sends'[j] = sends[j] /\ SendShape(sends[j]) /\ messages' = messages /\ typings' = typings
      BY <1>0, <2>2 DEF IntentsInv, SendsTyped
    <3>2. \A k : k \in 1..keys => k \in 1..keys'
      BY <1>1
    <3>3. AskedFor(sends[j])' = AskedFor(sends[j])
      BY <3>1 DEF AskedFor
    <3>4. \A k : Committed(k)' <=> Committed(k)
      BY <3>1 DEF Committed
    <3>5. \A x : IsIntent(x) => IsIntent(x)'
      BY <3>1, <3>2 DEF IsIntent, Revisions
    <3> DEFINE d == sends[j]
    <3>6. SendShape(d)
      BY <3>1
    <3>7. /\ d.step' \in {"saving", "asking"} => IsIntent(d)'
          /\ d.step' = "checking" => IsIntent(d.prior)'
          /\ d.step' # "none" /\ d.found' = "found" => Committed(AskedFor(d))'
      BY <3>1, <3>3, <3>4, <3>5, <3>6 DEF SendShape
    <3>8. (d = [f \in {"step", "revision", "quality", "key", "prior", "found"} |-> d[f]])'
      BY <3>1, <3>6 DEF SendShape
    <3>9. /\ d.step' \in {"none", "checking", "saving", "asking"}
          /\ d.step' = "checking" => d.revision' \in Revisions' /\ d.quality' \in Qualities
      BY <3>1, <3>6 DEF SendShape, Revisions
    <3> QED BY <3>7, <3>8, <3>9 DEF SendShape
  <2>3. \A j \in Slots : SendShape(sends[j])'
    BY <2>1, <2>2
  <2>4. (recovery # Absent =>
           /\ recovery = [f \in {"intent", "found"} |-> recovery[f]]
           /\ IsIntent(recovery.intent)
           /\ recovery.found = "found" => Committed(recovery.intent.key))'
    BY <1>1 DEF IntentsInv, SendsTyped, IsIntent, Revisions, Committed
  <2> QED BY <1>0, <1>1, <2>3, <2>4 DEF IntentsInv, SendsTyped
<1>3. KeysName'
  <2>1. \A k, v : Owns(k, v)' => Owns(k, v) \/ (k = intent.key /\ v = intent.revision)
    BY <1>0 DEF IntentsInv, Owns
  <2>2. intent = storage.intent /\ storage.intent # Absent
          => Owns(intent.key, intent.revision)
    BY DEF Owns
  <2>3. \A k, v : Owns(k, v)' => Owns(k, v) \/ (k = keys + 1 /\ v = intent.revision)
    BY <2>1, <2>2
  <2>4. (\A x \in network \cup messages : IsIntent(x))'
    BY <1>0, <1>1 DEF IntentsInv, KeysName, IsIntent, Revisions
  <2>5. (storage.intent # Absent => IsIntent(storage.intent))'
    BY <1>0, <1>1
  <2>6. keys' \in {keys, keys + 1} /\ typings' \in {typings, typings + 1}
    OBVIOUS
  <2>7. (\A m, n \in messages : m.key = n.key => m = n)'
    BY DEF IntentsInv, KeysName
  <2> QED BY <2>3, <2>4, <2>5, <2>6, <2>7, NamesRemain DEF IntentsInv
<1>4. ASSUME Counts(intent)', NEW j \in Slots \ {i}
      PROVE  sends'[j].step = "none"
  BY <1>0, <1>4 DEF Alone, Counts
<1>5. \A x : Went(x)' => x = intent \/ Went(x)
  BY <1>0 DEF Went, Counts
<1>6. ASSUME NEW x, Went(x)', x.revision = storage'.revision
      PROVE  /\ storage'.intent.key = x.key
             /\ \A j \in Slots : sends'[j].step = "checking" => sends'[j].prior.key = x.key
  <2>1. CASE x = intent
    BY <1>0, <1>4, <1>6, <2>1 DEF Went
  <2>2. CASE x # intent
    <3>1. Went(x) /\ x \in network \cup messages /\ Counts(x)'
      BY <1>5, <1>6, <2>2, <1>0 DEF Went
    <3>2. x.key = intent.key
      BY <1>0, <1>6, <3>1
    <3> QED BY <1>0, <1>6, <3>1, <3>2 DEF IntentsInv, CurrentIsIntended
  <2> QED BY <2>1, <2>2
<1>7. CurrentIsIntended'
  BY <1>0, <1>6 DEF CurrentIsIntended
<1>8. CheckedIsPrior'
  <2>1. ASSUME NEW j \in Slots, sends'[j].step = "checking",
               NEW x, Went(x)', x.revision = sends'[j].revision
        PROVE  x.key = sends'[j].prior.key
    BY <1>0, <1>4, <1>5, <2>1 DEF IntentsInv, CheckedIsPrior, Went
  <2> QED BY <2>1 DEF CheckedIsPrior
<1>9. OneKey'
  <2>1. ASSUME NEW x, Went(x)', x.revision = intent.revision
        PROVE  x.key = intent.key
    BY <1>0, <2>1 DEF Went
  <2>2. ASSUME NEW x, NEW y, Went(x)', Went(y)', x.revision = y.revision
        PROVE  x.key = y.key
    <3>1. CASE x = intent \/ y = intent
      BY <2>1, <2>2, <3>1
    <3>2. CASE x # intent /\ y # intent
      BY <1>5, <2>2, <3>2 DEF IntentsInv, OneKey
    <3> QED BY <3>1, <3>2
  <2> QED BY <2>2 DEF OneKey
<1>10. PostsAreIntended'
  <2>1. ASSUME NEW post \in network', ~Committed(post.key)', Counts(post)'
        PROVE  /\ storage'.intent # Absent /\ storage'.intent.key = post.key
               /\ \A j \in Slots : sends'[j].step = "checking" => sends'[j].prior.key = post.key
    <3>1. CASE post = intent
      BY <1>0, <1>4, <2>1, <3>1
    <3>2. CASE post # intent
      <4>1. post \in network /\ Counts(post) /\ ~Committed(post.key)
        BY <1>0, <2>1, <3>2 DEF Counts, Committed
      <4>2. post.key = intent.key
        BY <2>1, <4>1
      <4> QED BY <1>0, <4>1, <4>2 DEF IntentsInv, PostsAreIntended
    <3> QED BY <3>1, <3>2
  <2> QED BY <2>1 DEF PostsAreIntended
<1> QED BY <1>0, <1>2, <1>3, <1>7, <1>8, <1>9, <1>10 DEF IntentsInv

LEMMA TypeKeeps ==
  ASSUME IntentsInv, Type
  PROVE  IntentsInv'
<1> USE AbsentAssumption, IntentBoundsAssumption DEF UnderWay, NoSend, Slots
<1>a. typings' = typings + 1 /\ typings \in Nat /\ typings' \in Revisions'
  BY DEF Type, IntentsInv, SendsTyped, Revisions
<1>b. /\ storage' = [f \in {"revision", "draft", "intent"} |-> storage'[f]]
      /\ storage'.revision = typings' /\ storage'.draft = typings'
      /\ storage'.intent = storage.intent
  BY DEF Type, IntentsInv, DraftsAgree
<1>c. /\ form' = [f \in {"composer", "revision", "quality", "stage", "attempted"} |-> form'[f]]
      /\ form'.revision = typings' /\ form'.composer = typings' /\ form'.quality = form.quality
  BY DEF Type, IntentsInv, DraftsAgree
<1>1. DraftsAgree'
  BY <1>a, <1>b, <1>c DEF DraftsAgree, IntentsInv
<1>2. SendsTyped'
  BY DEF IntentsInv, Type, ghosts, formCounts, DraftsAgree, SendsTyped, KeysName, SendShape,
         IsIntent, Revisions, Committed, AskedFor
<1>3. KeysName'
  <2>1. \A k, v : Owns(k, v)' => Owns(k, v)
    BY <1>b DEF Type, Owns
  <2>2. /\ (\A x \in network \cup messages : IsIntent(x))'
        /\ (storage.intent # Absent => IsIntent(storage.intent))'
        /\ (\A m, n \in messages : m.key = n.key => m = n)'
    BY <1>a, <1>b DEF Type, IntentsInv, KeysName, IsIntent, Revisions
  <2> QED BY <1>a, <2>1, <2>2, NamesRemain DEF IntentsInv, Type
<1>4. Alone'
  BY DEF IntentsInv, Type, ghosts, formCounts, SendsTyped, Alone, SendShape
<1>5. CurrentIsIntended'
  BY DEF IntentsInv, Type, ghosts, formCounts, DraftsAgree, SendsTyped, KeysName, Alone,
         CurrentIsIntended, Went, Counts, Owns, IsIntent, SendShape, Revisions, Committed, OnItsWay,
         AskedFor
<1>6. CheckedIsPrior'
  BY DEF IntentsInv, Type, ghosts, formCounts, DraftsAgree, SendsTyped, KeysName, Alone,
         CurrentIsIntended, CheckedIsPrior, Went, Counts, Owns, IsIntent, SendShape, Revisions,
         Committed, OnItsWay, AskedFor
<1>7. OneKey'
  BY DEF IntentsInv, Type, ghosts, formCounts, DraftsAgree, SendsTyped, KeysName, Alone,
         CurrentIsIntended, CheckedIsPrior, OneKey, Went, Counts, IsIntent, SendShape, Revisions,
         Committed, OnItsWay, AskedFor
<1>8. Kept'
  BY DEF IntentsInv, Type, ghosts, formCounts, DraftsAgree, SendsTyped, KeysName, Kept,
         IsIntent, SendShape, Revisions, Committed, Owns, AskedFor
<1>9. PostsAreIntended'
  BY DEF IntentsInv, Type, ghosts, formCounts, DraftsAgree, SendsTyped, KeysName, Alone,
         PostsAreIntended, Counts, IsIntent, SendShape, Revisions, Committed, OnItsWay, AskedFor
<1> QED BY <1>1, <1>2, <1>3, <1>4, <1>5, <1>6, <1>7, <1>8, <1>9 DEF IntentsInv

LEMMA ChangeQualityKeeps ==
  ASSUME IntentsInv, ChangeQuality
  PROVE  IntentsInv'
<1>1. DraftsAgree'
  BY DEF ChangeQuality, formCounts, IntentsInv, DraftsAgree, Revisions
<1>2. SendsEnd
  BY DEF ChangeQuality, IntentsInv, SendsTyped, SendsEnd
<1> QED BY <1>1, <1>2, QuietKeeps DEF ChangeQuality, ghosts, formCounts, Unchanged

LEMMA SendMessageKeeps ==
  ASSUME IntentsInv, SendMessage
  PROVE  IntentsInv'
<1> USE AbsentAssumption, IntentBoundsAssumption DEF UnderWay, Slots
<1>1. /\ form.revision = storage.revision /\ form.composer = storage.revision
      /\ form.revision \in Revisions /\ form.revision # Absent /\ form.quality \in Qualities
      /\ [storage EXCEPT !.revision = form.revision, !.draft = form.composer] = storage
  <2>1. form.composer # Absent
    BY DEF SendMessage
  <2>2. /\ form.revision = storage.revision /\ form.composer = storage.revision
        /\ form.revision \in Revisions /\ form.quality \in Qualities
        /\ storage.draft = storage.revision
        /\ storage = [f \in {"revision", "draft", "intent"} |-> storage[f]]
    BY <2>1 DEF IntentsInv, DraftsAgree
  <2>3. [storage EXCEPT !.revision = form.revision, !.draft = form.composer] = storage
    BY <2>2
  <2>4. form.revision # Absent
    BY <2>2 DEF Revisions
  <2> QED BY <2>2, <2>3, <2>4
<1>2. PICK i \in Slots \ UnderWay :
        \/ /\ storage.intent = Absent
           /\ keys' = keys + 1
           /\ Begin(i, storage, NewIntent(form.revision, form.quality))
        \/ /\ storage.intent # Absent
           /\ Matches(storage.intent, form)
           /\ Begin(i, storage, storage.intent)
           /\ keys' = IF storage.intent.key > keys THEN storage.intent.key ELSE keys
        \/ /\ storage.intent # Absent
           /\ storage' = storage
           /\ form' = [form EXCEPT !.stage = "saving"]
           /\ sends' = [sends EXCEPT ![i] =
                          [step |-> "checking", revision |-> form.revision,
                           quality |-> form.quality, key |-> Absent, prior |-> storage.intent,
                           found |-> Absent]]
           /\ UNCHANGED <<network, keys>>
  BY <1>1, Zenon DEF SendMessage, SameIntent
<1>3. /\ crossed' = IF UnderWay = {} THEN crossed
                    ELSE crossed \cup Crossing \cup {form.revision}
      /\ UNCHANGED <<recovery, messages, doubted, typedOver, troubles, formLoads, typings>>
  BY DEF SendMessage
<1>4. ASSUME sends' = [j \in Slots |-> sends'[j]], sends'[i].revision = form.revision,
             \A j \in Slots \ {i} : sends'[j] = sends[j]
      PROVE  Alone'
  <2>1. CASE UnderWay = {}
    BY <1>4, <2>1 DEF Alone
  <2>2. CASE UnderWay # {}
    <3>1. \A j \in Slots : sends'[j].step # "none" => sends'[j].revision \in crossed'
      BY <1>2, <1>3, <1>4, <2>2 DEF Crossing
    <3> QED BY <3>1 DEF Alone
  <2> QED BY <2>1, <2>2
<1>5. ASSUME sends' = [j \in Slots |-> sends'[j]], sends'[i].revision = form.revision,
             \A j \in Slots \ {i} : sends'[j] = sends[j],
             storage'.draft = storage.draft
      PROVE  Kept'
  BY <1>1, <1>3, <1>5 DEF IntentsInv, Kept, DraftsAgree
<1>6. crossed \subseteq crossed' /\ doubted \subseteq doubted'
  BY <1>3
<1>7. \A x : Counts(x)' => Counts(x)
  BY <1>6 DEF Counts
<1>8. ASSUME NEW intent, Begin(i, storage, intent), intent.revision = form.revision
      PROVE  Alone' /\ Kept'
  <2>1. /\ sends' = [j \in Slots |-> sends'[j]] /\ sends'[i].revision = form.revision
        /\ \A j \in Slots \ {i} : sends'[j] = sends[j]
        /\ storage'.draft = storage.draft
    BY <1>3, <1>8, BeginDoes DEF IntentsInv
  <2> QED BY <1>4, <1>5, <2>1
\* A new intent: nothing was stored, so nothing that counts was sent.
<1>9. CASE /\ storage.intent = Absent
           /\ keys' = keys + 1
           /\ Begin(i, storage, NewIntent(form.revision, form.quality))
  <2> DEFINE intent == NewIntent(form.revision, form.quality)
  <2>1. /\ intent.revision = form.revision /\ intent.key = keys + 1
        /\ intent # Absent
    BY <1>1 DEF NewIntent, IntentsInv, SendsTyped, Revisions
  <2>2. ASSUME NEW x \in network \cup messages,
               Counts(x)', x.revision \in {intent.revision, storage.revision}
        PROVE  x.key = intent.key
    BY <1>1, <1>7, <1>9, <2>1, <2>2 DEF IntentsInv, CurrentIsIntended, Went
  <2>3. \A post \in network : Committed(post.key) \/ ~Counts(post)' \/ post.key = intent.key
    BY <1>7, <1>9 DEF IntentsInv, PostsAreIntended
  <2>4. Begin(i, storage, intent) /\ keys' = keys + 1
    BY <1>9
  <2> HIDE DEF intent
  <2> QED BY <1>1, <1>3, <1>6, <1>8, <2>1, <2>2, <2>3, <2>4, BeginKeeps
\* The intent of the same draft: what was sent of it has its key.
<1>10. CASE /\ storage.intent # Absent
            /\ Matches(storage.intent, form)
            /\ Begin(i, storage, storage.intent)
            /\ keys' = IF storage.intent.key > keys THEN storage.intent.key ELSE keys
  <2>1. storage.intent.revision = form.revision
    BY <1>10 DEF Matches
  <2>2. keys' = keys
    BY <1>10 DEF IntentsInv, KeysName, SendsTyped, IsIntent
  <2>3. ASSUME NEW x \in network \cup messages,
               Counts(x)', x.revision \in {storage.intent.revision, storage.revision}
        PROVE  x.key = storage.intent.key
    BY <1>1, <1>7, <2>1, <2>3 DEF IntentsInv, CurrentIsIntended, Went
  <2>4. \A post \in network :
          Committed(post.key) \/ ~Counts(post)' \/ post.key = storage.intent.key
    BY <1>7 DEF IntentsInv, PostsAreIntended
  <2>5. Alone' /\ Kept'
    BY <1>8, <1>10, <2>1
  <2> QED BY <1>1, <1>3, <1>6, <1>10, <2>1, <2>2, <2>3, <2>4, <2>5, BeginKeeps
\* An earlier intent of something else is checked: it is the prior one.
<1>11. CASE /\ storage.intent # Absent
            /\ storage' = storage
            /\ form' = [form EXCEPT !.stage = "saving"]
            /\ sends' = [sends EXCEPT ![i] =
                           [step |-> "checking", revision |-> form.revision,
                            quality |-> form.quality, key |-> Absent, prior |-> storage.intent,
                            found |-> Absent]]
            /\ UNCHANGED <<network, keys>>
  <2>1. /\ sends' = [j \in Slots |-> sends'[j]]
        /\ \A j \in Slots \ {i} : sends'[j] = sends[j]
        /\ sends'[i] = [step |-> "checking", revision |-> form.revision,
                        quality |-> form.quality, key |-> Absent, prior |-> storage.intent,
                        found |-> Absent]
    BY <1>11 DEF IntentsInv, SendsTyped
  <2>2. /\ sends'[i].step = "checking" /\ sends'[i].revision = form.revision
        /\ sends'[i].prior = storage.intent
    BY <2>1
  <2>3. DraftsAgree'
    BY <1>3, <1>11 DEF IntentsInv, DraftsAgree, Revisions
  <2>4. SendsTyped'
    <3>1. SendShape(sends[i])'
      BY <1>1, <1>3, <1>11, <2>1 DEF SendShape, IntentsInv, KeysName, IsIntent, Revisions
    <3>2. \A j \in Slots \ {i} : SendShape(sends[j])'
      BY <1>3, <1>11, <2>1
         DEF IntentsInv, SendsTyped, SendShape, IsIntent, Revisions, Committed, AskedFor
    <3> QED BY <1>3, <1>11, <2>1, <3>1, <3>2
            DEF IntentsInv, SendsTyped, IsIntent, Revisions, Committed
  <2>5. KeysName'
    <3>1. \A k, v : Owns(k, v)' => Owns(k, v)
      BY <1>3, <1>11, <2>1, <2>2 DEF Owns
    <3> QED BY <1>3, <1>11, <3>1, NamesRemain DEF IntentsInv, KeysName, IsIntent, Revisions
  <2>6. \A x : Went(x)' => Went(x)
    BY <1>3, <1>7, <1>11 DEF Went
  <2>7. CurrentIsIntended'
    BY <1>11, <2>1, <2>2, <2>6 DEF IntentsInv, CurrentIsIntended
  <2>8. CheckedIsPrior'
    <3>1. ASSUME NEW x, Went(x), x.revision = form.revision
          PROVE  x.key = storage.intent.key
      BY <1>1, <3>1 DEF IntentsInv, CurrentIsIntended
    <3> QED BY <2>1, <2>2, <2>6, <3>1 DEF IntentsInv, CheckedIsPrior
  <2>9. OneKey'
    BY <2>6 DEF IntentsInv, OneKey
  <2>10. PostsAreIntended'
    BY <1>3, <1>7, <1>11, <2>1, <2>2 DEF IntentsInv, PostsAreIntended, Committed
  <2>11. Alone' /\ Kept'
    BY <1>4, <1>5, <1>11, <2>1, <2>2
  <2> QED BY <2>3, <2>4, <2>5, <2>7, <2>8, <2>9, <2>10, <2>11 DEF IntentsInv
<1> QED BY <1>2, <1>9, <1>10, <1>11

LEMMA DeliverKeeps ==
  ASSUME IntentsInv, NEW post \in network, Deliver(post)
  PROVE  IntentsInv'
<1> USE AbsentAssumption, IntentBoundsAssumption DEF UnderWay, NoSend, Slots
<1>1. DraftsAgree'
  BY DEF IntentsInv, Deliver, ghosts, formCounts, DraftsAgree, SendsTyped, Revisions
<1>2. SendsTyped'
  BY DEF IntentsInv, Deliver, ghosts, formCounts, DraftsAgree, SendsTyped, KeysName,
         SendShape, IsIntent, Revisions, Committed, AskedFor
<1>3. KeysName'
  <2>1. \A x \in network' \cup messages' : x \in network \cup messages
          \/ (x = [key |-> post.key, revision |-> post.revision])
    BY DEF Deliver
  <2>2. IsIntent(post) /\ UNCHANGED <<storage, sends, recovery, keys, typings>>
    BY DEF Deliver, IntentsInv, KeysName, formCounts
  <2>3. (\A x \in network \cup messages : IsIntent(x))'
    BY <2>1, <2>2 DEF IntentsInv, KeysName, IsIntent, Revisions
  <2>4. (\A m, n \in messages : m.key = n.key => m = n)'
    BY DEF Deliver, IntentsInv, KeysName, Committed
  <2>5. \A k, v : Owns(k, v)' => Owns(k, v)
    BY <2>1, <2>2 DEF Deliver, Owns
  <2> QED BY <2>2, <2>3, <2>4, <2>5, NamesRemain DEF IntentsInv, KeysName, IsIntent, Revisions
<1>4. Alone'
  BY DEF IntentsInv, Deliver, ghosts, formCounts, SendsTyped, Alone, SendShape
<1>5. CurrentIsIntended'
  BY DEF IntentsInv, Deliver, ghosts, formCounts, DraftsAgree, SendsTyped, KeysName, Alone,
         CurrentIsIntended, Went, Counts, Owns, IsIntent, SendShape, Revisions, Committed, OnItsWay,
         AskedFor
<1>6. CheckedIsPrior'
  BY DEF IntentsInv, Deliver, ghosts, formCounts, DraftsAgree, SendsTyped, KeysName, Alone,
         CurrentIsIntended, CheckedIsPrior, Went, Counts, Owns, IsIntent, SendShape, Revisions,
         Committed, OnItsWay, AskedFor
<1>7. OneKey'
  BY DEF IntentsInv, Deliver, ghosts, formCounts, DraftsAgree, SendsTyped, KeysName, Alone,
         CurrentIsIntended, CheckedIsPrior, OneKey, Went, Counts, IsIntent, SendShape, Revisions,
         Committed, OnItsWay, AskedFor
<1>8. Kept'
  BY DEF IntentsInv, Deliver, ghosts, formCounts, DraftsAgree, SendsTyped, KeysName, Kept,
         IsIntent, SendShape, Revisions, Committed, Owns, AskedFor
<1>9. PostsAreIntended'
  BY DEF IntentsInv, Deliver, ghosts, formCounts, DraftsAgree, SendsTyped, KeysName, Alone,
         PostsAreIntended, Counts, IsIntent, SendShape, Revisions, Committed, OnItsWay, AskedFor
<1> QED BY <1>1, <1>2, <1>3, <1>4, <1>5, <1>6, <1>7, <1>8, <1>9 DEF IntentsInv

LEMMA AnsweredKeeps ==
  ASSUME IntentsInv, NEW i \in Slots, Answered(i)
  PROVE  IntentsInv'
<1> DEFINE intent == sends[i]
<1>1. IsIntent(intent) /\ Committed(intent.key) /\ intent.revision # Absent
  BY AbsentAssumption DEF Answered, IntentsInv, SendsTyped, SendShape, IsIntent, Revisions
<1>2. Owns(intent.key, intent.revision)
  BY DEF Answered, Owns
<1>3. /\ storage' = SavedStorage(storage, intent) /\ form' = SavedPage(form, storage, intent)
      /\ SendEnds(i) /\ typings' = typings
  BY DEF Answered, Saved, formCounts
<1>4. SendsEnd
  BY <1>3, EndingEnds DEF IntentsInv
<1>5. recovery' = recovery /\ doubted' = doubted /\ Unchanged
  BY DEF Answered, ghosts, formCounts, Unchanged
<1> HIDE DEF intent
<1>6. /\ DraftsAgree'
      /\ storage'.intent \in {storage.intent, Absent}
      /\ storage'.revision = (IF storage.revision = intent.revision THEN Absent
                              ELSE storage.revision)
      /\ storage.intent # Absent /\ storage.intent.key # intent.key
           => storage'.intent = storage.intent
  BY <1>1, <1>3, SavingClears DEF IntentsInv
<1> QED BY <1>1, <1>2, <1>4, <1>5, <1>6, SavedKeeps

LEMMA UnansweredKeeps ==
  ASSUME IntentsInv, NEW i0 \in Slots, Unanswered(i0)
  PROVE  IntentsInv'
<1> USE AbsentAssumption, IntentBoundsAssumption DEF UnderWay, NoSend, Slots
<1>a. /\ sends[i0].step = "saving" /\ SendShape(sends[i0])
      /\ sends' = [sends EXCEPT ![i0].step = "asking"]
      /\ network' \subseteq network
      /\ UNCHANGED <<storage, form, recovery, messages, doubted, typedOver, crossed, typings, keys>>
  BY DEF Unanswered, ghosts, IntentsInv, SendsTyped
<1> DEFINE d == [sends[i0] EXCEPT !.step = "asking"]
<1>b. /\ sends' = [j \in Slots |-> sends'[j]] /\ sends'[i0] = d
      /\ \A j \in Slots \ {i0} : sends'[j] = sends[j]
  BY <1>a DEF IntentsInv, SendsTyped
<1>c. /\ d = [f \in {"step", "revision", "quality", "key", "prior", "found"} |-> d[f]]
      /\ d.step = "asking" /\ d.key = sends[i0].key /\ d.revision = sends[i0].revision
      /\ d.found = sends[i0].found
  BY <1>a DEF SendShape
<1> HIDE DEF d
<1>1. DraftsAgree'
  BY DEF IntentsInv, Unanswered, ghosts, formCounts, DraftsAgree, SendsTyped, Revisions
<1>2. SendsTyped'
  <2>1. SendShape(sends[i0])'
    BY <1>a, <1>b, <1>c DEF SendShape, IsIntent, Revisions, Committed, AskedFor
  <2>2. ASSUME NEW j \in Slots \ {i0}
        PROVE  SendShape(sends[j])'
    <3>1. /\ sends'[j] = sends[j] /\ SendShape(sends[j])
          /\ messages' = messages /\ keys' = keys /\ typings' = typings
      BY <1>a, <1>b DEF IntentsInv, SendsTyped
    <3> QED BY <3>1 DEF SendShape, IsIntent, Revisions, Committed, AskedFor
  <2> QED BY <1>a, <1>b, <2>1, <2>2
          DEF IntentsInv, SendsTyped, IsIntent, Revisions, Committed
<1>3. KeysName'
  <2>1. \A k, v : Owns(k, v)' => Owns(k, v)
    BY <1>a, <1>b, <1>c DEF Owns
  <2> QED BY <1>a, <2>1, NamesRemain DEF IntentsInv, KeysName, IsIntent, Revisions
<1>4. Alone'
  BY DEF IntentsInv, Unanswered, ghosts, formCounts, SendsTyped, Alone, SendShape
<1>5. CurrentIsIntended'
  BY DEF IntentsInv, Unanswered, ghosts, formCounts, DraftsAgree, SendsTyped, KeysName, Alone,
         CurrentIsIntended, Went, Counts, Owns, IsIntent, SendShape, Revisions, Committed, OnItsWay,
         AskedFor
<1>6. CheckedIsPrior'
  BY DEF IntentsInv, Unanswered, ghosts, formCounts, DraftsAgree, SendsTyped, KeysName, Alone,
         CurrentIsIntended, CheckedIsPrior, Went, Counts, Owns, IsIntent, SendShape, Revisions,
         Committed, OnItsWay, AskedFor
<1>7. OneKey'
  BY DEF IntentsInv, Unanswered, ghosts, formCounts, DraftsAgree, SendsTyped, KeysName, Alone,
         CurrentIsIntended, CheckedIsPrior, OneKey, Went, Counts, IsIntent, SendShape, Revisions,
         Committed, OnItsWay, AskedFor
<1>8. Kept'
  BY <1>a, <1>b, <1>c DEF IntentsInv, Kept
<1>9. PostsAreIntended'
  BY DEF IntentsInv, Unanswered, ghosts, formCounts, DraftsAgree, SendsTyped, KeysName, Alone,
         PostsAreIntended, Counts, IsIntent, SendShape, Revisions, Committed, OnItsWay, AskedFor
<1> QED BY <1>1, <1>2, <1>3, <1>4, <1>5, <1>6, <1>7, <1>8, <1>9 DEF IntentsInv

LEMMA LookKeeps ==
  ASSUME IntentsInv, NEW i0 \in Slots, Look(i0)
  PROVE  IntentsInv'
<1> USE AbsentAssumption, IntentBoundsAssumption DEF UnderWay, NoSend, Slots
<1>a. PICK found \in {"found", "missing", "unknown"} :
        /\ sends' = [sends EXCEPT ![i0].found = found]
        /\ found = "found" => Committed(AskedFor(sends[i0]))
  BY DEF Look, Looked, Unknown
<1>b. /\ sends[i0].step \in {"checking", "asking"} /\ SendShape(sends[i0])
      /\ UNCHANGED <<storage, form, recovery, network, messages, doubted, typedOver, crossed,
                     typings, keys>>
  BY DEF Look, ghosts, IntentsInv, SendsTyped
<1> DEFINE d == [sends[i0] EXCEPT !.found = found]
<1>c. /\ sends' = [j \in Slots |-> sends'[j]] /\ sends'[i0] = d
      /\ \A j \in Slots \ {i0} : sends'[j] = sends[j]
  BY <1>a DEF IntentsInv, SendsTyped
<1>d. /\ d = [f \in {"step", "revision", "quality", "key", "prior", "found"} |-> d[f]]
      /\ d.step = sends[i0].step /\ d.key = sends[i0].key /\ d.revision = sends[i0].revision
      /\ d.quality = sends[i0].quality /\ d.prior = sends[i0].prior /\ d.found = found
  BY <1>b DEF SendShape
<1> HIDE DEF d
<1>1. DraftsAgree'
  BY DEF IntentsInv, Look, Looked, Lost, ghosts, formCounts, DraftsAgree, SendsTyped, Revisions
<1>2. SendsTyped'
  <2>1. SendShape(sends[i0])'
    BY <1>a, <1>b, <1>c, <1>d DEF SendShape, IsIntent, Revisions, Committed, AskedFor
  <2>2. \A j \in Slots \ {i0} : SendShape(sends[j])'
    BY <1>b, <1>c
       DEF IntentsInv, SendsTyped, SendShape, IsIntent, Revisions, Committed, AskedFor
  <2> QED BY <1>b, <1>c, <2>1, <2>2
          DEF IntentsInv, SendsTyped, IsIntent, Revisions, Committed
<1>3. KeysName'
  <2>1. \A k, v : Owns(k, v)' => Owns(k, v)
    BY <1>b, <1>c, <1>d DEF Owns
  <2> QED BY <1>b, <2>1, NamesRemain DEF IntentsInv, KeysName, IsIntent, Revisions
<1>4. Alone'
  BY DEF IntentsInv, Look, Looked, Lost, ghosts, formCounts, SendsTyped, Alone, SendShape
<1>5. CurrentIsIntended'
  BY DEF IntentsInv, Look, Looked, Lost, ghosts, formCounts, DraftsAgree, SendsTyped,
         KeysName, Alone, CurrentIsIntended, Went, Counts, Owns, IsIntent, SendShape, Revisions,
         Committed, OnItsWay, AskedFor
<1>6. CheckedIsPrior'
  BY DEF IntentsInv, Look, Looked, Lost, ghosts, formCounts, DraftsAgree, SendsTyped,
         KeysName, Alone, CurrentIsIntended, CheckedIsPrior, Went, Counts, Owns, IsIntent, SendShape,
         Revisions, Committed, OnItsWay, AskedFor
<1>7. OneKey'
  BY DEF IntentsInv, Look, Looked, Lost, ghosts, formCounts, DraftsAgree, SendsTyped,
         KeysName, Alone, CurrentIsIntended, CheckedIsPrior, OneKey, Went, Counts, IsIntent,
         SendShape, Revisions, Committed, OnItsWay, AskedFor
<1>8. Kept'
  BY DEF IntentsInv, Look, Looked, Lost, ghosts, formCounts, DraftsAgree, SendsTyped,
         KeysName, Kept, IsIntent, SendShape, Revisions, Committed, Owns, AskedFor
<1>9. PostsAreIntended'
  BY DEF IntentsInv, Look, Looked, Lost, ghosts, formCounts, DraftsAgree, SendsTyped,
         KeysName, Alone, PostsAreIntended, Counts, IsIntent, SendShape, Revisions, Committed,
         OnItsWay, AskedFor
<1> QED BY <1>1, <1>2, <1>3, <1>4, <1>5, <1>6, <1>7, <1>8, <1>9 DEF IntentsInv

LEMMA AfterErrorKeeps ==
  ASSUME IntentsInv, NEW i \in Slots, AfterError(i)
  PROVE  IntentsInv'
<1> DEFINE intent == sends[i]
<1>1. /\ IsIntent(intent) /\ intent.revision # Absent
      /\ intent.found = "found" => Committed(intent.key)
  BY AbsentAssumption
     DEF AfterError, IntentsInv, SendsTyped, SendShape, IsIntent, Revisions, AskedFor
<1>2. Owns(intent.key, intent.revision)
  BY DEF AfterError, Owns
<1>3. recovery' = recovery /\ doubted' = doubted /\ Unchanged /\ typings' = typings
  BY DEF AfterError, ghosts, formCounts, Unchanged
<1>4. CASE intent.found = "found"
  <2>1. /\ storage' = SavedStorage(storage, intent) /\ form' = SavedPage(form, storage, intent)
        /\ SendEnds(i)
    BY <1>4 DEF AfterError, Saved
  <2>2. SendsEnd
    BY <2>1, EndingEnds DEF IntentsInv
  <2> HIDE DEF intent
  <2>3. /\ DraftsAgree'
        /\ storage'.intent \in {storage.intent, Absent}
        /\ storage'.revision = (IF storage.revision = intent.revision THEN Absent
                                ELSE storage.revision)
        /\ storage.intent # Absent /\ storage.intent.key # intent.key
             => storage'.intent = storage.intent
    BY <1>1, <1>3, <2>1, SavingClears DEF IntentsInv
  <2> QED BY <1>1, <1>2, <1>3, <1>4, <2>2, <2>3, SavedKeeps
<1>5. CASE intent.found # "found"
  <2>1. /\ form' = [form EXCEPT !.stage = "failed",
                      !.composer = IF storage.revision = intent.revision THEN storage.draft
                                   ELSE @]
        /\ storage' = storage /\ SendEnds(i)
    BY <1>5 DEF AfterError, KeptAfterError
  <2>2. SendsEnd
    BY <2>1, EndingEnds DEF IntentsInv
  <2> HIDE DEF intent
  <2>3. DraftsAgree'
    BY <1>3, <2>1 DEF IntentsInv, DraftsAgree, Revisions
  <2> QED BY <1>3, <2>1, <2>2, <2>3, QuietKeeps
<1> QED BY <1>4, <1>5

LEMMA AfterCheckKeeps ==
  ASSUME IntentsInv, NEW i \in Slots, AfterCheck(i)
  PROVE  IntentsInv'
<1> DEFINE prior == sends[i].prior
<1>1. /\ IsIntent(prior) /\ prior.revision # Absent
      /\ sends[i].step = "checking" /\ sends[i].revision \in Revisions
      /\ sends[i].quality \in Qualities
      /\ sends[i].found = "found" => Committed(prior.key)
  BY AbsentAssumption
     DEF AfterCheck, IntentsInv, SendsTyped, SendShape, IsIntent, Revisions, AskedFor
<1>2. Owns(prior.key, prior.revision)
  BY <1>1 DEF Owns
<1>3. /\ UNCHANGED <<recovery, messages, typedOver, crossed, typings>>
      /\ \/ /\ sends[i].found = "missing"
            /\ keys' = keys + 1
            /\ Begin(i, storage, NewIntent(sends[i].revision, sends[i].quality))
            /\ doubted' = Doubting(prior.key)
         \/ /\ sends[i].found = "found"
            /\ Saved(i, prior)
            /\ UNCHANGED <<network, keys, doubted>>
         \/ /\ form' = [form EXCEPT !.stage = "failed"]
            /\ SendEnds(i)
            /\ UNCHANGED <<storage, network, keys, doubted>>
  BY DEF AfterCheck, NotCommitted
\* Nothing is known of the prior intent: its key is given up.
<1>4. CASE /\ sends[i].found = "missing"
           /\ keys' = keys + 1
           /\ Begin(i, storage, NewIntent(sends[i].revision, sends[i].quality))
           /\ doubted' = Doubting(prior.key)
  <2> DEFINE intent == NewIntent(sends[i].revision, sends[i].quality)
  <2>1. /\ intent.revision = sends[i].revision /\ intent.key = keys + 1
        /\ intent # Absent
    BY <1>1, AbsentAssumption DEF NewIntent, IntentsInv, SendsTyped, Revisions
  <2>2. \A x \in network \cup messages : x.key = prior.key => ~Counts(x)'
    BY <1>4 DEF Counts, Doubting, OnItsWay, Committed
  <2>3. doubted \subseteq doubted' /\ crossed \subseteq crossed'
    BY <1>3, <1>4 DEF Doubting
  <2>4. \A x : Counts(x)' => Counts(x)
    BY <2>3 DEF Counts
  <2>5. ASSUME NEW x \in network \cup messages,
               Counts(x)', x.revision \in {intent.revision, storage.revision}
        PROVE  x.key = intent.key
    <3>1. Went(x)
      BY <2>4, <2>5 DEF Went
    <3>2. x.key = prior.key
      BY <1>1, <2>1, <2>5, <3>1 DEF IntentsInv, CurrentIsIntended, CheckedIsPrior
    <3> QED BY <2>2, <2>5, <3>2
  <2>6. \A post \in network : Committed(post.key) \/ ~Counts(post)' \/ post.key = intent.key
    BY <1>1, <2>2, <2>4 DEF IntentsInv, PostsAreIntended
  <2>7. Begin(i, storage, intent) /\ keys' = keys + 1
    BY <1>4
  <2> HIDE DEF intent
  <2>8. /\ sends' = [j \in Slots |-> sends'[j]]
        /\ \A j \in Slots \ {i} : sends'[j] = sends[j]
        /\ sends'[i].revision = sends[i].revision
        /\ storage'.draft = storage.draft
    BY <1>3, <2>1, <2>7, BeginDoes DEF IntentsInv
  <2>9. Alone'
    BY <1>1, <1>3, <2>8 DEF IntentsInv, Alone, UnderWay
  <2>10. Kept'
    BY <1>1, <1>3, <2>8 DEF IntentsInv, Kept, UnderWay
  <2>11. intent.revision \in Revisions
    BY <1>1, <2>1
  <2> QED BY <1>3, <2>1, <2>3, <2>5, <2>6, <2>7, <2>9, <2>10, <2>11, BeginKeeps
<1>5. CASE /\ sends[i].found = "found"
           /\ Saved(i, prior)
           /\ UNCHANGED <<network, keys, doubted>>
  <2>1. /\ storage' = SavedStorage(storage, prior) /\ form' = SavedPage(form, storage, prior)
        /\ SendEnds(i)
    BY <1>5 DEF Saved
  <2>2. SendsEnd
    BY <2>1, EndingEnds DEF IntentsInv
  <2>3. recovery' = recovery /\ doubted' = doubted /\ Unchanged /\ typings' = typings
    BY <1>3, <1>5 DEF Unchanged
  <2> HIDE DEF prior
  <2>4. /\ DraftsAgree'
        /\ storage'.intent \in {storage.intent, Absent}
        /\ storage'.revision = (IF storage.revision = prior.revision THEN Absent
                                ELSE storage.revision)
        /\ storage.intent # Absent /\ storage.intent.key # prior.key
             => storage'.intent = storage.intent
    BY <1>1, <2>1, <2>3, SavingClears DEF IntentsInv
  <2> QED BY <1>1, <1>2, <1>5, <2>2, <2>3, <2>4, SavedKeeps
<1>6. CASE /\ form' = [form EXCEPT !.stage = "failed"]
           /\ SendEnds(i)
           /\ UNCHANGED <<storage, network, keys, doubted>>
  <2>1. SendsEnd
    BY <1>6, EndingEnds DEF IntentsInv
  <2>2. DraftsAgree'
    BY <1>3, <1>6 DEF IntentsInv, DraftsAgree, Revisions
  <2> QED BY <1>3, <1>6, <2>1, <2>2, QuietKeeps DEF Unchanged
<1> QED BY <1>3, <1>4, <1>5, <1>6

LEMMA OpenFormKeeps ==
  ASSUME IntentsInv, OpenForm
  PROVE  IntentsInv'
<1>1. (CHOOSE q \in Qualities : TRUE) \in Qualities
  BY IntentBoundsAssumption
<1>2. DraftsAgree'
  BY <1>1 DEF OpenForm, LoadedPage, IntentsInv, DraftsAgree, Revisions
<1>3. SendsEnd
  BY DEF OpenForm, SendsEnd
<1> QED BY <1>2, <1>3, QuietKeeps DEF OpenForm, ghosts, Unchanged

LEMMA RecoverKeeps ==
  ASSUME IntentsInv, Recover
  PROVE  IntentsInv'
<1> USE AbsentAssumption, IntentBoundsAssumption DEF UnderWay, NoSend, Slots
<1>1. DraftsAgree'
  BY DEF IntentsInv, Recover, ghosts, formCounts, DraftsAgree, SendsTyped, Revisions
<1>2. SendsTyped'
  <2>1. storage.intent # Absent /\ recovery' = [intent |-> storage.intent, found |-> Absent]
    BY DEF Recover
  <2>2. UNCHANGED <<storage, sends, messages, typings, keys>>
    BY DEF Recover, formCounts
  <2>3. \A j \in Slots : SendShape(sends[j])'
    BY <2>2 DEF IntentsInv, SendsTyped, SendShape, IsIntent, Revisions, Committed, AskedFor
  <2>4. IsIntent(recovery.intent)' /\ recovery'.found # "found"
    BY <2>1, <2>2 DEF IntentsInv, KeysName, IsIntent, Revisions
  <2>5. recovery' = [f \in {"intent", "found"} |-> recovery'[f]]
    BY <2>1
  <2> QED BY <2>2, <2>3, <2>4, <2>5 DEF IntentsInv, SendsTyped
<1>3. KeysName'
  BY DEF IntentsInv, Recover, ghosts, formCounts, DraftsAgree, SendsTyped, KeysName,
         SendShape, IsIntent, Revisions, Owns, Committed
<1>4. Alone'
  BY DEF IntentsInv, Recover, ghosts, formCounts, SendsTyped, Alone, SendShape
<1>5. CurrentIsIntended'
  BY DEF IntentsInv, Recover, ghosts, formCounts, DraftsAgree, SendsTyped, KeysName, Alone,
         CurrentIsIntended, Went, Counts, Owns, IsIntent, SendShape, Revisions, Committed, OnItsWay,
         AskedFor
<1>6. CheckedIsPrior'
  BY DEF IntentsInv, Recover, ghosts, formCounts, DraftsAgree, SendsTyped, KeysName, Alone,
         CurrentIsIntended, CheckedIsPrior, Went, Counts, Owns, IsIntent, SendShape, Revisions,
         Committed, OnItsWay, AskedFor
<1>7. OneKey'
  BY DEF IntentsInv, Recover, ghosts, formCounts, DraftsAgree, SendsTyped, KeysName, Alone,
         CurrentIsIntended, CheckedIsPrior, OneKey, Went, Counts, IsIntent, SendShape, Revisions,
         Committed, OnItsWay, AskedFor
<1>8. Kept'
  BY DEF IntentsInv, Recover, ghosts, formCounts, DraftsAgree, SendsTyped, KeysName, Kept,
         IsIntent, SendShape, Revisions, Committed, Owns, AskedFor
<1>9. PostsAreIntended'
  BY DEF IntentsInv, Recover, ghosts, formCounts, DraftsAgree, SendsTyped, KeysName, Alone,
         PostsAreIntended, Counts, IsIntent, SendShape, Revisions, Committed, OnItsWay, AskedFor
<1> QED BY <1>1, <1>2, <1>3, <1>4, <1>5, <1>6, <1>7, <1>8, <1>9 DEF IntentsInv

LEMMA LookForIntentKeeps ==
  ASSUME IntentsInv, LookForIntent
  PROVE  IntentsInv'
<1> USE AbsentAssumption, IntentBoundsAssumption DEF UnderWay, NoSend, Slots
<1>1. DraftsAgree'
  BY DEF IntentsInv, LookForIntent, Looked, Lost, ghosts, formCounts, DraftsAgree, SendsTyped,
         Revisions
<1>2. SendsTyped'
  <2>1. PICK found \in {"found", "missing", "unknown"} :
          /\ recovery' = [recovery EXCEPT !.found = found]
          /\ found = "found" => Committed(recovery.intent.key)
    BY DEF LookForIntent, Looked, Unknown
  <2>2. recovery # Absent /\ UNCHANGED <<sends, messages, typings, keys>>
    BY DEF LookForIntent
  <2>3. \A j \in Slots : SendShape(sends[j])'
    BY <2>2 DEF IntentsInv, SendsTyped, SendShape, IsIntent, Revisions, Committed, AskedFor
  <2>4. /\ recovery' = [f \in {"intent", "found"} |-> recovery'[f]]
        /\ recovery'.intent = recovery.intent /\ recovery'.found = found
    BY <2>1, <2>2 DEF IntentsInv, SendsTyped
  <2>5. IsIntent(recovery.intent)' /\ (found = "found" => Committed(recovery.intent.key)')
    BY <2>1, <2>2, <2>4 DEF IntentsInv, SendsTyped, IsIntent, Revisions, Committed
  <2> QED BY <2>2, <2>3, <2>4, <2>5 DEF IntentsInv, SendsTyped
<1>3. KeysName'
  BY DEF IntentsInv, LookForIntent, Looked, Lost, ghosts, formCounts, DraftsAgree, SendsTyped,
         KeysName, SendShape, IsIntent, Revisions, Owns, Committed
<1>4. Alone'
  BY DEF IntentsInv, LookForIntent, Looked, Lost, ghosts, formCounts, SendsTyped, Alone,
         SendShape
<1>5. CurrentIsIntended'
  BY DEF IntentsInv, LookForIntent, Looked, Lost, ghosts, formCounts, DraftsAgree, SendsTyped,
         KeysName, Alone, CurrentIsIntended, Went, Counts, Owns, IsIntent, SendShape, Revisions,
         Committed, OnItsWay, AskedFor
<1>6. CheckedIsPrior'
  BY DEF IntentsInv, LookForIntent, Looked, Lost, ghosts, formCounts, DraftsAgree, SendsTyped,
         KeysName, Alone, CurrentIsIntended, CheckedIsPrior, Went, Counts, Owns, IsIntent, SendShape,
         Revisions, Committed, OnItsWay, AskedFor
<1>7. OneKey'
  BY DEF IntentsInv, LookForIntent, Looked, Lost, ghosts, formCounts, DraftsAgree, SendsTyped,
         KeysName, Alone, CurrentIsIntended, CheckedIsPrior, OneKey, Went, Counts, IsIntent,
         SendShape, Revisions, Committed, OnItsWay, AskedFor
<1>8. Kept'
  BY DEF IntentsInv, LookForIntent, Looked, Lost, ghosts, formCounts, DraftsAgree, SendsTyped,
         KeysName, Kept, IsIntent, SendShape, Revisions, Committed, Owns, AskedFor
<1>9. PostsAreIntended'
  BY DEF IntentsInv, LookForIntent, Looked, Lost, ghosts, formCounts, DraftsAgree, SendsTyped,
         KeysName, Alone, PostsAreIntended, Counts, IsIntent, SendShape, Revisions, Committed,
         OnItsWay, AskedFor
<1> QED BY <1>1, <1>2, <1>3, <1>4, <1>5, <1>6, <1>7, <1>8, <1>9 DEF IntentsInv

LEMMA ForgetRecoveryKeeps ==
  ASSUME IntentsInv, ForgetRecovery
  PROVE  IntentsInv'
<1>1. DraftsAgree'
  BY DEF ForgetRecovery, formCounts, IntentsInv, DraftsAgree, Revisions
<1>2. SendsEnd
  BY DEF ForgetRecovery, IntentsInv, SendsTyped, SendsEnd
<1> QED BY <1>1, <1>2, QuietKeeps DEF ForgetRecovery, ghosts, formCounts, Unchanged

LEMMA RecoveredKeeps ==
  ASSUME IntentsInv, Recovered
  PROVE  IntentsInv'
<1> DEFINE intent == recovery.intent
<1>1. /\ recovery # Absent /\ IsIntent(intent) /\ intent.revision # Absent
      /\ recovery.found = "found" => Committed(intent.key)
  BY AbsentAssumption DEF Recovered, IntentsInv, SendsTyped, IsIntent, Revisions
<1>2. Owns(intent.key, intent.revision)
  BY <1>1 DEF Owns
<1>3. /\ recovery' = Absent /\ UNCHANGED <<sends, keys, typings>> /\ Unchanged
      /\ \/ /\ recovery.found = "found"
            /\ storage' = SavedStorage(storage, intent)
            /\ form' = PageWithoutDraft(form, storage, intent.revision)
            /\ UNCHANGED doubted
         \/ /\ form' = [form EXCEPT !.composer = storage.draft, !.stage = "failed"]
            /\ UNCHANGED <<storage, doubted>>
         \/ /\ ~Available(intent)
            /\ storage' = WithoutIntent(storage, intent.key)
            /\ form' = [form EXCEPT !.stage = "failed"]
            /\ doubted' = Doubting(intent.key)
         \/ /\ form' = [form EXCEPT !.attempted = @ \ {intent.key}, !.stage = "failed"]
            /\ UNCHANGED <<storage, doubted>>
  BY DEF Recovered, formCounts, Unchanged
<1>4. SendsEnd
  BY <1>3 DEF IntentsInv, SendsTyped, SendsEnd
<1> HIDE DEF intent
<1>5. CASE /\ recovery.found = "found"
           /\ storage' = SavedStorage(storage, intent)
           /\ form' = PageWithoutDraft(form, storage, intent.revision)
           /\ UNCHANGED doubted
  <2>1. /\ DraftsAgree'
        /\ storage'.intent \in {storage.intent, Absent}
        /\ storage'.revision = (IF storage.revision = intent.revision THEN Absent
                                ELSE storage.revision)
        /\ storage.intent # Absent /\ storage.intent.key # intent.key
             => storage'.intent = storage.intent
    BY <1>1, <1>3, <1>5, SavingClears DEF IntentsInv
  <2> QED BY <1>1, <1>2, <1>3, <1>4, <1>5, <2>1, SavedKeeps
<1>6. CASE /\ \/ form' = [form EXCEPT !.composer = storage.draft, !.stage = "failed"]
              \/ \E k : form' = [form EXCEPT !.attempted = @ \ {k}, !.stage = "failed"]
           /\ UNCHANGED <<storage, doubted>>
  <2>1. DraftsAgree'
    BY <1>3, <1>6 DEF IntentsInv, DraftsAgree, Revisions
  <2> QED BY <1>3, <1>4, <1>6, <2>1, QuietKeeps
\* The draft is gone: nothing that counts has the key that is forgotten.
<1>7. CASE /\ ~Available(intent)
           /\ storage' = WithoutIntent(storage, intent.key)
           /\ form' = [form EXCEPT !.stage = "failed"]
           /\ doubted' = Doubting(intent.key)
  <2> USE AbsentAssumption, IntentBoundsAssumption DEF UnderWay, NoSend, Slots
  <2>1. /\ storage' = [f \in {"revision", "draft", "intent"} |-> storage'[f]]
        /\ storage'.revision = storage.revision /\ storage'.draft = storage.draft
        /\ storage'.intent \in {storage.intent, Absent}
        /\ storage.intent # Absent /\ storage.intent.key # intent.key
             => storage'.intent = storage.intent
    BY <1>7 DEF WithoutIntent, IntentsInv, DraftsAgree
  <2>2. DraftsAgree'
    BY <1>3, <1>7, <2>1 DEF IntentsInv, DraftsAgree, Revisions
  <2>3. /\ doubted \subseteq doubted'
        /\ \A x \in network \cup messages : x.key = intent.key => ~Counts(x)'
    BY <1>7 DEF Counts, Doubting, OnItsWay, Committed
  <2>4. \A x : Counts(x)' => Counts(x)
    BY <1>3, <2>3 DEF Counts, Unchanged
  <2>5. UNCHANGED <<sends, network, messages, typedOver, crossed, typings, keys>>
    BY <1>3 DEF Unchanged
  <2>6. SendsTyped'
    BY <1>3, <2>5
       DEF IntentsInv, SendsTyped, SendShape, IsIntent, Revisions, Committed, AskedFor
  <2>7. KeysName'
    <3>1. \A k, v : Owns(k, v)' => Owns(k, v)
      BY <1>3, <2>1, <2>5 DEF Owns
    <3> QED BY <2>1, <2>5, <3>1, NamesRemain DEF IntentsInv, KeysName, IsIntent, Revisions
  <2>8. Alone' /\ Kept'
    BY <2>1, <2>5 DEF IntentsInv, Alone, Kept
  <2>9. \A x : Went(x)' => Went(x) /\ x.key # intent.key
    BY <2>3, <2>4, <2>5 DEF Went
  <2>10. CurrentIsIntended'
    BY <2>1, <2>5, <2>9 DEF IntentsInv, CurrentIsIntended
  <2>11. CheckedIsPrior' /\ OneKey'
    BY <2>5, <2>9 DEF IntentsInv, CheckedIsPrior, OneKey
  <2>12. PostsAreIntended'
    BY <2>1, <2>3, <2>4, <2>5 DEF IntentsInv, PostsAreIntended, Committed
  <2> QED BY <2>2, <2>6, <2>7, <2>8, <2>10, <2>11, <2>12 DEF IntentsInv
<1> QED BY <1>3, <1>5, <1>6, <1>7
LEMMA InitIsSound == IntentsInit => IntentsInv
<1> SUFFICES ASSUME IntentsInit
             PROVE  IntentsInv
  OBVIOUS
<1> USE IntentBoundsAssumption DEF IntentsInit, NoSend, UnderWay
<1>1. (CHOOSE q \in Qualities : TRUE) \in Qualities
  OBVIOUS
<1>2. DraftsAgree
  BY <1>1 DEF DraftsAgree, LoadedPage
<1>3. SendsTyped
  BY DEF SendsTyped, SendShape
<1>4. KeysName
  BY DEF KeysName, Owns
<1>5. Alone /\ CurrentIsIntended /\ CheckedIsPrior /\ OneKey /\ Kept /\ PostsAreIntended
  BY DEF Alone, CurrentIsIntended, CheckedIsPrior, OneKey, Kept, PostsAreIntended, Went
<1> QED BY <1>2, <1>3, <1>4, <1>5 DEF IntentsInv

LEMMA NextKeepsIntents == IntentsInv /\ [IntentsNext]_intentVars => IntentsInv'
<1> SUFFICES ASSUME IntentsInv, [IntentsNext]_intentVars
             PROVE  IntentsInv'
  OBVIOUS
<1>1. CASE Type
  BY <1>1, TypeKeeps
<1>2. CASE ChangeQuality
  BY <1>2, ChangeQualityKeeps
<1>3. CASE SendMessage
  BY <1>3, SendMessageKeeps
<1>4. ASSUME NEW post \in network, Deliver(post)
      PROVE  IntentsInv'
  BY <1>4, DeliverKeeps
<1>5. ASSUME NEW i \in Slots, Answered(i) \/ AfterError(i) \/ AfterCheck(i)
      PROVE  IntentsInv'
  BY <1>5, AnsweredKeeps, AfterErrorKeeps, AfterCheckKeeps
<1>6. ASSUME NEW i \in Slots, Unanswered(i) \/ Look(i)
      PROVE  IntentsInv'
  BY <1>6, UnansweredKeeps, LookKeeps
<1>7. CASE OpenForm
  BY <1>7, OpenFormKeeps
<1>8. CASE Recover
  BY <1>8, RecoverKeeps
<1>9. CASE LookForIntent
  BY <1>9, LookForIntentKeeps
<1>10. CASE ForgetRecovery
  BY <1>10, ForgetRecoveryKeeps
<1>11. CASE Recovered
  BY <1>11, RecoveredKeeps
<1>12. CASE UNCHANGED intentVars
  <2>1. DraftsAgree'
    BY <1>12 DEF intentVars, IntentsInv, DraftsAgree, Revisions
  <2>2. SendsEnd
    BY <1>12 DEF intentVars, IntentsInv, SendsTyped, SendsEnd
  <2> QED BY <1>12, <2>1, <2>2, QuietKeeps DEF intentVars, Unchanged
<1> QED BY <1>1, <1>2, <1>3, <1>4, <1>5, <1>6, <1>7, <1>8, <1>9, <1>10, <1>11, <1>12
        DEF IntentsNext

LEMMA InvGivesSentOnce == IntentsInv => SentOnce
<1> SUFFICES ASSUME IntentsInv, NEW m \in messages, NEW n \in messages,
                    m.revision = n.revision, Counts(m), Counts(n)
             PROVE  m = n
  BY DEF SentOnce, Counts
<1>1. m.key = n.key
  BY DEF IntentsInv, OneKey, Went
<1> QED BY <1>1 DEF IntentsInv, KeysName

LEMMA InvGivesKept == IntentsInv => DraftIsKept
BY DEF IntentsInv, Kept, PostsAreIntended, DraftIsKept, Counts

\* However often a draft is sent, answers are lost and the page is loaded, it becomes
\* one message at most, unless the page gave its key up while the request was on its
\* way or sent it again beside a send that was under way (sendMessage and the recovery
\* effect of apps/web/src/App.tsx), for any number of keys, drafts and sends.
THEOREM DraftsAreSentOnce == IntentsSpec => []SentOnce
<1>1. IntentsSpec => []IntentsInv
  BY InitIsSound, NextKeepsIntents, PTL DEF IntentsSpec
<1> QED BY <1>1, InvGivesSentOnce, PTL

\* A draft that the composer was emptied of is a message, or still stored, or typed over,
\* and a request on its way that counts has its intent stored until it is committed.
THEOREM DraftsAreKept == IntentsSpec => []DraftIsKept
<1>1. IntentsSpec => []IntentsInv
  BY InitIsSound, NextKeepsIntents, PTL DEF IntentsSpec
<1> QED BY <1>1, InvGivesKept, PTL

-----------------------------------------------------------------------------
(* The view of the vault *)

ScreenFields == {"shown", "cache", "boundary", "isError", "refreshFailed", "scrubbing",
                 "kept", "flow", "stale", "behind"}
AView == [Parts -> Nat \cup {Nil}]

ScreenShape ==
  /\ screen = [f \in ScreenFields |-> screen[f]]
  /\ screen.shown \in AView /\ screen.cache \in AView
  /\ screen.scrubbing \in BOOLEAN /\ screen.stale \in BOOLEAN /\ screen.behind \in BOOLEAN
  /\ screen.boundary # Nil => screen.boundary \in Nat
KeptShape ==
  screen.kept # Nil =>
    /\ screen.kept.parts \in AView
    /\ screen.kept.boundary \in Nat /\ screen.kept.boundary # Nil
BootstrapShape ==
  bootstrap # Nil =>
    /\ bootstrap = [f \in {"before", "parts", "ready"} |-> bootstrap[f]]
    /\ bootstrap.parts \in AView
    /\ bootstrap.before # Nil => bootstrap.before \in Nat
    /\ bootstrap.ready \in BOOLEAN
ReadShape ==
  read # Nil =>
    /\ read = [f \in {"part", "epoch", "stale"} |-> read[f]]
    /\ read.part \in Parts
    /\ read.epoch # Nil => read.epoch \in Nat
    /\ read.stale \in BOOLEAN
RemovalShape ==
  removal # Nil => removal = [f \in {"ours", "phase"} |-> removal[f]]

ViewShape ==
  /\ epoch \in Nat /\ generation \in Nat /\ locked \in BOOLEAN
  /\ floor \in Nat /\ floor <= epoch
  /\ ScreenShape /\ KeptShape /\ BootstrapShape /\ ReadShape /\ RemovalShape

\* A removal that is past the drain holds the lock.
RemovalLocks ==
  removal # Nil /\ removal.phase \in {"drained", "committed"} => locked

\* A boundary that was handed out: older than the one there is, while it is locked.
Handed(g) == g <= generation /\ (locked => g < generation)

\* A bootstrap whose first boundary still stands has read the vault there is.
FenceHolds ==
  bootstrap # Nil /\ bootstrap.before # Nil =>
    /\ Handed(bootstrap.before)
    /\ bootstrap.before = generation =>
         \A p \in Parts : bootstrap.parts[p] # Nil => bootstrap.parts[p] = epoch
BootstrapIsWhole ==
  bootstrap # Nil =>
    /\ bootstrap.before = Nil =>
         ~bootstrap.ready /\ \A p \in Parts : bootstrap.parts[p] = Nil
    /\ bootstrap.ready =>
         /\ \A p \in Parts : bootstrap.parts[p] # Nil
         /\ \A p, q \in Parts : bootstrap.parts[p] = bootstrap.parts[q]
BootstrapIsFresh ==
  bootstrap # Nil =>
    \A p \in Parts : bootstrap.parts[p] # Nil => bootstrap.parts[p] \in floor..epoch
BootstrapFollows == BootstrapIsWhole /\ BootstrapIsFresh

CacheIsWhole == \A p, q \in Parts : screen.cache[p] = screen.cache[q]
CacheIsFresh == \A p \in Parts : screen.cache[p] # Nil => screen.cache[p] >= floor
\* What was published under the boundary there is, is the vault there is; and two
\* bootstraps under one boundary read the same.
CacheIsDated ==
  screen.boundary # Nil =>
    /\ \A p \in Parts : screen.cache[p] # Nil
    /\ Handed(screen.boundary)
    /\ screen.boundary = generation => \A p \in Parts : screen.cache[p] = epoch
    /\ bootstrap # Nil /\ bootstrap.ready /\ bootstrap.before = screen.boundary =>
         \A p \in Parts : bootstrap.parts[p] = screen.cache[p]

ShownIsFresh == \A p \in Parts : screen.shown[p] # Nil => screen.shown[p] >= floor
ShownFollows ==
  screen.kept = Nil /\ screen.boundary # Nil /\ ~screen.behind =>
    \A p \in Parts : screen.shown[p] # Nil => screen.shown[p] >= screen.cache[p]

KeptIsFresh ==
  screen.kept # Nil =>
    \A p \in Parts : screen.kept.parts[p] # Nil => screen.kept.parts[p] >= floor
KeptFollows ==
  screen.kept # Nil =>
    /\ Handed(screen.kept.boundary)
    /\ ~screen.behind =>
         /\ screen.kept.boundary = generation =>
              \A p \in Parts : screen.kept.parts[p] # Nil => screen.kept.parts[p] >= epoch
         /\ bootstrap # Nil /\ bootstrap.ready /\ bootstrap.before = screen.kept.boundary =>
              \A p, q \in Parts :
                screen.kept.parts[p] # Nil => screen.kept.parts[p] >= bootstrap.parts[q]

\* The handler that waits goes with what it waits for.
FlowFits ==
  /\ screen.kept # Nil => screen.flow \in {"none", "leaving"}
  /\ screen.flow = "leaving" => screen.kept # Nil
  /\ screen.scrubbing => screen.flow = "refreshing" /\ screen.kept = Nil
  /\ screen.flow = "refreshing" => ~screen.stale
ReadIsFresh ==
  read # Nil /\ ~read.stale =>
    /\ screen.kept = Nil
    /\ read.epoch # Nil => read.epoch >= floor

ViewInv ==
  /\ ViewShape
  /\ RemovalLocks
  /\ FenceHolds /\ BootstrapFollows
  /\ CacheIsWhole /\ CacheIsFresh /\ CacheIsDated
  /\ ShownIsFresh /\ ShownFollows
  /\ KeptIsFresh /\ KeptFollows
  /\ FlowFits /\ ReadIsFresh

(* The API and what only reads of it: one lemma for each step that disturbs *)
(* few parts of the invariant.                                              *)

LEMMA ViewOtherRemoves == ViewInv /\ OtherRemoves => ViewInv'
<1> SUFFICES ASSUME ViewInv, OtherRemoves PROVE ViewInv'
  OBVIOUS
<1> USE DEF ViewInv, OtherRemoves, vaultState, Count
<1>1. ViewShape'
  BY DEF ViewShape, ScreenShape, KeptShape, BootstrapShape, ReadShape, RemovalShape
<1>2. FenceHolds' /\ BootstrapFollows' /\ CacheIsWhole' /\ CacheIsFresh' /\
      CacheIsDated' /\ ShownIsFresh' /\ ShownFollows' /\ KeptIsFresh' /\ KeptFollows' /\
      FlowFits' /\ ReadIsFresh'
  BY DEF FenceHolds, BootstrapIsWhole, BootstrapIsFresh, CacheIsWhole, CacheIsFresh,
         CacheIsDated, ShownIsFresh, ShownFollows, KeptIsFresh, KeptFollows, FlowFits,
         ReadIsFresh, Handed, BootstrapFollows
<1>3. RemovalLocks'
  BY DEF RemovalLocks, ViewShape, RemovalShape
<1> QED
  BY <1>1, <1>2, <1>3

LEMMA ViewBeginMaintenance == ViewInv /\ BeginMaintenance => ViewInv'
<1> SUFFICES ASSUME ViewInv, BeginMaintenance PROVE ViewInv'
  OBVIOUS
<1> USE DEF ViewInv, BeginMaintenance, vaultState, Advanced
<1>1. ViewShape'
  BY DEF ViewShape, ScreenShape, KeptShape, BootstrapShape, ReadShape, RemovalShape
<1>2. BootstrapFollows' /\ CacheIsWhole' /\ CacheIsFresh' /\ ShownIsFresh' /\
      ShownFollows' /\ KeptIsFresh' /\ FlowFits' /\ ReadIsFresh'
  BY DEF BootstrapIsWhole, BootstrapIsFresh, CacheIsWhole, CacheIsFresh,
         ShownIsFresh, ShownFollows, KeptIsFresh, FlowFits, ReadIsFresh, BootstrapFollows
<1>3. RemovalLocks'
  BY DEF RemovalLocks, ViewShape, RemovalShape
<1>4. FenceHolds'
  BY DEF FenceHolds, Handed, ViewShape, BootstrapShape, AView, RemovalLocks
<1>5. CacheIsDated'
  BY DEF CacheIsDated, Handed, ViewShape, ScreenShape, RemovalLocks
<1>6. KeptFollows'
  BY DEF KeptFollows, Handed, ViewShape, KeptShape, AView, RemovalLocks
<1> QED
  BY <1>1, <1>2, <1>3, <1>4, <1>5, <1>6

LEMMA ViewCommitRemoval == ViewInv /\ CommitRemoval => ViewInv'
<1> SUFFICES ASSUME ViewInv, CommitRemoval PROVE ViewInv'
  OBVIOUS
<1> USE DEF ViewInv, CommitRemoval, vaultState
<1>1. ViewShape'
  BY DEF ViewShape, ScreenShape, KeptShape, BootstrapShape, ReadShape, RemovalShape
<1>2. BootstrapIsWhole' /\ CacheIsWhole' /\ CacheIsFresh' /\ ShownIsFresh' /\
      ShownFollows' /\ KeptIsFresh' /\ FlowFits' /\ ReadIsFresh'
  BY DEF BootstrapIsWhole, CacheIsWhole, CacheIsFresh, ShownIsFresh, ShownFollows,
         KeptIsFresh, FlowFits, ReadIsFresh, BootstrapFollows
<1>3. RemovalLocks'
  BY DEF RemovalLocks, ViewShape, RemovalShape
<1>4. FenceHolds'
  BY DEF FenceHolds, Handed, ViewShape, BootstrapShape, AView, RemovalLocks
<1>5. BootstrapIsFresh'
  BY DEF BootstrapIsFresh, BootstrapFollows, ViewShape
<1>6. CacheIsDated'
  BY DEF CacheIsDated, Handed, ViewShape, ScreenShape, RemovalLocks
<1>7. KeptFollows'
  BY DEF KeptFollows, Handed, ViewShape, KeptShape, AView, RemovalLocks
<1> QED
  BY <1>1, <1>2, <1>3, <1>4, <1>5, <1>6, <1>7 DEF BootstrapFollows

LEMMA ViewEndMaintenance == ViewInv /\ EndMaintenance => ViewInv'
<1> SUFFICES ASSUME ViewInv, EndMaintenance PROVE ViewInv'
  OBVIOUS
<1> USE DEF ViewInv, EndMaintenance, vaultState, Advanced
<1>1. ViewShape'
  <2>1. epoch' \in Nat /\ generation' \in Nat /\ floor' \in Nat
    BY DEF ViewShape
  <2>2. floor' <= epoch'
    BY DEF ViewShape
  <2>3. ScreenShape'
    BY DEF ViewShape, ScreenShape, ScreenFields, AView, Nothing
  <2>4. KeptShape'
    BY DEF ViewShape, ScreenShape, ScreenFields, KeptShape, AView
  <2>5. BootstrapShape'
    BY DEF ViewShape, BootstrapShape, AView, Nothing
  <2>6. ReadShape'
    BY DEF ViewShape, ReadShape
  <2>7. RemovalShape'
    BY DEF ViewShape, RemovalShape
  <2>8. locked' \in BOOLEAN
    BY DEF ViewShape
  <2> QED
    BY <2>1, <2>2, <2>3, <2>4, <2>5, <2>6, <2>7, <2>8 DEF ViewShape
<1>2. BootstrapFollows' /\ CacheIsWhole' /\ CacheIsFresh' /\ ShownIsFresh' /\
      ShownFollows' /\ KeptIsFresh' /\ FlowFits' /\ ReadIsFresh'
  BY DEF BootstrapIsWhole, BootstrapIsFresh, CacheIsWhole, CacheIsFresh,
         ShownIsFresh, ShownFollows, KeptIsFresh, FlowFits, ReadIsFresh, BootstrapFollows
<1>3. RemovalLocks'
  BY DEF RemovalLocks, ViewShape, RemovalShape
<1>4. FenceHolds'
  BY DEF FenceHolds, Handed, ViewShape, BootstrapShape, AView, RemovalLocks
<1>5. CacheIsDated'
  BY DEF CacheIsDated, Handed, ViewShape, ScreenShape, RemovalLocks
<1>6. KeptFollows'
  BY DEF KeptFollows, Handed, ViewShape, KeptShape, AView, RemovalLocks
<1> QED
  BY <1>1, <1>2, <1>3, <1>4, <1>5, <1>6

LEMMA ViewLoseAnswer == ViewInv /\ LoseAnswer => ViewInv'
<1> SUFFICES ASSUME ViewInv, LoseAnswer PROVE ViewInv'
  OBVIOUS
<1> USE DEF ViewInv, LoseAnswer, vaultState
<1>1. ViewShape'
  BY DEF ViewShape, ScreenShape, KeptShape, BootstrapShape, ReadShape, RemovalShape
<1>2. FenceHolds' /\ BootstrapFollows' /\ CacheIsWhole' /\ CacheIsFresh' /\
      CacheIsDated' /\ ShownIsFresh' /\ ShownFollows' /\ KeptIsFresh' /\ KeptFollows' /\
      FlowFits' /\ ReadIsFresh'
  BY DEF FenceHolds, BootstrapIsWhole, BootstrapIsFresh, CacheIsWhole, CacheIsFresh,
         CacheIsDated, ShownIsFresh, ShownFollows, KeptIsFresh, KeptFollows, FlowFits,
         ReadIsFresh, Handed, BootstrapFollows
<1>3. RemovalLocks'
  BY DEF RemovalLocks, ViewShape, RemovalShape
<1> QED
  BY <1>1, <1>2, <1>3

LEMMA ViewRestartApi == ViewInv /\ RestartApi => ViewInv'
<1> SUFFICES ASSUME ViewInv, RestartApi PROVE ViewInv'
  OBVIOUS
<1> USE DEF ViewInv, RestartApi, vaultState, Count
<1>1. ViewShape'
  <2>1. epoch' \in Nat /\ generation' \in Nat /\ floor' \in Nat
    BY DEF ViewShape
  <2>2. floor' <= epoch'
    BY DEF ViewShape
  <2>3. ScreenShape'
    BY DEF ViewShape, ScreenShape, ScreenFields, AView, Nothing
  <2>4. KeptShape'
    BY DEF ViewShape, ScreenShape, ScreenFields, KeptShape, AView
  <2>5. BootstrapShape'
    BY DEF ViewShape, BootstrapShape, AView, Nothing
  <2>6. ReadShape'
    BY DEF ViewShape, ReadShape
  <2>7. RemovalShape'
    BY DEF ViewShape, RemovalShape
  <2>8. locked' \in BOOLEAN
    BY DEF ViewShape
  <2> QED
    BY <2>1, <2>2, <2>3, <2>4, <2>5, <2>6, <2>7, <2>8 DEF ViewShape
<1>2. BootstrapIsWhole' /\ CacheIsWhole' /\ CacheIsFresh' /\ ShownIsFresh' /\
      ShownFollows' /\ KeptIsFresh' /\ FlowFits' /\ ReadIsFresh'
  BY DEF BootstrapIsWhole, CacheIsWhole, CacheIsFresh, ShownIsFresh, ShownFollows,
         KeptIsFresh, FlowFits, ReadIsFresh, BootstrapFollows
<1>3. RemovalLocks'
  BY DEF RemovalLocks, ViewShape, RemovalShape
<1>4. FenceHolds'
  BY DEF FenceHolds, Handed, ViewShape, BootstrapShape, AView, RemovalLocks
<1>5. BootstrapIsFresh'
  BY DEF BootstrapIsFresh, BootstrapFollows, ViewShape
<1>6. CacheIsDated'
  BY DEF CacheIsDated, Handed, ViewShape, ScreenShape, RemovalLocks
<1>7. KeptFollows'
  BY DEF KeptFollows, Handed, ViewShape, KeptShape, AView, RemovalLocks
<1> QED
  BY <1>1, <1>2, <1>3, <1>4, <1>5, <1>6, <1>7 DEF BootstrapFollows

LEMMA ViewRefetch == ViewInv /\ Refetch => ViewInv'
<1> SUFFICES ASSUME ViewInv, Refetch PROVE ViewInv'
  OBVIOUS
<1> USE DEF ViewInv, Refetch, vaultState, Count, Started
<1>1. ViewShape'
  BY DEF ViewShape, ScreenShape, KeptShape, BootstrapShape, ReadShape, RemovalShape,
         AView, Nothing
<1>2. RemovalLocks' /\ CacheIsWhole' /\ CacheIsFresh' /\ ShownIsFresh' /\
      ShownFollows' /\ KeptIsFresh' /\ FlowFits' /\ ReadIsFresh'
  BY DEF RemovalLocks, CacheIsWhole, CacheIsFresh, ShownIsFresh, ShownFollows,
         KeptIsFresh, FlowFits, ReadIsFresh
<1>3. FenceHolds'
  BY DEF FenceHolds, Handed, ViewShape, BootstrapShape, AView, Nothing
<1>4. BootstrapIsWhole'
  BY DEF BootstrapIsWhole, BootstrapFollows, ViewShape, BootstrapShape, AView,
         Nothing
<1>5. BootstrapIsFresh'
  BY DEF BootstrapIsFresh, BootstrapFollows, ViewShape, BootstrapShape, AView,
         Nothing
<1>6. CacheIsDated'
  BY DEF CacheIsDated, Handed, ViewShape, BootstrapShape, AView, Nothing
<1>7. KeptFollows'
  BY DEF KeptFollows, Handed, ViewShape, BootstrapShape, AView, Nothing
<1> QED
  BY <1>1, <1>2, <1>3, <1>4, <1>5, <1>6, <1>7 DEF BootstrapFollows

LEMMA ViewRetry == ViewInv /\ Retry => ViewInv'
<1> SUFFICES ASSUME ViewInv, Retry PROVE ViewInv'
  OBVIOUS
<1> USE DEF ViewInv, Retry, vaultState, Count, Started, Offline
<1>1. ViewShape'
  BY DEF ViewShape, ScreenShape, KeptShape, BootstrapShape, ReadShape, RemovalShape,
         ScreenFields, AView, Nothing
<1>2. RemovalLocks'
  BY DEF RemovalLocks
<1>3. FenceHolds'
  BY DEF FenceHolds, Handed, ViewShape, BootstrapShape, AView, Nothing
<1>4. BootstrapIsWhole'
  BY DEF BootstrapIsWhole, BootstrapFollows, ViewShape, BootstrapShape, AView,
         Nothing
<1>5. BootstrapIsFresh'
  BY DEF BootstrapIsFresh, BootstrapFollows, ViewShape, BootstrapShape, AView,
         Nothing
<1>6. CacheIsWhole'
  BY DEF CacheIsWhole, ViewShape, ScreenShape, ScreenFields
<1>7. CacheIsFresh'
  BY DEF CacheIsFresh, ViewShape, ScreenShape, ScreenFields
<1>8. CacheIsDated'
  BY DEF CacheIsDated, Handed, ViewShape, BootstrapShape, AView, Nothing,
         ScreenShape, ScreenFields
<1>9. ShownIsFresh'
  BY DEF ShownIsFresh, ViewShape, ScreenShape, ScreenFields
<1>10. ShownFollows'
  BY DEF ShownFollows, ViewShape, ScreenShape, ScreenFields
<1>11. KeptIsFresh'
  BY DEF KeptIsFresh, ViewShape, ScreenShape, ScreenFields
<1>12. KeptFollows'
  BY DEF KeptFollows, Handed, ViewShape, BootstrapShape, AView, Nothing, ScreenShape,
         ScreenFields
<1>13. FlowFits'
  BY DEF FlowFits, ViewShape, ScreenShape, ScreenFields
<1>14. ReadIsFresh'
  BY DEF ReadIsFresh, ViewShape, ScreenShape, ScreenFields
<1> QED
  BY <1>1, <1>2, <1>3, <1>4, <1>5, <1>6, <1>7, <1>8, <1>9, <1>10, <1>11, <1>12,
         <1>13, <1>14 DEF BootstrapFollows

LEMMA ViewOpenSnapshot == ViewInv /\ OpenSnapshot => ViewInv'
<1> SUFFICES ASSUME ViewInv, OpenSnapshot PROVE ViewInv'
  OBVIOUS
<1> USE DEF ViewInv, OpenSnapshot, vaultState
<1>1. ViewShape'
  BY DEF ViewShape, ScreenShape, KeptShape, BootstrapShape, ReadShape, RemovalShape,
         AView, Nothing
<1>2. RemovalLocks' /\ CacheIsWhole' /\ CacheIsFresh' /\ ShownIsFresh' /\
      ShownFollows' /\ KeptIsFresh' /\ FlowFits' /\ ReadIsFresh'
  BY DEF RemovalLocks, CacheIsWhole, CacheIsFresh, ShownIsFresh, ShownFollows,
         KeptIsFresh, FlowFits, ReadIsFresh
<1>3. FenceHolds'
  BY DEF FenceHolds, Handed, ViewShape, BootstrapShape, AView, Nothing,
         BootstrapFollows, BootstrapIsWhole
<1>4. BootstrapIsWhole'
  BY DEF BootstrapIsWhole, BootstrapFollows, ViewShape, BootstrapShape, AView,
         Nothing
<1>5. BootstrapIsFresh'
  BY DEF BootstrapIsFresh, BootstrapFollows, ViewShape, BootstrapShape, AView,
         Nothing
<1>6. CacheIsDated'
  BY DEF CacheIsDated, Handed, ViewShape, BootstrapShape, AView, Nothing,
         BootstrapFollows, BootstrapIsWhole
<1>7. KeptFollows'
  BY DEF KeptFollows, Handed, ViewShape, BootstrapShape, AView, Nothing,
         BootstrapFollows, BootstrapIsWhole
<1> QED
  BY <1>1, <1>2, <1>3, <1>4, <1>5, <1>6, <1>7 DEF BootstrapFollows

LEMMA ViewReadPart == \A p \in Parts : ViewInv /\ ReadPart(p) => ViewInv'
<1> SUFFICES ASSUME NEW p \in Parts, ViewInv, ReadPart(p) PROVE ViewInv'
  OBVIOUS
<1> USE DEF ViewInv, ReadPart, vaultState
<1>1. ViewShape'
  BY DEF ViewShape, ScreenShape, KeptShape, BootstrapShape, ReadShape, RemovalShape,
         AView, Nothing
<1>2. RemovalLocks' /\ CacheIsWhole' /\ CacheIsFresh' /\ ShownIsFresh' /\
      ShownFollows' /\ KeptIsFresh' /\ FlowFits' /\ ReadIsFresh'
  BY DEF RemovalLocks, CacheIsWhole, CacheIsFresh, ShownIsFresh, ShownFollows,
         KeptIsFresh, FlowFits, ReadIsFresh
<1>3. FenceHolds'
  BY DEF FenceHolds, Handed, ViewShape, BootstrapShape, AView, Nothing
<1>4. BootstrapIsWhole'
  BY DEF BootstrapIsWhole, BootstrapFollows, ViewShape, BootstrapShape, AView,
         Nothing
<1>5. BootstrapIsFresh'
  BY DEF BootstrapIsFresh, BootstrapFollows, ViewShape, BootstrapShape, AView,
         Nothing
<1>6. CacheIsDated'
  BY DEF CacheIsDated, Handed, ViewShape, BootstrapShape, AView, Nothing
<1>7. KeptFollows'
  BY DEF KeptFollows, Handed, ViewShape, BootstrapShape, AView, Nothing
<1> QED
  BY <1>1, <1>2, <1>3, <1>4, <1>5, <1>6, <1>7 DEF BootstrapFollows

LEMMA ViewCloseSnapshot == ViewInv /\ CloseSnapshot => ViewInv'
<1> SUFFICES ASSUME ViewInv, CloseSnapshot PROVE ViewInv'
  OBVIOUS
<1> USE DEF ViewInv, CloseSnapshot, vaultState, SameBoundary
<1>1. ViewShape'
  BY DEF ViewShape, ScreenShape, KeptShape, BootstrapShape, ReadShape, RemovalShape,
         AView, Nothing
<1>2. RemovalLocks' /\ CacheIsWhole' /\ CacheIsFresh' /\ ShownIsFresh' /\
      ShownFollows' /\ KeptIsFresh' /\ FlowFits' /\ ReadIsFresh'
  BY DEF RemovalLocks, CacheIsWhole, CacheIsFresh, ShownIsFresh, ShownFollows,
         KeptIsFresh, FlowFits, ReadIsFresh
<1>3. FenceHolds'
  BY DEF FenceHolds, Handed, ViewShape, BootstrapShape, AView, Nothing
<1>4. BootstrapIsWhole'
  BY DEF BootstrapIsWhole, BootstrapFollows, ViewShape, BootstrapShape, AView,
         Nothing, FenceHolds
<1>5. BootstrapIsFresh'
  BY DEF BootstrapIsFresh, BootstrapFollows, ViewShape, BootstrapShape, AView,
         Nothing
<1>6. CacheIsDated'
  BY DEF CacheIsDated, Handed, ViewShape, BootstrapShape, AView, Nothing, FenceHolds
<1>7. KeptFollows'
  BY DEF KeptFollows, Handed, ViewShape, BootstrapShape, AView, Nothing, FenceHolds,
         KeptShape
<1> QED
  BY <1>1, <1>2, <1>3, <1>4, <1>5, <1>6, <1>7 DEF BootstrapFollows

LEMMA ViewAskPart == \A p \in Parts : ViewInv /\ AskPart(p) => ViewInv'
<1> SUFFICES ASSUME NEW p \in Parts, ViewInv, AskPart(p) PROVE ViewInv'
  OBVIOUS
<1> USE DEF ViewInv, AskPart, vaultState, Count, Offline, Previews
<1>1. ViewShape'
  BY DEF ViewShape, ScreenShape, KeptShape, BootstrapShape, ReadShape, RemovalShape
<1>2. RemovalLocks' /\ FenceHolds' /\ BootstrapFollows' /\ CacheIsWhole' /\
      CacheIsFresh' /\ CacheIsDated' /\ ShownIsFresh' /\ ShownFollows' /\ KeptIsFresh' /\
      KeptFollows' /\ FlowFits'
  BY DEF RemovalLocks, FenceHolds, BootstrapIsWhole, BootstrapIsFresh, CacheIsWhole,
         CacheIsFresh, CacheIsDated, ShownIsFresh, ShownFollows, KeptIsFresh, KeptFollows,
         FlowFits, Handed, BootstrapFollows
<1>3. ReadIsFresh'
  BY DEF ReadIsFresh, ViewShape, ReadShape
<1> QED
  BY <1>1, <1>2, <1>3

LEMMA ViewAnswerPart == ViewInv /\ AnswerPart => ViewInv'
<1> SUFFICES ASSUME ViewInv, AnswerPart PROVE ViewInv'
  OBVIOUS
<1> USE DEF ViewInv, AnswerPart, vaultState
<1>1. ViewShape'
  BY DEF ViewShape, ScreenShape, KeptShape, BootstrapShape, ReadShape, RemovalShape
<1>2. RemovalLocks' /\ FenceHolds' /\ BootstrapFollows' /\ CacheIsWhole' /\
      CacheIsFresh' /\ CacheIsDated' /\ ShownIsFresh' /\ ShownFollows' /\ KeptIsFresh' /\
      KeptFollows' /\ FlowFits'
  BY DEF RemovalLocks, FenceHolds, BootstrapIsWhole, BootstrapIsFresh, CacheIsWhole,
         CacheIsFresh, CacheIsDated, ShownIsFresh, ShownFollows, KeptIsFresh, KeptFollows,
         FlowFits, Handed, BootstrapFollows
<1>3. ReadIsFresh'
  BY DEF ReadIsFresh, ViewShape, ReadShape
<1> QED
  BY <1>1, <1>2, <1>3

LEMMA ViewConfirm == ViewInv /\ Confirm => ViewInv'
<1> SUFFICES ASSUME ViewInv, Confirm PROVE ViewInv'
  OBVIOUS
<1> USE DEF ViewInv, Confirm, vaultState, Count, Offline, Previews
<1>1. ViewShape'
  BY DEF ViewShape, ScreenShape, KeptShape, BootstrapShape, ReadShape, RemovalShape,
         ScreenFields, AView, Nothing
<1>2. FenceHolds' /\ BootstrapFollows'
  BY DEF FenceHolds, BootstrapIsWhole, BootstrapIsFresh, Handed, BootstrapFollows
<1>3. RemovalLocks'
  BY DEF RemovalLocks, ViewShape, RemovalShape
<1>4. CacheIsWhole'
  BY DEF CacheIsWhole, ViewShape, ScreenShape, ScreenFields
<1>5. CacheIsFresh'
  BY DEF CacheIsFresh, ViewShape, ScreenShape, ScreenFields
<1>6. CacheIsDated'
  BY DEF CacheIsDated, Handed, ViewShape, ScreenShape, ScreenFields
<1>7. ShownIsFresh'
  BY DEF ShownIsFresh, ViewShape, ScreenShape, ScreenFields
<1>8. ShownFollows'
  BY DEF ShownFollows, ViewShape, ScreenShape, ScreenFields
<1>9. KeptIsFresh'
  BY DEF KeptIsFresh, ViewShape, ScreenShape, ScreenFields
<1>10. KeptFollows'
  BY DEF KeptFollows, Handed, ViewShape, ScreenShape, ScreenFields
<1>11. FlowFits'
  BY DEF FlowFits, ViewShape, ScreenShape, ScreenFields
<1>12. ReadIsFresh'
  BY DEF ReadIsFresh, ViewShape, ScreenShape, ScreenFields
<1> QED
  BY <1>1, <1>2, <1>3, <1>4, <1>5, <1>6, <1>7, <1>8, <1>9, <1>10, <1>11, <1>12

LEMMA ViewIgnoreAnswer == ViewInv /\ IgnoreAnswer => ViewInv'
<1> SUFFICES ASSUME ViewInv, IgnoreAnswer PROVE ViewInv'
  OBVIOUS
<1> USE DEF ViewInv, IgnoreAnswer, vaultState
<1>1. ViewShape'
  BY DEF ViewShape, ScreenShape, KeptShape, BootstrapShape, ReadShape, RemovalShape,
         ScreenFields, AView, Nothing
<1>2. RemovalLocks' /\ FenceHolds' /\ BootstrapFollows'
  BY DEF RemovalLocks, FenceHolds, BootstrapIsWhole, BootstrapIsFresh, Handed,
         BootstrapFollows
<1>3. CacheIsWhole'
  BY DEF CacheIsWhole, ViewShape, ScreenShape, ScreenFields
<1>4. CacheIsFresh'
  BY DEF CacheIsFresh, ViewShape, ScreenShape, ScreenFields
<1>5. CacheIsDated'
  BY DEF CacheIsDated, Handed, ViewShape, ScreenShape, ScreenFields
<1>6. ShownIsFresh'
  BY DEF ShownIsFresh, ViewShape, ScreenShape, ScreenFields
<1>7. ShownFollows'
  BY DEF ShownFollows, ViewShape, ScreenShape, ScreenFields
<1>8. KeptIsFresh'
  BY DEF KeptIsFresh, ViewShape, ScreenShape, ScreenFields
<1>9. KeptFollows'
  BY DEF KeptFollows, Handed, ViewShape, ScreenShape, ScreenFields
<1>10. FlowFits'
  BY DEF FlowFits, ViewShape, ScreenShape, ScreenFields
<1>11. ReadIsFresh'
  BY DEF ReadIsFresh, ViewShape, ScreenShape, ScreenFields
<1> QED
  BY <1>1, <1>2, <1>3, <1>4, <1>5, <1>6, <1>7, <1>8, <1>9, <1>10, <1>11

LEMMA ViewRemovalCommitted == ViewInv /\ RemovalCommitted => ViewInv'
<1> SUFFICES ASSUME ViewInv, RemovalCommitted PROVE ViewInv'
  OBVIOUS
<1> USE DEF ViewInv, RemovalCommitted, vaultState, Scrubbed, ScrubStep, StaleRead, Started
<1>1. ViewShape'
  <2>1. epoch' \in Nat /\ generation' \in Nat /\ floor' \in Nat
    BY DEF ViewShape
  <2>2. floor' <= epoch'
    BY DEF ViewShape
  <2>3. ScreenShape'
    BY DEF ViewShape, ScreenShape, ScreenFields, AView, Nothing
  <2>4. KeptShape'
    BY DEF ViewShape, ScreenShape, ScreenFields, KeptShape, AView
  <2>5. BootstrapShape'
    BY DEF ViewShape, BootstrapShape, AView, Nothing
  <2>6. ReadShape'
    BY DEF ViewShape, ReadShape
  <2>7. RemovalShape'
    BY DEF ViewShape, RemovalShape
  <2>8. locked' \in BOOLEAN
    BY DEF ViewShape
  <2> QED
    BY <2>1, <2>2, <2>3, <2>4, <2>5, <2>6, <2>7, <2>8 DEF ViewShape
<1>2. RemovalLocks'
  BY DEF RemovalLocks
<1>3. FenceHolds'
  BY DEF FenceHolds, Handed, ViewShape, BootstrapShape, AView, Nothing
<1>4. BootstrapIsWhole'
  BY DEF BootstrapIsWhole, BootstrapFollows, ViewShape, BootstrapShape, AView,
         Nothing
<1>5. BootstrapIsFresh'
  BY DEF BootstrapIsFresh, BootstrapFollows, ViewShape, BootstrapShape, AView,
         Nothing
<1>6. CacheIsWhole'
  BY DEF CacheIsWhole, ViewShape, ScreenShape, ScreenFields, Nothing
<1>7. CacheIsFresh'
  BY DEF CacheIsFresh, ViewShape, ScreenShape, ScreenFields, Nothing
<1>8. CacheIsDated'
  BY DEF CacheIsDated, Handed, ViewShape, BootstrapShape, AView, Nothing,
         ScreenShape, ScreenFields
<1>9. ShownIsFresh'
  BY DEF ShownIsFresh, ViewShape, ScreenShape, ScreenFields, Nothing
<1>10. ShownFollows'
  BY DEF ShownFollows, ViewShape, ScreenShape, ScreenFields
<1>11. KeptIsFresh'
  BY DEF KeptIsFresh, ViewShape, ScreenShape, ScreenFields, FlowFits
<1>12. KeptFollows'
  BY DEF KeptFollows, Handed, ViewShape, BootstrapShape, AView, Nothing, ScreenShape,
         ScreenFields, FlowFits
<1>13. FlowFits'
  BY DEF FlowFits, ViewShape, ScreenShape, ScreenFields
<1>14. ReadIsFresh'
  BY DEF ReadIsFresh, ViewShape, ScreenShape, ScreenFields, ReadShape
<1> QED
  BY <1>1, <1>2, <1>3, <1>4, <1>5, <1>6, <1>7, <1>8, <1>9, <1>10, <1>11, <1>12,
         <1>13, <1>14 DEF BootstrapFollows

LEMMA ViewMayBeCommitted == ViewInv /\ MayBeCommitted => ViewInv'
<1> SUFFICES ASSUME ViewInv, MayBeCommitted PROVE ViewInv'
  OBVIOUS
<1> USE DEF ViewInv, MayBeCommitted, vaultState, Scrubbed, ScrubStep, StaleRead
<1>1. ViewShape'
  <2>1. epoch' \in Nat /\ generation' \in Nat /\ floor' \in Nat
    BY DEF ViewShape
  <2>2. floor' <= epoch'
    BY DEF ViewShape
  <2>3. ScreenShape'
    BY DEF ViewShape, ScreenShape, ScreenFields, AView, Nothing
  <2>4. KeptShape'
    BY DEF ViewShape, ScreenShape, ScreenFields, KeptShape, AView
  <2>5. BootstrapShape'
    BY DEF ViewShape, BootstrapShape, AView, Nothing
  <2>6. ReadShape'
    BY DEF ViewShape, ReadShape
  <2>7. RemovalShape'
    BY DEF ViewShape, RemovalShape
  <2>8. locked' \in BOOLEAN
    BY DEF ViewShape
  <2> QED
    BY <2>1, <2>2, <2>3, <2>4, <2>5, <2>6, <2>7, <2>8 DEF ViewShape
<1>2. RemovalLocks'
  BY DEF RemovalLocks
<1>3. FenceHolds'
  BY DEF FenceHolds, Handed, ViewShape, BootstrapShape, AView, Nothing
<1>4. BootstrapIsWhole'
  BY DEF BootstrapIsWhole, BootstrapFollows, ViewShape, BootstrapShape, AView,
         Nothing
<1>5. BootstrapIsFresh'
  BY DEF BootstrapIsFresh, BootstrapFollows, ViewShape, BootstrapShape, AView,
         Nothing
<1>6. CacheIsWhole'
  BY DEF CacheIsWhole, ViewShape, ScreenShape, ScreenFields, Nothing
<1>7. CacheIsFresh'
  BY DEF CacheIsFresh, ViewShape, ScreenShape, ScreenFields, Nothing
<1>8. CacheIsDated'
  BY DEF CacheIsDated, Handed, ViewShape, BootstrapShape, AView, Nothing,
         ScreenShape, ScreenFields
<1>9. ShownIsFresh'
  BY DEF ShownIsFresh, ViewShape, ScreenShape, ScreenFields, Nothing
<1>10. ShownFollows'
  BY DEF ShownFollows, ViewShape, ScreenShape, ScreenFields
<1>11. KeptIsFresh'
  BY DEF KeptIsFresh, ViewShape, ScreenShape, ScreenFields, FlowFits
<1>12. KeptFollows'
  BY DEF KeptFollows, Handed, ViewShape, BootstrapShape, AView, Nothing, ScreenShape,
         ScreenFields, FlowFits
<1>13. FlowFits'
  BY DEF FlowFits, ViewShape, ScreenShape, ScreenFields
<1>14. ReadIsFresh'
  BY DEF ReadIsFresh, ViewShape, ScreenShape, ScreenFields, ReadShape
<1> QED
  BY <1>1, <1>2, <1>3, <1>4, <1>5, <1>6, <1>7, <1>8, <1>9, <1>10, <1>11, <1>12,
         <1>13, <1>14 DEF BootstrapFollows

LEMMA ViewRefused == ViewInv /\ Refused => ViewInv'
<1> SUFFICES ASSUME ViewInv, Refused PROVE ViewInv'
  OBVIOUS
<1> USE DEF ViewInv, Refused, vaultState
<1>1. ViewShape'
  BY DEF ViewShape, ScreenShape, KeptShape, BootstrapShape, ReadShape, RemovalShape,
         ScreenFields, AView, Nothing
<1>2. RemovalLocks' /\ FenceHolds' /\ BootstrapFollows'
  BY DEF RemovalLocks, FenceHolds, BootstrapIsWhole, BootstrapIsFresh, Handed,
         BootstrapFollows
<1>3. CacheIsWhole'
  BY DEF CacheIsWhole, ViewShape, ScreenShape, ScreenFields
<1>4. CacheIsFresh'
  BY DEF CacheIsFresh, ViewShape, ScreenShape, ScreenFields
<1>5. CacheIsDated'
  BY DEF CacheIsDated, Handed, ViewShape, ScreenShape, ScreenFields
<1>6. ShownIsFresh'
  BY DEF ShownIsFresh, ViewShape, ScreenShape, ScreenFields
<1>7. ShownFollows'
  BY DEF ShownFollows, ViewShape, ScreenShape, ScreenFields
<1>8. KeptIsFresh'
  BY DEF KeptIsFresh, ViewShape, ScreenShape, ScreenFields
<1>9. KeptFollows'
  BY DEF KeptFollows, Handed, ViewShape, ScreenShape, ScreenFields
<1>10. FlowFits'
  BY DEF FlowFits, ViewShape, ScreenShape, ScreenFields
<1>11. ReadIsFresh'
  BY DEF ReadIsFresh, ViewShape, ScreenShape, ScreenFields
<1> QED
  BY <1>1, <1>2, <1>3, <1>4, <1>5, <1>6, <1>7, <1>8, <1>9, <1>10, <1>11

LEMMA ViewPreview == ViewInv /\ Preview => ViewInv'
<1> SUFFICES ASSUME ViewInv, Preview PROVE ViewInv'
  OBVIOUS
<1> USE DEF ViewInv, Preview, vaultState, Offline, Previews, StaleRead
<1>1. ViewShape'
  BY DEF ViewShape, ScreenShape, KeptShape, BootstrapShape, ReadShape, RemovalShape,
         ScreenFields, AView, Nothing
<1>2. RemovalLocks' /\ FenceHolds' /\ BootstrapFollows'
  BY DEF RemovalLocks, FenceHolds, BootstrapIsWhole, BootstrapIsFresh, Handed,
         BootstrapFollows
<1>3. CacheIsWhole'
  BY DEF CacheIsWhole, ViewShape, ScreenShape, ScreenFields
<1>4. CacheIsFresh'
  BY DEF CacheIsFresh, ViewShape, ScreenShape, ScreenFields
<1>5. CacheIsDated'
  BY DEF CacheIsDated, Handed, ViewShape, ScreenShape, ScreenFields
<1>6. ShownIsFresh'
  BY DEF ShownIsFresh, ViewShape, ScreenShape, ScreenFields, Nothing
<1>7. ShownFollows'
  BY DEF ShownFollows, ViewShape, ScreenShape, ScreenFields, Nothing
<1>8. KeptIsFresh'
  BY DEF KeptIsFresh, ViewShape, ScreenShape, ScreenFields, AView, ShownIsFresh
<1>9. KeptFollows'
  BY DEF KeptFollows, Handed, ViewShape, ScreenShape, ScreenFields, AView,
         ShownFollows, CacheIsDated, FlowFits, CacheIsWhole
<1>10. FlowFits'
  BY DEF FlowFits, ViewShape, ScreenShape, ScreenFields
<1>11. ReadIsFresh'
  BY DEF ReadIsFresh, ViewShape, ScreenShape, ScreenFields, ReadShape
<1> QED
  BY <1>1, <1>2, <1>3, <1>4, <1>5, <1>6, <1>7, <1>8, <1>9, <1>10, <1>11

LEMMA ViewLeave == ViewInv /\ Leave => ViewInv'
<1> SUFFICES ASSUME ViewInv, Leave PROVE ViewInv'
  OBVIOUS
<1> USE DEF ViewInv, Leave, vaultState, Previews, Count, Started
<1>1. ViewShape'
  BY DEF ViewShape, ScreenShape, KeptShape, BootstrapShape, ReadShape, RemovalShape,
         ScreenFields, AView, Nothing
<1>2. RemovalLocks'
  BY DEF RemovalLocks
<1>3. FenceHolds'
  BY DEF FenceHolds, Handed, ViewShape, BootstrapShape, AView, Nothing
<1>4. BootstrapIsWhole'
  BY DEF BootstrapIsWhole, BootstrapFollows, ViewShape, BootstrapShape, AView,
         Nothing
<1>5. BootstrapIsFresh'
  BY DEF BootstrapIsFresh, BootstrapFollows, ViewShape, BootstrapShape, AView,
         Nothing
<1>6. CacheIsWhole'
  BY DEF CacheIsWhole, ViewShape, ScreenShape, ScreenFields
<1>7. CacheIsFresh'
  BY DEF CacheIsFresh, ViewShape, ScreenShape, ScreenFields
<1>8. CacheIsDated'
  BY DEF CacheIsDated, Handed, ViewShape, BootstrapShape, AView, Nothing,
         ScreenShape, ScreenFields
<1>9. ShownIsFresh'
  BY DEF ShownIsFresh, ViewShape, ScreenShape, ScreenFields
<1>10. ShownFollows'
  BY DEF ShownFollows, ViewShape, ScreenShape, ScreenFields
<1>11. KeptIsFresh'
  BY DEF KeptIsFresh, ViewShape, ScreenShape, ScreenFields
<1>12. KeptFollows'
  BY DEF KeptFollows, Handed, ViewShape, BootstrapShape, AView, Nothing, ScreenShape,
         ScreenFields
<1>13. FlowFits'
  BY DEF FlowFits, ViewShape, ScreenShape, ScreenFields
<1>14. ReadIsFresh'
  BY DEF ReadIsFresh, ViewShape, ScreenShape, ScreenFields
<1> QED
  BY <1>1, <1>2, <1>3, <1>4, <1>5, <1>6, <1>7, <1>8, <1>9, <1>10, <1>11, <1>12,
         <1>13, <1>14 DEF BootstrapFollows

\* What is published is whole, fresh and dated.
LEMMA PublishedParts ==
  ASSUME ViewInv, bootstrap # Nil, bootstrap.ready
  PROVE  /\ bootstrap.parts \in AView
         /\ bootstrap.before \in Nat /\ bootstrap.before # Nil
         /\ Handed(bootstrap.before)
         /\ \A p \in Parts : bootstrap.parts[p] \in Nat /\ bootstrap.parts[p] # Nil
         /\ \A p \in Parts : bootstrap.parts[p] \in floor..epoch
         /\ \A p, q \in Parts : bootstrap.parts[p] = bootstrap.parts[q]
         /\ bootstrap.before = generation => \A p \in Parts : bootstrap.parts[p] = epoch
  BY DEF ViewInv, ViewShape, BootstrapShape, AView, FenceHolds, BootstrapFollows,
         BootstrapIsWhole, BootstrapIsFresh

\* A view that is scrubbed as the demo is left.
LEMMA LeftAndScrubbed ==
  ASSUME ViewInv, bootstrap' = Nil, UNCHANGED <<epoch, generation, locked, removal>>,
         ScrubStep,
         screen' = [f \in ScreenFields |-> screen'[f]],
         screen'.shown = Nothing, screen'.cache = Nothing, screen'.boundary = Nil,
         screen'.kept = Nil, screen'.flow = "none", screen'.stale = screen.stale,
         screen'.behind = FALSE, screen'.scrubbing = FALSE
  PROVE  ViewInv'
<1>1. /\ epoch \in Nat /\ generation \in Nat /\ floor' = epoch
      /\ ReadShape /\ RemovalShape /\ RemovalLocks
      /\ screen.stale \in BOOLEAN
  BY DEF ViewInv, ViewShape, ScreenShape, ScrubStep
<1>2. locked' \in BOOLEAN
  BY DEF ViewInv, ViewShape
<1>3. read' = StaleRead
  BY DEF ScrubStep
<1>4. ScreenShape' /\ KeptShape' /\ BootstrapShape' /\ RemovalShape' /\ RemovalLocks'
  BY <1>1 DEF ScreenShape, KeptShape, BootstrapShape, RemovalShape, RemovalLocks, AView, Nothing
<1>5. ReadShape' /\ ReadIsFresh'
  BY <1>1, <1>3 DEF ReadShape, ReadIsFresh, StaleRead
<1>6. ViewShape'
  BY <1>1, <1>2, <1>4, <1>5 DEF ViewShape
<1>7. FenceHolds' /\ BootstrapFollows'
  BY DEF FenceHolds, BootstrapFollows, BootstrapIsWhole, BootstrapIsFresh
<1>8. CacheIsWhole' /\ CacheIsFresh' /\ CacheIsDated' /\ ShownIsFresh' /\ ShownFollows'
  BY DEF CacheIsWhole, CacheIsFresh, CacheIsDated, ShownIsFresh, ShownFollows, Nothing
<1>9. KeptIsFresh' /\ KeptFollows' /\ FlowFits'
  BY DEF KeptIsFresh, KeptFollows, FlowFits
<1> QED
  BY <1>4, <1>5, <1>6, <1>7, <1>8, <1>9 DEF ViewInv

\* A bootstrap that is published and shown.
LEMMA PublishedAndShown ==
  ASSUME ViewInv, bootstrap # Nil, bootstrap.ready, bootstrap' = Nil,
         UNCHANGED <<epoch, generation, locked, removal, read, floor>>,
         screen.kept = Nil,
         screen' = [f \in ScreenFields |-> screen'[f]],
         screen'.shown = bootstrap.parts, screen'.cache = bootstrap.parts,
         screen'.boundary = bootstrap.before,
         screen'.kept = Nil, screen'.flow \in {"none", "confirming"},
         screen'.stale = screen.stale,
         screen'.behind = FALSE, screen'.scrubbing = FALSE
  PROVE  ViewInv'
<1> DEFINE parts == bootstrap.parts
<1>1. /\ parts \in AView
      /\ bootstrap.before \in Nat /\ bootstrap.before # Nil
      /\ Handed(bootstrap.before)
      /\ \A q \in Parts : parts[q] \in Nat /\ parts[q] # Nil
      /\ \A q \in Parts : parts[q] \in floor..epoch
      /\ \A q, r \in Parts : parts[q] = parts[r]
      /\ bootstrap.before = generation => \A q \in Parts : parts[q] = epoch
  BY PublishedParts
<1>2. /\ epoch \in Nat /\ generation \in Nat /\ floor \in Nat /\ floor <= epoch
      /\ ReadShape /\ RemovalShape /\ RemovalLocks /\ ReadIsFresh
      /\ screen.stale \in BOOLEAN
  BY DEF ViewInv, ViewShape, ScreenShape
<1>3. locked' \in BOOLEAN
  BY DEF ViewInv, ViewShape
<1>4. ScreenShape' /\ KeptShape' /\ BootstrapShape' /\ RemovalShape' /\ RemovalLocks'
  BY <1>1, <1>2 DEF ScreenShape, KeptShape, BootstrapShape, RemovalShape, RemovalLocks
<1>5. ReadShape' /\ ReadIsFresh'
  BY <1>2 DEF ReadShape, ReadIsFresh
<1>6. ViewShape'
  BY <1>2, <1>3, <1>4, <1>5 DEF ViewShape
<1>7. FenceHolds' /\ BootstrapFollows'
  BY DEF FenceHolds, BootstrapFollows, BootstrapIsWhole, BootstrapIsFresh
<1>8. CacheIsWhole' /\ CacheIsFresh' /\ CacheIsDated'
  BY <1>1, <1>2 DEF CacheIsWhole, CacheIsFresh, CacheIsDated, Handed
<1>9. ShownIsFresh' /\ ShownFollows'
  BY <1>1, <1>2 DEF ShownIsFresh, ShownFollows
<1>10. KeptIsFresh' /\ KeptFollows' /\ FlowFits'
  BY DEF KeptIsFresh, KeptFollows, FlowFits
<1> QED
  BY <1>4, <1>5, <1>6, <1>7, <1>8, <1>9, <1>10 DEF ViewInv

LEMMA ViewPublish == ViewInv /\ Publish => ViewInv'
<1> SUFFICES ASSUME ViewInv, Publish PROVE ViewInv'
  OBVIOUS
<1> DEFINE p == [screen EXCEPT !.cache = bootstrap.parts, !.boundary = bootstrap.before,
                               !.isError = FALSE]
           parts == bootstrap.parts
<1>1. /\ bootstrap # Nil /\ bootstrap.ready /\ bootstrap' = Nil
      /\ UNCHANGED <<epoch, generation, locked, removal>>
  BY DEF Publish, vaultState
<1>2. /\ parts \in AView
      /\ bootstrap.before \in Nat /\ bootstrap.before # Nil
      /\ Handed(bootstrap.before)
      /\ \A q \in Parts : parts[q] \in Nat /\ parts[q] # Nil
      /\ \A q \in Parts : parts[q] \in floor..epoch
      /\ \A q, r \in Parts : parts[q] = parts[r]
      /\ bootstrap.before = generation => \A q \in Parts : parts[q] = epoch
  BY <1>1, PublishedParts
<1>3. /\ p = [f \in ScreenFields |-> p[f]]
      /\ p.cache = parts /\ p.boundary = bootstrap.before /\ p.shown = screen.shown
      /\ p.kept = screen.kept /\ p.flow = screen.flow /\ p.stale = screen.stale
      /\ p.behind = screen.behind /\ p.scrubbing = screen.scrubbing
  BY DEF ViewInv, ViewShape, ScreenShape, ScreenFields
<1>4. ScreenShape /\ KeptShape /\ ReadShape /\ RemovalShape /\ RemovalLocks
  BY DEF ViewInv, ViewShape
<1>5. epoch \in Nat /\ generation \in Nat /\ locked \in BOOLEAN /\ floor \in Nat /\ floor <= epoch
  BY DEF ViewInv, ViewShape
<1>6. RemovalShape' /\ RemovalLocks' /\ BootstrapShape' /\ FenceHolds' /\ BootstrapFollows'
  BY <1>1, <1>4 DEF RemovalShape, RemovalLocks, BootstrapShape, FenceHolds,
     BootstrapFollows, BootstrapIsWhole, BootstrapIsFresh
<1>7. epoch' \in Nat /\ generation' \in Nat /\ locked' \in BOOLEAN
  BY <1>1, <1>5
<1>8. bootstrap.before <= generation' /\ (locked' => bootstrap.before < generation')
  BY <1>1, <1>2 DEF Handed
<1>9. bootstrap.before = generation' => \A q \in Parts : parts[q] = epoch'
  BY <1>1, <1>2
<1>10. CASE screen.flow = "leaving" /\ SameVault(p)
  <2>1. /\ screen' = Restored(p) /\ read' = StaleRead
        /\ floor' \in IF p.behind THEN {floor} ELSE {p.cache[q] : q \in Parts}
    BY <1>10, <1>3 DEF Publish
  <2> HIDE DEF p, parts
  <2>2. /\ screen' = [f \in ScreenFields |-> screen'[f]]
        /\ screen'.shown = screen.kept.parts
        /\ screen'.cache = parts /\ screen'.boundary = bootstrap.before
        /\ screen'.kept = Nil /\ screen'.flow = "none"
        /\ screen'.stale = screen.stale /\ screen'.behind = screen.behind
        /\ screen'.scrubbing = screen.scrubbing
    BY <2>1, <1>3 DEF Restored, ScreenFields
  <2>3. screen.kept # Nil /\ bootstrap.before = screen.kept.boundary
    BY <1>10, <1>3 DEF SameVault, ViewInv, FlowFits
  <2>4. ~screen.scrubbing
    BY <2>3 DEF ViewInv, FlowFits
  <2>5. /\ screen.behind => floor' = floor
        /\ ~screen.behind => \E q \in Parts : floor' = parts[q]
    BY <2>1, <1>3
  <2>6. \A q, r \in Parts : ~screen.behind /\ screen.kept.parts[q] # Nil
                              => screen.kept.parts[q] >= parts[r]
    BY <2>3, <1>1 DEF ViewInv, KeptFollows, parts
  <2>7. \A q \in Parts : screen.kept.parts[q] # Nil => screen.kept.parts[q] >= floor
    BY <2>3 DEF ViewInv, KeptIsFresh
  <2>8. \A q \in Parts : screen.kept.parts[q] \in Nat \cup {Nil}
    BY <2>3, <1>4 DEF KeptShape, AView
  <2>9. floor' \in Nat /\ floor' <= epoch' /\ (\A q \in Parts : parts[q] >= floor')
    <3>1. CASE screen.behind
      BY <3>1, <2>5, <1>1, <1>2, <1>5
    <3>2. CASE ~screen.behind
      BY <3>2, <2>5, <1>1, <1>2, <1>5
    <3> QED
      BY <3>1, <3>2
  <2>10. \A q \in Parts : screen.kept.parts[q] # Nil => screen.kept.parts[q] >= floor'
    <3>1. CASE screen.behind
      BY <3>1, <2>5, <2>7
    <3>2. CASE ~screen.behind
      BY <3>2, <2>5, <2>6
    <3> QED
      BY <3>1, <3>2
  <2>11. ScreenShape' /\ KeptShape'
    BY <2>2, <2>3, <1>2, <1>4 DEF ScreenShape, KeptShape
  <2>12. ReadShape' /\ ReadIsFresh'
    BY <2>1, <1>4 DEF ReadShape, ReadIsFresh, StaleRead
  <2>13. ViewShape'
    BY <2>9, <2>11, <2>12, <1>6, <1>7 DEF ViewShape
  <2>14. CacheIsWhole' /\ CacheIsFresh' /\ CacheIsDated'
    BY <2>2, <2>9, <1>1, <1>2, <1>8, <1>9 DEF CacheIsWhole, CacheIsFresh, CacheIsDated, Handed
  <2>15. ShownIsFresh' /\ ShownFollows'
    BY <2>2, <2>6, <2>10 DEF ShownIsFresh, ShownFollows
  <2>16. KeptIsFresh' /\ KeptFollows' /\ FlowFits'
    BY <2>2, <2>4 DEF KeptIsFresh, KeptFollows, FlowFits
  <2> QED
    BY <2>12, <2>13, <2>14, <2>15, <2>16, <1>6 DEF ViewInv
<1>11. CASE screen.flow = "leaving" /\ ~SameVault(p)
  <2>1. screen' = LeftScrubbed(p) /\ ScrubStep
    BY <1>11, <1>3 DEF Publish
  <2> HIDE DEF p, parts
  <2>2. /\ screen' = [f \in ScreenFields |-> screen'[f]]
        /\ screen'.shown = Nothing /\ screen'.cache = Nothing
        /\ screen'.boundary = Nil /\ screen'.kept = Nil /\ screen'.flow = "none"
        /\ screen'.stale = screen.stale /\ screen'.behind = FALSE
        /\ screen'.scrubbing = screen.scrubbing
    BY <2>1, <1>3 DEF LeftScrubbed, Scrubbed, ScreenFields
  <2>3. screen.scrubbing = FALSE
    BY <1>4, <1>11 DEF ScreenShape, ViewInv, FlowFits
  <2> QED
    BY <2>1, <2>2, <2>3, <1>1, LeftAndScrubbed
<1>12. CASE screen.flow \in {"refreshing", "retrying"} /\ ~screen.stale
  <2>1. screen' = [Hydrated(p) EXCEPT !.scrubbing = FALSE, !.flow = "none"]
        /\ UNCHANGED <<read, floor>>
    BY <1>12, <1>3 DEF Publish
  <2>2. screen.kept = Nil
    BY <1>12 DEF ViewInv, FlowFits
  <2> HIDE DEF p
  <2>3. /\ screen' = [f \in ScreenFields |-> screen'[f]]
        /\ screen'.shown = parts
        /\ screen'.cache = parts /\ screen'.boundary = bootstrap.before
        /\ screen'.kept = screen.kept /\ screen'.flow = "none"
        /\ screen'.stale = screen.stale /\ screen'.behind = FALSE
        /\ screen'.scrubbing = FALSE
    BY <2>1, <1>3 DEF Hydrated, ScreenFields
  <2> QED
    BY <2>1, <2>2, <2>3, <1>1, PublishedAndShown
<1>13. CASE /\ screen.flow # "leaving"
            /\ ~(screen.flow \in {"refreshing", "retrying"} /\ ~screen.stale)
  <2>1. screen' = [(IF p.scrubbing \/ p.kept # Nil THEN p ELSE Hydrated(p))
                     EXCEPT !.flow = IF @ = "confirming" THEN @ ELSE "none"]
        /\ UNCHANGED <<read, floor>>
    BY <1>13, <1>3 DEF Publish
  <2>2. ~screen.scrubbing
    BY <1>13 DEF ViewInv, FlowFits
  <2> HIDE DEF p
  <2>3. CASE screen.kept = Nil
    <3>1. screen' = [Hydrated(p) EXCEPT !.flow = IF @ = "confirming" THEN @ ELSE "none"]
      BY <2>1, <2>2, <2>3, <1>3
    <3>2. /\ screen' = [f \in ScreenFields |-> screen'[f]]
          /\ screen'.shown = parts
          /\ screen'.cache = parts /\ screen'.boundary = bootstrap.before
          /\ screen'.kept = screen.kept /\ screen'.flow \in {"none", "confirming"}
          /\ screen'.stale = screen.stale /\ screen'.behind = FALSE
          /\ screen'.scrubbing = screen.scrubbing
      BY <3>1, <1>3 DEF Hydrated, ScreenFields
    <3> QED
      BY <2>1, <2>2, <2>3, <3>2, <1>1, <1>4, PublishedAndShown DEF ScreenShape
  <2>4. CASE screen.kept # Nil
    <3>1. screen' = [p EXCEPT !.flow = IF @ = "confirming" THEN @ ELSE "none"]
      BY <2>1, <2>4, <1>3
    <3>2. /\ screen' = [f \in ScreenFields |-> screen'[f]]
          /\ screen'.shown = screen.shown
          /\ screen'.cache = parts /\ screen'.boundary = bootstrap.before
          /\ screen'.kept = screen.kept /\ screen'.flow \in {"none", "confirming"}
          /\ screen'.flow = "confirming" => screen.flow = "confirming"
          /\ screen'.stale = screen.stale /\ screen'.behind = screen.behind
          /\ screen'.scrubbing = screen.scrubbing
      BY <3>1, <1>3 DEF ScreenFields
    <3>3. ScreenShape' /\ KeptShape'
      BY <3>2, <1>2, <1>4 DEF ScreenShape, KeptShape
    <3>4. ReadShape' /\ ReadIsFresh'
      BY <2>1, <1>4, <3>2 DEF ReadShape, ReadIsFresh, ViewInv
    <3>5. ViewShape'
      BY <2>1, <3>3, <3>4, <1>1, <1>5, <1>6, <1>7 DEF ViewShape
    <3>6. CacheIsWhole' /\ CacheIsFresh' /\ CacheIsDated'
      BY <2>1, <3>2, <1>1, <1>2, <1>5, <1>8, <1>9
      DEF CacheIsWhole, CacheIsFresh, CacheIsDated, Handed
    <3>7. ShownIsFresh' /\ ShownFollows'
      BY <2>1, <2>4, <3>2 DEF ViewInv, ShownIsFresh, ShownFollows
    <3>8. KeptIsFresh' /\ FlowFits'
      BY <2>1, <2>2, <2>4, <3>2 DEF ViewInv, KeptIsFresh, FlowFits
    <3>9. KeptFollows'
      BY <3>2, <1>1 DEF ViewInv, KeptFollows, Handed
    <3> QED
      BY <3>4, <3>5, <3>6, <3>7, <3>8, <3>9, <1>6 DEF ViewInv
  <2> QED
    BY <2>3, <2>4
<1> QED
  BY <1>10, <1>11, <1>12, <1>13, <1>3

LEMMA ViewFailFetch == ViewInv /\ FailFetch => ViewInv'
<1> SUFFICES ASSUME ViewInv, FailFetch PROVE ViewInv'
  OBVIOUS
<1> DEFINE p == [screen EXCEPT !.isError = TRUE]
           outdated == Offline(p) /\ ~Offline(screen) /\ ~screen.scrubbing
<1>1. bootstrap' = Nil /\ UNCHANGED <<epoch, generation, locked, removal>>
  BY DEF FailFetch, vaultState
<1>2. /\ p = [f \in ScreenFields |-> p[f]]
      /\ p.cache = screen.cache /\ p.boundary = screen.boundary /\ p.shown = screen.shown
      /\ p.kept = screen.kept /\ p.flow = screen.flow /\ p.stale = screen.stale
      /\ p.behind = screen.behind /\ p.scrubbing = screen.scrubbing
  BY DEF ViewInv, ViewShape, ScreenShape, ScreenFields
<1>3. ScreenShape /\ KeptShape /\ ReadShape /\ RemovalShape /\ RemovalLocks
  BY DEF ViewInv, ViewShape
<1>4. CASE screen.flow = "leaving"
  <2>1. screen' = LeftScrubbed(p) /\ ScrubStep
    BY <1>4, <1>2 DEF FailFetch
  <2> HIDE DEF p
  <2>2. /\ screen' = [f \in ScreenFields |-> screen'[f]]
        /\ screen'.shown = Nothing /\ screen'.cache = Nothing
        /\ screen'.boundary = Nil /\ screen'.kept = Nil /\ screen'.flow = "none"
        /\ screen'.stale = screen.stale /\ screen'.behind = FALSE
        /\ screen'.scrubbing = screen.scrubbing
    BY <2>1, <1>2 DEF LeftScrubbed, Scrubbed, ScreenFields
  <2>3. screen.scrubbing = FALSE
    BY <1>3, <1>4 DEF ScreenShape, ViewInv, FlowFits
  <2> QED
    BY <2>1, <2>2, <2>3, <1>1, LeftAndScrubbed
<1>5. CASE screen.flow # "leaving"
  <2>0. screen.scrubbing /\ screen.flow \in {"refreshing", "retrying"} => ~screen.stale
    BY DEF ViewInv, FlowFits
  <2>1. /\ screen' = [f \in ScreenFields |-> screen'[f]]
        /\ screen'.shown = screen.shown /\ screen'.cache = screen.cache
        /\ screen'.boundary = screen.boundary /\ screen'.kept = screen.kept
        /\ screen'.behind = screen.behind
        /\ screen'.stale \in BOOLEAN /\ screen'.scrubbing = FALSE
        /\ \/ screen'.flow = "none"
           \/ screen'.flow = screen.flow /\ screen.flow # "refreshing"
    <3>1. CASE screen.flow \in {"refreshing", "retrying"}
      <4>1. screen' = IF p.stale THEN [p EXCEPT !.flow = "none"]
                      ELSE [p EXCEPT !.scrubbing = FALSE, !.refreshFailed = TRUE,
                                     !.flow = "none"]
        BY <3>1, <1>2 DEF FailFetch
      <4> HIDE DEF p
      <4>2. CASE p.stale
        <5>1. /\ screen' = [f \in ScreenFields |-> screen'[f]]
              /\ screen'.shown = p.shown /\ screen'.cache = p.cache
              /\ screen'.boundary = p.boundary /\ screen'.kept = p.kept
              /\ screen'.behind = p.behind /\ screen'.flow = "none"
              /\ screen'.stale = p.stale /\ screen'.scrubbing = p.scrubbing
          BY <4>1, <4>2, <1>2 DEF ScreenFields
        <5>2. screen.scrubbing = FALSE
          BY <2>0, <3>1, <4>2, <1>2, <1>3 DEF ScreenShape
        <5> QED
          BY <5>1, <5>2, <1>2, <1>3 DEF ScreenShape
      <4>3. CASE ~p.stale
        <5>1. /\ screen' = [f \in ScreenFields |-> screen'[f]]
              /\ screen'.shown = p.shown /\ screen'.cache = p.cache
              /\ screen'.boundary = p.boundary /\ screen'.kept = p.kept
              /\ screen'.behind = p.behind /\ screen'.flow = "none"
              /\ screen'.stale = p.stale /\ screen'.scrubbing = FALSE
          BY <4>1, <4>3, <1>2 DEF ScreenFields
        <5> QED
          BY <5>1, <1>2, <1>3 DEF ScreenShape
      <4> QED
        BY <4>2, <4>3
    <3>2. CASE screen.flow \notin {"refreshing", "retrying"}
      <4>1. screen' = [p EXCEPT !.stale = @ \/ outdated]
        BY <3>2, <1>5, <1>2 DEF FailFetch
      <4>2. outdated \in BOOLEAN
        OBVIOUS
      <4> HIDE DEF p, outdated
      <4>3. /\ screen' = [f \in ScreenFields |-> screen'[f]]
            /\ screen'.shown = p.shown /\ screen'.cache = p.cache
            /\ screen'.boundary = p.boundary /\ screen'.kept = p.kept
            /\ screen'.behind = p.behind /\ screen'.flow = p.flow
            /\ screen'.stale = (p.stale \/ outdated) /\ screen'.scrubbing = p.scrubbing
        BY <4>1, <1>2 DEF ScreenFields
      <4>4. screen.scrubbing = FALSE
        BY <3>2, <1>3 DEF ScreenShape, ViewInv, FlowFits
      <4>5. (p.stale \/ outdated) \in BOOLEAN
        OBVIOUS
      <4> QED
        BY <4>3, <4>4, <4>5, <1>2, <3>2
    <3> QED
      BY <3>1, <3>2
  <2>3. UNCHANGED floor /\ read' \in {read, StaleRead}
    BY <1>5, <1>2 DEF FailFetch
  <2>4. ScreenShape' /\ KeptShape' /\ BootstrapShape' /\ RemovalShape' /\ RemovalLocks'
    BY <1>1, <1>3, <2>1
    DEF ScreenShape, KeptShape, BootstrapShape, RemovalShape, RemovalLocks
  <2>5. ReadShape' /\ ReadIsFresh'
    BY <1>3, <2>1, <2>3 DEF ReadShape, ReadIsFresh, StaleRead, ViewInv
  <2>6. ViewShape'
    BY <1>1, <2>3, <2>4, <2>5 DEF ViewInv, ViewShape
  <2>7. FenceHolds' /\ BootstrapFollows'
    BY <1>1 DEF FenceHolds, BootstrapFollows, BootstrapIsWhole, BootstrapIsFresh
  <2>8. CacheIsWhole' /\ CacheIsFresh' /\ CacheIsDated'
    BY <1>1, <2>1, <2>3 DEF ViewInv, CacheIsWhole, CacheIsFresh, CacheIsDated, Handed
  <2>9. ShownIsFresh' /\ ShownFollows'
    BY <2>1, <2>3 DEF ViewInv, ShownIsFresh, ShownFollows
  <2>10. KeptIsFresh' /\ KeptFollows'
    BY <1>1, <2>1, <2>3 DEF ViewInv, KeptIsFresh, KeptFollows, Handed
  <2>11. FlowFits'
    BY <1>5, <2>1 DEF ViewInv, FlowFits
  <2> QED
    BY <2>4, <2>5, <2>6, <2>7, <2>8, <2>9, <2>10, <2>11 DEF ViewInv
<1> QED
  BY <1>4, <1>5

LEMMA ViewShowPart == ViewInv /\ ShowPart => ViewInv'
<1> SUFFICES ASSUME ViewInv, ShowPart PROVE ViewInv'
  OBVIOUS
<1>1. /\ read # Nil /\ read.epoch # Nil /\ read' = Nil
      /\ UNCHANGED <<epoch, generation, locked, removal, bootstrap, floor>>
  BY DEF ShowPart, vaultState
<1>2. ScreenShape /\ KeptShape /\ BootstrapShape /\ ReadShape /\ RemovalShape
  BY DEF ViewInv, ViewShape
<1>3. ReadShape' /\ ReadIsFresh' /\ RemovalShape' /\ RemovalLocks' /\ BootstrapShape'
      /\ FenceHolds' /\ BootstrapFollows'
  BY <1>1 DEF ViewInv, ViewShape, ReadShape, ReadIsFresh, RemovalShape, RemovalLocks,
     BootstrapShape, FenceHolds, BootstrapFollows, BootstrapIsWhole, BootstrapIsFresh, Handed
<1>4. CASE read.stale
  <2>1. screen' = screen
    BY <1>4 DEF ShowPart, StillWanted
  <2>2. ViewShape'
    BY <2>1, <1>1, <1>2, <1>3 DEF ViewInv, ViewShape, ScreenShape, KeptShape
  <2> QED
    BY <2>1, <2>2, <1>1, <1>3 DEF ViewInv, CacheIsWhole, CacheIsFresh, CacheIsDated,
       ShownIsFresh, ShownFollows, KeptIsFresh, KeptFollows, FlowFits, Handed
<1>5. CASE ~read.stale
  <2>1. /\ screen.kept = Nil /\ read.part \in Parts
        /\ read.epoch \in Nat /\ read.epoch >= floor
    BY <1>1, <1>2, <1>5 DEF ViewInv, ReadIsFresh, ReadShape
  <2>2. screen' = [screen EXCEPT !.shown[read.part] = read.epoch,
                     !.behind = @ \/ screen.cache[read.part] \notin {Nil} \cup 0..read.epoch]
    BY <1>5 DEF ShowPart, StillWanted
  <2>3. /\ screen' = [f \in ScreenFields |-> screen'[f]]
        /\ screen'.shown = [screen.shown EXCEPT ![read.part] = read.epoch]
        /\ screen'.cache = screen.cache /\ screen'.boundary = screen.boundary
        /\ screen'.kept = screen.kept /\ screen'.flow = screen.flow
        /\ screen'.stale = screen.stale /\ screen'.scrubbing = screen.scrubbing
        /\ screen'.behind = (screen.behind
                               \/ screen.cache[read.part] \notin {Nil} \cup 0..read.epoch)
    BY <2>2, <1>2 DEF ScreenShape, ScreenFields
  <2>4. screen'.shown \in AView
    BY <2>1, <2>3, <1>2 DEF ScreenShape, AView
  <2>5. \A q \in Parts : screen'.shown[q] = IF q = read.part THEN read.epoch
                                            ELSE screen.shown[q]
    BY <2>3, <1>2 DEF ScreenShape, AView
  <2>6. screen'.behind \in BOOLEAN
    BY <2>3, <1>2 DEF ScreenShape
  <2>7. ScreenShape' /\ KeptShape'
    BY <1>2, <2>1, <2>3, <2>4, <2>6 DEF ScreenShape, KeptShape
  <2>8. ViewShape'
    BY <1>1, <1>3, <2>7 DEF ViewInv, ViewShape
  <2>9. CacheIsWhole' /\ CacheIsFresh' /\ CacheIsDated'
    BY <1>1, <2>3 DEF ViewInv, CacheIsWhole, CacheIsFresh, CacheIsDated, Handed
  <2>10. ShownIsFresh'
    BY <1>1, <2>1, <2>5 DEF ViewInv, ShownIsFresh
  <2>11. ShownFollows'
    <3>1. SUFFICES ASSUME screen'.boundary # Nil, ~screen'.behind,
                          NEW q \in Parts, screen'.shown[q] # Nil
                   PROVE  screen'.shown[q] >= screen'.cache[q]
      BY DEF ShownFollows
    <3>2. ~screen.behind /\ screen.cache[read.part] \in {Nil} \cup 0..read.epoch
      BY <3>1, <2>3
    <3>3. screen.cache[read.part] # Nil /\ screen.boundary # Nil
      BY <3>1, <2>1, <2>3 DEF ViewInv, CacheIsDated
    <3>4. CASE q = read.part
      BY <3>2, <3>3, <3>4, <2>1, <2>3, <2>5
    <3>5. CASE q # read.part
      BY <3>1, <3>2, <3>3, <3>5, <2>1, <2>3, <2>5 DEF ViewInv, ShownFollows
    <3> QED
      BY <3>4, <3>5
  <2>12. KeptIsFresh' /\ KeptFollows' /\ FlowFits'
    BY <2>1, <2>3 DEF ViewInv, KeptIsFresh, KeptFollows, FlowFits
  <2> QED
    BY <1>3, <2>8, <2>9, <2>10, <2>11, <2>12 DEF ViewInv
<1> QED
  BY <1>4, <1>5

LEMMA ViewInvInit == ViewInit => ViewInv
<1> SUFFICES ASSUME ViewInit PROVE ViewInv
  OBVIOUS
<1>1. ScreenShape /\ KeptShape
  BY DEF ViewInit, ScreenShape, ScreenFields, KeptShape, AView, Nothing
<1>2. /\ epoch = 0 /\ generation = 0 /\ locked = FALSE /\ floor = 0
      /\ removal = Nil /\ bootstrap = Nil /\ read = Nil
      /\ screen.cache = Nothing /\ screen.shown = Nothing /\ screen.boundary = Nil
      /\ screen.kept = Nil /\ screen.flow = "none" /\ screen.scrubbing = FALSE
  BY DEF ViewInit
<1>3. BootstrapShape /\ ReadShape /\ RemovalShape /\ RemovalLocks
  BY <1>2 DEF BootstrapShape, ReadShape, RemovalShape, RemovalLocks
<1>6. locked \in BOOLEAN /\ epoch \in Nat /\ generation \in Nat /\ floor \in Nat
  BY <1>2
<1>7. ViewShape
  BY <1>1, <1>2, <1>3, <1>6 DEF ViewShape
<1>4. FenceHolds /\ BootstrapFollows /\ ReadIsFresh /\ KeptIsFresh /\ KeptFollows /\ FlowFits
  BY <1>2 DEF FenceHolds, BootstrapFollows, BootstrapIsWhole, BootstrapIsFresh, ReadIsFresh,
     KeptIsFresh, KeptFollows, FlowFits
<1>5. /\ CacheIsWhole /\ CacheIsFresh /\ CacheIsDated
      /\ ShownIsFresh /\ ShownFollows
  BY <1>2 DEF CacheIsWhole, CacheIsFresh, CacheIsDated, ShownIsFresh, ShownFollows, Nothing
<1> QED
  BY <1>3, <1>4, <1>5, <1>7 DEF ViewInv

LEMMA ViewInvStep == ViewInv /\ [ViewNext]_viewVars => ViewInv'
<1> SUFFICES ASSUME ViewInv, [ViewNext]_viewVars PROVE ViewInv'
  OBVIOUS
<1>1. CASE UNCHANGED viewVars
  BY <1>1 DEF viewVars, ViewInv, ViewShape, ScreenShape, KeptShape, BootstrapShape,
     ReadShape, RemovalShape, RemovalLocks, FenceHolds, BootstrapFollows, BootstrapIsWhole,
     BootstrapIsFresh, CacheIsWhole, CacheIsFresh, CacheIsDated, ShownIsFresh, ShownFollows,
     KeptIsFresh, KeptFollows, FlowFits, ReadIsFresh, Handed
<1>2. CASE \/ OtherRemoves \/ BeginMaintenance \/ CommitRemoval \/ EndMaintenance
           \/ LoseAnswer \/ RestartApi
  BY <1>2, ViewOtherRemoves, ViewBeginMaintenance, ViewCommitRemoval, ViewEndMaintenance,
     ViewLoseAnswer, ViewRestartApi
<1>3. CASE \/ Refetch \/ Retry \/ OpenSnapshot \/ (\E p \in Parts : ReadPart(p))
           \/ CloseSnapshot \/ Publish \/ FailFetch
  BY <1>3, ViewRefetch, ViewRetry, ViewOpenSnapshot, ViewReadPart, ViewCloseSnapshot,
     ViewPublish, ViewFailFetch
<1>4. CASE (\E p \in Parts : AskPart(p)) \/ AnswerPart \/ ShowPart
  BY <1>4, ViewAskPart, ViewAnswerPart, ViewShowPart
<1>5. CASE \/ Confirm \/ IgnoreAnswer \/ RemovalCommitted \/ MayBeCommitted \/ Refused
           \/ Preview \/ Leave
  BY <1>5, ViewConfirm, ViewIgnoreAnswer, ViewRemovalCommitted, ViewMayBeCommitted,
     ViewRefused, ViewPreview, ViewLeave
<1> QED
  BY <1>1, <1>2, <1>3, <1>4, <1>5 DEF ViewNext

\* The view of the vault is sound in every state.
THEOREM ViewIsSound == ViewSpec => []ViewInv
  BY ViewInvInit, ViewInvStep, PTL DEF ViewSpec

\* What is on the screen is one state of the vault, and nothing from before the removal
\* for which the page was scrubbed, however removals, restarts of the API, bootstraps and
\* other reads come between each other (bootstrap, scrubCommittedDeletion,
\* leaveDemoPreview).
THEOREM ScreenShowsOneVault == ViewSpec => []OneVault
<1>1. ViewInv => OneVault
  BY DEF ViewInv, OneVault, CacheIsWhole, CacheIsFresh, ShownIsFresh
<1> QED
  BY <1>1, ViewIsSound, PTL

-----------------------------------------------------------------------------
(* The texts of a run *)

\* The table of the texts that the first events of l stream, up to the n-th.
IsTextTable(t, l, n) ==
  t = [i \in 0..n |-> IF i = 0 THEN <<>>
                      ELSE IF l[i] = "delta" THEN Append(t[i - 1], i) ELSE t[i - 1]]

TextOfLog(l, n) ==
  LET text[i \in 0..n] ==
        IF i = 0 THEN <<>>
        ELSE IF l[i] = "delta" THEN Append(text[i - 1], i) ELSE text[i - 1]
  IN text[n]

\* A set of naturals that holds no first element is empty.
LEMMA NoFirst ==
  ASSUME NEW S, S \subseteq Nat, \A n \in S : \E m \in S : m < n
  PROVE  S = {}
<1> SUFFICES ASSUME S # {} PROVE FALSE
  OBVIOUS
<1> DEFINE R == OpToRel(<, Nat)
<1>1. IsWellFoundedOn(R, Nat)
  BY NatLessThanWellFounded
<1>2. PICK x \in S : \A y \in S : ~(<<y, x>> \in R)
  BY <1>1, WFMin
<1>3. \A y \in S : ~(y < x)
  BY <1>2 DEF OpToRel
<1> QED
  BY <1>3

LEMMA TableExists == ASSUME NEW l, NEW n \in Nat PROVE \E t : IsTextTable(t, l, n)
<1> DEFINE S == {m \in Nat : ~\E t : IsTextTable(t, l, m)}
<1>1. ASSUME NEW m \in S PROVE \E k \in S : k < m
  <2>1. m # 0
    <3> SUFFICES ASSUME m = 0 PROVE FALSE
      OBVIOUS
    <3> DEFINE t == [i \in 0..0 |-> <<>>]
    <3>1. IsTextTable(t, l, 0)
      BY DEF IsTextTable
    <3> QED
      BY <3>1
  <2>2. m - 1 \in Nat /\ m - 1 < m
    BY <2>1
  <2> SUFFICES ASSUME m - 1 \notin S PROVE FALSE
    BY <2>2
  <2>3. PICK t : IsTextTable(t, l, m - 1)
    BY <2>2
  <2> DEFINE u == [i \in 0..m |-> IF i = m
                                  THEN IF l[m] = "delta" THEN Append(t[m - 1], m) ELSE t[m - 1]
                                  ELSE t[i]]
  <2>4. \A i \in 0..(m - 1) : t[i] = IF i = 0 THEN <<>>
                                     ELSE IF l[i] = "delta" THEN Append(t[i - 1], i) ELSE t[i - 1]
    BY <2>3, <2>2 DEF IsTextTable
  <2>5. \A i \in 0..m : u[i] = IF i = 0 THEN <<>>
                               ELSE IF l[i] = "delta" THEN Append(u[i - 1], i) ELSE u[i - 1]
    BY <2>1, <2>2, <2>4
  <2>6. u = [i \in 0..m |-> u[i]]
    OBVIOUS
  <2> HIDE DEF u
  <2>7. IsTextTable(u, l, m)
    BY <2>5, <2>6 DEF IsTextTable
  <2> QED
    BY <2>7
<1>2. S = {}
  <2> HIDE DEF S
  <2>1. S \subseteq Nat
    BY DEF S
  <2> QED
    BY <1>1, <2>1, NoFirst
<1> QED
  BY <1>2

\* Two tables say the same as far as both of them and what the logs agree on go.
LEMMA TablesAgree ==
  ASSUME NEW l, NEW k, NEW n \in Nat, NEW m \in Nat, n <= m, \A i \in 1..n : l[i] = k[i],
         NEW t, NEW u, IsTextTable(t, l, n), IsTextTable(u, k, m)
  PROVE  \A i \in 0..n : t[i] = u[i]
<1> DEFINE S == {i \in 0..n : t[i] # u[i]}
<1>1. \A i \in 0..n : t[i] = IF i = 0 THEN <<>>
                             ELSE IF l[i] = "delta" THEN Append(t[i - 1], i) ELSE t[i - 1]
  BY DEF IsTextTable
<1>2. \A i \in 0..m : u[i] = IF i = 0 THEN <<>>
                             ELSE IF k[i] = "delta" THEN Append(u[i - 1], i) ELSE u[i - 1]
  BY DEF IsTextTable
<1>3. ASSUME NEW i \in S PROVE \E j \in S : j < i
  <2>1. i # 0
    BY <1>1, <1>2
  <2>2. t[i - 1] # u[i - 1]
    BY <1>1, <1>2, <2>1
  <2> QED
    BY <2>1, <2>2
<1>4. S = {}
  <2>1. S \subseteq Nat
    OBVIOUS
  <2> HIDE DEF S
  <2> QED
    BY <1>3, <2>1, NoFirst
<1> QED
  BY <1>4

LEMMA TableIsUnique ==
  ASSUME NEW l, NEW n \in Nat, NEW m \in Nat, n <= m,
         NEW t, NEW u, IsTextTable(t, l, n), IsTextTable(u, l, m)
  PROVE  t[n] = u[n]
<1>1. PICK k : (\A i \in 1..n : l[i] = k[i]) /\ IsTextTable(u, k, m)
  OBVIOUS
<1>2. \A i \in 0..n : t[i] = u[i]
  BY <1>1, TablesAgree
<1> QED
  BY <1>2

LEMMA TextIsTable ==
  ASSUME NEW l, NEW n \in Nat, NEW t, IsTextTable(t, l, n)
  PROVE  TextOfLog(l, n) = t[n]
<1> DEFINE text[i \in 0..n] ==
        IF i = 0 THEN <<>>
        ELSE IF l[i] = "delta" THEN Append(text[i - 1], i) ELSE text[i - 1]
<1>1. text = CHOOSE u : IsTextTable(u, l, n)
  BY DEF IsTextTable
<1>2. IsTextTable(text, l, n)
  <2> HIDE DEF text
  <2> QED
    BY <1>1
<1>3. TextOfLog(l, n) = text[n]
  BY DEF TextOfLog
<1> HIDE DEF text
<1>4. PICK v : IsTextTable(v, l, n) /\ v = text
  BY <1>2
<1>5. v[n] = t[n]
  BY <1>4, TableIsUnique
<1> QED
  BY <1>3, <1>4, <1>5

\* What the first events stream: nothing, and then a delta after the other.
LEMMA TextSteps ==
  ASSUME NEW l, NEW n \in Nat
  PROVE  /\ TextOfLog(l, 0) = <<>>
         /\ TextOfLog(l, n + 1) = IF l[n + 1] = "delta" THEN Append(TextOfLog(l, n), n + 1)
                                  ELSE TextOfLog(l, n)
<1>1. PICK t : IsTextTable(t, l, 0)
  BY TableExists
<1>2. TextOfLog(l, 0) = <<>>
  BY <1>1, TextIsTable DEF IsTextTable
<1>3. PICK u : IsTextTable(u, l, n + 1)
  BY TableExists
<1>4. PICK v : IsTextTable(v, l, n)
  BY TableExists
<1>5. v[n] = u[n]
  <2>1. n + 1 \in Nat /\ n <= n + 1
    OBVIOUS
  <2> QED
    BY <1>3, <1>4, <2>1, TableIsUnique
<1>6. u[n + 1] = IF l[n + 1] = "delta" THEN Append(u[n], n + 1) ELSE u[n]
  <2>1. n + 1 \in 0..(n + 1) /\ n + 1 # 0 /\ (n + 1) - 1 = n
    OBVIOUS
  <2>2. \A i \in 0..(n + 1) : u[i] = IF i = 0 THEN <<>>
                                     ELSE IF l[i] = "delta" THEN Append(u[i - 1], i) ELSE u[i - 1]
    BY <1>3 DEF IsTextTable
  <2>3. u[n + 1] = IF l[n + 1] = "delta" THEN Append(u[(n + 1) - 1], n + 1) ELSE u[(n + 1) - 1]
    BY <2>1, <2>2
  <2> QED
    BY <2>1, <2>3
<1> QED
  BY <1>2, <1>3, <1>4, <1>5, <1>6, TextIsTable

\* A text is of the events it counts only.
LEMMA TextIsLocal ==
  ASSUME NEW l, NEW k, NEW n \in Nat, \A i \in 1..n : l[i] = k[i]
  PROVE  TextOfLog(l, n) = TextOfLog(k, n)
<1>1. PICK t : IsTextTable(t, l, n)
  BY TableExists
<1>2. PICK u : IsTextTable(u, k, n)
  BY TableExists
<1>3. t[n] = u[n]
  <2>1. n <= n /\ n \in 0..n
    OBVIOUS
  <2>2. \A i \in 0..n : t[i] = u[i]
    BY <1>1, <1>2, <2>1, TablesAgree
  <2> QED
    BY <2>1, <2>2
<1> QED
  BY <1>1, <1>2, <1>3, TextIsTable

LEMMA TextIsSeq == ASSUME NEW l, NEW n \in Nat PROVE TextOfLog(l, n) \in Seq(Nat)
<1> DEFINE S == {m \in Nat : TextOfLog(l, m) \notin Seq(Nat)}
<1>1. ASSUME NEW m \in S PROVE \E k \in S : k < m
  <2>1. m # 0
    <3>1. TextOfLog(l, 0) = <<>> /\ <<>> \in Seq(Nat)
      BY TextSteps
    <3>2. TextOfLog(l, 0) \in Seq(Nat)
      BY <3>1
    <3> QED
      BY <3>2
  <2>2. PICK k \in Nat : m = k + 1
    BY <2>1
  <2>3. TextOfLog(l, m) = IF l[m] = "delta" THEN Append(TextOfLog(l, k), m) ELSE TextOfLog(l, k)
    BY <2>2, TextSteps
  <2>4. TextOfLog(l, k) \notin Seq(Nat)
    BY <2>3
  <2> QED
    BY <2>2, <2>4
<1>2. S = {}
  <2>1. S \subseteq Nat
    OBVIOUS
  <2> HIDE DEF S
  <2> QED
    BY <1>1, <2>1, NoFirst
<1> QED
  BY <1>2

\* A text is the beginning of every longer one.
LEMMA TextsAreBeginnings ==
  ASSUME NEW l, NEW k \in Nat, NEW n \in Nat, k <= n
  PROVE  IsPrefix(TextOfLog(l, k), TextOfLog(l, n))
<1> DEFINE S == {m \in Nat : k <= m /\ ~IsPrefix(TextOfLog(l, k), TextOfLog(l, m))}
<1>1. ASSUME NEW m \in S PROVE \E j \in S : j < m
  <2>1. m # k
    BY DEF IsPrefix, TextIsSeq
  <2>2. PICK j \in Nat : m = j + 1 /\ k <= j
    BY <2>1
  <2>3. TextOfLog(l, m) = IF l[m] = "delta" THEN Append(TextOfLog(l, j), m) ELSE TextOfLog(l, j)
    BY <2>2, TextSteps
  <2>4. TextOfLog(l, k) \in Seq(Nat) /\ TextOfLog(l, j) \in Seq(Nat)
    BY TextIsSeq
  <2>5. ~IsPrefix(TextOfLog(l, k), TextOfLog(l, j))
    <3> SUFFICES ASSUME NEW a \in Seq(Nat), NEW b \in Seq(Nat), IsPrefix(a, b)
                 PROVE  IsPrefix(a, Append(b, m))
      BY <2>3, <2>4
    <3> QED
      BY DEF IsPrefix
  <2> QED
    BY <2>2, <2>5
<1>2. S = {}
  <2>1. S \subseteq Nat
    OBVIOUS
  <2> HIDE DEF S
  <2> QED
    BY <1>1, <2>1, NoFirst
<1> QED
  BY <1>2

LEMMA NoText == \A l : TextOfLog(l, 0) = <<>>
BY TextSteps
-----------------------------------------------------------------------------
(* What the page shows of an answer *)

Events == {"progress", "delta"} \cup Ends
IsText(text) == \E n \in 0..Len(log) : text = TextOfLog(log, n)

\* The n ids that come after c.
IdsAfter(c, n) == [i \in 1..n |-> c + i]

LEMMA IdsInOrder ==
  ASSUME NEW c \in Nat, NEW n \in Nat
  PROVE  /\ <<>> \o IdsAfter(c, n) = IdsAfter(c, n)
         /\ IdsAfter(c, n) \o IdsAfter(c + n, 1) = IdsAfter(c, n + 1)
         /\ n = 0 => IdsAfter(c, n) = <<>>
         /\ n > 0 => /\ IdsAfter(c, n) # <<>>
                     /\ Head(IdsAfter(c, n)) = c + 1
                     /\ Tail(IdsAfter(c, n)) = IdsAfter(c + 1, n - 1)
<1>1. IdsAfter(c, n) \in Seq(Nat) /\ IdsAfter(c + n, 1) \in Seq(Nat)
      /\ IdsAfter(c, n + 1) \in Seq(Nat)
  BY DEF IdsAfter
<1>2. /\ Len(IdsAfter(c, n)) = n /\ Len(IdsAfter(c + n, 1)) = 1
      /\ Len(IdsAfter(c, n + 1)) = n + 1
      /\ \A i \in 1..n : IdsAfter(c, n)[i] = c + i
      /\ \A i \in 1..(n + 1) : IdsAfter(c, n + 1)[i] = c + i
      /\ IdsAfter(c + n, 1)[1] = c + n + 1
  BY DEF IdsAfter
<1>3. <<>> \o IdsAfter(c, n) = IdsAfter(c, n)
  BY <1>1
<1>4. IdsAfter(c, n) \o IdsAfter(c + n, 1) = IdsAfter(c, n + 1)
  <2> DEFINE s == IdsAfter(c, n) \o IdsAfter(c + n, 1)
  <2>1. s \in Seq(Nat) /\ Len(s) = n + 1
    <3>1. PICK a \in Seq(Nat) : a = IdsAfter(c, n)
      BY <1>1
    <3>2. PICK b \in Seq(Nat) : b = IdsAfter(c + n, 1)
      BY <1>1
    <3>3. Len(a) = n /\ Len(b) = 1
      BY <1>2, <3>1, <3>2
    <3>4. a \o b \in Seq(Nat) /\ Len(a \o b) = Len(a) + Len(b)
      OBVIOUS
    <3>5. Len(a \o b) = n + 1
      BY <3>3, <3>4
    <3> QED
      BY <3>1, <3>2, <3>4, <3>5
  <2>2. \A i \in 1..(n + 1) : s[i] = c + i
    BY <1>1, <1>2
  <2> HIDE DEF s
  <2>3. \A i \in 1..(n + 1) : s[i] = IdsAfter(c, n + 1)[i]
    BY <2>2, <1>2
  <2>4. s = IdsAfter(c, n + 1)
    BY <2>1, <2>3, <1>1, <1>2
  <2> QED
    BY <2>4 DEF s
<1>5. n = 0 => IdsAfter(c, n) = <<>>
  BY <1>1, <1>2
<1>6. ASSUME n > 0
      PROVE  /\ IdsAfter(c, n) # <<>> /\ Head(IdsAfter(c, n)) = c + 1
             /\ Tail(IdsAfter(c, n)) = IdsAfter(c + 1, n - 1)
  <2>1. IdsAfter(c + 1, n - 1) \in Seq(Nat) /\ Len(IdsAfter(c + 1, n - 1)) = n - 1
        /\ \A i \in 1..(n - 1) : IdsAfter(c + 1, n - 1)[i] = c + 1 + i
    BY <1>6 DEF IdsAfter
  <2>2. IdsAfter(c, n) # <<>> /\ Head(IdsAfter(c, n)) = c + 1
    BY <1>1, <1>2, <1>6
  <2> DEFINE s == Tail(IdsAfter(c, n))
  <2>3. s \in Seq(Nat) /\ Len(s) = n - 1
    BY <1>1, <1>2, <1>6
  <2>4. \A i \in 1..(n - 1) : s[i] = IdsAfter(c, n)[i + 1]
    BY <1>1, <1>2, <1>6
  <2>5. \A i \in 1..(n - 1) : s[i] = c + 1 + i
    BY <2>4, <1>2
  <2> HIDE DEF s
  <2>6. s = IdsAfter(c + 1, n - 1)
    BY <2>1, <2>3, <2>5
  <2> QED
    BY <2>2, <2>6 DEF s
<1> QED
  BY <1>3, <1>4, <1>5, <1>6

TabFields == {"shown", "live", "hydrated", "sends", "ref", "automatic", "terminal", "stage", "stream"}
StreamFields == {"on", "cursor", "before", "attempts", "named", "text"}

LEMMA NoStreamFields ==
  /\ NoStream = [f \in StreamFields |-> NoStream[f]]
  /\ NoStream.on = FALSE /\ NoStream.cursor = 0 /\ NoStream.text = <<>>
BY DEF NoStream, StreamFields

RunIsSound ==
  /\ log \in Seq(Events)
  /\ row = [f \in {"status", "named", "text", "cancel"} |-> row[f]]
  /\ IsText(row.text)
  /\ row.status = "absent" => log = <<>>

StreamIsSound ==
  /\ tab = [f \in TabFields |-> tab[f]]
  /\ tab.stream = [f \in StreamFields |-> tab.stream[f]]
  /\ tab.stream.cursor \in 0..Len(log)
  /\ tab.stream.text = TextOfLog(log, tab.stream.cursor)
  /\ tab.stream.on \/ tab.stage = "lost" \/ tab.sends =>
       tab.hydrated /\ row.status # "absent"

LinkIsSound ==
  /\ apiState = "down" => link = Null
  /\ link # Null =>
       /\ tab.stream.on
       /\ link = [f \in {"position", "wire"} |-> link[f]]
       /\ link.position = Len(log)
       /\ link.wire = IdsAfter(tab.stream.cursor, Len(log) - tab.stream.cursor)

CheckpointIsSound ==
  checkpoint # Null =>
    /\ checkpoint.cursor \in 1..Len(log)
    /\ checkpoint.text = TextOfLog(log, checkpoint.cursor)

SnapshotsAreSound ==
  /\ data # Null =>
       /\ tab.hydrated
       /\ data.text # Null => IsText(data.text)
       /\ data.active => row.status # "absent"
  /\ loading # Null =>
       /\ loading = [f \in {"events", "runs", "active", "named", "shown", "live"} |-> loading[f]]
       /\ loading.shown # Null => IsText(loading.shown)
       /\ loading.active => row.status # "absent"

\* What is shown is a text, that of the stream while there is one.
AnswerFollows ==
  ~misled =>
    /\ tab.shown # Null => IsText(tab.shown)
    /\ tab.stream.on => TextOf(tab.shown) = TextOfLog(log, tab.stream.cursor)

NothingKept ==
  tab.sends /\ ~tab.automatic =>
    checkpoint = Null /\ ~tab.stream.on /\ tab.stage # "lost"

RefFollows ==
  ~tab.automatic =>
    /\ checkpoint # Null /\ (tab.stream.on \/ tab.stage = "lost") =>
         tab.ref \/ checkpoint.text = <<>>
    /\ tab.stream.on /\ tab.stream.text # <<>> => tab.ref

CheckpointFollows ==
  ~misled /\ ~tab.automatic /\ ~tab.terminal /\ checkpoint # Null =>
    /\ tab.stream.on => checkpoint.text = TextOf(tab.shown)
    /\ ~tab.stream.on /\ data # Null =>
         \/ ~data.named
         \/ TextOf(tab.shown) = TextOf(data.text)
         \/ checkpoint.text = TextOf(tab.shown)

StreamInv ==
  /\ RunIsSound /\ StreamIsSound /\ LinkIsSound /\ CheckpointIsSound /\ SnapshotsAreSound
  /\ AnswerFollows /\ NothingKept /\ RefFollows /\ CheckpointFollows

\* A tab q that has attached itself to the run as p reads it after the cursor.
IsAttached(q, p, cursor, text) ==
  /\ q = [f \in TabFields |-> q[f]]
  /\ q.shown = p.shown /\ q.hydrated = p.hydrated /\ q.sends = p.sends
  /\ q.ref = p.ref /\ q.automatic = p.automatic /\ q.terminal = p.terminal
  /\ q.live = p.live /\ q.stage = "responding"
  /\ q.stream = [f \in StreamFields |-> q.stream[f]]
  /\ q.stream.on = TRUE /\ q.stream.cursor = cursor /\ q.stream.text = text

LEMMA AttachedFields ==
  ASSUME NEW p, p = [f \in TabFields |-> p[f]], NEW cursor, NEW named, NEW text
  PROVE  IsAttached(Attached(p, cursor, named, text), p, cursor, text)
<1> DEFINE s == [NoStream EXCEPT !.on = TRUE, !.cursor = cursor, !.before = cursor,
                                 !.named = named, !.text = text]
           q == [p EXCEPT !.stream = s, !.stage = "responding"]
<1>1. /\ s = [f \in StreamFields |-> s[f]]
      /\ s.on = TRUE /\ s.cursor = cursor /\ s.text = text
  BY DEF NoStream, StreamFields
<1>2. Attached(p, cursor, named, text) = q
  BY DEF Attached
<1> HIDE DEF s
<1>3. /\ q = [f \in TabFields |-> q[f]]
      /\ \A f \in TabFields \ {"stream", "stage"} : q[f] = p[f]
      /\ q.stream = s /\ q.stage = "responding"
  BY DEF TabFields
<1> HIDE DEF q
<1>4. IsAttached(q, p, cursor, text)
  BY <1>1, <1>3 DEF TabFields, IsAttached
<1> QED
  BY <1>2, <1>4

-----------------------------------------------------------------------------
(* The steps of the run, the reader and the page *)

\* The steps that leave the log and the stream as they are or empty.
LEMMA StreamStreamAnswer == StreamInv /\ StreamAnswer => StreamInv'
<1> SUFFICES ASSUME StreamInv, StreamAnswer PROVE StreamInv'
  OBVIOUS
<1> USE DEF StreamInv, StreamAnswer, storedRun, tabCounts
<1>1. LinkIsSound' /\ CheckpointIsSound' /\ AnswerFollows' /\ NothingKept' /\
      RefFollows' /\ CheckpointFollows'
  BY DEF LinkIsSound, CheckpointIsSound, AnswerFollows, NothingKept, RefFollows,
         CheckpointFollows, IsText
<1>2. RunIsSound'
  BY DEF RunIsSound, IsText
<1>3. StreamIsSound'
  BY DEF StreamIsSound, RunIsSound
<1>4. SnapshotsAreSound'
  BY DEF SnapshotsAreSound, IsText, RunIsSound
<1> QED
  BY <1>1, <1>2, <1>3, <1>4

LEMMA StreamApiDies == StreamInv /\ ApiDies => StreamInv'
<1> SUFFICES ASSUME StreamInv, ApiDies PROVE StreamInv'
  OBVIOUS
<1> USE DEF StreamInv, ApiDies, storedRun, tabCounts
<1>1. RunIsSound' /\ StreamIsSound' /\ CheckpointIsSound' /\ AnswerFollows' /\
      NothingKept' /\ RefFollows' /\ CheckpointFollows'
  BY DEF RunIsSound, StreamIsSound, CheckpointIsSound, AnswerFollows, NothingKept,
         RefFollows, CheckpointFollows, IsText
<1>2. LinkIsSound'
  BY DEF LinkIsSound
<1>3. SnapshotsAreSound'
  BY DEF SnapshotsAreSound, IsText
<1> QED
  BY <1>1, <1>2, <1>3

LEMMA StreamOpenTab == StreamInv /\ OpenTab => StreamInv'
<1> SUFFICES ASSUME StreamInv, OpenTab PROVE StreamInv'
  OBVIOUS
<1> USE DEF StreamInv, OpenTab, storedRun, tabCounts, Loaded, NoStream
<1>1. RunIsSound'
  BY DEF RunIsSound, IsText
<1>2. StreamIsSound'
  BY NoText DEF StreamIsSound, TabFields, StreamFields
<1>3. LinkIsSound'
  BY DEF LinkIsSound, StreamIsSound, TabFields, StreamFields
<1>4. CheckpointIsSound'
  BY DEF CheckpointIsSound
<1>5. SnapshotsAreSound'
  BY DEF SnapshotsAreSound, IsText, StreamIsSound, TabFields, StreamFields
<1>6. AnswerFollows'
  BY DEF AnswerFollows, IsText, StreamIsSound, TabFields, StreamFields
<1>7. NothingKept'
  BY DEF NothingKept, StreamIsSound, TabFields, StreamFields
<1>8. RefFollows'
  BY DEF RefFollows, StreamIsSound, TabFields, StreamFields
<1>9. CheckpointFollows'
  BY DEF CheckpointFollows, StreamIsSound, TabFields, StreamFields
<1> QED
  BY <1>1, <1>2, <1>3, <1>4, <1>5, <1>6, <1>7, <1>8, <1>9

LEMMA StreamAskSnapshot == StreamInv /\ AskSnapshot => StreamInv'
<1> SUFFICES ASSUME StreamInv, AskSnapshot PROVE StreamInv'
  OBVIOUS
<1> USE DEF StreamInv, AskSnapshot, storedRun, tabCounts
<1>1. RunIsSound' /\ StreamIsSound' /\ LinkIsSound' /\ CheckpointIsSound' /\
      AnswerFollows' /\ NothingKept' /\ RefFollows' /\ CheckpointFollows'
  BY DEF RunIsSound, StreamIsSound, LinkIsSound, CheckpointIsSound, AnswerFollows,
         NothingKept, RefFollows, CheckpointFollows, IsText
<1>2. SnapshotsAreSound'
  BY DEF SnapshotsAreSound, IsText
<1> QED
  BY <1>1, <1>2

LEMMA StreamReadEvents == StreamInv /\ ReadEvents => StreamInv'
<1> SUFFICES ASSUME StreamInv, ReadEvents PROVE StreamInv'
  OBVIOUS
<1> USE DEF StreamInv, ReadEvents, storedRun, tabCounts
<1>1. RunIsSound' /\ StreamIsSound' /\ LinkIsSound' /\ CheckpointIsSound' /\
      AnswerFollows' /\ NothingKept' /\ RefFollows' /\ CheckpointFollows'
  BY DEF RunIsSound, StreamIsSound, LinkIsSound, CheckpointIsSound, AnswerFollows,
         NothingKept, RefFollows, CheckpointFollows, IsText
<1>2. SnapshotsAreSound'
  BY DEF SnapshotsAreSound, IsText, RunIsSound
<1> QED
  BY <1>1, <1>2

LEMMA StreamReadRuns == StreamInv /\ ReadRuns => StreamInv'
<1> SUFFICES ASSUME StreamInv, ReadRuns PROVE StreamInv'
  OBVIOUS
<1> USE DEF StreamInv, ReadRuns, storedRun, tabCounts
<1>1. RunIsSound' /\ StreamIsSound' /\ LinkIsSound' /\ CheckpointIsSound' /\
      AnswerFollows' /\ NothingKept' /\ RefFollows' /\ CheckpointFollows'
  BY DEF RunIsSound, StreamIsSound, LinkIsSound, CheckpointIsSound, AnswerFollows,
         NothingKept, RefFollows, CheckpointFollows, IsText
<1>2. SnapshotsAreSound'
  BY DEF SnapshotsAreSound, IsText
<1> QED
  BY <1>1, <1>2

LEMMA StreamHydrate == StreamInv /\ Hydrate => StreamInv'
<1> SUFFICES ASSUME StreamInv, Hydrate PROVE StreamInv'
  OBVIOUS
<1> USE DEF StreamInv, Hydrate, storedRun, tabCounts, KeepsLiveText
<1>1. RunIsSound' /\ CheckpointIsSound'
  BY DEF RunIsSound, CheckpointIsSound, IsText
<1>2. StreamIsSound'
  BY DEF StreamIsSound, TabFields, StreamFields
<1>3. LinkIsSound'
  BY DEF LinkIsSound, StreamIsSound, TabFields, StreamFields
<1>4. SnapshotsAreSound'
  BY DEF SnapshotsAreSound, IsText, StreamIsSound, TabFields, StreamFields
<1>5. AnswerFollows'
  BY DEF AnswerFollows, IsText, StreamIsSound, TabFields, StreamFields,
         SnapshotsAreSound
<1>6. NothingKept'
  BY DEF NothingKept, StreamIsSound, TabFields, StreamFields
<1>7. RefFollows'
  BY DEF RefFollows, StreamIsSound, TabFields, StreamFields
<1>8. CheckpointFollows'
  BY DEF CheckpointFollows, StreamIsSound, TabFields, StreamFields
<1> QED
  BY <1>1, <1>2, <1>3, <1>4, <1>5, <1>6, <1>7, <1>8

\* Nothing of the invariant is about how often a connection was tried.
LEMMA StreamConnect == StreamInv /\ Connect => StreamInv'
<1> SUFFICES ASSUME StreamInv, Connect PROVE StreamInv'
  OBVIOUS
<1> USE DEF StreamInv
<1>1. /\ UNCHANGED <<log, row, apiState, checkpoint, data, loading, misled>>
      /\ apiState = "up" /\ tab.stream.on
      /\ link' = Flushed([position |-> tab.stream.cursor, wire |-> <<>>], log)
      /\ tab' = [tab EXCEPT !.stream.before = tab.stream.cursor]
  BY DEF Connect, storedRun
<1>2. /\ tab' = [f \in TabFields |-> tab'[f]]
      /\ \A f \in TabFields \ {"stream"} : tab'[f] = tab[f]
      /\ tab'.stream = [tab.stream EXCEPT !.before = tab.stream.cursor]
  BY <1>1 DEF StreamIsSound, TabFields
<1>3. /\ tab'.stream = [f \in StreamFields |-> tab'.stream[f]]
      /\ \A f \in StreamFields \ {"before"} : tab'.stream[f] = tab.stream[f]
  BY <1>2 DEF StreamIsSound, StreamFields
<1>4. /\ tab'.shown = tab.shown /\ tab'.hydrated = tab.hydrated /\ tab'.sends = tab.sends
      /\ tab'.ref = tab.ref /\ tab'.automatic = tab.automatic
      /\ tab'.terminal = tab.terminal /\ tab'.stage = tab.stage
      /\ tab'.stream.on = tab.stream.on /\ tab'.stream.cursor = tab.stream.cursor
      /\ tab'.stream.text = tab.stream.text
  BY <1>2, <1>3 DEF TabFields, StreamFields
<1> DEFINE c == tab.stream.cursor
           n == Len(log) - tab.stream.cursor
<1>5. Len(log) \in Nat /\ c \in Nat /\ n \in Nat
  BY DEF StreamIsSound, RunIsSound
<1>6. link' = [position |-> Len(log), wire |-> <<>> \o IdsAfter(c, n)]
  BY <1>1 DEF Flushed, IdsAfter
<1>7. link' = [position |-> Len(log), wire |-> IdsAfter(c, n)]
  BY <1>5, <1>6, IdsInOrder
<1>8. LinkIsSound'
  <2>1. /\ link' = [f \in {"position", "wire"} |-> link'[f]]
        /\ link'.position = Len(log) /\ link'.wire = IdsAfter(c, n)
    BY <1>7
  <2> QED
    BY <1>1, <1>4, <2>1 DEF LinkIsSound
<1>9. RunIsSound' /\ CheckpointIsSound' /\ StreamIsSound'
  BY <1>1, <1>2, <1>3, <1>4 DEF RunIsSound, CheckpointIsSound, StreamIsSound, IsText
<1>10. SnapshotsAreSound' /\ AnswerFollows'
  BY <1>1, <1>4 DEF SnapshotsAreSound, AnswerFollows, IsText
<1>11. NothingKept' /\ RefFollows' /\ CheckpointFollows'
  BY <1>1, <1>4 DEF NothingKept, RefFollows, CheckpointFollows
<1> QED
  BY <1>8, <1>9, <1>10, <1>11

LEMMA StreamBreak == StreamInv /\ Break => StreamInv'
<1> SUFFICES ASSUME StreamInv, Break PROVE StreamInv'
  OBVIOUS
<1> USE DEF StreamInv
<1>1. /\ UNCHANGED <<log, row, apiState, checkpoint, data, loading, misled>>
      /\ tab.stream.on /\ link' = Null
  BY DEF Break, storedRun
<1>2. /\ log \in Seq(Events) /\ Len(log) \in Nat /\ row.status # "absent"
      /\ tab.stream.cursor \in 0..Len(log)
      /\ tab.stream.text = TextOfLog(log, tab.stream.cursor)
      /\ TextOfLog(log, 0) = <<>>
  BY <1>1, NoText DEF RunIsSound, StreamIsSound
<1>3. PICK a : \/ tab' = [tab EXCEPT !.stream = NoStream, !.stage = "lost"]
               \/ tab' = [tab EXCEPT !.stream = [tab.stream EXCEPT !.attempts = a,
                                                     !.before = tab.stream.cursor]]
  BY DEF Break
<1>4. /\ tab' = [f \in TabFields |-> tab'[f]]
      /\ tab'.shown = tab.shown /\ tab'.hydrated = tab.hydrated /\ tab'.sends = tab.sends
      /\ tab'.ref = tab.ref /\ tab'.automatic = tab.automatic /\ tab'.terminal = tab.terminal
      /\ tab'.stream = [f \in StreamFields |-> tab'.stream[f]]
      /\ \/ /\ tab'.stage = tab.stage /\ tab'.stream.on = tab.stream.on
            /\ tab'.stream.cursor = tab.stream.cursor /\ tab'.stream.text = tab.stream.text
         \/ /\ tab'.stream.on = FALSE
            /\ tab'.stream.cursor = 0 /\ tab'.stream.text = <<>>
  <2>1. CASE tab' = [tab EXCEPT !.stream = NoStream, !.stage = "lost"]
    BY <2>1, NoStreamFields DEF StreamIsSound, TabFields
  <2>2. CASE tab' = [tab EXCEPT !.stream = [tab.stream EXCEPT !.attempts = a,
                                                !.before = tab.stream.cursor]]
    <3> DEFINE t == [tab.stream EXCEPT !.attempts = a, !.before = tab.stream.cursor]
    <3>1. /\ t = [f \in StreamFields |-> t[f]] /\ t.on = tab.stream.on
          /\ t.cursor = tab.stream.cursor /\ t.text = tab.stream.text
      BY DEF StreamIsSound, StreamFields
    <3>2. tab' = [tab EXCEPT !.stream = t]
      BY <2>2
    <3> HIDE DEF t
    <3> QED
      BY <3>1, <3>2 DEF StreamIsSound, TabFields
  <2> QED
    BY <1>3, <2>1, <2>2
<1>5. LinkIsSound' /\ RunIsSound' /\ CheckpointIsSound'
  BY <1>1 DEF LinkIsSound, RunIsSound, CheckpointIsSound, IsText
<1>6. StreamIsSound'
  BY <1>1, <1>2, <1>4 DEF StreamIsSound
<1>7. SnapshotsAreSound' /\ AnswerFollows'
  BY <1>1, <1>4 DEF SnapshotsAreSound, AnswerFollows, IsText
<1>8. NothingKept' /\ RefFollows' /\ CheckpointFollows'
  BY <1>1, <1>4 DEF NothingKept, RefFollows, CheckpointFollows
<1> QED
  BY <1>5, <1>6, <1>7, <1>8

LEMMA StreamSent == StreamInv /\ Sent => StreamInv'
<1> SUFFICES ASSUME StreamInv, Sent PROVE StreamInv'
  OBVIOUS
<1> USE DEF StreamInv
<1>1. /\ UNCHANGED <<log, row, apiState, link, checkpoint, data, loading>>
      /\ tab.sends
  BY DEF Sent, storedRun
<1>2. /\ log \in Seq(Events) /\ Len(log) \in Nat /\ row.status # "absent" /\ tab.hydrated
      /\ TextOfLog(log, 0) = <<>>
  BY <1>1, NoText DEF RunIsSound, StreamIsSound
<1> DEFINE p == [tab EXCEPT !.sends = FALSE]
<1>3. /\ p = [f \in TabFields |-> p[f]]
      /\ p.shown = tab.shown /\ p.hydrated = tab.hydrated /\ p.sends = FALSE
      /\ p.ref = tab.ref /\ p.automatic = tab.automatic /\ p.terminal = tab.terminal
      /\ p.stage = tab.stage /\ p.stream = tab.stream
  BY DEF StreamIsSound, TabFields
<1>4. \/ tab' = p /\ UNCHANGED misled
      \/ /\ ~tab.stream.on /\ tab' = Attached(p, 0, FALSE, <<>>)
         /\ misled' = (misled \/ AppendsToText)
  BY DEF Sent
<1> HIDE DEF p
<1>5. RunIsSound' /\ CheckpointIsSound'
  BY <1>1 DEF RunIsSound, CheckpointIsSound, IsText
<1>6. CASE tab' = p /\ UNCHANGED misled
  <2>1. StreamIsSound' /\ LinkIsSound'
    BY <1>1, <1>3, <1>6 DEF StreamIsSound, LinkIsSound
  <2>2. SnapshotsAreSound' /\ AnswerFollows'
    BY <1>1, <1>3, <1>6 DEF SnapshotsAreSound, AnswerFollows, IsText
  <2>3. NothingKept' /\ RefFollows' /\ CheckpointFollows'
    BY <1>1, <1>3, <1>6 DEF NothingKept, RefFollows, CheckpointFollows
  <2> QED
    BY <1>5, <2>1, <2>2, <2>3
<1>7. CASE /\ ~tab.stream.on /\ tab' = Attached(p, 0, FALSE, <<>>)
           /\ misled' = (misled \/ AppendsToText)
  <2>1. /\ tab' = [f \in TabFields |-> tab'[f]]
        /\ tab'.shown = tab.shown /\ tab'.hydrated = tab.hydrated /\ tab'.sends = FALSE
        /\ tab'.ref = tab.ref /\ tab'.automatic = tab.automatic
        /\ tab'.stream = [f \in StreamFields |-> tab'.stream[f]]
        /\ tab'.stream.cursor = 0 /\ tab'.stream.text = <<>>
    <3>1. IsAttached(Attached(p, 0, FALSE, <<>>), p, 0, <<>>)
      BY <1>3, AttachedFields
    <3>2. PICK q : q = tab' /\ IsAttached(q, p, 0, <<>>)
      BY <1>7, <3>1
    <3> QED
      BY <1>3, <3>2 DEF IsAttached
  <2>2. ~misled' => ~misled /\ TextOf(tab.shown) = <<>>
    BY <1>7 DEF AppendsToText, TextOf
  <2>3. link = Null
    BY <1>7 DEF LinkIsSound
  <2>4. ~tab.automatic => checkpoint = Null
    BY <1>1 DEF NothingKept
  <2>5. StreamIsSound' /\ LinkIsSound'
    BY <1>1, <1>2, <2>1, <2>3 DEF StreamIsSound, LinkIsSound
  <2>6. SnapshotsAreSound' /\ AnswerFollows'
    BY <1>1, <1>2, <2>1, <2>2 DEF SnapshotsAreSound, AnswerFollows, IsText
  <2>7. NothingKept' /\ RefFollows' /\ CheckpointFollows'
    BY <1>1, <2>1, <2>4 DEF NothingKept, RefFollows, CheckpointFollows
  <2> QED
    BY <1>5, <2>5, <2>6, <2>7
<1> QED
  BY <1>4, <1>6, <1>7

LEMMA StreamStop == StreamInv /\ Stop => StreamInv'
<1> SUFFICES ASSUME StreamInv, Stop PROVE StreamInv'
  OBVIOUS
<1> USE DEF StreamInv
<1>1. /\ UNCHANGED <<log, apiState, data, loading, misled>>
      /\ checkpoint' = Null /\ link' = Null
      /\ row' = [row EXCEPT !.cancel = TRUE] /\ row.status = "active"
      /\ tab' = [tab EXCEPT !.terminal = TRUE, !.stream = NoStream, !.live = FALSE,
                            !.ref = FALSE, !.stage = "ended"]
  BY DEF Stop
<1>2. /\ log \in Seq(Events) /\ Len(log) \in Nat /\ TextOfLog(log, 0) = <<>>
  BY NoText DEF RunIsSound
<1>3. /\ tab' = [f \in TabFields |-> tab'[f]]
      /\ tab'.shown = tab.shown /\ tab'.hydrated = tab.hydrated /\ tab'.sends = tab.sends
      /\ tab'.automatic = tab.automatic /\ tab'.terminal = TRUE
      /\ tab'.stage = "ended" /\ tab'.stream = NoStream
  BY <1>1 DEF StreamIsSound, TabFields
<1>4. RunIsSound' /\ row'.status = row.status
  BY <1>1 DEF RunIsSound, IsText
<1>5. StreamIsSound' /\ LinkIsSound' /\ CheckpointIsSound'
  <2>1. tab'.stream.on = FALSE /\ tab'.stream.cursor = 0 /\ tab'.stream.text = <<>>
        /\ tab'.stream = [f \in StreamFields |-> tab'.stream[f]]
    BY <1>3, NoStreamFields
  <2>2. StreamIsSound'
    <3>1. /\ 0 \in 0..Len(log) /\ row'.status # "absent"
          /\ tab.sends => tab.hydrated
      BY <1>1, <1>2, <1>4 DEF StreamIsSound
    <3> QED
      BY <1>1, <1>2, <1>3, <1>4, <2>1, <3>1 DEF StreamIsSound
  <2> QED
    BY <1>1, <2>2 DEF LinkIsSound, CheckpointIsSound
<1>6. SnapshotsAreSound' /\ AnswerFollows'
  BY <1>1, <1>3, <1>4, NoStreamFields DEF SnapshotsAreSound, AnswerFollows, IsText
<1>7. NothingKept' /\ RefFollows' /\ CheckpointFollows'
  BY <1>1, <1>3, NoStreamFields DEF NothingKept, RefFollows, CheckpointFollows
<1> QED
  BY <1>4, <1>5, <1>6, <1>7

\* An event more: every text there was stays.
LEMMA TextsStay ==
  ASSUME log \in Seq(Events), NEW e \in Events, log' = Append(log, e)
  PROVE  /\ Len(log) \in Nat /\ Len(log') = Len(log) + 1 /\ log' \in Seq(Events)
         /\ \A n \in 0..Len(log) : TextOfLog(log', n) = TextOfLog(log, n)
         /\ \A text : IsText(text) => \E n \in 0..Len(log') : text = TextOfLog(log', n)
         /\ TextOfLog(log', Len(log) + 1) =
              IF e = "delta" THEN Append(TextOfLog(log, Len(log)), Len(log) + 1)
              ELSE TextOfLog(log, Len(log))
<1>1. PICK l \in Seq(Events) : l = log
  OBVIOUS
<1>2. PICK k : k = log' /\ k = Append(l, e)
  BY <1>1
<1>3. /\ Len(l) \in Nat /\ Len(k) = Len(l) + 1 /\ k \in Seq(Events)
      /\ k[Len(l) + 1] = e /\ \A i \in 1..Len(l) : k[i] = l[i]
  BY <1>2
<1>4. ASSUME NEW n \in 0..Len(l) PROVE TextOfLog(k, n) = TextOfLog(l, n)
  <2>1. n \in Nat /\ \A i \in 1..n : k[i] = l[i]
    BY <1>3
  <2> QED
    BY <2>1, TextIsLocal
<1>5. ASSUME NEW text, IsText(text) PROVE \E n \in 0..Len(k) : text = TextOfLog(k, n)
  <2>1. PICK n \in 0..Len(l) : text = TextOfLog(l, n)
    BY <1>1, <1>5 DEF IsText
  <2>2. n \in 0..Len(k)
    BY <1>3
  <2> QED
    BY <1>4, <2>1, <2>2
<1>6. TextOfLog(k, Len(l) + 1) = IF e = "delta" THEN Append(TextOfLog(l, Len(l)), Len(l) + 1)
                                 ELSE TextOfLog(l, Len(l))
  <2>1. TextOfLog(k, Len(l) + 1) = IF k[Len(l) + 1] = "delta"
                                   THEN Append(TextOfLog(k, Len(l)), Len(l) + 1)
                                   ELSE TextOfLog(k, Len(l))
    BY <1>3, TextSteps
  <2>2. TextOfLog(k, Len(l)) = TextOfLog(l, Len(l))
    BY <1>3, <1>4
  <2> QED
    BY <1>3, <2>1, <2>2
<1> QED
  BY <1>1, <1>2, <1>3, <1>4, <1>5, <1>6

RowFields == {"status", "named", "text", "cancel"}

\* The run has streamed an event: it has a row with some text of it, the reader has
\* been sent the event, and what the tab knows is as it was, but for a message that
\* it sends.
Streamed(e) ==
  /\ log' = Append(log, e)
  /\ link' = IF link = Null THEN Null ELSE Flushed(link, log')
  /\ apiState' = "up"
  /\ row' = [f \in RowFields |-> row'[f]]
  /\ row'.status # "absent"
  /\ \E n \in 0..Len(log') : row'.text = TextOfLog(log', n)
  /\ tab' = [f \in TabFields |-> tab'[f]]
  /\ \A f \in TabFields \ {"sends"} : tab'[f] = tab[f]
  /\ tab'.sends => \/ tab.sends
                   \/ checkpoint = Null /\ ~tab.stream.on /\ tab.stage = "idle" /\ tab.hydrated
  /\ UNCHANGED <<checkpoint, data, loading, misled>>

LEMMA InvIsStreamed ==
  ASSUME StreamInv, NEW e \in Events, Streamed(e)
  PROVE  StreamInv'
<1> USE DEF StreamInv
<1>1. /\ log' = Append(log, e) /\ apiState' = "up"
      /\ row' = [f \in RowFields |-> row'[f]] /\ row'.status # "absent"
      /\ \E n \in 0..Len(log') : row'.text = TextOfLog(log', n)
      /\ tab' = [f \in TabFields |-> tab'[f]]
      /\ checkpoint' = checkpoint /\ data' = data /\ loading' = loading /\ misled' = misled
  BY DEF Streamed
<1>2. /\ tab'.shown = tab.shown /\ tab'.hydrated = tab.hydrated
      /\ tab'.ref = tab.ref /\ tab'.automatic = tab.automatic /\ tab'.terminal = tab.terminal
      /\ tab'.stage = tab.stage /\ tab'.stream = tab.stream
  BY DEF Streamed, TabFields
<1>3. tab'.sends => \/ tab.sends
                    \/ checkpoint = Null /\ ~tab.stream.on /\ tab.stage = "idle" /\ tab.hydrated
  BY DEF Streamed
<1>4. log \in Seq(Events)
  BY DEF RunIsSound
<1>5. /\ Len(log) \in Nat /\ Len(log') = Len(log) + 1 /\ log' \in Seq(Events)
      /\ \A n \in 0..Len(log) : TextOfLog(log', n) = TextOfLog(log, n)
      /\ \A text : IsText(text) => \E n \in 0..Len(log') : text = TextOfLog(log', n)
  BY <1>1, <1>4, TextsStay
<1>6. tab.stream.cursor \in 0..Len(log) /\ tab.stream.cursor \in 0..Len(log')
  BY <1>5 DEF StreamIsSound
<1>7. TextOfLog(log', tab.stream.cursor) = TextOfLog(log, tab.stream.cursor)
  BY <1>5, <1>6
<1>8. RunIsSound'
  BY <1>1, <1>5 DEF RunIsSound, IsText, RowFields
<1>9. StreamIsSound'
  BY <1>1, <1>2, <1>3, <1>6, <1>7 DEF StreamIsSound
<1>10. LinkIsSound'
  <2> SUFFICES ASSUME link # Null PROVE LinkIsSound'
    BY <1>1 DEF LinkIsSound, Streamed
  <2> DEFINE c == tab.stream.cursor
             n == Len(log) - c
  <2>1. /\ tab.stream.on /\ link.position = Len(log) /\ link.wire = IdsAfter(c, n)
        /\ link' = Flushed(link, log')
    BY DEF LinkIsSound, Streamed
  <2>2. link' = [position |-> Len(log) + 1,
                 wire |-> IdsAfter(c, n) \o [i \in 1..((Len(log) + 1) - Len(log)) |-> Len(log) + i]]
    BY <1>5, <2>1 DEF Flushed
  <2>3. (Len(log) + 1) - Len(log) = 1 /\ c \in Nat /\ n \in Nat /\ c + n = Len(log)
        /\ n + 1 = (Len(log) + 1) - c
    BY <1>5, <1>6
  <2>4. link' = [position |-> Len(log) + 1, wire |-> IdsAfter(c, n) \o IdsAfter(c + n, 1)]
    BY <2>2, <2>3 DEF IdsAfter
  <2>5. IdsAfter(c, n) \o IdsAfter(c + n, 1) = IdsAfter(c, n + 1)
    <3> HIDE DEF c, n
    <3> QED
      BY <2>3, IdsInOrder
  <2>6. /\ link' = [f \in {"position", "wire"} |-> link'[f]]
        /\ link'.position = Len(log') /\ link'.wire = IdsAfter(c, Len(log') - c)
    BY <1>5, <2>3, <2>4, <2>5
  <2> QED
    BY <1>1, <1>2, <2>1, <2>6 DEF LinkIsSound
<1>11. CheckpointIsSound'
  BY <1>1, <1>5 DEF CheckpointIsSound
<1>12. SnapshotsAreSound'
  BY <1>1, <1>2, <1>5 DEF SnapshotsAreSound, IsText
<1>13. AnswerFollows'
  <2>1. /\ ~misled /\ tab.shown # Null => IsText(tab.shown)
        /\ ~misled /\ tab.stream.on => TextOf(tab.shown) = TextOfLog(log, tab.stream.cursor)
    BY DEF AnswerFollows
  <2>2. TextOf(tab.shown)' = TextOf(tab.shown)
    BY <1>2 DEF TextOf
  <2> QED
    BY <1>1, <1>2, <1>5, <1>7, <2>1, <2>2 DEF AnswerFollows, IsText
<1>14. NothingKept' /\ RefFollows' /\ CheckpointFollows'
  <2>1. TextOf(tab.shown)' = TextOf(tab.shown)
    BY <1>2 DEF TextOf
  <2>2. data # Null => TextOf(data.text)' = TextOf(data.text)
    BY <1>1 DEF TextOf
  <2>3. NothingKept'
    BY <1>1, <1>2, <1>3 DEF NothingKept
  <2>4. RefFollows'
    BY <1>1, <1>2 DEF RefFollows
  <2>5. CheckpointFollows'
    BY <1>1, <1>2, <2>1, <2>2 DEF CheckpointFollows
  <2> QED
    BY <2>3, <2>4, <2>5
<1> QED
  BY <1>8, <1>9, <1>10, <1>11, <1>12, <1>13, <1>14

LEMMA StreamPostMessage == StreamInv /\ PostMessage => StreamInv'
<1> SUFFICES ASSUME StreamInv, PostMessage PROVE StreamInv'
  OBVIOUS
<1> USE DEF StreamInv
<1>1. /\ apiState = "up" /\ row.status = "absent" /\ tab.hydrated /\ tab.stage = "idle"
      /\ row' = [row EXCEPT !.status = "active"] /\ tab' = [tab EXCEPT !.sends = TRUE]
      /\ log' = Append(log, "progress")
      /\ link' = IF link = Null THEN Null ELSE Flushed(link, log')
      /\ UNCHANGED <<apiState, checkpoint, data, loading, misled>>
  BY DEF PostMessage, Emit
<1>2. log = <<>> /\ log \in Seq(Events) /\ Len(log) = 0
  BY <1>1 DEF RunIsSound
<1>3. checkpoint = Null /\ ~tab.stream.on
  BY <1>1, <1>2 DEF CheckpointIsSound, StreamIsSound
<1>4. /\ row' = [f \in RowFields |-> row'[f]] /\ row'.status = "active"
      /\ row'.text = row.text /\ IsText(row.text)
  BY <1>1 DEF RunIsSound, RowFields
<1>5. /\ tab' = [f \in TabFields |-> tab'[f]]
      /\ \A f \in TabFields \ {"sends"} : tab'[f] = tab[f]
  BY <1>1 DEF StreamIsSound, TabFields
<1>6. "progress" \in Events
  BY DEF Events
<1>7. \E n \in 0..Len(log') : row'.text = TextOfLog(log', n)
  BY <1>1, <1>2, <1>4, <1>6, TextsStay
<1>8. Streamed("progress")
  BY <1>1, <1>3, <1>4, <1>5, <1>7 DEF Streamed
<1> QED
  BY <1>6, <1>8, InvIsStreamed

LEMMA StreamStreamDelta == StreamInv /\ StreamDelta => StreamInv'
<1> SUFFICES ASSUME StreamInv, StreamDelta PROVE StreamInv'
  OBVIOUS
<1> USE DEF StreamInv
<1>1. /\ apiState = "up" /\ row.status = "active" /\ log' = Append(log, "delta")
      /\ link' = IF link = Null THEN Null ELSE Flushed(link, log')
      /\ UNCHANGED <<apiState, tab, checkpoint, data, loading, misled>>
  BY DEF StreamDelta, Emit, Executing
<1>2. PICK stored : /\ row' = [row EXCEPT !.text = stored]
                    /\ stored \in {row.text, Append(TextOfLog(log, Len(log)), Len(log) + 1)}
  BY DEF StreamDelta, Text, TextOfLog
<1>3. log \in Seq(Events) /\ "delta" \in Events
  BY DEF RunIsSound, Events
<1>4. /\ row' = [f \in RowFields |-> row'[f]] /\ row'.status = "active"
      /\ row'.text = stored /\ IsText(row.text)
  BY <1>1, <1>2 DEF RunIsSound, RowFields
<1>5. tab' = [f \in TabFields |-> tab'[f]] /\ \A f \in TabFields : tab'[f] = tab[f]
  BY <1>1 DEF StreamIsSound
<1>6. \E n \in 0..Len(log') : row'.text = TextOfLog(log', n)
  <2>1. /\ Len(log) \in Nat /\ Len(log') = Len(log) + 1
        /\ \A text : IsText(text) => \E n \in 0..Len(log') : text = TextOfLog(log', n)
        /\ TextOfLog(log', Len(log) + 1) = Append(TextOfLog(log, Len(log)), Len(log) + 1)
    BY <1>1, <1>3, TextsStay
  <2>2. Len(log) + 1 \in 0..Len(log')
    BY <2>1
  <2> QED
    BY <1>2, <1>4, <2>1, <2>2
<1>7. Streamed("delta")
  BY <1>1, <1>4, <1>5, <1>6 DEF Streamed, TabFields
<1> QED
  BY <1>3, <1>7, InvIsStreamed

LEMMA StreamEnd == ASSUME NEW event \in Ends PROVE StreamInv /\ End(event) => StreamInv'
<1> SUFFICES ASSUME StreamInv, End(event) PROVE StreamInv'
  OBVIOUS
<1> USE DEF StreamInv
<1>1. /\ apiState = "up" /\ row.status = "active" /\ log' = Append(log, event)
      /\ link' = IF link = Null THEN Null ELSE Flushed(link, log')
      /\ row' = [row EXCEPT !.status = "ended", !.text = TextOfLog(log, Len(log))]
      /\ UNCHANGED <<apiState, tab, checkpoint, data, loading, misled>>
  BY DEF End, Emit, Executing, Text, TextOfLog
<1>2. log \in Seq(Events) /\ event \in Events
  BY DEF RunIsSound, Events
<1>3. /\ row' = [f \in RowFields |-> row'[f]] /\ row'.status = "ended"
      /\ row'.text = TextOfLog(log, Len(log))
  BY <1>1 DEF RunIsSound, RowFields
<1>4. tab' = [f \in TabFields |-> tab'[f]] /\ \A f \in TabFields : tab'[f] = tab[f]
  BY <1>1 DEF StreamIsSound
<1>5. \E n \in 0..Len(log') : row'.text = TextOfLog(log', n)
  <2>1. /\ Len(log) \in Nat /\ Len(log') = Len(log) + 1
        /\ \A n \in 0..Len(log) : TextOfLog(log', n) = TextOfLog(log, n)
    BY <1>1, <1>2, TextsStay
  <2>2. Len(log) \in 0..Len(log') /\ Len(log) \in 0..Len(log)
    BY <2>1
  <2> QED
    BY <1>3, <2>1, <2>2
<1>6. Streamed(event)
  BY <1>1, <1>3, <1>4, <1>5 DEF Streamed, TabFields
<1> QED
  BY <1>2, <1>6, InvIsStreamed

\* Recovery writes the text and the end of the run; nobody is connected then.
LEMMA StreamApiStarts == StreamInv /\ ApiStarts => StreamInv'
<1> SUFFICES ASSUME StreamInv, ApiStarts PROVE StreamInv'
  OBVIOUS
<1> USE DEF StreamInv
<1>1. /\ apiState = "down" /\ apiState' = "up"
      /\ UNCHANGED <<link, tab, checkpoint, data, loading, misled>>
  BY DEF ApiStarts
<1>2. link = Null
  BY <1>1 DEF LinkIsSound
<1>3. CASE row.status = "active"
  <2>1. /\ row' = [row EXCEPT !.status = "ended", !.text = TextOfLog(log, Len(log))]
        /\ log' = Append(log, "failed")
    BY <1>3 DEF ApiStarts, Text, TextOfLog
  <2>2. log \in Seq(Events) /\ "failed" \in Events
    BY DEF RunIsSound, Events, Ends
  <2>3. /\ row' = [f \in RowFields |-> row'[f]] /\ row'.status = "ended"
        /\ row'.text = TextOfLog(log, Len(log))
    BY <2>1 DEF RunIsSound, RowFields
  <2>4. tab' = [f \in TabFields |-> tab'[f]] /\ \A f \in TabFields : tab'[f] = tab[f]
    BY <1>1 DEF StreamIsSound
  <2>5. \E n \in 0..Len(log') : row'.text = TextOfLog(log', n)
    <3>1. /\ Len(log) \in Nat /\ Len(log') = Len(log) + 1
          /\ \A n \in 0..Len(log) : TextOfLog(log', n) = TextOfLog(log, n)
      BY <2>1, <2>2, TextsStay
    <3>2. Len(log) \in 0..Len(log') /\ Len(log) \in 0..Len(log)
      BY <3>1
    <3> QED
      BY <2>3, <3>1, <3>2
  <2>6. Streamed("failed")
    BY <1>1, <1>2, <2>1, <2>3, <2>4, <2>5 DEF Streamed, TabFields
  <2> QED
    BY <2>2, <2>6, InvIsStreamed
<1>4. CASE row.status # "active"
  <2>1. UNCHANGED <<row, log>>
    BY <1>4 DEF ApiStarts
  <2>2. RunIsSound' /\ StreamIsSound' /\ LinkIsSound' /\ CheckpointIsSound'
    BY <1>1, <1>2, <2>1 DEF RunIsSound, StreamIsSound, LinkIsSound, CheckpointIsSound, IsText
  <2>3. SnapshotsAreSound' /\ AnswerFollows'
    BY <1>1, <2>1 DEF SnapshotsAreSound, AnswerFollows, IsText
  <2>4. NothingKept' /\ RefFollows' /\ CheckpointFollows'
    BY <1>1 DEF NothingKept, RefFollows, CheckpointFollows
  <2> QED
    BY <2>2, <2>3, <2>4
<1> QED
  BY <1>3, <1>4

\* A text is there.
LEMMA TextIsThere == ASSUME NEW l, NEW n \in Nat PROVE TextOf(TextOfLog(l, n)) = TextOfLog(l, n)
BY TextIsSeq, NoTextAssumption DEF TextOf

\* An event that comes is the next one, and it moves the text and what is shown of it.
LEMMA StreamReceive == StreamInv /\ Receive => StreamInv'
<1> SUFFICES ASSUME StreamInv, Receive PROVE StreamInv'
  OBVIOUS
<1> USE DEF StreamInv
<1> DEFINE c == tab.stream.cursor
           n == Len(log) - c
           id == c + 1
<1>1. /\ UNCHANGED <<log, row, apiState, data, loading>>
      /\ tab.stream.on /\ link # Null /\ link.wire # <<>>
  BY DEF Receive, storedRun
<1>2. /\ log \in Seq(Events) /\ Len(log) \in Nat /\ c \in Nat /\ c <= Len(log)
      /\ tab.hydrated /\ row.status # "absent" /\ n \in Nat
  BY <1>1 DEF RunIsSound, StreamIsSound
<1>3. /\ link = [f \in {"position", "wire"} |-> link[f]] /\ link.position = Len(log)
      /\ link.wire = IdsAfter(c, n)
  BY <1>1 DEF LinkIsSound
<1>4. n > 0 /\ Head(link.wire) = id /\ Tail(link.wire) = IdsAfter(id, n - 1)
  <2> HIDE DEF c, n
  <2>1. IdsAfter(c, n) # <<>>
    BY <1>1, <1>3
  <2>2. n > 0
    BY <1>2, <2>1, IdsInOrder
  <2>3. Head(IdsAfter(c, n)) = c + 1 /\ Tail(IdsAfter(c, n)) = IdsAfter(c + 1, n - 1)
    BY <1>2, <2>2, IdsInOrder
  <2> QED
    BY <1>3, <2>2, <2>3
<1>5. /\ id \in 1..Len(log) /\ id > c /\ log[id] \in Events /\ Len(log) - id = n - 1
      /\ id \in 0..Len(log) /\ 0 \in 0..Len(log)
  BY <1>2, <1>4
<1>6. /\ TextOfLog(log, id) = IF log[id] = "delta" THEN Append(TextOfLog(log, c), id)
                              ELSE TextOfLog(log, c)
      /\ tab.stream.text = TextOfLog(log, c)
      /\ TextOf(TextOfLog(log, id)) = TextOfLog(log, id)
      /\ TextOfLog(log, 0) = <<>>
  <2>1. TextOfLog(log, c + 1) = IF log[c + 1] = "delta" THEN Append(TextOfLog(log, c), c + 1)
                                ELSE TextOfLog(log, c)
    BY <1>2, TextSteps
  <2>2. TextOf(TextOfLog(log, id)) = TextOfLog(log, id)
    BY <1>2, TextIsThere
  <2> QED
    BY <2>1, <2>2, NoText DEF StreamIsSound
<1>7. /\ ~misled /\ tab.shown # Null => IsText(tab.shown)
      /\ ~misled => TextOf(tab.shown) = TextOfLog(log, c)
  BY <1>1 DEF AnswerFollows
<1>8. \/ /\ log[id] \in Ends /\ tab' = Handled(tab, id) /\ link' = Null /\ checkpoint' = Null
         /\ misled' = (misled /\ log[id] # "completed")
      \/ /\ log[id] \notin Ends
         /\ tab' = [Handled(tab, id) EXCEPT !.stream.cursor = id]
         /\ link' = [link EXCEPT !.wire = Tail(@)]
         /\ checkpoint' = [cursor |-> id, named |-> Handled(tab, id).stream.named,
                           text |-> Handled(tab, id).stream.text]
         /\ misled' = misled
  <2>1. \/ /\ log[id] \in Ends /\ tab' = Handled(tab, id) /\ link' = Null /\ checkpoint' = Null
           /\ misled' = (misled /\ log[id] # "completed")
        \/ /\ log[id] \notin Ends
           /\ tab' = [Handled(tab, id) EXCEPT !.stream.cursor = id]
           /\ link' = [link EXCEPT !.wire = Tail(@)]
           /\ checkpoint' = [cursor |-> id, named |-> Handled(tab, id).stream.named,
                             text |-> Handled(tab, id).stream.text]
           /\ UNCHANGED misled
        \/ ~(id > c)
    <3>1. PICK i : i = Head(link.wire)
      OBVIOUS
    <3>2. \/ /\ log[i] \in Ends /\ tab' = Handled(tab, i) /\ link' = Null /\ checkpoint' = Null
             /\ misled' = (misled /\ log[i] # "completed")
          \/ /\ log[i] \notin Ends
             /\ tab' = [Handled(tab, i) EXCEPT !.stream.cursor = i]
             /\ link' = [link EXCEPT !.wire = Tail(@)]
             /\ checkpoint' = [cursor |-> i, named |-> Handled(tab, i).stream.named,
                               text |-> Handled(tab, i).stream.text]
             /\ UNCHANGED misled
          \/ ~(i > tab.stream.cursor)
      BY <3>1 DEF Receive
    <3>3. i = id
      BY <1>4, <3>1
    <3> QED
      BY <3>2, <3>3
  <2> QED
    BY <1>5, <2>1
<1> HIDE DEF id
<1>9. RunIsSound'
  BY <1>1 DEF RunIsSound, IsText
<1>10. CASE log[id] \in Ends
  <2>1. /\ tab' = WithEnd(tab, log[id]) /\ link' = Null /\ checkpoint' = Null
        /\ misled' = (misled /\ log[id] # "completed")
    BY <1>8, <1>10 DEF Handled, Ends
  <2>2. /\ tab' = [f \in TabFields |-> tab'[f]] /\ tab'.hydrated = tab.hydrated
        /\ tab'.shown = (IF log[id] = "completed" THEN row.text ELSE tab.shown)
        /\ tab'.sends = tab.sends /\ tab'.terminal = TRUE /\ tab'.stream = NoStream
        /\ tab'.stage # "lost"
    BY <2>1 DEF StreamIsSound, TabFields, WithEnd
  <2>3. /\ tab'.stream = [f \in StreamFields |-> tab'.stream[f]]
        /\ tab'.stream.on = FALSE /\ tab'.stream.cursor = 0 /\ tab'.stream.text = <<>>
    BY <2>2, NoStreamFields
  <2>4. StreamIsSound'
    BY <1>1, <1>2, <1>5, <1>6, <2>2, <2>3 DEF StreamIsSound
  <2>5. LinkIsSound' /\ CheckpointIsSound' /\ NothingKept' /\ RefFollows'
    BY <2>1, <2>3, <2>2 DEF LinkIsSound, CheckpointIsSound, NothingKept, RefFollows
  <2>6. SnapshotsAreSound'
    BY <1>1, <1>2, <2>2 DEF SnapshotsAreSound, IsText
  <2>7. AnswerFollows'
    <3>1. ~misled' => IsText(tab'.shown) \/ tab'.shown = Null
      BY <1>7, <2>1, <2>2 DEF RunIsSound
    <3> QED
      BY <1>1, <2>3, <3>1 DEF AnswerFollows, IsText
  <2>8. CheckpointFollows'
    BY <2>1 DEF CheckpointFollows
  <2> QED
    BY <1>9, <2>4, <2>5, <2>6, <2>7, <2>8
<1>11. CASE log[id] \notin Ends
  <2> DEFINE h == Handled(tab, id)
             s == [h.stream EXCEPT !.cursor = id]
  <2>1. /\ h = [f \in TabFields |-> h[f]] /\ h.hydrated = tab.hydrated
        /\ h.sends = tab.sends /\ h.automatic = tab.automatic /\ h.terminal = tab.terminal
        /\ h.stage = "responding"
        /\ h.stream = [f \in StreamFields |-> h.stream[f]] /\ h.stream.on = TRUE
        /\ h.stream.text = TextOfLog(log, id)
        /\ \/ h.shown = tab.shown /\ h.ref = tab.ref /\ log[id] # "delta"
              /\ h.stream.text = tab.stream.text
           \/ log[id] = "delta" /\ h.ref = TRUE /\ h.shown = Append(TextOf(tab.shown), id)
    <3>1. CASE log[id] = "delta"
      <4>1. h = WithDelta(tab, id)
        BY <3>1 DEF Handled
      <4> DEFINE u == [tab.stream EXCEPT !.named = TRUE, !.text = Append(@, id)]
      <4>2. /\ u = [f \in StreamFields |-> u[f]] /\ u.on = TRUE
            /\ u.text = TextOfLog(log, id)
        BY <1>1, <1>6, <3>1 DEF StreamIsSound, StreamFields
      <4>3. PICK shown : shown = IF tab.shown = Null THEN <<id>> ELSE Append(tab.shown, id)
        OBVIOUS
      <4>4. shown = Append(TextOf(tab.shown), id)
        <5>1. <<id>> = Append(<<>>, id)
          OBVIOUS
        <5> QED
          BY <4>3, <5>1 DEF TextOf
      <4>5. h = [tab EXCEPT !.shown = shown, !.live = TRUE, !.ref = TRUE,
                            !.stage = "responding", !.stream = u]
        BY <4>1, <4>3 DEF WithDelta, StreamIsSound, TabFields, StreamFields
      <4> HIDE DEF u, h
      <4> QED
        BY <3>1, <4>2, <4>4, <4>5 DEF StreamIsSound, TabFields
    <3>2. CASE log[id] # "delta"
      <4>1. h = [tab EXCEPT !.stage = "responding"]
        BY <1>5, <1>11, <3>2 DEF Handled, Events
      <4> HIDE DEF h
      <4> QED
        BY <1>1, <1>6, <3>2, <4>1 DEF StreamIsSound, TabFields
    <3> QED
      BY <3>1, <3>2
  <2>2. /\ tab' = [h EXCEPT !.stream.cursor = id]
        /\ link' = [link EXCEPT !.wire = Tail(@)]
        /\ checkpoint' = [cursor |-> id, named |-> h.stream.named, text |-> h.stream.text]
        /\ misled' = misled
    BY <1>8, <1>11
  <2> HIDE DEF h
  <2>3. tab' = [h EXCEPT !.stream = s]
    BY <2>1, <2>2
  <2>4. /\ s = [f \in StreamFields |-> s[f]] /\ s.on = TRUE /\ s.cursor = id
        /\ s.text = h.stream.text
    BY <2>1 DEF StreamFields
  <2> HIDE DEF s
  <2>5. /\ tab' = [f \in TabFields |-> tab'[f]] /\ tab'.hydrated = tab.hydrated
        /\ tab'.sends = tab.sends /\ tab'.automatic = tab.automatic
        /\ tab'.terminal = tab.terminal /\ tab'.stage = "responding" /\ tab'.stream = s
        /\ tab'.shown = h.shown /\ tab'.ref = h.ref
    BY <2>1, <2>3 DEF TabFields
  <2>6. TextOf(h.shown) = TextOfLog(log, id) \/ misled
    <3>1. CASE log[id] = "delta"
      <4>1. misled \/ h.shown = TextOfLog(log, id)
        BY <1>6, <1>7, <2>1, <3>1
      <4> QED
        BY <1>6, <4>1
    <3>2. CASE log[id] # "delta"
      BY <1>6, <1>7, <2>1, <3>2
    <3> QED
      BY <3>1, <3>2
  <2>7. h.shown = Null \/ misled \/ IsText(h.shown)
    <3>1. CASE log[id] = "delta"
      BY <1>5, <1>6, <1>7, <2>1, <3>1 DEF IsText
    <3>2. CASE log[id] # "delta"
      BY <1>7, <2>1, <3>2
    <3> QED
      BY <3>1, <3>2
  <2>8. StreamIsSound'
    BY <1>1, <1>2, <1>5, <2>1, <2>4, <2>5 DEF StreamIsSound
  <2>9. LinkIsSound'
    <3>1. /\ link' = [f \in {"position", "wire"} |-> link'[f]]
          /\ link'.position = Len(log) /\ link'.wire = IdsAfter(id, n - 1)
      BY <1>3, <1>4, <2>2
    <3>2. n - 1 = Len(log) - id
      BY <1>5
    <3> QED
      BY <1>1, <2>4, <2>5, <3>1, <3>2 DEF LinkIsSound
  <2>10. CheckpointIsSound'
    BY <1>1, <1>5, <2>1, <2>2 DEF CheckpointIsSound
  <2>11. SnapshotsAreSound'
    BY <1>1, <2>5 DEF SnapshotsAreSound, IsText
  <2>12. AnswerFollows'
    <3>1. TextOf(tab.shown)' = TextOf(h.shown)
      BY <2>5 DEF TextOf
    <3> QED
      BY <1>1, <2>2, <2>4, <2>5, <2>6, <2>7, <3>1 DEF AnswerFollows, IsText
  <2>13. NothingKept'
    BY <1>1, <2>5 DEF NothingKept
  <2>14. RefFollows'
    <3>1. ~tab.automatic /\ tab.stream.text # <<>> => tab.ref
      BY <1>1 DEF RefFollows
    <3>2. ~tab.automatic /\ h.stream.text # <<>> => h.ref
      BY <2>1, <3>1
    <3>3. checkpoint'.text = h.stream.text
      BY <2>2
    <3> QED
      BY <2>4, <2>5, <3>2, <3>3 DEF RefFollows
  <2>15. CheckpointFollows'
    <3>1. TextOf(tab.shown)' = TextOf(h.shown)
      BY <2>5 DEF TextOf
    <3>2. checkpoint'.text = h.stream.text
      BY <2>2
    <3> QED
      BY <2>1, <2>2, <2>4, <2>5, <2>6, <3>1, <3>2 DEF CheckpointFollows
  <2> QED
    BY <1>9, <2>8, <2>9, <2>10, <2>11, <2>12, <2>13, <2>14, <2>15
<1> QED
  BY <1>10, <1>11

\* Reattaching to the run as p, where the answer shown is taken to be shown: it is
\* replayed, or read after the checkpoint of exactly that text, or there is none yet.
LEMMA Reattached ==
  ASSUME NEW p, p = [f \in TabFields |-> p[f]], p.shown = tab.shown,
         NEW named, NEW shown, Reattach(named, shown, p)
  PROVE  /\ link' = Null
         /\ tab' = [f \in TabFields |-> tab'[f]]
         /\ tab'.hydrated = p.hydrated /\ tab'.sends = p.sends /\ tab'.ref = p.ref
         /\ tab'.automatic = p.automatic /\ tab'.terminal = p.terminal
         /\ tab'.stage = "responding"
         /\ tab'.stream = [f \in StreamFields |-> tab'.stream[f]] /\ tab'.stream.on = TRUE
         /\ \/ /\ named /\ checkpoint' = Null /\ tab'.shown \in {Null, <<>>}
               /\ tab'.stream.cursor = 0 /\ tab'.stream.text = <<>>
            \/ /\ checkpoint' = checkpoint /\ tab'.shown = tab.shown
               /\ ~misled' => ~misled /\ (named \/ TextOf(tab.shown) = <<>>)
               /\ \/ /\ checkpoint # Null /\ checkpoint.text = TextOf(shown)
                     /\ tab'.stream.cursor = checkpoint.cursor
                     /\ tab'.stream.text = checkpoint.text
                  \/ ~named /\ tab'.stream.cursor = 0 /\ tab'.stream.text = <<>>
<1>1. PICK matches \in BOOLEAN : matches = CheckpointMatches(named, shown)
  BY DEF CheckpointMatches
<1>2. PICK replays \in BOOLEAN : replays = (named /\ ~matches)
  OBVIOUS
<1>3. /\ tab' = Attached(IF replays THEN Emptied(p) ELSE p,
                         IF matches THEN checkpoint.cursor ELSE 0, named,
                         IF matches THEN TextOf(shown) ELSE <<>>)
      /\ checkpoint' = IF replays THEN Null ELSE checkpoint
      /\ misled' = IF replays THEN FALSE ELSE misled \/ (~named /\ AppendsToText)
      /\ link' = Null
  BY <1>1, <1>2 DEF Reattach
<1>4. matches => checkpoint # Null /\ checkpoint.text = TextOf(shown)
  BY <1>1 DEF CheckpointMatches
<1>5. PICK r : r = IF replays THEN Emptied(p) ELSE p
  OBVIOUS
<1>6. PICK cursor, text : /\ cursor = (IF matches THEN checkpoint.cursor ELSE 0)
                          /\ text = (IF matches THEN TextOf(shown) ELSE <<>>)
  OBVIOUS
<1>7. /\ r = [f \in TabFields |-> r[f]]
      /\ r.hydrated = p.hydrated /\ r.sends = p.sends /\ r.ref = p.ref
      /\ r.automatic = p.automatic /\ r.terminal = p.terminal
      /\ IF replays THEN r.shown \in {Null, <<>>} ELSE r.shown = tab.shown
  BY <1>5 DEF Emptied, TabFields
<1>8. tab' = Attached(r, cursor, named, text)
  BY <1>3, <1>5, <1>6
<1>9. PICK q : q = tab' /\ IsAttached(q, r, cursor, text)
  BY <1>7, <1>8, AttachedFields
<1>10. /\ tab' = [f \in TabFields |-> tab'[f]]
       /\ tab'.hydrated = p.hydrated /\ tab'.sends = p.sends /\ tab'.ref = p.ref
       /\ tab'.automatic = p.automatic /\ tab'.terminal = p.terminal
       /\ tab'.stage = "responding" /\ tab'.shown = r.shown
       /\ tab'.stream = [f \in StreamFields |-> tab'.stream[f]] /\ tab'.stream.on = TRUE
       /\ tab'.stream.cursor = cursor /\ tab'.stream.text = text
  BY <1>7, <1>9 DEF IsAttached
<1>11. CASE replays
  BY <1>2, <1>3, <1>6, <1>7, <1>10, <1>11
<1>12. CASE ~replays
  <2>1. checkpoint' = checkpoint /\ tab'.shown = tab.shown
    BY <1>3, <1>7, <1>10, <1>12
  <2>2. ~misled' => ~misled /\ (named \/ TextOf(tab.shown) = <<>>)
    BY <1>3, <1>12 DEF AppendsToText, TextOf
  <2>3. \/ /\ checkpoint # Null /\ checkpoint.text = TextOf(shown)
           /\ tab'.stream.cursor = checkpoint.cursor
           /\ tab'.stream.text = checkpoint.text
        \/ ~named /\ tab'.stream.cursor = 0 /\ tab'.stream.text = <<>>
    <3>1. CASE matches
      BY <1>4, <1>6, <1>10, <3>1
    <3>2. CASE ~matches
      BY <1>2, <1>6, <1>10, <1>12, <3>2
    <3> QED
      BY <3>1, <3>2
  <2> QED
    BY <1>3, <1>10, <2>1, <2>2, <2>3
<1> QED
  BY <1>11, <1>12

\* Attached on its own, the page goes on with the text of its snapshot.
LEMMA StreamAttachAutomatically == StreamInv /\ AttachAutomatically => StreamInv'
<1> SUFFICES ASSUME StreamInv, AttachAutomatically PROVE StreamInv'
  OBVIOUS
<1> USE DEF StreamInv
<1> DEFINE p == [tab EXCEPT !.automatic = TRUE, !.ref = @ \/ data.named]
<1>1. /\ UNCHANGED <<log, row, apiState, data, loading>>
      /\ data # Null /\ data.active /\ ~tab.stream.on /\ ~tab.automatic /\ ~tab.terminal
  BY DEF AttachAutomatically, storedRun
<1>2. PICK named, shown :
        /\ named = data.named /\ shown = (IF data.named THEN data.text ELSE Null)
        /\ Reattach(named, shown, p)
  BY DEF AttachAutomatically
<1>3. /\ p = [f \in TabFields |-> p[f]] /\ p.shown = tab.shown /\ p.hydrated = tab.hydrated
      /\ p.sends = tab.sends /\ p.automatic = TRUE
  BY DEF StreamIsSound, TabFields
<1> HIDE DEF p
<1>4. /\ link' = Null
      /\ tab' = [f \in TabFields |-> tab'[f]]
      /\ tab'.hydrated = tab.hydrated /\ tab'.sends = tab.sends /\ tab'.automatic = TRUE
      /\ tab'.stage = "responding"
      /\ tab'.stream = [f \in StreamFields |-> tab'.stream[f]] /\ tab'.stream.on = TRUE
      /\ \/ /\ named /\ checkpoint' = Null /\ tab'.shown \in {Null, <<>>}
            /\ tab'.stream.cursor = 0 /\ tab'.stream.text = <<>>
         \/ /\ checkpoint' = checkpoint /\ tab'.shown = tab.shown
            /\ ~misled' => ~misled /\ (named \/ TextOf(tab.shown) = <<>>)
            /\ \/ /\ checkpoint # Null /\ checkpoint.text = TextOf(shown)
                  /\ tab'.stream.cursor = checkpoint.cursor
                  /\ tab'.stream.text = checkpoint.text
               \/ ~named /\ tab'.stream.cursor = 0 /\ tab'.stream.text = <<>>
  <2>1. PICK r : r = p
    OBVIOUS
  <2>2. r = [f \in TabFields |-> r[f]] /\ r.shown = tab.shown /\ Reattach(named, shown, r)
    BY <1>2, <1>3, <2>1
  <2>3. /\ r.hydrated = tab.hydrated /\ r.sends = tab.sends /\ r.automatic = TRUE
    BY <1>3, <2>1
  <2> QED
    BY <2>2, <2>3, Reattached
<1>5. /\ log \in Seq(Events) /\ Len(log) \in Nat /\ TextOfLog(log, 0) = <<>>
      /\ tab.hydrated /\ row.status # "absent"
  BY <1>1, NoText DEF RunIsSound, SnapshotsAreSound
<1>6. /\ tab'.stream.cursor \in 0..Len(log)
      /\ tab'.stream.text = TextOfLog(log, tab'.stream.cursor)
  BY <1>4, <1>5 DEF CheckpointIsSound
<1>7. RunIsSound' /\ StreamIsSound'
  BY <1>1, <1>4, <1>5, <1>6 DEF RunIsSound, StreamIsSound, IsText
<1>8. LinkIsSound' /\ CheckpointIsSound'
  BY <1>1, <1>4 DEF LinkIsSound, CheckpointIsSound
<1>9. SnapshotsAreSound'
  BY <1>1, <1>4 DEF SnapshotsAreSound, IsText
<1>10. AnswerFollows'
  <2>1. CASE tab'.shown \in {Null, <<>>} /\ tab'.stream.cursor = 0
    <3>1. TextOf(tab.shown)' = <<>>
      BY <2>1 DEF TextOf
    <3> QED
      BY <1>1, <1>5, <2>1, <3>1 DEF AnswerFollows, IsText
  <2>2. CASE /\ checkpoint' = checkpoint /\ tab'.shown = tab.shown
             /\ ~misled' => ~misled /\ (named \/ TextOf(tab.shown) = <<>>)
             /\ \/ /\ checkpoint # Null /\ checkpoint.text = TextOf(shown)
                   /\ tab'.stream.cursor = checkpoint.cursor
                   /\ tab'.stream.text = checkpoint.text
                \/ ~named /\ tab'.stream.cursor = 0 /\ tab'.stream.text = <<>>
    <3> SUFFICES ASSUME ~misled' PROVE AnswerFollows'
      BY DEF AnswerFollows
    <3>1. ~misled /\ (tab.shown # Null => IsText(tab.shown))
      BY <2>2 DEF AnswerFollows
    <3>2. TextOf(tab.shown)' = TextOf(tab.shown)
      BY <2>2 DEF TextOf
    <3>3. ~named => shown = Null /\ TextOf(shown) = <<>>
      BY <1>2 DEF TextOf
    <3>4. TextOf(tab.shown) = tab'.stream.text
      <4>1. CASE ~named
        BY <2>2, <3>3, <4>1
      <4>2. CASE named
        <5>1. \/ TextOf(tab.shown) = TextOf(data.text)
              \/ checkpoint.text = TextOf(tab.shown)
          BY <1>1, <1>2, <2>2, <3>1, <4>2 DEF CheckpointFollows
        <5>2. shown = data.text
          BY <1>2, <4>2
        <5> QED
          BY <2>2, <4>2, <5>1, <5>2
      <4> QED
        BY <4>1, <4>2
    <3> QED
      BY <1>1, <1>6, <2>2, <3>1, <3>2, <3>4 DEF AnswerFollows, IsText
  <2> QED
    BY <1>4, <2>1, <2>2
<1>11. NothingKept' /\ RefFollows' /\ CheckpointFollows'
  BY <1>4 DEF NothingKept, RefFollows, CheckpointFollows
<1> QED
  BY <1>7, <1>8, <1>9, <1>10, <1>11

\* Resumed by the user, the page goes on with the text that it shows.
LEMMA StreamResume == StreamInv /\ Resume => StreamInv'
<1> SUFFICES ASSUME StreamInv, Resume PROVE StreamInv'
  OBVIOUS
<1> USE DEF StreamInv
<1>1. /\ UNCHANGED <<log, row, apiState, data, loading>>
      /\ tab.stage = "lost" /\ ~tab.terminal /\ ~tab.stream.on
  BY DEF Resume, storedRun
<1>2. PICK named, shown :
        /\ named = (tab.ref \/ (tab.shown # Null /\ tab.live))
        /\ shown = (IF named THEN tab.shown ELSE Null)
        /\ Reattach(named, shown, tab)
  BY DEF Resume
<1>3. tab = [f \in TabFields |-> tab[f]]
  BY DEF StreamIsSound
<1>4. /\ link' = Null
      /\ tab' = [f \in TabFields |-> tab'[f]]
      /\ tab'.hydrated = tab.hydrated /\ tab'.sends = tab.sends /\ tab'.ref = tab.ref
      /\ tab'.automatic = tab.automatic /\ tab'.terminal = tab.terminal
      /\ tab'.stage = "responding"
      /\ tab'.stream = [f \in StreamFields |-> tab'.stream[f]] /\ tab'.stream.on = TRUE
      /\ \/ /\ named /\ checkpoint' = Null /\ tab'.shown \in {Null, <<>>}
            /\ tab'.stream.cursor = 0 /\ tab'.stream.text = <<>>
         \/ /\ checkpoint' = checkpoint /\ tab'.shown = tab.shown
            /\ ~misled' => ~misled /\ (named \/ TextOf(tab.shown) = <<>>)
            /\ \/ /\ checkpoint # Null /\ checkpoint.text = TextOf(shown)
                  /\ tab'.stream.cursor = checkpoint.cursor
                  /\ tab'.stream.text = checkpoint.text
               \/ ~named /\ tab'.stream.cursor = 0 /\ tab'.stream.text = <<>>
  <2>1. PICK p : p = tab
    OBVIOUS
  <2>2. p = [f \in TabFields |-> p[f]] /\ p.shown = tab.shown /\ Reattach(named, shown, p)
    BY <1>2, <1>3, <2>1
  <2> QED
    BY <2>1, <2>2, Reattached
<1>5. /\ log \in Seq(Events) /\ Len(log) \in Nat /\ TextOfLog(log, 0) = <<>>
      /\ tab.hydrated /\ row.status # "absent"
  BY <1>1, NoText DEF RunIsSound, StreamIsSound
<1>6. /\ tab'.stream.cursor \in 0..Len(log)
      /\ tab'.stream.text = TextOfLog(log, tab'.stream.cursor)
  BY <1>4, <1>5 DEF CheckpointIsSound
<1>7. RunIsSound' /\ StreamIsSound'
  BY <1>1, <1>4, <1>5, <1>6 DEF RunIsSound, StreamIsSound, IsText
<1>8. LinkIsSound' /\ CheckpointIsSound'
  BY <1>1, <1>4 DEF LinkIsSound, CheckpointIsSound
<1>9. SnapshotsAreSound'
  BY <1>1, <1>4 DEF SnapshotsAreSound, IsText
<1>10. NothingKept'
  BY <1>1, <1>4 DEF NothingKept
<1>11. CASE checkpoint' = Null /\ tab'.shown \in {Null, <<>>}
            /\ tab'.stream.cursor = 0 /\ tab'.stream.text = <<>>
  <2>1. TextOf(tab.shown)' = <<>>
    BY <1>11 DEF TextOf
  <2>2. AnswerFollows'
    BY <1>1, <1>5, <1>11, <2>1 DEF AnswerFollows, IsText
  <2>3. RefFollows' /\ CheckpointFollows'
    BY <1>11 DEF RefFollows, CheckpointFollows
  <2> QED
    BY <1>7, <1>8, <1>9, <1>10, <2>2, <2>3
<1>12. CASE /\ checkpoint' = checkpoint /\ tab'.shown = tab.shown
            /\ ~misled' => ~misled /\ (named \/ TextOf(tab.shown) = <<>>)
            /\ \/ /\ checkpoint # Null /\ checkpoint.text = TextOf(shown)
                  /\ tab'.stream.cursor = checkpoint.cursor
                  /\ tab'.stream.text = checkpoint.text
               \/ ~named /\ tab'.stream.cursor = 0 /\ tab'.stream.text = <<>>
  <2>1. TextOf(tab.shown)' = TextOf(tab.shown)
    BY <1>12 DEF TextOf
  <2>2. ~named => TextOf(shown) = <<>>
    BY <1>2 DEF TextOf
  <2>3. named => TextOf(shown) = TextOf(tab.shown)
    BY <1>2
  <2>4. ~misled' => ~misled /\ TextOf(tab.shown) = tab'.stream.text
    BY <1>12, <2>2, <2>3
  <2>5. AnswerFollows'
    BY <1>1, <1>6, <1>12, <2>1, <2>4 DEF AnswerFollows, IsText
  <2>6. ~tab.automatic /\ checkpoint # Null => tab.ref \/ checkpoint.text = <<>>
    BY <1>1 DEF RefFollows
  <2>7. RefFollows'
    BY <1>4, <1>12, <2>6 DEF RefFollows
  <2>8. ASSUME ~misled', ~tab.automatic, checkpoint # Null
        PROVE  checkpoint.text = TextOf(tab.shown)
    <3>1. CASE named
      BY <1>12, <2>3, <3>1
    <3>2. CASE ~named
      BY <1>2, <1>12, <2>6, <2>8, <3>2
    <3> QED
      BY <3>1, <3>2
  <2>9. CheckpointFollows'
    BY <1>4, <1>12, <2>1, <2>8 DEF CheckpointFollows
  <2> QED
    BY <1>7, <1>8, <1>9, <1>10, <2>5, <2>7, <2>9
<1> QED
  BY <1>4, <1>11, <1>12

LEMMA StreamInvHoldsAtFirst == StreamInit => StreamInv
<1> SUFFICES ASSUME StreamInit PROVE StreamInv
  OBVIOUS
<1>1. /\ log = <<>> /\ log \in Seq(Events) /\ Len(log) = 0 /\ TextOfLog(log, 0) = <<>>
      /\ row.status = "absent" /\ row.text = <<>>
      /\ row = [f \in RowFields |-> row[f]]
      /\ apiState = "up" /\ link = Null /\ checkpoint = Null /\ data = Null /\ loading = Null
  BY NoText DEF StreamInit, RowFields
<1>2. /\ tab = [f \in TabFields |-> tab[f]] /\ tab.stream = NoStream
      /\ tab.shown = Null /\ ~tab.sends /\ tab.stage = "idle"
  BY DEF StreamInit, Loaded, TabFields
<1>3. /\ tab.stream = [f \in StreamFields |-> tab.stream[f]]
      /\ ~tab.stream.on /\ tab.stream.cursor = 0 /\ tab.stream.text = <<>>
  BY <1>2, NoStreamFields
<1>4. RunIsSound
  BY <1>1 DEF RunIsSound, RowFields, IsText
<1>5. StreamIsSound
  BY <1>1, <1>2, <1>3 DEF StreamIsSound
<1> QED
  BY <1>1, <1>2, <1>3, <1>4, <1>5 DEF StreamInv, LinkIsSound, CheckpointIsSound, SnapshotsAreSound,
     AnswerFollows, NothingKept, RefFollows, CheckpointFollows

LEMMA StreamStutters == StreamInv /\ UNCHANGED streamVars => StreamInv'
BY DEF StreamInv, streamVars, RunIsSound, StreamIsSound, LinkIsSound, CheckpointIsSound,
   SnapshotsAreSound, AnswerFollows, NothingKept, RefFollows, CheckpointFollows, IsText, TextOf

\* What the page shows is a text of the run, that of its cursor while it reads it
\* (the stream and the page of App.tsx, see StreamInv).
THEOREM StreamIsFollowed == StreamSpec => []StreamInv
<1>1. ASSUME StreamInv, [StreamNext]_streamVars PROVE StreamInv'
  <2>1. ASSUME PostMessage \/ StreamAnswer \/ StreamDelta \/ (\E event \in Ends : End(event))
        PROVE  StreamInv'
    BY <1>1, <2>1, StreamPostMessage, StreamStreamAnswer, StreamStreamDelta, StreamEnd
  <2>2. ASSUME ApiDies \/ ApiStarts \/ Connect \/ Break \/ Receive PROVE StreamInv'
    BY <1>1, <2>2, StreamApiDies, StreamApiStarts, StreamConnect, StreamBreak, StreamReceive
  <2>3. ASSUME Sent \/ AttachAutomatically \/ Resume \/ Stop PROVE StreamInv'
    BY <1>1, <2>3, StreamSent, StreamAttachAutomatically, StreamResume, StreamStop
  <2>4. ASSUME OpenTab \/ AskSnapshot \/ ReadEvents \/ ReadRuns \/ Hydrate PROVE StreamInv'
    BY <1>1, <2>4, StreamOpenTab, StreamAskSnapshot, StreamReadEvents, StreamReadRuns,
       StreamHydrate
  <2>5. CASE UNCHANGED streamVars
    BY <1>1, <2>5, StreamStutters
  <2> QED
    BY <1>1, <2>1, <2>2, <2>3, <2>4, <2>5 DEF StreamNext
<1> QED
  BY <1>1, StreamInvHoldsAtFirst, PTL DEF StreamSpec

\* What the page shows of an answer is a beginning of what was streamed, every delta
\* once and in its order, and while it is read exactly what came up to the cursor,
\* for any number of events, broken connections, deaths, pages and snapshots
\* (ShownIsStreamed).
THEOREM AnswersAreShownWhole == StreamSpec => []ShownIsStreamed
<1>1. StreamInv => ShownIsStreamed
  <2> SUFFICES ASSUME StreamInv, ~misled PROVE ShownIsStreamed
    BY DEF ShownIsStreamed
  <2>1. log \in Seq(Events) /\ Len(log) \in Nat /\ tab.stream.cursor \in 0..Len(log)
    BY DEF StreamInv, RunIsSound, StreamIsSound
  <2>2. ASSUME tab.shown # Null PROVE IsPrefix(tab.shown, Text(Len(log)))
    <3>1. PICK n \in 0..Len(log) : tab.shown = TextOfLog(log, n)
      BY <2>2 DEF StreamInv, AnswerFollows, IsText
    <3>2. IsPrefix(TextOfLog(log, n), TextOfLog(log, Len(log)))
      BY <2>1, TextsAreBeginnings
    <3> QED
      BY <3>1, <3>2 DEF Text, TextOfLog
  <2>3. tab.stream.on => TextOf(tab.shown) = Text(tab.stream.cursor)
    BY DEF StreamInv, AnswerFollows, Text, TextOfLog
  <2> QED
    BY <2>2, <2>3 DEF ShownIsStreamed
<1> QED
  BY <1>1, StreamIsFollowed, PTL
==============================================================================

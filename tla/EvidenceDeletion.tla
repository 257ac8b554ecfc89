-------------------------- MODULE EvidenceDeletion --------------------------
(***************************************************************************)
(* Hard deletion in the database (packages/database/src/index.ts): what is *)
(* derived from a prompt, a claim, an attachment or a topic goes with it,  *)
(* and what is supported by other evidence stays.                          *)
(*                                                                         *)
(* A conversation of a few turns builds the memory: an answer may use      *)
(* topic pages and uses all earlier turns, a claim is learned from a turn  *)
(* and put on the page of a topic, a user edits pages, and pages that a    *)
(* user has edited change by proposal.  Then one object is deleted.        *)
(* Answers that used what is deleted are deleted the same way, one inside  *)
(* of the other (stack), all of it in one transaction.                     *)
(*                                                                         *)
(* An object is a tuple of its table and its number; a revision also names *)
(* its topic, in which later revisions have higher numbers.                *)
(***************************************************************************)
EXTENDS Integers, FiniteSets, Sequences, TLC

CONSTANTS
  Turns,         \* the number of turns of the conversation
  Attaching,     \* the turns in which the user may attach the file
  Topics,        \* the topic pages, and the topic each is a shard of
  ShardOf,
  NoTopic,
  Deletable,     \* the tables of the objects a user may ask to delete
  MaxDepth,      \* how many deletions fit on the call stack
  MaxActs,       \* a bound on the turns and the edits of pages together
  MaxActsBefore, \* and on those before a deletion
  MaxDeletions

ASSUME ShardAssumption ==
  /\ ShardOf \in [Topics -> Topics \cup {NoTopic}] /\ NoTopic \notin Topics
  /\ \A t \in Topics : ShardOf[t] # NoTopic => ShardOf[ShardOf[t]] = NoTopic
ASSUME DeletionBoundsAssumption ==
  /\ {Turns, MaxDepth, MaxActs, MaxActsBefore, MaxDeletions} \subseteq Nat
  /\ MaxDepth > Turns + 1

VARIABLES
  db,          \* the rows of the tables
  saved,       \* the database before the transaction
  stack,       \* the deletions under way, innermost last
  turn,        \* the number of turns so far, and whether the last is compiled
  compiled,
  edits, deletionsDone,
  asked,       \* the object of the last deletion
  stripped,    \* the pages from which a deletion of a claim took a candidate
               \* revision without repairing them
  overflowed   \* the last deletion ran out of stack

deletionVars == <<db, saved, stack, turn, compiled, edits, deletionsDone, asked,
                  stripped, overflowed>>

Prompt(k) == <<"prompt", k>>
Answer(k) == <<"answer", k>>
Run(k) == <<"run", k>>
File(k) == <<"file", k>>
Source == <<"source", 1>>           \* of every file: its rows and its chunks
Claim(k) == <<"claim", k>>
Page(t) == <<"topic", t>>
Revision(t, n) == <<"revision", t, n>>

In(table, ids) == {x \in ids : x[1] = table}

(* live: the rows.  evidence: claim_sources.  home: the topic of a claim.    *)
(* written: author and page_section_sources of a revision.  active: the      *)
(* active revision of a topic; confirm: the topics with that update_policy;  *)
(* drafts: those whose lifecycle_status is "proposal".  uses: the context   *)
(* packet of a run.  proposals: their topic, what they mention, and the       *)
(* revision they would make active.  edges: their ends and evidence.          *)
(* mentions: what the payloads of jobs and the like name.                     *)
EmptyDatabase ==
  [live |-> {}, evidence |-> [k \in 1..Turns |-> {}], home |-> [k \in 1..Turns |-> NoTopic],
   written |-> <<>>, active |-> [t \in Topics |-> 0], confirm |-> {}, drafts |-> {},
   uses |-> [k \in 1..Turns |-> {}], proposals |-> {}, edges |-> {}, mentions |-> {},
   next |-> 1]

DeletionInit ==
  /\ db = EmptyDatabase
  /\ saved = EmptyDatabase
  /\ stack = <<>>
  /\ turn = 0
  /\ compiled = TRUE
  /\ edits = 0
  /\ deletionsDone = 0
  /\ asked = <<>>
  /\ stripped = {}
  /\ overflowed = FALSE

-----------------------------------------------------------------------------
(* The conversation, as far as deletion depends on it *)

IsLive(x) == x \in db.live
RootOf(t) == IF ShardOf[t] = NoTopic THEN t ELSE ShardOf[t]
RevisionsOf(d, t) == {x \in d.live : x[1] = "revision" /\ x[2] = t}
ActiveOf(d, t) == Revision(t, d.active[t])
PagesOf(d) == {t \in Topics : Page(t) \in d.live}
ClaimsAt(d, t) == {k \in 1..Turns : Claim(k) \in d.live /\ d.home[k] = t}

\* What composeStoredContextPacket writes of a topic page.
ReferencesTo(d, t) ==
  {Page(t), ActiveOf(d, t)} \cup (d.written[ActiveOf(d, t)].cites \ {Claim(k) : k \in 1..Turns})

Converse ==
  /\ stack = <<>> /\ compiled /\ turn < Turns /\ turn + edits < MaxActs /\ deletionsDone = 0
  /\ turn' = turn + 1
  /\ compiled' = FALSE
  /\ \E attached \in {FALSE, turn + 1 \in Attaching}, read \in {{}, PagesOf(db) \ db.drafts} :
       LET k == turn + 1
           files == IF attached THEN {File(k), Source} ELSE {}
           earlier == {Prompt(j) : j \in 1..turn} \cup {Answer(j) : j \in 1..turn}
       IN db' = [db EXCEPT
            !.live = @ \cup {Prompt(k), Answer(k), Run(k)} \cup files,
            !.uses[k] = earlier \cup files \cup UNION {ReferencesTo(db, t) : t \in read},
            !.mentions = @ \cup {{Prompt(k), Answer(k), Run(k)}}]
  /\ UNCHANGED <<saved, stack, edits, deletionsDone, asked, stripped, overflowed>>

Shown(d, t) == In("claim", d.written[ActiveOf(d, t)].cites)
Cited(d, claims) == claims \cup UNION {d.evidence[x[2]] : x \in claims}

\* A new claim of this turn, or more evidence for an older one.
Learned(k, c, from, home) ==
  [db EXCEPT !.live = @ \cup {Claim(c)},
             !.evidence[c] = @ \cup from,
             !.home[c] = IF c = k THEN home ELSE @]

\* replacePageLink, exactLink: "contains" and "part_of".
Linked(d, t, evidence) ==
  LET ends == {Page(t), Page(RootOf(t))}
  IN [d EXCEPT !.edges = {e \in @ : e.ends # ends} \cup {[ends |-> ends, evidence |-> evidence]}]

\* updateShardedTopic: a new revision of the shard, and of the index of its parent.
\* Who wrote the revision that is replaced, or whether the shard itself has the
\* policy "confirm", makes no difference.
Published(d, t, cites) ==
  LET pages == {t, RootOf(t)}
      new == {Revision(s, d.next) : s \in pages}
  IN [Linked(d, t, cites) EXCEPT
       !.live = @ \cup new \cup {Page(s) : s \in pages},
       !.written = [x \in new |-> [author |-> "model",
                                   cites |-> IF x[2] = t THEN cites ELSE {}]] @@ @,
       !.active = [s \in Topics |-> IF s \in pages THEN d.next ELSE @[s]],
       !.mentions = @ \cup {{Page(s)} : s \in pages},
       !.next = @ + 1]

\* The candidates of proposals that lapse go, and the pages that were drafts; a page
\* that is drafted again is a new one, which they do not name.
Lapsed(d, proposals, status) ==
  LET gone == {p.output : p \in proposals}
      drafts == {p.output[2] : p \in proposals} \cap d.drafts
  IN [d EXCEPT
       !.live = (@ \ gone) \ {Page(t) : t \in drafts},
       !.written = [x \in (DOMAIN @) \ gone |-> @[x]],
       !.active = [t \in Topics |-> IF t \in drafts THEN 0 ELSE @[t]],
       !.drafts = @ \ drafts,
       !.proposals = (@ \ proposals) \cup
         {[p EXCEPT !.status = status, !.about = @ \ {Page(t) : t \in drafts}] : p \in proposals}]

Pending(d) == {p \in d.proposals : p.status = "pending"}
StateOf(d, x) == <<x, d.home[x[2]], d.evidence[x[2]]>>

\* What is pending about the same shard; a proposal that takes it over carries its
\* claims along.
TakenOver(d, t) == {p \in Pending(d) : p.output[2] = t}

\* Faulty: they are left to the proposal that is superseded.
ChangedByLatest(d, t, claim) == {claim}

ChangedBy(d, t, claim) == {claim} \cup UNION {p.changed : p \in TakenOver(d, t)}

\* The pages in use among these, and the revisions a proposal is based on.
InUse(d, pages) == {s \in pages : Page(s) \in d.live \ {Page(r) : r \in d.drafts}}
BasesOf(d, t) == {ActiveOf(d, s) : s \in {RootOf(t)} \cup InUse(d, {t})}

\* proposeShardedTopicDelta, for a parent with the policy "confirm": a candidate
\* for the shard, active only if the page is new, a draft.
Proposed(d, t, claim) ==
  LET root == RootOf(t)
      changed == ChangedBy(d, t, claim)
      shown == changed \cup UNION {Shown(d, s) : s \in InUse(d, {t})}
      e == Lapsed(d, TakenOver(d, t), "superseded")
      draft == Page(t) \notin e.live
      new == Revision(t, e.next)
  IN [e EXCEPT
       !.live = @ \cup {new, Page(t)},
       !.written = (new :> [author |-> "proposal", cites |-> Cited(d, shown)]) @@ @,
       !.active = IF draft THEN [@ EXCEPT ![t] = e.next] ELSE @,
       !.drafts = IF draft THEN @ \cup {t} ELSE @,
       !.proposals = @ \cup
          {[topic |-> root, changed |-> changed, output |-> new, status |-> "pending",
            about |-> Cited(d, shown) \cup BasesOf(d, t) \cup {Page(t), Page(root)},
            guards |-> {StateOf(d, x) : x \in shown}]},
       !.next = @ + 1]

ShowsElsewhere(x, t) ==
  \E s \in PagesOf(db) \ (db.drafts \cup {t}) : x \in Shown(db, s)

Compile ==
  /\ stack = <<>> /\ ~compiled /\ deletionsDone = 0
  /\ compiled' = TRUE
  /\ \E t \in {s \in Topics : ShardOf[s] # NoTopic},
        c \in {j \in 1..turn : j = turn \/ IsLive(Claim(j))},
        from \in {{Prompt(turn)}, {Answer(turn)}} \cup
                   (IF IsLive(File(turn)) THEN {{Source}} ELSE {}) :
       /\ ~ShowsElsewhere(Claim(c), t)
       /\ db' = IF RootOf(t) \in db.confirm
                  THEN Proposed(Learned(turn, c, from, NoTopic), t, Claim(c))
                  ELSE LET d == Learned(turn, c, from, RootOf(t))
                           before == IF IsLive(Page(t)) THEN Shown(db, t) ELSE {}
                       IN Published(d, t, Cited(d, before \cup {Claim(c)}))
  /\ UNCHANGED <<saved, stack, turn, edits, deletionsDone, asked, stripped, overflowed>>

\* PATCH /topics/:id: a user's revision, which keeps the sources but not the claims,
\* and the policy "confirm" for this page.  It takes the number after the active
\* revision's, which a pending candidate of the page may have: then it fails.
EditPage(t) ==
  /\ stack = <<>> /\ compiled /\ turn + edits < MaxActs /\ deletionsDone = 0
  /\ IsLive(Page(t)) /\ t \notin db.drafts
  /\ \A p \in Pending(db) : p.output[2] # t
  /\ LET new == Revision(t, db.next)
         sources == db.written[ActiveOf(db, t)].cites \ Shown(db, t)
     IN db' = [db EXCEPT !.live = @ \cup {new},
                         !.written = (new :> [author |-> "user", cites |-> sources]) @@ @,
                         !.active[t] = db.next,
                         !.confirm = @ \cup {t},
                         !.next = @ + 1]
  /\ edits' = edits + 1
  /\ UNCHANGED <<saved, stack, turn, compiled, deletionsDone, asked, stripped, overflowed>>

Unchanged(p) ==
  /\ p.topic \in db.confirm
  /\ \A x \in In("revision", p.about) : x = ActiveOf(db, x[2])
  /\ \A g \in p.guards : IsLive(g[1]) /\ g = StateOf(db, g[1])

\* What is pending about the same claims or shard is stale once p is accepted.
StaleWith(p) ==
  {q \in Pending(db) \ {p} : q.output[2] = p.output[2] \/ q.changed \cap p.changed # {}}

\* Accepting: the candidate is active, the claims have their topic, the parent has a
\* new index.  The proposals that are not stale are rebased.
AcceptProposal(p) ==
  /\ stack = <<>> /\ compiled /\ deletionsDone = 0
  /\ p.status = "pending" /\ Unchanged(p)
  /\ LET t == p.output[2]
         index == Revision(p.topic, db.next)
         old == ActiveOf(db, p.topic)
         kept == Pending(db) \ ({p} \cup StaleWith(p))
         d == Linked(Lapsed(db, StaleWith(p), "stale"), t, db.written[p.output].cites)
     IN db' = [d EXCEPT
          !.live = @ \cup {index},
          !.written = (index :> [author |-> "model", cites |-> {}]) @@ @,
          !.active = [@ EXCEPT ![t] = p.output[3], ![p.topic] = db.next],
          !.home = [k \in 1..Turns |-> IF Claim(k) \in p.changed THEN p.topic ELSE @[k]],
          !.drafts = @ \ {t},
          !.proposals = ((@ \ {p}) \ kept) \cup {[p EXCEPT !.status = "accepted"]}
             \cup {[q EXCEPT !.about = (@ \ {old}) \cup {index}] : q \in kept},
          !.mentions = @ \cup {{Page(t)}, {Page(p.topic)}},
          !.next = @ + 1]
  /\ UNCHANGED <<saved, stack, turn, compiled, edits, deletionsDone, asked, stripped,
                 overflowed>>

\* Rejecting: the candidate goes, with a page that is nothing else.
RejectProposal(p) ==
  /\ stack = <<>> /\ compiled /\ deletionsDone = 0
  /\ p.status = "pending"
  /\ p.output[2] \in db.drafts <=> p.output = ActiveOf(db, p.output[2])
  /\ db' = [Lapsed(db, {p}, "rejected") EXCEPT !.mentions = @ \cup {{Page(p.topic)}}]
  /\ UNCHANGED <<saved, stack, turn, compiled, edits, deletionsDone, asked, stripped,
                 overflowed>>

-----------------------------------------------------------------------------
(* What depends on what *)

\* topic_section_shards, with a row for each shard in use.
ParentsOf(d, pages) ==
  {Page(ShardOf[t]) : t \in {s \in Topics \ d.drafts :
     Page(s) \in pages /\ ShardOf[s] # NoTopic /\ Page(ShardOf[s]) \in d.live}}

\* One round of #collectEvidenceDeletionClosure, with #addCompiledParentTopics
\* and #dependentRunIdsForReferences.
Grown(d, ids) ==
  LET claims == {k \in 1..Turns : Claim(k) \in d.live /\
                   (Claim(k) \in ids \/ d.evidence[k] \cap ids # {})}
      homes == {d.home[k] : k \in claims} \ {NoTopic}
      citing == {x \in In("revision", d.live) : d.written[x].cites \cap ids # {}}
      pages == In("topic", ids) \cup {Page(t) : t \in homes} \cup {Page(x[2]) : x \in citing}
      generated == {x \in In("revision", d.live) :
                      Page(x[2]) \in pages /\ d.written[x].author # "user"}
      readers == {k \in 1..Turns : Run(k) \in d.live /\ d.uses[k] \cap ids # {}}
  IN ids \cup {Claim(k) : k \in claims} \cup pages \cup ParentsOf(d, pages)
         \cup citing \cup generated
         \cup {Run(k) : k \in readers} \cup ({Answer(k) : k \in readers} \cap d.live)

\* Every round but the last adds a row.
ClosureOf(d, ids) ==
  LET round[n \in Nat] == IF n = 0 THEN ids ELSE Grown(d, round[n - 1])
      most == Cardinality(d.live)
  IN round[CHOOSE n \in 0..most : n = most \/ round[n + 1] = round[n]]

-----------------------------------------------------------------------------
(* Parts of a deletion, each a function of the database *)

\* ON DELETE CASCADE.
Cascaded(d) ==
  LET live == {x \in d.live :
                 /\ x[1] = "run" => Prompt(x[2]) \in d.live
                 /\ x[1] = "revision" => Page(x[2]) \in d.live
                 /\ x[1] = "file" => Source \in d.live}
  IN [d EXCEPT
       !.live = live,
       !.evidence = [k \in 1..Turns |-> IF Claim(k) \in live THEN @[k] ELSE {}],
       !.home = [k \in 1..Turns |-> IF Claim(k) \in live THEN @[k] ELSE NoTopic],
       !.written = [x \in In("revision", live) |-> @[x]],
       !.active = [t \in Topics |-> IF Page(t) \in live THEN @[t] ELSE 0],
       !.confirm = {t \in @ : Page(t) \in live},
       !.drafts = {t \in @ : Page(t) \in live},
       !.uses = [k \in 1..Turns |-> IF Run(k) \in live THEN @[k] ELSE {}],
       !.proposals = {p \in @ : Page(p.topic) \in live}]

Without(d, ids) == Cascaded([d EXCEPT !.live = @ \ ids])

\* #topicProposalArtifactsReferencing
ProposalsAbout(d, ids) == {p \in d.proposals : (p.about \cup {p.output}) \cap ids # {}}
CandidatesOf(proposals) == {p.output : p \in proposals}
PagesNamedBy(proposals) == UNION {In("topic", p.about) : p \in proposals}

\* #purgeTopicProposalsReferencing: the proposals, the revisions they own -
\* active or not - and the pages that are nothing but a proposal.
Purged(d, ids) ==
  LET hit == ProposalsAbout(d, ids)
      rest == d.proposals \ hit
      pages == {Page(t) : t \in {s \in d.drafts :
                  Page(s) \in PagesNamedBy(hit) \ PagesNamedBy(rest)}}
  IN Without([d EXCEPT !.proposals = rest,
                       !.home = [k \in 1..Turns |->
                          IF Page(@[k]) \in pages THEN NoTopic ELSE @[k]]],
             CandidatesOf(hit) \cup pages)

Latest(revisions) == CHOOSE n \in {x[3] : x \in revisions} : \A x \in revisions : x[3] <= n

EligibleFor(d, t) == {x \in RevisionsOf(d, t) : d.written[x].author # "proposal"}

\* #repairTopicAfterEvidenceDeletion for some pages: the active revision if it is
\* still there, else the latest one that is no proposal, else one made from the
\* claims that are left, else the page goes.
Repaired(d, pages) ==
  LET ts == {t \in Topics : Page(t) \in pages \cap d.live}
      fallen == {t \in ts : ActiveOf(d, t) \notin d.live}
      replaced == {t \in fallen : EligibleFor(d, t) # {}}
      supported(t) == {k \in ClaimsAt(d, t) : d.evidence[k] # {}}
      rebuilt == {t \in fallen \ replaced : supported(t) # {}}
      gone == {Page(t) : t \in (fallen \ replaced) \ rebuilt}
      new == {Revision(t, d.next) : t \in rebuilt}
      active(t) == IF t \in replaced THEN Latest(EligibleFor(d, t))
                   ELSE IF t \in rebuilt THEN d.next ELSE d.active[t]
      cites(t) == UNION {{Claim(k)} \cup d.evidence[k] : k \in supported(t)}
  IN Without([d EXCEPT
       !.live = @ \cup new,
       !.written = [x \in new |-> [author |-> "system", cites |-> cites(x[2])]] @@ @,
       !.active = [t \in Topics |-> active(t)],
       !.home = [k \in 1..Turns |-> IF Page(@[k]) \in gone THEN NoTopic ELSE @[k]],
       !.next = @ + 1], gone)

\* Faulty: an edge goes on naming evidence that is gone while it has other.
ScrubbedRows(d, ids) ==
  [d EXCEPT
    !.edges = {e \in @ : e.ends \cap ids = {} /\ ~(e.evidence \subseteq ids)},
    !.uses = [k \in 1..Turns |-> IF @[k] \cap ids = {} THEN @[k] ELSE {}],
    !.mentions = {m \in @ : m \cap ids = {}}]

\* #scrubEvidenceReferences and #scrubIdentifierShadows.
Scrubbed(d, ids) ==
  [d EXCEPT
    !.edges = {[e EXCEPT !.evidence = @ \ ids] :
                 e \in {f \in @ : f.ends \cap ids = {} /\ ~(f.evidence \subseteq ids)}},
    !.uses = [k \in 1..Turns |-> IF @[k] \cap ids = {} THEN @[k] ELSE {}],
    !.mentions = {m \in @ : m \cap ids = {}}]

PagesGone(before, after) == In("topic", before.live \ after.live)

-----------------------------------------------------------------------------
(* The four deletions *)

Answers(k) == {Answer(k)} \cap db.live

\* An event with the answers to it, or an attachment with its source unless
\* another attachment has that too.
Direct(x) ==
  CASE x[1] = "prompt" -> {x} \cup Answers(x[2])
    [] x[1] = "answer" -> {x}
    [] x[1] = "file" -> IF \E k \in 1..Turns : File(k) \in db.live \ {x}
                          THEN {x} ELSE {x, Source}
    [] OTHER -> {}

RunsOf(events) == {Run(x[2]) : x \in In("prompt", events) \cup In("answer", events)}

\* Faulty: a claim goes with any of its evidence.
TouchedClaims(d, found, direct) == In("claim", found)

UnsupportedClaims(d, found, direct) ==
  {x \in In("claim", found) : d.evidence[x[2]] \subseteq direct}

\* hardDeleteEvent and hardDeleteAttachment once the answers are gone.
Erased(d, direct, runs) ==
  LET found == ClosureOf(d, direct)
      claims == UnsupportedClaims(d, found, direct)
      base == [d EXCEPT !.evidence = [k \in 1..Turns |-> @[k] \ direct]]
      key == direct \cup claims \cup In("revision", found)
      purged == Purged(base, key)
      hit == ProposalsAbout(base, key)
      pages == In("topic", found) \cup PagesNamedBy(hit)
      affected == pages \cup ParentsOf(purged, pages)
      revisions == In("revision", found) \cup CandidatesOf(hit)
      repaired == Repaired(Without(purged, claims \cup revisions), affected)
      scrubbed == Scrubbed(repaired, direct \cup claims \cup revisions \cup PagesGone(d, repaired))
  IN Without(scrubbed, direct \cup runs)

Frame(x, answers, runs) == [of |-> x, todo |-> answers, runs |-> runs]

Begin(x) ==
  /\ stack = <<>> /\ turn > 0 /\ compiled
  /\ turn + edits <= MaxActsBefore /\ deletionsDone < MaxDeletions
  /\ x[1] \in Deletable /\ IsLive(x)
  /\ saved' = db
  /\ deletionsDone' = deletionsDone + 1
  /\ asked' = x
  /\ overflowed' = FALSE
  /\ UNCHANGED <<turn, compiled, edits>>

FrameFor(x) ==
  LET found == ClosureOf(db, Direct(x)) IN
  Frame(x, In("answer", found) \ Direct(x),
        In("run", found) \cup (IF x[1] = "file" THEN {} ELSE RunsOf(Direct(x))))

DeleteEvent(x) ==
  /\ x[1] \in {"prompt", "answer"}
  /\ Begin(x)
  /\ stack' = <<FrameFor(x)>>
  /\ UNCHANGED <<db, stripped>>

DeleteAttachment(x) ==
  /\ x[1] = "file"
  /\ Begin(x)
  /\ stack' = <<FrameFor(x)>>
  /\ UNCHANGED <<db, stripped>>

\* hardDeleteClaim.  The pages and candidate revisions of the proposals that the
\* claim itself is not in, but a revision that goes is, are left out of what is
\* repaired and scrubbed.
DeleteClaim(x) ==
  LET t == db.home[x[2]]
      about == ProposalsAbout(db, {x})
      citing == {r \in In("revision", db.live) :
                   \/ x \in db.written[r].cites
                   \/ r[2] = t /\ \/ db.written[r].author # "user"
                                  \/ db.written[r].cites \cap db.evidence[x[2]] # {}}
      first == citing \cup CandidatesOf(about)
      pages == {Page(r[2]) : r \in first} \cup PagesNamedBy(about)
                 \cup (IF t = NoTopic THEN {} ELSE {Page(t)})
      affected == pages \cup ParentsOf(db, pages)
      revisions == first \cup {r \in In("revision", db.live) :
                     Page(r[2]) \in affected /\ db.written[r].author # "user"}
      guards == (UNION {In("revision", p.about) : p \in about}) \cap db.live
      found == ClosureOf(db, {x} \cup affected \cup revisions \cup guards)
      purged == Purged(db, {x} \cup revisions)
      left == Without(purged, {x} \cup revisions)
      repaired == Repaired(left, affected)
  IN /\ x[1] = "claim"
     /\ Begin(x)
     /\ db' = Scrubbed(repaired, {x} \cup revisions \cup PagesGone(db, repaired))
     /\ stack' = <<Frame(x, In("answer", found), In("run", found))>>
     /\ stripped' = stripped \cup {s \in Topics : /\ Page(s) \in repaired.live \ affected
                                                  /\ ActiveOf(db, s) \notin repaired.live}

\* hardDeleteTopic, with its shards.  Its claims stay, on no page.
DeleteTopic(x) ==
  LET shards == {Page(s) : s \in {r \in Topics : x \in ParentsOf(db, {Page(r)})}}
      pages == {x} \cup shards
      revisions == {r \in In("revision", db.live) : Page(r[2]) \in pages}
      about == ProposalsAbout(db, pages \cup revisions)
      affected == pages \cup ParentsOf(db, pages) \cup PagesNamedBy(about)
      guards == ((UNION {In("revision", p.about) : p \in about}) \cup CandidatesOf(about))
                  \cap db.live
      found == ClosureOf(db, affected \cup revisions \cup guards)
      purged == Purged(db, pages \cup revisions)
      left == Without([purged EXCEPT !.home = [k \in 1..Turns |->
                         IF Page(@[k]) \in pages THEN NoTopic ELSE @[k]]], pages)
      repaired == Repaired(left, PagesNamedBy(about) \ pages)
  IN /\ x[1] = "topic"
     /\ Begin(x)
     /\ db' = Scrubbed(repaired, pages \cup revisions \cup CandidatesOf(about)
                                   \cup PagesGone(db, repaired))
     /\ stack' = <<Frame(x, In("answer", found), In("run", found))>>
     /\ UNCHANGED stripped

Top == stack[Len(stack)]
Below == SubSeq(stack, 1, Len(stack) - 1)
Waiting(a) == Below \o <<[Top EXCEPT !.todo = @ \ {a}]>>

\* An answer that used what is deleted is deleted first, by the same method ...
DeleteAnswer ==
  /\ stack # <<>>
  /\ \E a \in Top.todo :
       /\ IsLive(a) => Len(stack) < MaxDepth
       /\ stack' = IF IsLive(a) THEN Append(Waiting(a), FrameFor(a)) ELSE Waiting(a)
  /\ UNCHANGED <<db, saved, turn, compiled, edits, deletionsDone, asked, stripped, overflowed>>

\* ... until there is no more room on the stack: all is rolled back.
Overflow ==
  /\ stack # <<>> /\ Len(stack) >= MaxDepth
  /\ \E a \in Top.todo : IsLive(a)
  /\ db' = saved
  /\ stack' = <<>>
  /\ overflowed' = TRUE
  /\ UNCHANGED <<saved, turn, compiled, edits, deletionsDone, asked, stripped>>

\* When no answer is left, the rest goes.
FinishDeletion ==
  /\ stack # <<>> /\ Top.todo = {}
  /\ db' = IF Top.of[1] \in {"claim", "topic"}
             THEN Without(db, Top.runs)
             ELSE Erased(db, Direct(Top.of), Top.runs)
  /\ stack' = Below
  /\ UNCHANGED <<saved, turn, compiled, edits, deletionsDone, asked, stripped, overflowed>>

-----------------------------------------------------------------------------
DeletionStep == DeleteAnswer \/ Overflow \/ FinishDeletion

DeletionNext ==
  \/ Converse
  \/ Compile
  \/ \E t \in Topics : EditPage(t)
  \/ \E p \in db.proposals : AcceptProposal(p) \/ RejectProposal(p)
  \/ \E x \in db.live :
       DeleteEvent(x) \/ DeleteAttachment(x) \/ DeleteClaim(x) \/ DeleteTopic(x)
  \/ DeletionStep

DeletionSpec == DeletionInit /\ [][DeletionNext]_deletionVars
DeletionFairness == WF_deletionVars(DeletionStep)
FairDeletionSpec == DeletionSpec /\ DeletionFairness

-----------------------------------------------------------------------------
(* Properties *)

DeletionTypeOK ==
  /\ In("claim", db.live) \subseteq {Claim(k) : k \in 1..Turns}
  /\ DOMAIN db.written = In("revision", db.live)
  /\ db.home \in [1..Turns -> Topics \cup {NoTopic}]
  /\ Len(stack) <= MaxDepth
  /\ turn \in 0..Turns

Settled == stack = <<>> /\ deletionsDone > 0

\* A proposal that has been decided is kept as history: it may name a page that went
\* because no claim was left on it, and the revisions of that page.
NamedBy(p) ==
  IF p.status = "pending" THEN p.about \cup {p.output}
  ELSE {x \in p.about : x[1] \notin {"topic", "revision"}}

NamedIn(d) ==
  (UNION {d.evidence[k] : k \in 1..Turns})
  \cup {Page(d.home[k]) : k \in {j \in 1..Turns : d.home[j] # NoTopic}}
  \cup (UNION {d.written[x].cites : x \in DOMAIN d.written})
  \cup (UNION {d.uses[k] : k \in 1..Turns})
  \cup (UNION {e.ends \cup e.evidence : e \in d.edges})
  \cup (UNION d.mentions)
  \cup (UNION {NamedBy(p) : p \in d.proposals})

\* Once a deletion is through, no row of any table names anything it removed:
\* no claim, page, context packet, proposal, edge or job is left with a
\* reference into what is gone.
NothingNamesTheRemoved ==
  Settled => NamedIn(db) \cap (saved.live \ db.live)
               \subseteq {Revision(t, n) : t \in stripped, n \in 1..db.next}

\* "If other sources independently support a claim, remove only the deleted
\* provenance and keep the supported claim": a claim that no one asked to delete
\* stays exactly if some of its evidence stays.
SupportDecides ==
  Settled /\ ~overflowed =>
    \A k \in 1..Turns :
      Claim(k) \in saved.live \ {asked} =>
        /\ Claim(k) \in db.live <=> saved.evidence[k] \cap db.live # {}
        /\ Claim(k) \in db.live => db.evidence[k] = saved.evidence[k] \cap db.live

AcceptedNow == \E p \in Pending(db) : [p EXCEPT !.status = "accepted"] \in db'.proposals

\* "So a topicless claim is never orphaned": whatever proposals take one another over,
\* a claim that is on no page is in one that the user has decided on, can still decide
\* on, or has made stale by deciding on another about the same claims or page.
ProposedIsNotLost ==
  deletionsDone = 0 =>
    \A k \in 1..Turns : Claim(k) \in db.live /\ db.home[k] = NoTopic =>
      \E p \in db.proposals : Claim(k) \in p.changed /\ p.status # "superseded"

\* "Edit a topic to set sticky confirmation-only policy; automatic compiler work
\* remains a proposal": the revision of a page that a user has edited is replaced
\* only by the user, with an edit of their own, an accepted proposal or a deletion.
EditsAreKept ==
  [][\A t \in db.confirm : db'.active[t] # db.active[t] =>
       \/ stack # <<>> \/ stack' # <<>>
       \/ AcceptedNow
       \/ db'.written[ActiveOf(db', t)].author = "user"]_deletionVars
=============================================================================

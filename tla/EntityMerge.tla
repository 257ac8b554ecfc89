----------------------------- MODULE EntityMerge -----------------------------
(***************************************************************************)
(* People, projects and other entities the vault knows, the relations      *)
(* between them and the merging of two entities into one                   *)
(* (packages/database/src/index.ts), which can be reversed while nothing   *)
(* about the two has changed.                                              *)
(*                                                                         *)
(* Relations come from the worker (persistEntities in processor.ts), which *)
(* reads the entities, resolves what a message mentions and then writes,   *)
(* in no transaction; merges and reversals are transactions of the API.    *)
(* Which entity a mention resolves to is open: names and scores are data.  *)
(* All entities have one type and all relations too.                       *)
(***************************************************************************)
EXTENDS Integers, FiniteSets, SequencesExt

CONSTANTS
  Entities,
  Evidence,        \* the messages that state relations
  MaxStatements,   \* bounds: relations learned,
  MaxMerges        \* and merges

VARIABLES
  lifecycle,   \* entities.status, or "none"
  stamp,       \* entities.updated_at: the merge that touched the row last
  names,       \* entity_aliases: a row is known by its entity and its name
  edges,       \* edges, by id
  merges,      \* merge_history
  resolved,    \* what the worker is about to write
  nextEdge, statements,
  gone,        \* deleted evidence
  known,       \* what was learned, as it was learned
  said,        \* everything that was learned
  strayed      \* a relation was written for an entity merged meanwhile, or learned again from
               \* a message that was compiled before the merge

entityVars == <<lifecycle, stamp, names, edges, merges, resolved, nextEdge, statements,
                gone, known, said, strayed>>

Nothing == <<>>

EntitiesInit ==
  /\ lifecycle = [e \in Entities |-> "none"]
  /\ stamp = [e \in Entities |-> 0]
  /\ names = {} /\ edges = {} /\ merges = <<>>
  /\ resolved = Nothing
  /\ nextEdge = 1 /\ statements = 0
  /\ gone = {} /\ known = {} /\ said = {} /\ strayed = FALSE

Active(e) == lifecycle[e] = "active"
Joins(x, both) == {x.from, x.to} \cap both # {}

\* Faulty: the fingerprint leaves the relations out.
FingerprintOfRows(a, b) ==
  [rows |-> [e \in {a, b} |-> <<lifecycle[e], stamp[e]>>],
   names |-> {n \in names : n.entity \in {a, b}},
   edges |-> {}]

\* #entityMergeFingerprint; also what a merge keeps of the time before it.
Fingerprint(a, b) ==
  [rows |-> [e \in {a, b} |-> <<lifecycle[e], stamp[e]>>],
   names |-> {n \in names : n.entity \in {a, b}},
   edges |-> {x \in edges : Joins(x, {a, b})}]

-----------------------------------------------------------------------------
(* The worker: persistEntities *)

\* scoreMention, resolveEntity: only an active entity can be the one a mention means.
Candidates == {e \in Entities : lifecycle[e] # "merged"}

\* The entities are loaded and each mention is linked to an active one or becomes a new one.
Resolve(from, to, source) ==
  /\ resolved = Nothing /\ statements < MaxStatements
  /\ source \in Evidence \ gone
  /\ {from, to} \subseteq Candidates
  /\ resolved' = [from |-> from, to |-> to, source |-> source,
                  new |-> {e \in {from, to} : lifecycle[e] = "none"}]
  /\ statements' = statements + 1
  /\ UNCHANGED <<lifecycle, stamp, names, edges, merges, nextEdge, gone, known, said, strayed>>

Create(e) ==
  /\ resolved # Nothing /\ e \in resolved.new
  /\ resolved.from \in resolved.new => e = resolved.from
  /\ lifecycle' = [lifecycle EXCEPT ![e] = "active"]
  /\ names' = names \cup {[entity |-> e, name |-> e, source |-> resolved.source]}
  /\ resolved' = [resolved EXCEPT !.new = @ \ {e}]
  /\ UNCHANGED <<stamp, edges, merges, nextEdge, statements, gone, known, said, strayed>>

Upserted(from, to, source) ==
  LET same == {x \in edges : x.from = from /\ x.to = to}
      id == IF same = {} THEN nextEdge ELSE (CHOOSE x \in same : TRUE).id
  IN (edges \ same) \cup {[id |-> id, from |-> from, to |-> to, evidence |-> {source}]}

\* Whom an entity has become.
Canonical(e) ==
  FoldLeft(LAMBDA c, m : IF m.status # "reversed" /\ c = m.source THEN m.target ELSE c, e, merges)

\* The message said the same of an entity that has been merged since.
SaidBefore(r) ==
  \E k \in said : /\ k.source = r.source /\ <<k.from, k.to>> # <<r.from, r.to>>
                  /\ <<Canonical(k.from), Canonical(k.to)>> = <<r.from, r.to>>

\* A relation stated again keeps the evidence of its last statement only.
Relate ==
  /\ resolved # Nothing /\ resolved.new = {}
  /\ LET r == [from |-> resolved.from, to |-> resolved.to, source |-> resolved.source]
     IN IF r.from = r.to
        THEN UNCHANGED <<edges, nextEdge, known, said, strayed>>
        ELSE /\ edges' = Upserted(r.from, r.to, r.source)
             /\ nextEdge' = nextEdge + 1
             /\ known' = {k \in known : Canonical(k.from) # r.from \/ Canonical(k.to) # r.to} \cup {r}
             /\ said' = said \cup {r}
             /\ strayed' = (strayed \/ ~Active(r.from) \/ ~Active(r.to) \/ SaidBefore(r))
  /\ resolved' = Nothing
  /\ UNCHANGED <<lifecycle, stamp, names, merges, statements, gone>>

-----------------------------------------------------------------------------
(* The API *)

Renamed(e, a, b) == IF e = a THEN b ELSE e

\* A relation both entities have keeps the evidence of both.
Combined(x, moved) ==
  [x EXCEPT !.evidence = @ \cup UNION {y.evidence : y \in {z \in moved : z.from = x.from /\ z.to = x.to}}]

\* The relations after a has become b: those between the two are dropped.
Rewritten(a, b) ==
  LET old == {x \in edges : Joins(x, {a})}
      moved == {y \in {[x EXCEPT !.from = Renamed(@, a, b), !.to = Renamed(@, a, b)] : x \in old} :
                  y.from # y.to}
      rest == edges \ old
      new == {y \in moved : \A x \in rest : x.from # y.from \/ x.to # y.to}
  IN {Combined(x, moved) : x \in rest}
       \cup {[y EXCEPT !.id = nextEdge + Cardinality({z \in new : z.id < y.id})] : y \in new}

\* INSERT OR IGNORE: a name the target has already is not moved.
Renaming(a, b) ==
  {n \in names : n.entity # a}
    \cup {[n EXCEPT !.entity = b] : n \in {n \in names : n.entity = a /\
                                        \A o \in names : o.entity = b => o.name # n.name}}

Mergeable(a, b) == a # b /\ Active(a) /\ Active(b)

\* mergeEntities
Merge(a, b) ==
  /\ Len(merges) < MaxMerges
  /\ Mergeable(a, b)
  /\ names' = Renaming(a, b)
  /\ edges' = Rewritten(a, b)
  /\ nextEdge' = nextEdge + Cardinality({x \in edges : Joins(x, {a})})
  /\ lifecycle' = [lifecycle EXCEPT ![a] = "merged"]
  /\ stamp' = [e \in Entities |-> IF e \in {a, b} THEN Len(merges) + 1 ELSE stamp[e]]
  /\ merges' = Append(merges, [source |-> a, target |-> b, status |-> "merged",
                               before |-> Fingerprint(a, b), after |-> Fingerprint(a, b)'])
  /\ UNCHANGED <<resolved, statements, gone, known, said, strayed>>

\* A merge that cannot be reversed any more: its snapshot is not read again.
Spent(m, status) == [m EXCEPT !.status = status, !.before = Nothing, !.after = Nothing]

\* reverseEntityMerge: only what the merge has left as it was can be taken back.
ReverseMerge(i) ==
  LET m == merges[i] both == {m.source, m.target}
  IN /\ m.status = "merged"
     /\ m.after = Fingerprint(m.source, m.target)
     /\ names' = {n \in names : n.entity \notin both} \cup m.before.names
     /\ edges' = {x \in edges : ~Joins(x, both)} \cup m.before.edges
     /\ lifecycle' = [e \in Entities |-> IF e \in both THEN m.before.rows[e][1] ELSE lifecycle[e]]
     /\ stamp' = [e \in Entities |-> IF e \in both THEN m.before.rows[e][2] ELSE stamp[e]]
     /\ merges' = [merges EXCEPT ![i] = Spent(m, "reversed")]
     /\ UNCHANGED <<resolved, nextEdge, statements, gone, known, said, strayed>>

\* Faulty: a merge is forgotten only when it has left something of the evidence.
MentionsNow(m, source) == \E x \in m.after.edges : source \in x.evidence

Mentions(m, source) ==
  \/ \E x \in m.before.edges : source \in x.evidence
  \/ \E n \in m.before.names : n.source = source

\* The hard deletion of a message: its evidence goes, and every merge whose snapshot has it.
\* It waits for the worker's job.
DeleteEvidence(source) ==
  /\ resolved = Nothing /\ source \notin gone
  /\ edges' = {y \in {[x EXCEPT !.evidence = @ \ {source}] : x \in edges} : y.evidence # {}}
  /\ names' = {n \in names : n.source # source}
  /\ merges' = [i \in DOMAIN merges |->
                  IF merges[i].status = "merged" /\ Mentions(merges[i], source)
                    THEN Spent(merges[i], "removed") ELSE merges[i]]
  /\ gone' = gone \cup {source}
  /\ known' = {k \in known : k.source # source}
  /\ UNCHANGED <<lifecycle, stamp, resolved, nextEdge, statements, said, strayed>>

EntitiesNext ==
  \/ \E from, to \in Entities, source \in Evidence : Resolve(from, to, source)
  \/ \E e \in Entities : Create(e)
  \/ Relate
  \/ \E a, b \in Entities : Merge(a, b)
  \/ \E i \in DOMAIN merges : ReverseMerge(i)
  \/ \E source \in Evidence : DeleteEvidence(source)

EntitiesSpec == EntitiesInit /\ [][EntitiesNext]_entityVars

-----------------------------------------------------------------------------
(* Properties *)

\* Through merges and reversals in any order, every relation that was learned and whose
\* evidence stands is a relation of the entities its own have become, with that evidence; and
\* neither a relation nor a name is left with an entity that is merged.
GraphIsWhole ==
  ~strayed =>
    /\ \A k \in known :
         LET from == Canonical(k.from) to == Canonical(k.to)
         IN from # to =>
              \E x \in edges : x.from = from /\ x.to = to /\ k.source \in x.evidence
    /\ \A x \in edges : Active(x.from) /\ Active(x.to)
    /\ \A n \in names : Active(n.entity)

\* Reversing a merge brings no deleted evidence back.
GoneStaysGone ==
  /\ \A x \in edges : x.evidence \cap gone = {}
  /\ \A n \in names : n.source \notin gone
=============================================================================

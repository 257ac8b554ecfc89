--------------------------- MODULE PortableVault ----------------------------
(***************************************************************************)
(* Portable archives (apps/api/src/maintenance.ts): which rows of a vault  *)
(* an export takes along when tool output is left out, and what an import  *)
(* makes of them.  An export runs under the maintenance lock with nothing  *)
(* else at work, so it is one step, and so is the one transaction of an    *)
(* import (its stages, failures and recovery are in VaultOperations).      *)
(*                                                                         *)
(* The vault is what the worker and the user made of messages, some of     *)
(* which are tool results.  Of a message only its identity counts: tells   *)
(* and called record whose words a revision or a name is made of, which no *)
(* row of the vault says.                                                  *)
(***************************************************************************)
EXTENDS Integers, FiniteSets, Sequences

CONSTANTS
  Heard,         \* the messages, and those among them that are tool calls
  FromTools,     \* or results
  Beliefs,       \* the claims, topics and entities the vault can come to hold
  Wiki,
  Names,
  Files,         \* the attachments, and those whose text has been extracted
  Chunked,
  NoBelief,      \* a null claim_id, a null topic_id, no archive, no vault
  NoWiki,
  Nothing,
  MaxWritten,    \* bounds on the revisions of a page and on the writes before
  MaxWrites      \* the export

ASSUME PortableAssumption ==
  /\ FromTools \subseteq Heard /\ Chunked \subseteq Files
  /\ Heard \cap Beliefs = {}
  /\ NoBelief \notin Beliefs /\ NoWiki \notin Wiki
  /\ {MaxWritten, MaxWrites} \subseteq Nat

VARIABLES
  evidence,      \* claim_sources: the messages a claim rests on, none if there
                 \* is no such claim
  topicOf,       \* claims.topic_id
  written,       \* the revisions of a page, the last one active, each with its
                 \* page_section_sources and generation_inputs
  called,        \* the message an entity has its display_name from
  aliases,       \* the messages its entity_aliases have as source_id
  mergedAway,    \* the entities whose status is merged
  mergeRows,     \* merge_history
  ties,          \* edges: the evidence of a relation of two entities
  archive,
  imported,      \* the vault the archive was imported into
  writes

memoryRows == <<evidence, topicOf, written>>
entityRows == <<called, aliases, mergedAway, mergeRows, ties>>
portableVars == <<memoryRows, entityRows, archive, imported, writes>>

PortableInit ==
  /\ evidence = [b \in Beliefs |-> {}]
  /\ topicOf = [b \in Beliefs |-> NoWiki]
  /\ written = [t \in Wiki |-> <<>>]
  /\ called = [n \in Names |-> {}]
  /\ aliases = [n \in Names |-> {}]
  /\ mergedAway = {}
  /\ mergeRows = {}
  /\ ties = [p \in Names \X Names |-> {}]
  /\ archive = Nothing
  /\ imported = Nothing
  /\ writes = 0

-----------------------------------------------------------------------------
(* How the vault came about *)

Write ==
  /\ archive = Nothing /\ writes < MaxWrites
  /\ writes' = writes + 1
  /\ UNCHANGED <<archive, imported>>

ActiveRevision(t) == written[t][Len(written[t])]
Edited(t) == \E k \in DOMAIN written[t] : written[t][k].author = "user"
ActiveNames == {n \in Names : called[n] # {}} \ mergedAway

\* persistClaims: a claim, or one more message that says it.
LearnBelief(b, m) ==
  /\ Write
  /\ m \notin evidence[b]
  /\ evidence' = [evidence EXCEPT ![b] = @ \cup {m}]
  /\ UNCHANGED <<topicOf, written, entityRows>>

\* persistActiveCompilation of an unprotected page, with claims that have no
\* page yet.
CompilePage(t, fresh) ==
  LET claims == {b \in Beliefs : topicOf[b] = t} \cup fresh
      sources == UNION {evidence[b] : b \in claims}
      revision == [author |-> "model",
                   rows |-> {row \in claims \X sources : row[2] \in evidence[row[1]]},
                   inputs |-> claims \cup sources, tells |-> sources]
  IN /\ Write
     /\ claims # {} /\ ~Edited(t) /\ Len(written[t]) < MaxWritten
     /\ \A b \in fresh : evidence[b] # {} /\ topicOf[b] = NoWiki
     /\ written[t] # <<>> => ActiveRevision(t) # revision
     /\ topicOf' = [b \in Beliefs |-> IF b \in fresh THEN t ELSE topicOf[b]]
     /\ written' = [written EXCEPT ![t] = Append(@, revision)]
     /\ UNCHANGED <<evidence, entityRows>>

\* PATCH /topics/:id through upsertTopicRevision: the text the user has before
\* him, with the sources of the revision he edits and no claims.
EditText(t) ==
  /\ Write
  /\ Len(written[t]) \in 1..(MaxWritten - 1)
  /\ LET sourceIds == {row[2] : row \in ActiveRevision(t).rows}
     IN written' = [written EXCEPT ![t] = Append(@,
          [author |-> "user", rows |-> {NoBelief} \X sourceIds, inputs |-> sourceIds,
           tells |-> ActiveRevision(t).tells])]
  /\ UNCHANGED <<evidence, topicOf, entityRows>>

\* persistEntities: a new entity (nothing is written of a known one).
MentionName(n, m) ==
  /\ Write
  /\ called[n] = {}
  /\ called' = [called EXCEPT ![n] = {m}]
  /\ aliases' = [aliases EXCEPT ![n] = {m}]
  /\ UNCHANGED <<memoryRows, mergedAway, mergeRows, ties>>

\* persistEntities: a relation learned again has its new evidence only.
RelateNames(n, o, m) ==
  /\ Write
  /\ n # o /\ {n, o} \subseteq ActiveNames
  /\ ties' = [ties EXCEPT ![<<n, o>>] = {m}]
  /\ UNCHANGED <<memoryRows, called, aliases, mergedAway, mergeRows>>

\* mergeEntities
MergeNames(n, o) ==
  LET Mapped(x) == IF x = n THEN o ELSE x
      Onto(p) == {q \in Names \X Names : <<Mapped(q[1]), Mapped(q[2])>> = p}
  IN /\ Write
     /\ n # o /\ {n, o} \subseteq ActiveNames
     /\ aliases' = [aliases EXCEPT ![n] = {}, ![o] = @ \cup aliases[n]]
     /\ ties' = [p \in Names \X Names |->
          IF n \in {p[1], p[2]} \/ p[1] = p[2] THEN {} ELSE UNION {ties[q] : q \in Onto(p)}]
     /\ mergeRows' = mergeRows \cup {[source |-> n, target |-> o]}
     /\ mergedAway' = mergedAway \cup {n}
     /\ UNCHANGED <<memoryRows, called>>

-----------------------------------------------------------------------------
(* Exports *)

Known == {b \in Beliefs : evidence[b] # {}}
NoTaint == [events |-> {}, claims |-> {}, revisions |-> {}, topics |-> {}, entities |-> {}]
Revisions == UNION {{t} \X DOMAIN written[t] : t \in Wiki}

TaintedEntities(claims) == {n \in Names : aliases[n] \cap (FromTools \cup claims) # {}}

\* Faulty: a claim without a page shares the fate of the pages.
SpreadToHomeless(topics) == {b \in Known : topicOf[b] \in topics \cup {NoWiki}}

\* The claims of excluded pages are excluded, whatever they rest on.
SpreadToClaims(topics) == {b \in Known : topicOf[b] \in topics}

exportPrivacy(sensitive) ==
  LET direct == {b \in Known : evidence[b] \cap FromTools # {}}
      revisions == {r \in Revisions : LET revision == written[r[1]][r[2]] IN
        \/ \E row \in revision.rows : row[2] \in FromTools \/ row[1] \in direct
        \/ revision.inputs \cap (FromTools \cup direct) # {}}
      topics == {r[1] : r \in revisions} \cup ({topicOf[b] : b \in direct} \ {NoWiki})
      claims == direct \cup SpreadToClaims(topics)
  IN IF sensitive THEN NoTaint
     ELSE [events |-> FromTools, claims |-> claims, revisions |-> revisions, topics |-> topics,
           entities |-> TaintedEntities(claims)]

\* Faulty: a relation is excluded for its ends only.
EdgeByEnds(p, privacy) == ties[p] # {} /\ {p[1], p[2]} \cap privacy.entities = {}

EdgeIsExported(p, privacy) ==
  /\ ties[p] # {} /\ {p[1], p[2]} \cap privacy.entities = {}
  /\ ties[p] \cap (privacy.events \cup privacy.claims) = {}

\* exportedRows of every table.
Tables(privacy) ==
  [texts |-> Heard \ privacy.events,
   claims |-> Known \ privacy.claims,
   claimSources |-> {s \in Known \X Heard :
     s[2] \in evidence[s[1]] \ privacy.events /\ s[1] \notin privacy.claims},
   topics |-> {t \in Wiki : written[t] # <<>>} \ privacy.topics,
   revisions |-> {r \in Revisions : r[1] \notin privacy.topics},
   sections |-> {s \in (Revisions \ privacy.revisions)
                       \X ((Beliefs \ privacy.claims) \cup {NoBelief})
                       \X (Heard \ privacy.events) :
     <<s[2], s[3]>> \in written[s[1][1]][s[1][2]].rows},
   entities |-> {n \in Names : called[n] # {}} \ privacy.entities,
   entityAliases |-> {a \in Names \X Heard :
     a[2] \in aliases[a[1]] \ privacy.events /\ a[1] \notin privacy.entities},
   edges |-> {p \in Names \X Names : EdgeIsExported(p, privacy)},
   merges |-> {r \in mergeRows : {r.source, r.target} \cap privacy.entities = {}}]

Export(sensitive, withFiles) ==
  /\ archive = Nothing
  /\ archive' = [sensitive |-> sensitive, withFiles |-> withFiles,
                 tables |-> Tables(exportPrivacy(sensitive))]
  /\ UNCHANGED <<memoryRows, entityRows, imported, writes>>

-----------------------------------------------------------------------------
(* Imports *)

\* foreign_key_check of the scratch database.
Loads(tables) ==
  /\ \A r \in tables.revisions : r[1] \in tables.topics
  /\ \A s \in tables.sections : s[1] \in tables.revisions
  /\ \A s \in tables.claimSources : s[1] \in tables.claims
  /\ \A a \in tables.entityAliases : a[1] \in tables.entities

\* verifyBundleFile: of all it asks of an archive that was not tampered with, only
\* the relations of its rows can fail.
Verified == archive # Nothing /\ Loads(archive.tables)

\* What FRESH_TABLES leaves out.
Raw(tables) ==
  [tables EXCEPT !.claims = {}, !.claimSources = {}, !.topics = {}, !.revisions = {},
     !.sections = {}, !.entities = {}, !.entityAliases = {}, !.edges = {}, !.merges = {}]

FileStatus(f, withFiles) ==
  IF ~withFiles THEN "failed" ELSE IF f \in Chunked THEN "ready" ELSE "queued"

\* The jobs that make what is not portable anew: extraction, embeddings, and
\* with nothing but the messages, all of the memory.
Rebuilds(mode, withFiles) ==
  LET tables == archive.tables
  IN ({"extract"} \X IF withFiles THEN Files \ Chunked ELSE {})
     \cup ({"embed"} \X Chunked)
     \cup ({"embed"} \X IF mode = "fresh" THEN {}
                        ELSE tables.topics \cup tables.claims \cup Heard)
     \cup ({"compile"} \X IF mode = "fresh" THEN Heard \ FromTools ELSE {})

Import(mode) ==
  /\ Verified /\ imported = Nothing
  /\ imported' = [mode |-> mode,
                  tables |-> IF mode = "fresh" THEN Raw(archive.tables) ELSE archive.tables,
                  files |-> [f \in Files |-> FileStatus(f, archive.withFiles)],
                  jobs |-> Rebuilds(mode, archive.withFiles)]
  /\ UNCHANGED <<memoryRows, entityRows, archive, writes>>

PortableNext ==
  \/ \E b \in Beliefs, m \in Heard : LearnBelief(b, m)
  \/ \E t \in Wiki, fresh \in SUBSET Beliefs : CompilePage(t, fresh)
  \/ \E t \in Wiki : EditText(t)
  \/ \E n \in Names, m \in Heard : MentionName(n, m)
  \/ \E n, o \in Names, m \in Heard : RelateNames(n, o, m)
  \/ \E n, o \in Names : MergeNames(n, o)
  \/ \E sensitive, withFiles \in BOOLEAN : Export(sensitive, withFiles)
  \/ \E mode \in {"replace", "fresh"} : Import(mode)

PortableSpec == PortableInit /\ [][PortableNext]_portableVars

-----------------------------------------------------------------------------
(* Properties *)

PortableTypeOK ==
  /\ evidence \in [Beliefs -> SUBSET Heard]
  /\ topicOf \in [Beliefs -> Wiki \cup {NoWiki}]
  /\ \A t \in Wiki : Len(written[t]) <= MaxWritten
  /\ {called, aliases} \subseteq [Names -> SUBSET Heard]
  /\ ties \in [Names \X Names -> SUBSET Heard]
  /\ mergedAway \subseteq Names
  /\ mergeRows \subseteq [source : Names, target : Names]
  /\ writes \in 0..MaxWrites

\* Nothing in an archive without tool output is made of the words of a tool:
\* no text of a page, claim, name or relation, neither in the active revision
\* nor in the earlier ones, and whatever the user wrote over it.  (The name of
\* an entity that was merged away is let pass by the code: its aliases, by
\* which it would be known, are those of the other entity now.)
ToolOutputStaysHome ==
  archive # Nothing /\ ~archive.sensitive =>
    LET tables == archive.tables
    IN /\ tables.texts \cap FromTools = {}
       /\ \A b \in tables.claims : evidence[b] \cap FromTools = {}
       /\ \A r \in tables.revisions : written[r[1]][r[2]].tells \cap FromTools = {}
       /\ \A n \in tables.entities \ mergedAway : called[n] \cap FromTools = {}
       /\ \A p \in tables.edges : ties[p] \cap FromTools = {}
       /\ \A s \in tables.sections : s[3] \notin FromTools

\* What no tool result has a part in arrives whole: every claim, page and name,
\* with all their evidence, in the vault an archive was imported into, and what
\* an archive has no rows for is under way there.  Every claim, page and message
\* has its vector made; every attachment is ready with its text, being read, or
\* marked as lost; and of a vault imported without its memory, every message is
\* compiled again.
TheRestArrives ==
  LET touched == {t \in Wiki :
        \/ \E k \in DOMAIN written[t] : written[t][k].tells \cap FromTools # {}
        \/ \E b \in Beliefs : topicOf[b] = t /\ evidence[b] \cap FromTools # {}}
      tables == imported.tables
      jobs == imported.jobs
      MemoryArrives ==
        /\ \A b \in Known : evidence[b] \cap FromTools = {} /\ topicOf[b] \notin touched =>
             b \in tables.claims /\ {b} \X evidence[b] \subseteq tables.claimSources
        /\ \A r \in {r \in Revisions : r[1] \notin touched} :
             /\ r[1] \in tables.topics /\ r \in tables.revisions
             /\ \A row \in written[r[1]][r[2]].rows : <<r, row[1], row[2]>> \in tables.sections
        /\ \A n \in Names :
             called[n] # {} /\ (called[n] \cup aliases[n]) \cap FromTools = {} =>
               n \in tables.entities
        /\ {"embed"} \X (tables.claims \cup tables.topics) \subseteq jobs
  IN imported # Nothing =>
       /\ IF imported.mode = "replace" THEN MemoryArrives
          ELSE {"compile"} \X (Heard \ FromTools) \subseteq jobs
       /\ \A f \in Files :
            CASE imported.files[f] = "ready" -> f \in Chunked /\ <<"embed", f>> \in jobs
              [] imported.files[f] = "queued" -> <<"extract", f>> \in jobs
              [] OTHER -> ~archive.withFiles

\* Violated.  IMPLEMENTATION_PLAN.md:586 says "Export/import round-trips the
\* vault without secrets or embeddings."  The section sources of a revision
\* that the user wrote name no claim: when tool evidence joins the topic later,
\* they stay in the archive while the revision itself is left out.
ExportsCanBeImported == archive # Nothing => Loads(archive.tables)
=============================================================================

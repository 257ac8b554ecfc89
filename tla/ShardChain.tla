------------------------------ MODULE ShardChain ------------------------------
(***************************************************************************)
(* The parts of a topic that is too long for one page.  Its claims are     *)
(* kept in shards - pages of their own, each a range of the claims of one  *)
(* section by their sort keys - and next/previous links chain the shards   *)
(* in the order of the sections and ranges.  updateShardedTopic            *)
(* (apps/worker/src/processor.ts) repairs only the shards that a change    *)
(* touches, in many transactions, the links outside of any; a death in the *)
(* middle is made good by the dirty markers and by the rebuild job that    *)
(* every marker brings, which lays the whole topic out again               *)
(* (persistActiveCompilation).                                             *)
(*                                                                         *)
(* Claims are numbered in the order of their observation.  Every claim     *)
(* takes the same room, so a page's limit is a number of claims.           *)
(***************************************************************************)
EXTENDS Integers, FiniteSets, Sequences

CONSTANTS
  ClaimCount,      \* claims 1 .. ClaimCount can be learned
  Beginnings,      \* the sets of claims that may be known to begin with
  Room,            \* the claims a bounded repair fits in one shard
  PackedRoom,      \* those a full compilation does: it leaves headroom for links
  InlineRoom,      \* the claims that fit in the parent page itself
  Listed,          \* the parts that the parent's index names
  MaxNews,         \* a bound on the changes of the ledger
  MaxShardDeaths   \* a bound on the deaths of the worker

ASSUME ShardChainAssumption ==
  /\ {ClaimCount, Room, PackedRoom, InlineRoom, Listed} \subseteq Nat \ {0}
  /\ PackedRoom <= Room
  /\ Beginnings \subseteq SUBSET (1 .. ClaimCount)
  /\ {MaxNews, MaxShardDeaths} \subseteq Nat

VARIABLES
  kind,            \* "none" before a claim is learned, then "current", "past" - shown
                   \* in the history - or "gone": expired, moved away or unsupported
  ended,           \* the observation that ended a claim (validTo), 0 without one
  rows,            \* topic_section_shards: the last sort key and the claims of each
                   \* shard <<section, ordinal>>; none for an inline page
  next, previous,  \* the page_links of these kinds
  index,           \* the parts that the parent page counts and those it names
  dirty,           \* the claims with a marker
  rebuilding,      \* whether a memory.rebuild job of the topic is open: "no", "queued", or
                   \* "needed" after what the repair of single parts cannot make good
  repair,          \* what the worker is doing
  news,
  shardDeaths,
  frayed           \* something has happened that the bounded repair of links misses

shardVars == <<kind, ended, rows, next, previous, index, dirty, rebuilding, repair, news,
               shardDeaths, frayed>>
ledgerRows == <<kind, ended, news>>
pageRows == <<rows, next, previous, index>>

Facts == 1 .. ClaimCount
SectionAt(section) ==
  CASE section = "overview" -> 0 [] section = "current_state" -> 1
    [] section = "history" -> 2 [] OTHER -> 3
Overview == <<"overview", 1>>

-----------------------------------------------------------------------------
(* Sort keys and ranges *)

\* projectionSortKey: the time, then the claim.
SortKey(c, section, ends) ==
  (ClaimCount + 1) * (IF section = "history" /\ ends[c] # 0 THEN ends[c] ELSE c) + c
LastKey(claims, section, ends) ==
  LET keys == {SortKey(c, section, ends) : c \in claims}
  IN IF keys = {} THEN 0 ELSE CHOOSE k \in keys : \A l \in keys : l <= k

\* compileProjectionShard and the row that goes with the page.
ShardRow(claims, section, ends) == [last |-> LastKey(claims, section, ends), claims |-> claims]

\* Claims in the order of their keys, cut into parts of a size.
Cut(claims, section, ends, size) ==
  LET Rank(c) == Cardinality({d \in claims : SortKey(d, section, ends) < SortKey(c, section, ends)})
  IN [i \in 1 .. (Cardinality(claims) + size - 1) \div size |->
        {c \in claims : Rank(c) \div size = i - 1}]

\* projectionSectionForClaim
SectionOf(c, kinds) == IF kinds[c] = "current" THEN "current_state" ELSE "history"
Shown(c, kinds) == kinds[c] \in {"current", "past"}
Belongs(c, section, kinds) ==
  Shown(c, kinds) /\ section \in {"evidence", SectionOf(c, kinds)}
Due(section) == {c \in Facts : Belongs(c, section, kind)}
\* latestOverviewClaims
Latest == {c \in Facts : /\ kind[c] = "current"
                         /\ Cardinality({d \in Facts : kind[d] = "current" /\ d > c}) < 3}

-----------------------------------------------------------------------------
(* The order of the shards *)

Place(s, key) == <<SectionAt(s[1]), key, s[2]>>
Earlier(p, q) ==
  \/ p[1] < q[1]
  \/ p[1] = q[1] /\ p[2] < q[2]
  \/ p[1] = q[1] /\ p[2] = q[2] /\ p[3] < q[3]
PlaceOf(s, shards) == Place(s, shards[s].last)
\* projectionAdjacentShard: none, or one.
PartBefore(p, shards) ==
  {s \in DOMAIN shards : /\ Earlier(PlaceOf(s, shards), p)
                         /\ \A t \in DOMAIN shards : Earlier(PlaceOf(t, shards), p) =>
                              t = s \/ Earlier(PlaceOf(t, shards), PlaceOf(s, shards))}
PartAfter(p, shards) ==
  {s \in DOMAIN shards : /\ Earlier(p, PlaceOf(s, shards))
                         /\ \A t \in DOMAIN shards : Earlier(p, PlaceOf(t, shards)) =>
                              t = s \/ Earlier(PlaceOf(s, shards), PlaceOf(t, shards))}
Chain(shards) ==
  {l \in (DOMAIN shards) \X (DOMAIN shards) : l[2] \in PartAfter(PlaceOf(l[1], shards), shards)}
Reversed(links) == {<<l[2], l[1]>> : l \in links}

\* projectionParentSnapshot: how many shards there are, and the first of them.
Snapshot(shards, named) ==
  [count |-> Cardinality(DOMAIN shards),
   names |-> {<<s, shards[s].last>> : s \in
                {s \in DOMAIN shards :
                   named > Cardinality({t \in DOMAIN shards :
                                          Earlier(PlaceOf(t, shards), PlaceOf(s, shards))})}}]

\* projectionShardForSortKey: the shard whose range contains the key or comes next,
\* else the last of the section.
InSection(section) == {s \in DOMAIN rows : s[1] = section}
Route(section, key) ==
  LET within == {s \in InSection(section) : rows[s].last >= key}
  IN IF within # {}
       THEN {s \in within : \A t \in within : t = s \/ Earlier(PlaceOf(s, rows), PlaceOf(t, rows))}
       ELSE {s \in InSection(section) : \A t \in InSection(section) :
               t = s \/ Earlier(PlaceOf(t, rows), PlaceOf(s, rows))}

\* nextProjectionOrdinal
NextOrdinal(section) ==
  1 + (CHOOSE n \in {0} \cup {s[2] : s \in InSection(section)} :
         \A s \in InSection(section) : s[2] <= n)

-----------------------------------------------------------------------------
(* A full compilation's layout *)

Sections == {"current_state", "history", "evidence"}
\* compileChildPages and registerProjectionLayout: each section is cut on its own; an
\* overview without a claim is folded into the next part.
Layout(kinds, ends) ==
  LET claims(section) == {c \in Facts : Belongs(c, section, kinds)}
      part(section) == Cut(claims(section), section, ends, PackedRoom)
      shards == (UNION {{<<section, i>> : i \in DOMAIN part(section)} : section \in Sections})
                \cup (IF claims("current_state") = {} THEN {} ELSE {Overview})
  IN [s \in shards |->
        ShardRow(IF s = Overview THEN Latest ELSE part(s[1])[s[2]], s[1], ends)]

Fits(kinds) == Cardinality({c \in Facts : Shown(c, kinds)}) <= InlineRoom
NoShards == <<>>

-----------------------------------------------------------------------------
NoRepair == [at |-> "idle", job |-> "none", changed |-> {}, shards |-> {}, adds |-> {},
             groups |-> {}, into |-> Overview, parts |-> <<>>, links |-> <<>>,
             before |-> [count |-> 0, names |-> {}], ends |-> <<>>, kinds |-> <<>>]
Working(step) == repair.at = step /\ repair.parts = <<>> /\ repair.links = <<>>

ShardsInit ==
  /\ \E known \in Beginnings : kind = [c \in Facts |-> IF c \in known THEN "current" ELSE "none"]
  /\ ended = [c \in Facts |-> 0]
  /\ rows = Layout(kind, ended)
  /\ next = Chain(rows)
  /\ previous = Reversed(next)
  /\ index = Snapshot(rows, Cardinality(DOMAIN rows))
  /\ dirty = {}
  /\ rebuilding = "no"
  /\ repair = NoRepair
  /\ news = 0 /\ shardDeaths = 0
  /\ frayed = FALSE

-----------------------------------------------------------------------------
(* The ledger *)

\* persistClaims, and #expireMemory: the claims that change are marked, and each marker
\* brings a rebuild job.
Marked(claims) ==
  /\ dirty' = dirty \cup claims
  /\ rebuilding' = IF rebuilding = "no" THEN "queued" ELSE rebuilding
  /\ news < MaxNews /\ news' = news + 1
  /\ repair = NoRepair
  /\ UNCHANGED <<rows, next, previous, index, repair, shardDeaths, frayed>>

\* A claim may be learned late: from a document that is older than what is known.
Learn(c) ==
  /\ kind[c] = "none"
  /\ \E old \in {{}} \cup {{d} : d \in {d \in Facts : d < c /\ kind[d] = "current"}} :
       /\ kind' = [d \in Facts |-> IF d = c THEN "current" ELSE IF d \in old THEN "past" ELSE kind[d]]
       /\ ended' = [d \in Facts |-> IF d \in old THEN c ELSE ended[d]]
       /\ Marked({c} \cup old)

\* What somebody has said before is stored as history.
LearnAgain(c) ==
  /\ kind[c] = "none"
  /\ kind' = [kind EXCEPT ![c] = "past"]
  /\ Marked({c}) /\ UNCHANGED ended

\* It expires, or moves to another topic.  A topic without any claim is removed, which
\* is left out.
Leave(c) ==
  /\ kind[c] = "current"
  /\ \E d \in Facts \ {c} : Shown(d, kind)
  /\ kind' = [kind EXCEPT ![c] = "gone"]
  /\ Marked({c}) /\ UNCHANGED ended

\* POST /claims/:id/correct sets no marker; its rebuild job comes with it here.
Supersede(c, new) ==
  /\ kind[c] = "current" \/ (kind[c] = "past" /\ ended[c] = 0)
  /\ kind[new] = "none" /\ \A d \in Facts : kind[d] # "none" => d < new
  /\ news < MaxNews /\ news' = news + 1
  /\ kind' = [kind EXCEPT ![c] = "past", ![new] = "current"]
  /\ ended' = [ended EXCEPT ![c] = new]
  /\ rebuilding' = "needed"
  /\ UNCHANGED <<rows, next, previous, index, dirty, repair, shardDeaths, frayed>>

-----------------------------------------------------------------------------
(* updateShardedTopic *)

\* The shards that hold a changed claim, and the sections that lack one.
Holding(c) == {s \in DOMAIN rows : c \in rows[s].claims}
Begun(job) ==
  [NoRepair EXCEPT
     !.at = "shards", !.job = job, !.changed = dirty,
     !.shards = (UNION {Holding(c) : c \in dirty}) \ {Overview},
     !.adds = {a \in Sections \X dirty :
                 Belongs(a[2], a[1], kind) /\ \A s \in Holding(a[2]) : s[1] # a[1]},
     !.before = Snapshot(rows, Listed), !.ends = ended, !.kinds = kind]

\* compileAffectedTopics, for a job that finds markers; an inline page is compiled anew.
BeginRepair ==
  /\ repair = NoRepair /\ dirty # {}
  /\ repair' = IF rows = NoShards THEN [NoRepair EXCEPT !.at = "compile", !.job = "compile",
                                          !.changed = dirty, !.ends = ended, !.kinds = kind]
               ELSE Begun("compile")
  /\ UNCHANGED <<ledgerRows, pageRows, dirty, rebuilding, shardDeaths, frayed>>

\* The rebuild job: first the markers, then everything.
BeginRebuild ==
  /\ repair = NoRepair /\ rebuilding # "no"
  /\ repair' = IF rows = NoShards \/ dirty = {}
                 THEN [NoRepair EXCEPT !.at = "compile", !.job = "rebuild", !.changed = dirty,
                                       !.ends = ended, !.kinds = kind]
                 ELSE Begun("rebuild")
  /\ rebuilding' = "no"
  /\ UNCHANGED <<ledgerRows, pageRows, dirty, shardDeaths, frayed>>

\* persistBoundedProjectionRange: what is to be stored, with the claims' rows of now.
Bounded(into, claims) ==
  /\ repair' = [repair EXCEPT !.into = into, !.ends = ended, !.shards = @ \ {into},
                              !.parts = Cut(claims, into[1], ended, Room)]
  /\ UNCHANGED pageRows

\* Faulty: the claims that the shard holds are not merged with the new ones.
OnlyNew(s) == {}

\* projectionClaims
Kept(s) == {c \in rows[s].claims : Belongs(c, s[1], kind)}

\* archiveProjectionShard
Without(links, s) == {l \in links : s \notin {l[1], l[2]}}
Archive(s) ==
  /\ rows' = [t \in DOMAIN rows \ {s} |-> rows[t]]
  /\ next' = Without(next, s) /\ previous' = Without(previous, s)
  /\ repair' = [repair EXCEPT !.shards = @ \ {s}, !.links = << <<s, rows[s].last>> >>]
  /\ UNCHANGED index

TakeShard ==
  /\ Working("shards")
  /\ \E s \in repair.shards :
       LET removed == {c \in repair.changed : repair.kinds[c] = "gone"}
       IN IF Kept(s) \ removed = {} THEN Archive(s) ELSE Bounded(s, Kept(s) \ removed)
  /\ UNCHANGED <<ledgerRows, dirty, rebuilding, shardDeaths, frayed>>

\* The additions of a section are routed together.
RouteAdditions ==
  /\ Working("shards") /\ repair.shards = {} /\ repair.groups = {}
  /\ \E section \in {a[1] : a \in repair.adds} :
       LET added == {a[2] : a \in {b \in repair.adds : b[1] = section}}
           shards(c) == Route(section, SortKey(c, section, repair.ends))
       IN repair' = [repair EXCEPT
            !.groups = {<<section, shards(c), {d \in added : shards(d) = shards(c)}>> : c \in added},
            !.adds = {a \in @ : a[1] # section}]
  /\ UNCHANGED <<ledgerRows, pageRows, dirty, rebuilding, shardDeaths, frayed>>

TakeGroup ==
  /\ Working("shards") /\ repair.shards = {}
  /\ \E g \in repair.groups :
       LET into == IF g[2] = {} THEN <<g[1], 0>> ELSE CHOOSE s \in g[2] : TRUE
           held == IF g[2] = {} THEN {} ELSE Kept(into)
       IN repair' = [repair EXCEPT !.groups = @ \ {g}, !.into = into, !.ends = ended,
                                   !.parts = Cut(held \cup g[3], g[1], ended, Room)]
  /\ UNCHANGED <<ledgerRows, pageRows, dirty, rebuilding, shardDeaths, frayed>>

\* persistProjectionShard, a transaction: the first part into the shard there is.
StorePart ==
  /\ repair.parts # <<>>
  /\ LET section == repair.into[1]
         s == <<section, IF repair.into[2] = 0 THEN NextOrdinal(section) ELSE repair.into[2]>>
         claims == Head(repair.parts)
         row == ShardRow(claims, section, repair.ends)
     IN /\ rows' = [t \in DOMAIN rows \cup {s} |-> IF t = s THEN row ELSE rows[t]]
        /\ repair' = [repair EXCEPT !.parts = Tail(@), !.into = <<section, 0>>,
                                    !.links = Append(@, <<s, row.last>>)]
        /\ frayed' = (frayed \/ (/\ s \in DOMAIN rows
                                  /\ PartBefore(PlaceOf(s, rows), rows) # PartBefore(PlaceOf(s, rows'), rows')))
  /\ UNCHANGED <<ledgerRows, next, previous, index, dirty, rebuilding, shardDeaths>>

\* Faulty: the neighbours keep the links they have to one another.
LinkedBeside(s, last) ==
  LET left == PartBefore(Place(s, last), rows)
      right == PartAfter(Place(s, last), rows)
      made == IF s \in DOMAIN rows THEN (left \X {s}) \cup ({s} \X right) ELSE {}
  IN /\ next' = {l \in next : l[1] # s} \cup made
     /\ previous' = {l \in previous : l[1] # s} \cup Reversed(made)

\* refreshProjectionNeighbors
Linked(s, last) ==
  LET here == s \in DOMAIN rows
      place == IF here THEN PlaceOf(s, rows) ELSE Place(s, last)
      left == PartBefore(place, rows)
      right == PartAfter(place, rows)
      made == IF here THEN (left \X {s}) \cup ({s} \X right) ELSE left \X right
      self == IF here THEN {s} ELSE {}
  IN /\ next' = {l \in next : l[1] \notin left \cup self} \cup made
     /\ previous' = {l \in previous : l[1] \notin right \cup self} \cup Reversed(made)

LinkPart ==
  /\ repair.parts = <<>> /\ repair.links # <<>>
  /\ Linked(Head(repair.links)[1], Head(repair.links)[2])
  /\ repair' = [repair EXCEPT !.links = Tail(@)]
  /\ UNCHANGED <<ledgerRows, rows, index, dirty, rebuilding, shardDeaths, frayed>>

StoreOverview ==
  /\ Working("shards") /\ repair.shards = {} /\ repair.adds = {} /\ repair.groups = {}
  /\ repair' = [repair EXCEPT !.at = "index", !.into = Overview, !.ends = ended,
                              !.parts = <<Latest>>]
  /\ UNCHANGED <<ledgerRows, pageRows, dirty, rebuilding, shardDeaths, frayed>>

\* refreshShardedParentIndex, if what the index shows has changed since the update began.
RefreshIndex ==
  /\ Working("index")
  /\ index' = IF Snapshot(rows, Listed) # repair.before THEN Snapshot(rows, Listed) ELSE index
  /\ repair' = [repair EXCEPT !.at = "complete"]
  /\ UNCHANGED <<ledgerRows, rows, next, previous, dirty, rebuilding, shardDeaths, frayed>>

\* The last transaction consumes the markers.
CompleteRepair ==
  /\ Working("complete")
  /\ dirty' = dirty \ repair.changed
  /\ repair' = IF repair.job = "rebuild" THEN [NoRepair EXCEPT !.at = "compile", !.job = "rebuild",
                                                  !.ends = ended, !.kinds = kind]
               ELSE NoRepair
  /\ UNCHANGED <<ledgerRows, pageRows, rebuilding, shardDeaths, frayed>>

-----------------------------------------------------------------------------
(* persistActiveCompilation, one transaction; the claims were read before it. *)

Compile ==
  /\ Working("compile")
  /\ rows' = IF Fits(repair.kinds) THEN NoShards ELSE Layout(repair.kinds, repair.ends)
  \* archiveStaleCompiledChildren drops the links of the parts that go; the links between
  \* the parts that stay are added to.
  /\ LET kept == (DOMAIN rows') \X (DOMAIN rows')
     IN /\ next' = (next \cap kept) \cup Chain(rows')
        /\ previous' = (previous \cap kept) \cup Reversed(Chain(rows'))
  /\ index' = Snapshot(rows', Cardinality(DOMAIN rows'))
  /\ dirty' = dirty \ repair.changed
  /\ repair' = NoRepair
  /\ frayed' = (next' # Chain(rows') \/ previous' # Reversed(Chain(rows')))
  /\ UNCHANGED <<ledgerRows, rebuilding, shardDeaths>>

\* Opening the database computes the ranges from the claims of the shards
\* (#canonicalTopicProjectionShards).
RangesOfClaims ==
  [s \in DOMAIN rows |->
     [rows[s] EXCEPT !.last =
        LastKey({c \in rows[s].claims : s[1] = "overview" \/ Belongs(c, s[1], kind)}, s[1], ended)]]

\* The worker dies.  It opens the database again, where its job is leased again.
WorkerDies ==
  /\ repair # NoRepair
  /\ shardDeaths < MaxShardDeaths /\ shardDeaths' = shardDeaths + 1
  /\ rows' = RangesOfClaims
  /\ rebuilding' = IF rebuilding = "no" /\ repair.job = "compile" THEN "no" ELSE "needed"
  /\ repair' = NoRepair
  /\ frayed' = TRUE
  /\ UNCHANGED <<ledgerRows, next, previous, index, dirty>>

-----------------------------------------------------------------------------
ShardsNext ==
  \/ \E c \in Facts : Learn(c) \/ LearnAgain(c) \/ Leave(c)
  \/ \E c, new \in Facts : Supersede(c, new)
  \/ BeginRepair \/ BeginRebuild
  \/ TakeShard \/ RouteAdditions \/ TakeGroup
  \/ StorePart \/ LinkPart \/ StoreOverview
  \/ RefreshIndex \/ CompleteRepair \/ Compile
  \/ WorkerDies

ShardsSpec == ShardsInit /\ [][ShardsNext]_shardVars

-----------------------------------------------------------------------------
(* Properties *)

ShardsTypeOK ==
  /\ kind \in [Facts -> {"none", "current", "past", "gone"}]
  /\ ended \in [Facts -> Nat]
  /\ \A s \in DOMAIN rows : s[1] \in Sections \cup {"overview"} /\ rows[s].claims \subseteq Facts
  /\ {next, previous} \subseteq SUBSET ((DOMAIN rows) \X (DOMAIN rows))
  /\ dirty \subseteq Facts

\* Every claim of the topic is in one shard of its section and in one of the evidence,
\* and no other claim is; the parent counts the shards there are.
Whole ==
  /\ rows # NoShards =>
       \A c \in Facts, section \in Sections :
         Cardinality({s \in InSection(section) : c \in rows[s].claims})
           = IF Belongs(c, section, kind) THEN 1 ELSE 0
  /\ index.count = Cardinality(DOMAIN rows)

\* "dirty markers remain until the parent projection state and complete projection/vector
\* outboxes are durable together": with no marker left and the worker idle, the parts
\* hold the topic, unless a death or a correction without a marker has left it to a
\* rebuild that is still to come.  And "A late/backfilled claim therefore updates the
\* containing/next bounded range instead of being appended to the section tail": the ranges
\* of a section are apart, also between two steps of a repair and after a death.
WholeOrRebuilt ==
  /\ repair = NoRepair /\ dirty = {} => Whole \/ rebuilding = "needed"
  /\ \A s, t \in DOMAIN rows :
       s # t /\ s[1] = t[1] /\ s[1] \in {"current_state", "evidence"} =>
         \/ \A c \in Kept(s), d \in Kept(t) : c < d
         \/ \A c \in Kept(s), d \in Kept(t) : d < c

\* "Repair only the two links on either side of one globally ordered shard" keeps the
\* chain, if nothing has frayed it: a death, a full compilation that leaves an old link,
\* a shard whose key has moved past another's.
RepairKeepsTheChain ==
  repair = NoRepair /\ ~frayed => next = Chain(rows) /\ previous = Reversed(next)
=============================================================================

---------------------------- MODULE AnswerContext ----------------------------
(***************************************************************************)
(* What a response sends to the model besides its instructions             *)
(* (buildContext in apps/api/src/orchestrator.ts, packages/retrieval, the  *)
(* adapter in apps/api/src/retrieval-adapter.ts): the newest turns of the  *)
(* conversation and what was found in memory, within the model's window;   *)
(* and the record of it, from which diagnostics rebuild the text later     *)
(* (apps/api/src/context-packets.ts).                                      *)
(*                                                                         *)
(* The turns are read when the message is posted.  Memory is read when the *)
(* question has been classified, and the record made when the reranker has *)
(* answered; meanwhile the worker and the user go on changing memory, and  *)
(* other responses the conversation.  Sizes stand for tokens.              *)
(***************************************************************************)
EXTENDS Integers, Sequences, FiniteSets, FiniteSetsExt, Functions

CONSTANTS
  Texts, SizeOf(_), \* what users write, and how large each text is
  FileText,        \* the one text that is sent with a file
  Capacity,        \* what is left of the window for input after instructions
                   \* and tool definitions
  NoticeSize, AnswerSize, ClaimSize, PageSize, ChunkSize,
  Window,          \* recentEvents' limit
  MinimumTurns,    \* complete turns that come before memory
  MaxRuns, MaxClaims, MaxPageRevisions, MaxTools

ASSUME ContextAssumption ==
  /\ {Capacity, NoticeSize, AnswerSize, ClaimSize, PageSize, ChunkSize, Window, MinimumTurns,
      MaxRuns, MaxClaims, MaxPageRevisions, MaxTools} \subseteq Nat
  /\ MinimumTurns # 0
  /\ \A t \in Texts : SizeOf(t) \in Nat

VARIABLES
  chat,    \* the events of the conversation, in their order
  claims,
  page,    \* the revisions of one topic page; the last is active
  runs     \* the responses, in the order of their start

contextVars == <<chat, claims, page, runs>>

ContextInit == chat = <<>> /\ claims = <<>> /\ page = <<>> /\ runs = <<>>

-----------------------------------------------------------------------------
(* Documents of memory *)

\* A size is a number of tokens, and what texts take together is all of their tokens.
Tokens(sizes) == UNION {{x} \X (1..sizes[x]) : x \in DOMAIN sizes}
TotalOf(sizes) == Cardinality(Tokens(sizes))

EventDoc(e) == <<"event", e>>
ClaimDoc(c) == <<"claim", c>>
PageDoc == <<"topic", 1>>
FileDoc == <<"chunk", 1>>

\* Only the file sent with a message is read as a whole; others are found or not.
HasFile(e) == chat[e].role = "user" /\ chat[e].text = FileText

IsActiveSource(e) == chat[e].active

\* getDocument
FindableEvents ==
  {EventDoc(e) : e \in {d \in DOMAIN chat : chat[d].active /\ chat[d].status = "complete"}}
FindableClaims ==
  {ClaimDoc(c) : c \in {d \in DOMAIN claims : \E e \in claims[d].sources : IsActiveSource(e)}}
PageIsStale ==
  LET revision == page[Len(page)]
  IN revision.author # "user"
     /\ \E e \in revision.sources : chat[e].role = "assistant" /\ ~chat[e].active
FindablePages == IF page # <<>> /\ ~PageIsStale THEN {PageDoc} ELSE {}
FindableChunks == IF \E e \in DOMAIN chat : HasFile(e) THEN {FileDoc} ELSE {}

\* The types a question may ask for (requestedSources); most ask for none.
Requested(wanted) ==
  CASE wanted = "anything" -> FindableEvents \cup FindableClaims \cup FindablePages
    [] wanted = "messages" -> FindableEvents
    [] wanted = "files" -> {}
    [] wanted = "memory" -> FindableClaims \cup FindablePages

\* expandGraphCandidates: a claim leads to its page and the page to its claims,
\* whatever types were asked for.
Neighbours(docs) ==
  LET linked == FindableClaims \cup FindablePages
  IN IF docs \cap linked # {} THEN linked ELSE {}

\* Two messages of the user may have one text.
TextIn(doc) ==
  IF doc[1] = "event" /\ chat[doc[2]].role = "user" THEN <<"text", chat[doc[2]].text>> ELSE doc

DocSize(doc) ==
  CASE doc[1] = "event" -> chat[doc[2]].size
    [] doc[1] = "claim" -> ClaimSize
    [] doc[1] = "topic" -> PageSize
    [] doc[1] = "chunk" -> ChunkSize

\* The content that is read now: pages change, the others only come and go.
Content(doc) == IF doc = PageDoc THEN Len(page) ELSE 0

Candidate(doc) ==
  [doc |-> doc, content |-> Content(doc),
   status |-> IF doc[1] = "claim" THEN claims[doc[2]].status ELSE "current"]

-----------------------------------------------------------------------------
(* Starting a response *)

AppendEvent(role, text, size, status, parent) ==
  Append(chat, [role |-> role, text |-> text, size |-> size, status |-> status,
                parent |-> parent, active |-> TRUE])

NoPacket == [turns |-> {}, last |-> 0, evidence |-> {}, notices |-> {}, room |-> 0]

\* recentEvents(48), of which the messages; the question is pushed when it is
\* further back.  turnIndex counts the user's messages.
TurnsOf(events, question) ==
  LET active == {e \in DOMAIN events : events[e].active}
      recent == {e \in active : Cardinality({d \in active : d > e}) < Window}
      messages == {e \in recent : events[e].role \in {"user", "assistant"}}
      users(e) == Cardinality({d \in messages : d <= e /\ events[d].role = "user"})
      turn(e, index) == [event |-> e, index |-> index, complete |-> events[e].status = "complete",
                         size |-> events[e].size]
  IN {turn(e, users(e)) : e \in messages} \cup
     (IF question \in messages THEN {} ELSE {turn(question, users(Len(events)) + 1)})

StartRun(events, question, fresh) ==
  Append(runs, [step |-> "classifying", question |-> question, fresh |-> fresh, answer |-> 0,
                turns |-> TurnsOf(events, question), found |-> {}, moved |-> FALSE,
                packet |-> NoPacket])

\* POST /messages
Send(t) ==
  /\ Len(runs) < MaxRuns
  /\ chat' = AppendEvent("user", t, SizeOf(t), "complete", 0)
  /\ runs' = StartRun(chat', Len(chat'), TRUE)
  /\ UNCHANGED <<claims, page>>

\* POST /events/:id/regenerate, for an answer or for its question.
Regenerate(e) ==
  LET question == IF chat[e].role = "assistant" THEN chat[e].parent ELSE e
  IN /\ Len(runs) < MaxRuns
     /\ chat[e].role \in {"user", "assistant"}
     /\ runs' = StartRun(chat, question, FALSE)
     /\ UNCHANGED <<chat, claims, page>>

-----------------------------------------------------------------------------
(* Finding candidates *)

\* classifyQuery has answered (the classifier, its safe fallback, or the patterns
\* alone), the channels are read and the graph is expanded.  The recency channel
\* finds everything in a small vault; a file only when its words match.
Generate(r) ==
  /\ runs[r].step = "classifying"
  /\ \E wanted \in {"anything", "messages", "files", "memory"}, matched \in SUBSET FindableChunks :
       LET direct ==
             Requested(wanted) \cup (IF wanted \in {"anything", "files"} THEN matched ELSE {})
       IN \E linked \in {{}, Neighbours(direct)} :
            runs' = [runs EXCEPT ![r].step = "reranking",
                                 ![r].found = {Candidate(d) : d \in direct \cup linked},
                                 ![r].moved = FALSE]
  /\ UNCHANGED <<chat, claims, page>>

-----------------------------------------------------------------------------
(* Fitting the window: buildContextPacket *)

GroupsOf(turns) == {t.index : t \in turns}
IsWhole(turns, g) == \A t \in turns : t.index = g => t.complete
TurnsIn(turns, groups) == {t \in turns : t.index \in groups}
GroupsSize(turns, groups) == TotalOf([t \in TurnsIn(turns, groups) |-> t.size])
LatestOf(S, n) == {g \in S : Cardinality({h \in S : h > g}) < n}

\* One turn after another, the newest first; one that does not fit is passed over.
NewestThatFit(turns, groups, room) ==
  CHOOSE fit \in SUBSET groups :
    \A g \in groups :
      g \in fit <=> GroupsSize(turns, {h \in fit : h > g} \cup {g}) <= room

\* The notices, in the order in which they are made.
Notices(found) ==
  (IF \E c \in found : c.status = "conflicted" THEN <<"conflict">> ELSE <<>>) \o
  (IF \E c \in found : c.status = "expired" THEN <<"stale">> ELSE <<>>) \o
  (IF found = {} THEN <<"missing">> ELSE <<>>)

\* The first notices that fit; all are about as long.
NoticesThatFit(found, room) ==
  {Notices(found)[i] : i \in {j \in DOMAIN Notices(found) : j * NoticeSize <= room}}

EvidenceSize(evidence) == TotalOf([c \in evidence |-> DocSize(c.doc)])

\* What greedy fitting can take, in the order the reranker gives, of texts that
\* are there once: the file sent with the question comes first.
FittingEvidence(found, attached, room) ==
  LET first == IF EvidenceSize(attached) <= room THEN attached ELSE {}
      takes(E) ==
        /\ first \subseteq E
        /\ EvidenceSize(E) <= room
        /\ \A c, d \in E : c # d => TextIn(c.doc) # TextIn(d.doc)
        /\ \A c \in found \ E :
             \/ EvidenceSize(E) + DocSize(c.doc) > room
             \/ \E d \in E : TextIn(c.doc) = TextIn(d.doc)
  IN {E \in SUBSET (found \cup attached) : takes(E)}

\* Faulty: what the turns and the notices take is forgotten.
ShareOfAll(room) == (Capacity * 45) \div 100

\* Memory may take what the turns and the notices leave, and not more than its share.
Share(room) == Min({room, (Capacity * 45) \div 100})

\* The revision that is active now is taken to be the one that was read.
Reference(c) ==
  [doc |-> c.doc, hash |-> c.content, body |-> Content(c.doc), status |-> c.status]

\* The message that ends the prompt: turns are put in the order of their index.
LastOf(turns) ==
  IF turns = {} THEN 0
  ELSE (CHOOSE t \in turns : \A u \in turns :
          t.index > u.index \/ (t.index = u.index /\ t.event >= u.event)).event

\* rerankCandidates has answered or fallen back; composeStoredContextPacket and
\* saveContextPacket follow.
Compose(r) ==
  LET run == runs[r]
      whole == {g \in GroupsOf(run.turns) : IsWhole(run.turns, g)}
      required == NewestThatFit(run.turns, LatestOf(whole, MinimumTurns), Capacity)
      room == Capacity - GroupsSize(run.turns, required)
      notices == NoticesThatFit(run.found, room)
      left == room - NoticeSize * Cardinality(notices)
      attached == IF HasFile(run.question) THEN {Candidate(FileDoc)} ELSE {}
      rest == {c \in run.found : c.doc # FileDoc \/ attached = {}}
  IN /\ run.step = "reranking"
     /\ \E evidence \in FittingEvidence(rest, attached, Share(left)) :
          LET older == NewestThatFit(run.turns, whole \ required, left - EvidenceSize(evidence))
              sent == TurnsIn(run.turns, required \cup older)
          IN runs' = [runs EXCEPT ![r].step = "composed", ![r].turns = {}, ![r].found = {},
               ![r].packet = [turns |-> {t.event : t \in sent}, last |-> LastOf(sent),
                              evidence |-> {Reference(c) : c \in evidence}, notices |-> notices,
                              room |-> left]]
     /\ UNCHANGED <<chat, claims, page>>

-----------------------------------------------------------------------------
(* Answering *)

BeginAnswer(r) ==
  /\ runs[r].step = "composed"
  /\ chat' = AppendEvent("assistant", "answer", AnswerSize, "streaming", runs[r].question)
  /\ runs' = [runs EXCEPT ![r].step = "answering", ![r].answer = Len(chat')]
  /\ UNCHANGED <<claims, page>>

CallTool(r) ==
  /\ runs[r].step = "answering"
  /\ Cardinality({e \in DOMAIN chat : chat[e].role = "tool"}) < MaxTools
  /\ chat' = AppendEvent("tool", "tool", 1, "complete", runs[r].question)
  /\ UNCHANGED <<claims, page, runs>>

OtherAnswers(e) ==
  {d \in DOMAIN chat : chat[d].role = "assistant" /\ chat[d].parent = chat[e].parent /\ d # e}

\* registerAssistantRevision deactivates every other answer to the question.
FinishAnswer(r) ==
  LET a == runs[r].answer
  IN /\ runs[r].step = "answering"
     /\ chat' = [e \in DOMAIN chat |->
                   IF e = a THEN [chat[e] EXCEPT !.status = "complete"]
                   ELSE IF e \in OtherAnswers(a) THEN [chat[e] EXCEPT !.active = FALSE]
                   ELSE chat[e]]
     /\ runs' = [runs EXCEPT ![r].step = "complete"]
     /\ UNCHANGED <<claims, page>>

\* A call fails or is cancelled, or the API is restarted: what was written of the
\* answer stays in the conversation.
BreakOff(r) ==
  LET a == runs[r].answer
  IN /\ runs[r].step \notin {"complete", "failed"}
     /\ chat' = IF a = 0 THEN chat ELSE [chat EXCEPT ![a].status = "failed"]
     /\ runs' = [runs EXCEPT ![r].step = "failed", ![r].turns = {}, ![r].found = {}]
     /\ UNCHANGED <<claims, page>>

\* PATCH /events/:id/activate
ChooseAnswer(e) ==
  /\ chat[e].role = "assistant" /\ chat[e].status = "complete" /\ ~chat[e].active
  /\ chat' = [d \in DOMAIN chat |->
                IF d = e THEN [chat[d] EXCEPT !.active = TRUE]
                ELSE IF d \in OtherAnswers(e) /\ chat[d].status = "complete"
                  THEN [chat[d] EXCEPT !.active = FALSE]
                ELSE chat[d]]
  /\ UNCHANGED <<claims, page, runs>>

-----------------------------------------------------------------------------
(* Memory changes meanwhile *)

\* A response that has read the page and not yet recorded it.
Moved == [r \in DOMAIN runs |->
            IF PageDoc \in {c.doc : c \in runs[r].found} THEN [runs[r] EXCEPT !.moved = TRUE]
            ELSE runs[r]]

Revise(author, sources) ==
  /\ Len(page) < MaxPageRevisions
  /\ page' = Append(page, [author |-> author, sources |-> sources])
  /\ runs' = Moved

SourcesOf(ledger) == UNION {ledger[c].sources : c \in DOMAIN ledger}

\* The worker compiles a turn: a new claim, which may contradict the others, and
\* the page with it.
Learn(a, contradicts) ==
  LET disputed == [c \in DOMAIN claims |->
                     IF claims[c].status = "current" THEN [claims[c] EXCEPT !.status = "conflicted"]
                     ELSE claims[c]]
  IN /\ Len(claims) < MaxClaims
     /\ chat[a].role = "assistant" /\ chat[a].status = "complete" /\ chat[a].active
     /\ IF contradicts
          THEN /\ disputed # claims
               /\ claims' = Append(disputed, [status |-> "conflicted", sources |-> {a}])
          ELSE claims' = Append(claims, [status |-> "current", sources |-> {a}])
     /\ Revise("model", SourcesOf(claims'))
     /\ UNCHANGED chat

\* correctClaim: a note in the conversation, and a claim of the user's own.
Correct(c) ==
  /\ Len(claims) < MaxClaims
  /\ claims[c].status # "superseded"
  /\ chat' = AppendEvent("note", "note", 1, "complete", 0)
  /\ claims' = Append([claims EXCEPT ![c].status = "superseded"],
                      [status |-> "current", sources |-> {Len(chat')}])
  /\ UNCHANGED <<page, runs>>

ExpireClaim(c) ==
  /\ claims[c].status \in {"current", "conflicted"}
  /\ claims' = [claims EXCEPT ![c].status = "expired"]
  /\ UNCHANGED <<chat, page, runs>>

EditPage ==
  /\ page # <<>>
  /\ Revise("user", {})
  /\ UNCHANGED <<chat, claims>>

ContextNext ==
  \/ \E t \in Texts : Send(t)
  \/ \E e \in DOMAIN chat : Regenerate(e) \/ ChooseAnswer(e)
  \/ \E r \in DOMAIN runs :
       Generate(r) \/ Compose(r) \/ BeginAnswer(r) \/ CallTool(r) \/ FinishAnswer(r) \/ BreakOff(r)
  \/ \E a \in DOMAIN chat, contradicts \in BOOLEAN : Learn(a, contradicts)
  \/ \E c \in DOMAIN claims : Correct(c) \/ ExpireClaim(c)
  \/ EditPage

ContextSpec == ContextInit /\ [][ContextNext]_contextVars

-----------------------------------------------------------------------------
(* Rebuilding what was sent: reconstructStoredContextPacket *)

\* Faulty: a page is looked up as it is now.
TextNow(ref) == Content(ref.doc)

\* bodyForReference
BodyText(ref) == ref.body

Rebuilds(packet) == \A ref \in packet.evidence : BodyText(ref) = ref.hash

-----------------------------------------------------------------------------
(* Properties *)

HasPacket(r) == runs[r].step \in {"composed", "answering", "complete"}

ContextTypeOK ==
  /\ \A e \in DOMAIN chat :
       chat[e].role \in {"user", "assistant", "tool", "note"}
       /\ chat[e].status \in {"complete", "streaming", "failed"} /\ chat[e].parent \in 0..Len(chat)
  /\ Len(claims) <= MaxClaims /\ Len(page) <= MaxPageRevisions /\ Len(runs) <= MaxRuns
  /\ \A r \in DOMAIN runs : runs[r].answer \in 0..Len(chat) /\ runs[r].packet.last \in 0..Len(chat)

\* A new question that fits the window is asked: it ends the prompt, whatever the
\* conversation, memory and its files would take.
QuestionIsAsked ==
  \A r \in DOMAIN runs :
    HasPacket(r) /\ runs[r].fresh /\ chat[runs[r].question].size <= Capacity =>
      runs[r].packet.last = runs[r].question

\* What is sent never exceeds the window.
PromptFits ==
  \A r \in DOMAIN runs : HasPacket(r) =>
    TotalOf([e \in runs[r].packet.turns |-> chat[e].size])
      + NoticeSize * Cardinality(runs[r].packet.notices)
      + EvidenceSize(runs[r].packet.evidence) <= Capacity

\* "retaining it in the transcript cannot promote unfinished text into model memory".
UnfinishedStaysOut ==
  \A r \in DOMAIN runs :
    /\ \A e \in runs[r].packet.turns : chat[e].status = "complete"
    /\ \A ref \in runs[r].packet.evidence :
         ref.doc[1] = "event" => chat[ref.doc[2]].status = "complete"

\* A claim that was found in conflict is not shown without a word about it, when
\* there was room for a notice.
ConflictIsSaid ==
  \A r \in DOMAIN runs :
    LET packet == runs[r].packet
    IN (\E ref \in packet.evidence : ref.status = "conflicted") /\ packet.room >= NoticeSize =>
         "conflict" \in packet.notices

\* The four promises about a prompt, for every response whatever else goes on.
PromptIsSound == QuestionIsAsked /\ PromptFits /\ UnfinishedStaysOut /\ ConflictIsSaid

\* "Answer diagnostics reconstruct the rendered memory from those immutable
\* references": however memory changed since, the text that was sent can be shown,
\* unless the page was revised between the reading and the record.
PacketRebuilds ==
  \A r \in DOMAIN runs : ~runs[r].moved => Rebuilds(runs[r].packet)
==============================================================================

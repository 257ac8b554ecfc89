------------------------------ MODULE RunStream ------------------------------
(***************************************************************************)
(* What the browser shows of an answer while it is written: the events of  *)
(* one run in run_stream_events, the SSE handler that sends them           *)
(* (apps/api/src/app.ts), the reader that reconnects with Last-Event-ID    *)
(* (streamRun in apps/web/src/lib/api-client.ts) and the page that         *)
(* attaches to the run, checkpoints what it has shown in sessionStorage    *)
(* and takes snapshots of the vault meanwhile (apps/web/src/App.tsx).      *)
(*                                                                         *)
(* The id of an event is its place in log, and a text is the sequence of   *)
(* the ids of its deltas: lengths and checksums of texts are the texts     *)
(* themselves.  The API writes an event and flushes it to its readers in   *)
(* one stretch of its thread.  The two parts of a snapshot that concern    *)
(* the run, the events and the active runs, are requests of their own.     *)
(***************************************************************************)
EXTENDS Integers, Sequences, SequencesExt

CONSTANTS
  Null,
  MaxLog,          \* bounds on the events of the run,
  MaxAttempts,     \* on the attempts to reconnect (maxReconnectAttempts),
  MaxBreaks,       \* on the broken connections and deaths of the API,
  MaxTabs,        \* on the times the page is loaded
  MaxSnapshots     \* and on the snapshots it asks for

\* The text of an answer, a sequence here, is never Null.
ASSUME NoTextAssumption == Null \notin Seq(Nat)

VARIABLES
  log,         \* run_stream_events: "progress", "delta", "completed", "failed"
  row,         \* the run and the text of its answer
  apiState,
  link,        \* the open response: how far it was written, what is on its way
  tab,        \* the React state and refs that concern the run
  checkpoint,  \* RunStreamCheckpoint in sessionStorage
  data,        \* bootstrapQuery.data
  loading,       \* the snapshot that is being loaded
  misled,      \* (ghost) a snapshot or an attachment did not know of a text the
               \* page showed
  breaks, tabLoads, snapshots

streamVars == <<log, row, apiState, link, tab, checkpoint, data, loading, misled,
          breaks, tabLoads, snapshots>>

storedRun == <<log, row, apiState>>
tabCounts == <<breaks, tabLoads, snapshots>>

Ends == {"completed", "failed"}

\* The text that the first n events of the run stream.
Text(n) ==
  LET text[i \in 0..n] ==
        IF i = 0 THEN <<>>
        ELSE IF log[i] = "delta" THEN Append(text[i - 1], i) ELSE text[i - 1]
  IN text[n]

NoStream == [on |-> FALSE, cursor |-> 0, before |-> 0, attempts |-> 0,
             named |-> FALSE, text |-> <<>>]

\* A page that was just loaded: nothing shown, no ref set.
Loaded == [shown |-> Null, live |-> FALSE, hydrated |-> FALSE, sends |-> FALSE,
           ref |-> FALSE, automatic |-> FALSE, terminal |-> FALSE, stage |-> "idle",
           stream |-> NoStream]

StreamInit ==
  /\ log = <<>>
  /\ row = [status |-> "absent", named |-> FALSE, text |-> <<>>, cancel |-> FALSE]
  /\ apiState = "up"
  /\ link = Null
  /\ tab = Loaded
  /\ checkpoint = Null
  /\ data = Null /\ loading = Null
  /\ misled = FALSE
  /\ breaks = 0 /\ tabLoads = 1 /\ snapshots = 0

-----------------------------------------------------------------------------
(* The API *)

\* Faulty: an event that is written while the response is open is not flushed to
\* it from where the last one stopped, but from the newest event.
FlushedFromNewest(l, written) ==
  [position |-> Len(written), wire |-> Append(l.wire, Len(written))]

\* flush: everything after the position, up to the newest event.
Flushed(l, written) ==
  [position |-> Len(written),
   wire |-> l.wire \o [i \in 1..(Len(written) - l.position) |-> l.position + i]]

\* emit: the event is stored, then every reader is flushed.
Emit(event) ==
  /\ log' = Append(log, event)
  /\ link' = IF link = Null THEN Null ELSE Flushed(link, log')

Executing == apiState = "up" /\ row.status = "active" /\ Len(log) < MaxLog

\* POST /messages: the transaction creates the run, start claims it and emits
\* run.started.
PostMessage ==
  /\ apiState = "up" /\ row.status = "absent" /\ tab.hydrated /\ tab.stage = "idle"
  /\ row' = [row EXCEPT !.status = "active"]
  /\ Emit("progress")
  /\ tab' = [tab EXCEPT !.sends = TRUE]
  /\ UNCHANGED <<apiState, checkpoint, data, loading, misled, tabCounts>>

\* The answer's row is made and the run names it.
StreamAnswer ==
  /\ Executing /\ ~row.named
  /\ row' = [row EXCEPT !.named = TRUE]
  /\ UNCHANGED <<log, apiState, link, tab, checkpoint, data, loading, misled, tabCounts>>

\* A delta of the provider; the text is written to the row now and then.
StreamDelta ==
  /\ Executing /\ row.named /\ Len(log) + 1 < MaxLog
  /\ Emit("delta")
  /\ \E stored \in {row.text, Append(Text(Len(log)), Len(log) + 1)} :
       row' = [row EXCEPT !.text = stored]
  /\ UNCHANGED <<apiState, tab, checkpoint, data, loading, misled, tabCounts>>

\* The text is finalized and the run ends, completed only if it has an answer and
\* nobody asked for its end.
End(event) ==
  /\ Executing
  /\ event = "completed" => row.named /\ ~row.cancel
  /\ row' = [row EXCEPT !.status = "ended", !.text = Text(Len(log))]
  /\ Emit(event)
  /\ UNCHANGED <<apiState, tab, checkpoint, data, loading, misled, tabCounts>>

ApiDies ==
  /\ apiState = "up" /\ breaks < MaxBreaks
  /\ apiState' = "down" /\ breaks' = breaks + 1
  /\ link' = Null /\ loading' = Null
  /\ UNCHANGED <<log, row, tab, checkpoint, data, misled, tabLoads, snapshots>>

\* recoverInterruptedRuns: the text is put together from the stored deltas.
ApiStarts ==
  /\ apiState = "down"
  /\ apiState' = "up"
  /\ IF row.status = "active"
       THEN /\ row' = [row EXCEPT !.status = "ended", !.text = Text(Len(log))]
            /\ log' = Append(log, "failed")
       ELSE UNCHANGED <<row, log>>
  /\ UNCHANGED <<link, tab, checkpoint, data, loading, misled, tabCounts>>

-----------------------------------------------------------------------------
(* The reader *)

\* GET /runs/:id/stream with the cursor as Last-Event-ID.
Connect ==
  /\ apiState = "up" /\ tab.stream.on /\ link = Null
  /\ link' = Flushed([position |-> tab.stream.cursor, wire |-> <<>>], log)
  /\ tab' = [tab EXCEPT !.stream.before = tab.stream.cursor]
  /\ UNCHANGED <<storedRun, checkpoint, data, loading, misled, tabCounts>>

\* The connection breaks, or cannot be made.  Attempts are counted from the last
\* event; after the last attempt the page shows that the connection is lost
\* (markRunConnectionLost).
Break ==
  /\ tab.stream.on /\ breaks < MaxBreaks
  /\ breaks' = breaks + 1
  /\ link' = Null
  /\ LET s == tab.stream
         attempts == (IF s.cursor # s.before THEN 0 ELSE s.attempts) + 1
     IN tab' = IF attempts > MaxAttempts
                  THEN [tab EXCEPT !.stream = NoStream, !.stage = "lost"]
                  ELSE [tab EXCEPT !.stream = [s EXCEPT !.attempts = attempts,
                                                         !.before = s.cursor]]
  /\ UNCHANGED <<storedRun, checkpoint, data, loading, misled, tabLoads, snapshots>>

\* A delta is appended to the answer, which is made if it is not on the page.
WithDelta(p, id) ==
  [p EXCEPT !.shown = IF @ = Null THEN <<id>> ELSE Append(@, id),
            !.live = TRUE, !.ref = TRUE, !.stage = "responding",
            !.stream.named = TRUE, !.stream.text = Append(@, id)]

\* An end: run.completed brings the whole answer, the others leave what is shown.
\* The stream is over and its run never attached to again.
WithEnd(p, event) ==
  [p EXCEPT !.shown = IF event = "completed" THEN row.text ELSE @,
            !.live = FALSE, !.ref = FALSE, !.terminal = TRUE,
            !.stage = IF event = "completed" THEN "idle" ELSE "ended",
            !.stream = NoStream]

Handled(p, id) ==
  CASE log[id] = "delta" -> WithDelta(p, id)
    [] log[id] = "progress" -> [p EXCEPT !.stage = "responding"]
    [] OTHER -> WithEnd(p, log[id])

\* consumeSseStream: an event at or before the cursor is skipped, another one is
\* handled, then the cursor moves on and the checkpoint is written.
Receive ==
  /\ tab.stream.on /\ link # Null
  /\ link.wire # <<>>
  /\ LET id == Head(link.wire)
         new == id > tab.stream.cursor
         handled == Handled(tab, id)
     IN CASE new /\ log[id] \in Ends ->
               /\ tab' = handled
               /\ link' = Null
               /\ checkpoint' = Null
               /\ misled' = (misled /\ log[id] # "completed")
          [] new /\ log[id] \notin Ends ->
               /\ tab' = [handled EXCEPT !.stream.cursor = id]
               /\ link' = [link EXCEPT !.wire = Tail(@)]
               /\ checkpoint' = [cursor |-> id, named |-> handled.stream.named,
                                 text |-> handled.stream.text]
               /\ UNCHANGED misled
          [] ~new ->
               /\ link' = [link EXCEPT !.wire = Tail(@)]
               /\ UNCHANGED <<tab, checkpoint, misled>>
  /\ UNCHANGED <<storedRun, data, loading, tabCounts>>

-----------------------------------------------------------------------------
(* Attaching to the run *)

\* streamExistingRun
Attached(p, cursor, named, text) ==
  [p EXCEPT !.stream = [NoStream EXCEPT !.on = TRUE, !.cursor = cursor, !.before = cursor,
                                        !.named = named, !.text = text],
            !.stage = "responding"]

\* A stream that starts at the first event appends to what is shown.
AppendsToText == tab.shown \notin {Null, <<>>}

\* The answer of the request arrives: the run is read from its first event, unless
\* it is read already.
Sent ==
  /\ tab.sends
  /\ LET p == [tab EXCEPT !.sends = FALSE]
     IN IF tab.stream.on \/ tab.terminal
          THEN tab' = p /\ UNCHANGED misled
          ELSE tab' = Attached(p, 0, FALSE, <<>>) /\ misled' = (misled \/ AppendsToText)
  /\ UNCHANGED <<storedRun, link, checkpoint, data, loading, tabCounts>>

TextOf(shown) == IF shown = Null THEN <<>> ELSE shown

\* checkpointMatches
CheckpointMatches(named, shown) ==
  checkpoint # Null /\ checkpoint.named = named /\ checkpoint.text = TextOf(shown)

\* The answer is emptied to be replayed from the first event ...
Emptied(p) == [p EXCEPT !.shown = IF @ = Null THEN Null ELSE <<>>, !.live = TRUE]

\* ... unless the checkpoint is one of exactly the text that is shown.
Reattach(named, shown, p) ==
  LET matches == CheckpointMatches(named, shown)
      replays == named /\ ~matches
  IN /\ tab' = Attached(IF replays THEN Emptied(p) ELSE p,
                         IF matches THEN checkpoint.cursor ELSE 0, named,
                         IF matches THEN TextOf(shown) ELSE <<>>)
     /\ checkpoint' = IF replays THEN Null ELSE checkpoint
     /\ misled' = IF replays THEN FALSE ELSE misled \/ (~named /\ AppendsToText)
     /\ link' = Null

\* The effect that attaches to an active run of the snapshot, once in the life of
\* the page.
AttachAutomatically ==
  /\ data # Null
  /\ data.active
  /\ ~tab.stream.on /\ ~tab.automatic /\ ~tab.terminal
  /\ Reattach(data.named, IF data.named THEN data.text ELSE Null,
              [tab EXCEPT !.automatic = TRUE, !.ref = @ \/ data.named])
  /\ UNCHANGED <<storedRun, data, loading, tabCounts>>

\* resumeActiveResponse
Resume ==
  /\ tab.stage = "lost" /\ ~tab.terminal /\ ~tab.stream.on
  /\ LET named == tab.ref \/ (tab.shown # Null /\ tab.live)
     IN Reattach(named, IF named THEN tab.shown ELSE Null, tab)
  /\ UNCHANGED <<storedRun, data, loading, tabCounts>>

\* stopResponse: the request is acknowledged unless the run has ended; the stream
\* is aborted and what is shown stays.
Stop ==
  /\ apiState = "up" /\ tab.stage \in {"responding", "lost"} /\ row.status = "active"
  /\ row' = [row EXCEPT !.cancel = TRUE]
  /\ tab' = [tab EXCEPT !.terminal = TRUE, !.stream = NoStream, !.live = FALSE,
                          !.ref = FALSE, !.stage = "ended"]
  /\ checkpoint' = Null
  /\ link' = Null
  /\ UNCHANGED <<log, apiState, data, loading, misled, tabCounts>>

-----------------------------------------------------------------------------
(* Loading and snapshots *)

\* The page is loaded again; another tab has a sessionStorage of its own.
OpenTab ==
  /\ tabLoads < MaxTabs
  /\ tabLoads' = tabLoads + 1
  /\ tab' = Loaded
  /\ checkpoint' \in {checkpoint, Null}
  /\ data' = Null /\ loading' = Null /\ link' = Null /\ misled' = FALSE
  /\ UNCHANGED <<storedRun, breaks, snapshots>>

\* bootstrap asks for its parts together.
AskSnapshot ==
  /\ apiState = "up" /\ loading = Null /\ snapshots < MaxSnapshots
  /\ snapshots' = snapshots + 1
  /\ loading' = [events |-> FALSE, runs |-> FALSE, active |-> FALSE, named |-> FALSE,
               shown |-> Null, live |-> FALSE]
  /\ UNCHANGED <<storedRun, link, tab, checkpoint, data, misled, breaks, tabLoads>>

\* GET /events
ReadEvents ==
  /\ loading # Null /\ apiState = "up"
  /\ ~loading.events
  /\ loading' = [loading EXCEPT !.events = TRUE,
                            !.shown = IF row.named THEN row.text ELSE Null,
                            !.live = row.named /\ row.status = "active"]
  /\ UNCHANGED <<storedRun, link, tab, checkpoint, data, misled, tabCounts>>

\* GET /runs?status=active
ReadRuns ==
  /\ loading # Null /\ apiState = "up"
  /\ ~loading.runs
  /\ loading' = [loading EXCEPT !.runs = TRUE, !.active = (row.status = "active"),
                            !.named = row.named]
  /\ UNCHANGED <<storedRun, link, tab, checkpoint, data, misled, tabCounts>>

\* An answer that is being streamed stays as it is shown if the snapshot names it.
KeepsLiveText(snapshot) == tab.hydrated /\ tab.stream.on /\ snapshot.active /\ snapshot.named

\* The hydration effect and applyRunRecovery: without an active run in the
\* snapshot the progress of one is given up.
Hydrate ==
  /\ loading # Null
  /\ loading.events /\ loading.runs
  /\ data' = [active |-> loading.active, named |-> loading.named, text |-> loading.shown]
  /\ loading' = Null
  /\ LET kept == KeepsLiveText(loading)
     IN tab' = [tab EXCEPT !.hydrated = TRUE,
                             !.shown = IF kept THEN @ ELSE loading.shown,
                             !.live = IF kept THEN @ ELSE loading.live,
                             !.stage = IF loading.active \/ @ = "idle" THEN @ ELSE "idle"]
  /\ misled' = IF tab.stream.on
                 THEN misled \/ ~(loading.active /\ loading.named)
                 ELSE FALSE
  /\ UNCHANGED <<storedRun, link, checkpoint, tabCounts>>

StreamNext ==
  \/ PostMessage \/ StreamAnswer \/ StreamDelta \/ (\E event \in Ends : End(event))
  \/ ApiDies \/ ApiStarts
  \/ Connect \/ Break \/ Receive
  \/ Sent \/ AttachAutomatically \/ Resume \/ Stop
  \/ OpenTab \/ AskSnapshot \/ ReadEvents \/ ReadRuns \/ Hydrate

StreamSpec == StreamInit /\ [][StreamNext]_streamVars

-----------------------------------------------------------------------------
(* Properties *)

Ids == 1..(MaxLog + 1)

StreamTypeOK ==
  /\ log \in Seq({"progress", "delta"} \cup Ends)
  /\ row.status \in {"absent", "active", "ended"}
  /\ row.text \in Seq(Ids)
  /\ apiState \in {"up", "down"}
  /\ link = Null \/ link.wire \in Seq(Ids)
  /\ tab.shown = Null \/ tab.shown \in Seq(Ids)
  /\ tab.stage \in {"idle", "responding", "lost", "ended"}
  /\ tab.stream.attempts \in 0..MaxAttempts
  /\ checkpoint = Null \/ checkpoint.cursor \in Ids
  /\ misled \in BOOLEAN

\* What the page shows of an answer is the beginning of what the run streamed:
\* every delta once and in its order, whatever reconnects, reloads, snapshots and
\* resumptions come between; and while it is streamed, exactly what came up to the
\* cursor, so that nothing before it is missed.  The exceptions are recorded in
\* misled (App.tsx, the tests "recovers an active run after refresh ... without
\* duplicating persisted partial text").
ShownIsStreamed ==
  ~misled => /\ tab.shown # Null => IsPrefix(tab.shown, Text(Len(log)))
             /\ tab.stream.on => TextOf(tab.shown) = Text(tab.stream.cursor)
==============================================================================

----------------------------- MODULE EventPipeline -----------------------------
(***************************************************************************)
(* The events of one execution, from the provider to a reader of the       *)
(* stream.  runAgent turns the deltas of a request into message updates,   *)
(* and takes them back when the request is retried; it and pollControls    *)
(* call emit, which serialises hooks and sink; the sink is AppendRunEvent, *)
(* a transaction that takes the next seq and commits later.  The API       *)
(* writes events of the run too.  streamRunEvents polls the committed      *)
(* ones, follows its cursor, and ends after the run is terminal.           *)
(***************************************************************************)
EXTENDS Naturals, FiniteSets, SequencesExt

CONSTANTS
  MaxRetries,   \* attempts of complete, beyond the first
  MaxDeltas,    \* bound: deltas of one attempt
  MaxOthers,    \* bound: events of pollControls and of the API
  Limit         \* LIMIT of ListRunEvents

ASSUME PipelineAssumption ==
  /\ {MaxRetries, MaxDeltas, MaxOthers} \subseteq Nat
  /\ Limit \in Nat \ {0}

Emitters == {"loop", "controls"}  \* the goroutines that call emit
Writers  == Emitters \cup {"api"}

VARIABLES
  phase,      \* of runAgent: one request, then the end of the run
  attempt,    \* of complete
  partial,    \* the message streamed so far: for every delta, its attempt
  others,     \* events of pollControls and of the API
  call,       \* the event each writer has in hand
  holder,     \* who holds emitMu
  sequence,   \* execution.sequence
  eventErr,   \* execution.eventErr is set, the context is cancelled
  nextSeq,    \* AUTO_INCREMENT of agent_events
  log,        \* committed rows, in the order of their commits
  terminal,   \* the run's status is terminal
  reader      \* the stream: connected, cursor, rows received

engine   == <<phase, attempt, partial, others>>
pipeline == <<call, holder, sequence, eventErr, nextSeq, log, terminal>>
pipeVars == <<phase, attempt, partial, others, call, holder, sequence,
              eventErr, nextSeq, log, terminal, reader>>

\* step: wanted, emitted (holds emitMu), inserted (has its seq).
Event(kind, text) == [kind |-> kind, text |-> text, step |-> "wanted", n |-> 0, seq |-> 0]
NoEvent == Event("none", <<>>)

PipelineInit ==
  /\ phase = "streaming" /\ attempt = 0 /\ partial = <<>>
  /\ others = 0
  /\ call = [w \in Writers |-> NoEvent]
  /\ holder = "none" /\ sequence = 0 /\ eventErr = FALSE
  /\ nextSeq = 0 /\ log = <<>> /\ terminal = FALSE
  /\ reader = [on |-> TRUE, terminal |-> FALSE, after |-> 0, got |-> <<>>]

Free(w) == call[w] = NoEvent
Emit(w, kind, text) == Free(w) /\ call' = [call EXCEPT ![w] = Event(kind, text)]

-----------------------------------------------------------------------------
(* runAgent and complete.                                                  *)

Loop(from, to, kind, text) ==
  /\ phase = from /\ phase' = to
  /\ Emit("loop", kind, text)
  /\ UNCHANGED <<others, holder, sequence, eventErr, nextSeq, log,
                 terminal, reader>>

\* onDelta extends the partial message and reports it; once the pipeline has
\* failed it returns the error instead.
Delta ==
  /\ ~eventErr
  /\ Cardinality({i \in DOMAIN partial : partial[i] = attempt}) < MaxDeltas
  /\ partial' = Append(partial, attempt)
  /\ Loop("streaming", "streaming", "update", <<attempt>>)
  /\ UNCHANGED attempt

\* A retryable error: the retry is reported, the partial message is dropped,
\* and so are the updates that readers have seen.
ProviderRetry ==
  /\ attempt < MaxRetries /\ ~eventErr
  /\ Loop("streaming", "retrying", "retry", <<>>)
  /\ UNCHANGED <<attempt, partial>>

\* A slip, for the check of the properties: the partial message survives the retry.
BadMessageReset ==
  /\ Loop("retrying", "backoff", "reset", <<>>)
  /\ UNCHANGED <<attempt, partial>>

MessageReset ==
  /\ Loop("retrying", "backoff", "reset", <<>>)
  /\ partial' = <<>>
  /\ UNCHANGED attempt

BackoffEnds ==
  /\ phase = "backoff" /\ Free("loop") /\ ~eventErr
  /\ phase' = "streaming" /\ attempt' = attempt + 1
  /\ UNCHANGED <<partial, others, pipeline, reader>>

\* The answer is what was streamed; after the last error, or when the
\* context is cancelled, it is an empty message with a stop reason.
MessageEnd ==
  /\ \/ Loop("streaming", "ending", "end", partial)
     \/ Loop("streaming", "ending", "end", <<>>)
     \/ eventErr /\ Loop("backoff", "ending", "end", <<>>)
  /\ UNCHANGED <<attempt, partial>>

RunCompleted ==
  /\ Loop("ending", "over", "completed", <<>>)
  /\ UNCHANGED <<attempt, partial>>

\* pollControls reports a control; the API cancels the run or records a
\* decision.
ControlAccepted ==
  /\ others < MaxOthers /\ phase # "over"
  /\ others' = others + 1
  /\ Emit("controls", "accepted", <<>>)
  /\ UNCHANGED <<phase, attempt, partial, holder, sequence, eventErr, nextSeq, log,
                 terminal, reader>>

ApiRequest ==
  /\ others < MaxOthers
  /\ others' = others + 1
  /\ \E kind \in {"cancelled", "decided"} : Emit("api", kind, <<>>)
  /\ UNCHANGED <<phase, attempt, partial, holder, sequence, eventErr, nextSeq, log,
                 terminal, reader>>

-----------------------------------------------------------------------------
(* emit and AppendRunEvent.                                                *)

Step(w, step, n, seq) ==
  call' = [call EXCEPT ![w] = [kind |-> @.kind, text |-> @.text, step |-> step,
                               n |-> n, seq |-> seq]]

\* A slip, for the check of the properties: emit does not wait for the mutex.
BadLock(g) ==
  /\ call[g].step = "wanted" /\ ~Free(g)
  /\ ~eventErr
  /\ sequence' = sequence + 1
  /\ holder' = g
  /\ Step(g, "emitted", sequence + 1, 0)
  /\ UNCHANGED <<engine, eventErr, nextSeq, log, terminal, reader>>

\* emit takes emitMu and a number, or returns the error that closed the
\* pipeline.
Lock(g) ==
  /\ call[g].step = "wanted" /\ ~Free(g)
  /\ holder = "none" /\ ~eventErr
  /\ sequence' = sequence + 1
  /\ holder' = g
  /\ Step(g, "emitted", sequence + 1, 0)
  /\ UNCHANGED <<engine, eventErr, nextSeq, log, terminal, reader>>

Refuse(g) ==
  /\ call[g].step = "wanted" /\ ~Free(g)
  /\ holder = "none" /\ eventErr
  /\ call' = [call EXCEPT ![g] = NoEvent]
  /\ UNCHANGED <<engine, holder, sequence, eventErr, nextSeq, log,
                 terminal, reader>>

\* The row gets its seq when it is inserted, and others see it when the
\* transaction commits.
Insert(w) ==
  /\ ~Free(w)
  /\ call[w].step = IF w = "api" THEN "wanted" ELSE "emitted"
  /\ nextSeq' = nextSeq + 1
  /\ Step(w, "inserted", call[w].n, nextSeq + 1)
  /\ UNCHANGED <<engine, holder, sequence, eventErr, log, terminal, reader>>

Row(w) == [by |-> w, kind |-> call[w].kind, text |-> call[w].text,
           n |-> call[w].n, seq |-> call[w].seq]

Commit(w) ==
  /\ log' = Append(log, Row(w))
  /\ terminal' = (terminal \/ call[w].kind \in {"completed", "cancelled"})

Release(w) ==
  /\ call' = [call EXCEPT ![w] = NoEvent]
  /\ holder' = IF w = "api" THEN holder ELSE "none"

CommitEvent(w) ==
  /\ call[w].step = "inserted"
  /\ Commit(w) /\ Release(w)
  /\ UNCHANGED <<engine, sequence, eventErr, nextSeq, reader>>

\* A hook or the sink fails, maybe only after the commit: the pipeline is
\* closed for good.
failEventPipeline(g) ==
  /\ call[g].step \in {"emitted", "inserted"}
  /\ Release(g)
  /\ eventErr' = TRUE
  /\ \/ UNCHANGED <<log, terminal>>
     \/ call[g].step = "inserted" /\ Commit(g)
  /\ UNCHANGED <<engine, sequence, nextSeq, reader>>

-----------------------------------------------------------------------------
(* streamRunEvents.                                                        *)

\* A slip, for the check of the properties: rows come in the order of their commits.
BadListRunEvents(after) ==
  LET rows == SelectSeq(log, LAMBDA r : r.seq > after)
  IN  SubSeq(rows, 1, IF Len(rows) < Limit THEN Len(rows) ELSE Limit)

\* ListRunEvents: the committed rows after the cursor, by seq, at most Limit.
\* The k-th of them is the one that has k - 1 of them before it.
After(after)     == {i \in DOMAIN log : log[i].seq > after}
Before(after, i) == {j \in After(after) : log[j].seq < log[i].seq}

ListRunEvents(after) ==
  LET n == Cardinality(After(after))
  IN  [k \in 1..(IF n < Limit THEN n ELSE Limit) |->
         log[CHOOSE i \in After(after) : Cardinality(Before(after, i)) = k - 1]]

SendEvents ==
  LET rows == ListRunEvents(reader.after)
  IN  /\ reader.on
      /\ rows # <<>>
      /\ reader' = [reader EXCEPT !.got = @ \o rows, !.after = Last(rows).seq]
      /\ UNCHANGED <<engine, pipeline>>

PollStatus ==
  /\ reader.on /\ ~reader.terminal /\ terminal
  /\ reader' = [reader EXCEPT !.terminal = TRUE]
  /\ UNCHANGED <<engine, pipeline>>

\* A slip, for the check of the properties: the stream waits for the event of
\* the run's completion.
BadEndStream ==
  /\ reader.on /\ reader.got # <<>> /\ Last(reader.got).kind = "completed"
  /\ reader' = [reader EXCEPT !.on = FALSE]
  /\ UNCHANGED <<engine, pipeline>>

EndStream ==
  /\ reader.on /\ reader.terminal
  /\ ListRunEvents(reader.after) = <<>>
  /\ reader' = [reader EXCEPT !.on = FALSE]
  /\ UNCHANGED <<engine, pipeline>>

\* The connection breaks at any point of a batch, and the client comes back
\* with the id of the last event it got.
Reconnect ==
  /\ \E k \in 0..Len(ListRunEvents(reader.after)) :
       LET rows == SubSeq(ListRunEvents(reader.after), 1, k)
       IN  /\ reader.on /\ k > 0
           /\ reader' = [on |-> TRUE, terminal |-> terminal,
                         got |-> reader.got \o rows, after |-> Last(rows).seq]
  /\ UNCHANGED <<engine, pipeline>>

Emitting(g) == Lock(g) \/ Refuse(g) \/ Insert(g) \/ CommitEvent(g) \/ failEventPipeline(g)

PipelineNext ==
  \/ Delta \/ ProviderRetry \/ MessageReset \/ BackoffEnds \/ MessageEnd \/ RunCompleted
  \/ ControlAccepted \/ ApiRequest
  \/ \E g \in Emitters : Emitting(g)
  \/ Insert("api") \/ CommitEvent("api")
  \/ SendEvents \/ PollStatus \/ EndStream \/ Reconnect

PipelineSpec == PipelineInit /\ [][PipelineNext]_pipeVars

\* streamRunEvents is a loop with a ticker.
Streaming == SendEvents \/ PollStatus \/ EndStream
PipelineFairness == WF_pipeVars(Streaming)

-----------------------------------------------------------------------------
(* Properties.                                                             *)

\* "serialize the complete extension + sink pipeline to keep sequence numbers
\* and persisted order identical" (runtime.go:1618): what two goroutines of an
\* execution emit is persisted in the order of its numbers, without a gap, and
\* nothing is persisted after a failure.
Own(rows, i) == {j \in 1..i : rows[j].by # "api"}
PersistedInOrder ==
  \A i \in Own(log, Len(log)) :
    /\ log[i].n = Cardinality(Own(log, i))
    /\ \A j \in Own(log, i - 1) : log[j].seq < log[i].seq

\* A client that appends the updates it sees and clears its text at a reset
\* ends with the text of the final message, however often the provider failed
\* in the middle of one.
Shown(rows) ==
  LET text[i \in 0..Len(rows)] ==
        IF i = 0 \/ rows[i].kind = "reset" THEN <<>>
        ELSE IF rows[i].kind = "update" THEN text[i - 1] \o rows[i].text
        ELSE text[i - 1]
  IN  text[Len(rows)]
FollowerAgrees ==
  \A i \in DOMAIN log :
    log[i].kind = "end" /\ log[i].text # <<>> => Shown(SubSeq(log, 1, i)) = log[i].text

\* The stream sends rows once and by seq, over reconnections too.  It skips a
\* committed row only if a row with a greater seq was committed before it: the
\* cursor cannot see what a slower transaction still holds.
SkipsOnlyOvertaken ==
  /\ \A i \in DOMAIN reader.got, j \in DOMAIN reader.got :
       i < j => reader.got[i].seq < reader.got[j].seq
  /\ \A i \in DOMAIN log :
       log[i].seq <= reader.after /\ log[i] \notin ToSet(reader.got)
         => \E j \in 1..(i - 1) : log[j].seq > log[i].seq

\* The stream of a run that ends is closed.
StreamEnds == terminal ~> ~reader.on
=============================================================================

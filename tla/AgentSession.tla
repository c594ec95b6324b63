----------------------------- MODULE AgentSession -----------------------------
(***************************************************************************)
(* One run's agent loop and its durable session.  runAgent keeps the       *)
(* session entries in memory, sends the messages they stand for to the     *)
(* provider, runs the tool calls it answers with, and writes the whole     *)
(* entry list to MySQL at two places: a checkpoint before a tool batch and *)
(* a snapshot at the end.  A worker may stop anywhere; another one starts  *)
(* from what was saved.  Meanwhile pollControls, a goroutine of its own,   *)
(* appends the messages users send to the running agent.                   *)
(*                                                                         *)
(* One execution at a time is assumed: that is RunControl's subject.  One  *)
(* verdict stands for the approvals of a run, compaction and extensions    *)
(* are left out.  Operators named Bad are slips that the runs must catch.  *)
(***************************************************************************)
EXTENDS Naturals, SequencesExt

CONSTANTS
  Controls,    \* messages that users may send to the running agent
  Delivery,    \* a control's delivery: "steer" or "follow_up"
  OneAtATime,  \* queue mode: one message per turn, or all
  MaxTurns,    \* MaxTurns of the runtime
  MaxCalls,    \* bound: tool calls in one answer
  MaxAnswers,  \* bound: provider answers
  MaxStarts    \* bound: executions of the run

ASSUME SessionAssumption ==
  /\ Delivery \in [Controls -> {"steer", "follow_up"}]
  /\ OneAtATime \in BOOLEAN
  /\ {MaxTurns, MaxCalls, MaxAnswers, MaxStarts} \subseteq Nat \ {0}

VARIABLES
  stage,      \* agent_runs.status
  verdict,    \* the decision on the run's dangerous calls
  sent,       \* rows of agent_run_controls
  inbox,      \* those with status pending, in order
  saved,      \* agent_session_entries
  copied,     \* sessionEntries of the job payload
  resume,     \* resume of the job payload
  pc,         \* where the execution is; "down" when no worker runs it
  starts,     \* executions so far
  entries,    \* execution.entries
  loaded,     \* how many of them it started from (history)
  stale,      \* they are the job's copy, and nothing is saved yet (history)
  messages,   \* the messages of runAgent
  steering,   \* execution.steering
  followUps,  \* execution.followUps
  accepting,  \* the head of the inbox is appended but not marked delivered
  granted,    \* the execution's copy of the verdict
  turn,       \* requests sent in this execution
  pending,    \* the execution asked for an approval
  batch,      \* progress of executeToolBatch
  answers,    \* what the provider answered (history)
  executed    \* <<answer, call, execution>> of every tool body run (history)

durable == <<stage, verdict, sent, inbox, saved, copied, resume>>
queues  == <<steering, followUps, accepting>>
execution == <<starts, loaded, stale>>
loop    == <<pc, execution, messages, granted, turn, pending>>
history == <<answers, executed>>
vars    == <<stage, verdict, sent, inbox, saved, copied, resume, pc, starts, entries,
             loaded, stale, messages, steering, followUps, accepting, granted, turn,
             pending, batch, answers, executed>>

\* An entry: a prompt, a control (appended when accepted, and again when it
\* is taken from its queue), an assistant answer, or the result of a call.
Kinds == {"prompt", "resume", "accepted", "queued", "control", "assistant", "result"}
Entry == [kind : Kinds, id : Nat \cup Controls, call : Nat]

Prompt       == [kind |-> "prompt", id |-> 0, call |-> 0]
ResumePrompt == [kind |-> "resume", id |-> 0, call |-> 0]
Accepted(c)  == [kind |-> "accepted", id |-> c, call |-> 0]
Queued(c)    == [kind |-> "queued", id |-> c, call |-> 0]
Assistant(g) == [kind |-> "assistant", id |-> g, call |-> 0]
Result(g, k) == [kind |-> "result", id |-> g, call |-> k]

\* What the provider sees of an entry: both entries of a control carry the
\* same user message.
MessageOf(e) ==
  IF e.kind \in {"accepted", "queued"} THEN [e EXCEPT !.kind = "control"] ELSE e
messagesFromEntries(log) == [i \in DOMAIN log |-> MessageOf(log[i])]

Answer == [calls : 0..MaxCalls, dangerous : SUBSET (1..MaxCalls),
           mode : {"parallel", "sequential", "truncated"}]
Batch  == [answer : Nat, prepared : 0..MaxCalls, ready : SUBSET (1..MaxCalls),
           done : SUBSET (1..MaxCalls), recorded : 0..MaxCalls]
NoBatch == [answer |-> 0, prepared |-> 0, ready |-> {}, done |-> {}, recorded |-> 0]

TypeOK ==
  /\ stage \in {"queued", "running", "awaiting_approval", "completed", "failed"}
  /\ verdict \in {"none", "asked", "allow", "deny"}
  /\ sent \subseteq Controls /\ inbox \in Seq(Controls)
  /\ saved \in Seq(Entry) /\ copied \in Seq(Entry) /\ entries \in Seq(Entry)
  /\ messages \in Seq(Entry)
  /\ resume \in BOOLEAN /\ stale \in BOOLEAN /\ accepting \in BOOLEAN /\ pending \in BOOLEAN
  /\ pc \in {"down", "loading", "ask", "asking", "settle", "checkpoint",
             "batch", "ending", "closing"}
  /\ starts \in 0..MaxStarts /\ loaded \in 0..Len(entries)
  /\ steering \in Seq(Controls) /\ followUps \in Seq(Controls)
  /\ granted \in {"none", "asked", "allow", "deny"}
  /\ turn \in 0..MaxTurns
  /\ batch \in Batch
  /\ answers \in Seq(Answer) /\ Len(answers) <= MaxAnswers
  /\ executed \subseteq (1..MaxAnswers) \X (1..MaxCalls) \X (1..MaxStarts)

Init ==
  /\ stage = "queued" /\ verdict = "none"
  /\ sent = {} /\ inbox = <<>> /\ saved = <<>> /\ copied = <<>> /\ resume = FALSE
  /\ pc = "down" /\ starts = 0
  /\ entries = <<>> /\ loaded = 0 /\ stale = FALSE /\ messages = <<>>
  /\ steering = <<>> /\ followUps = <<>> /\ accepting = FALSE
  /\ granted = "none" /\ turn = 0 /\ pending = FALSE
  /\ batch = NoBatch
  /\ answers = <<>> /\ executed = {}

Goto(from, to) == pc = from /\ pc' = to

-----------------------------------------------------------------------------
(* Users.                                                                  *)

EnqueueRunControl(c) ==
  /\ stage = "running"
  /\ c \notin sent
  /\ sent' = sent \cup {c}
  /\ inbox' = Append(inbox, c)
  /\ UNCHANGED <<stage, verdict, saved, copied, resume, loop, entries, queues,
                 batch, history>>

\* The decision, and the entries saved so far, go into the job payload.
DecideApproval(d) ==
  /\ verdict = "asked" /\ pc = "down"
  /\ verdict' = d
  /\ stage' = IF stage = "awaiting_approval" THEN "queued" ELSE stage
  /\ copied' = saved
  /\ resume' = TRUE
  /\ UNCHANGED <<sent, inbox, saved, loop, entries, queues, batch, history>>

-----------------------------------------------------------------------------
(* The start of an execution, and its sudden end.                          *)

\* A slip, for the check of the properties: the session is not read anew.
BadSource(failed) == copied
\* processJob reads the session anew, and keeps the job's copy if that fails.
Source(failed) == IF failed THEN copied ELSE saved

StartRun ==
  /\ stage \in {"queued", "running", "failed"}
  /\ starts < MaxStarts
  /\ Goto("down", "loading")
  /\ starts' = starts + 1
  /\ stage' = "running"
  /\ stale' \in {FALSE, copied # saved}
  /\ entries' = Source(stale') /\ loaded' = Len(entries')
  /\ granted' = verdict
  /\ UNCHANGED <<verdict, sent, inbox, saved, copied, resume, messages, turn, pending,
                 queues, batch, history>>

BeginBatch(g) == [NoBatch EXCEPT !.answer = g]

\* A slip, for the check of the properties: a batch is never resumed.
BadNeverPending(log) == FALSE
\* A slip, for the check of the properties: a batch that has results is pending again.
BadPendingResults(log) ==
  /\ log # <<>> /\ Last(log).kind \in {"assistant", "result"}
  /\ answers[Last(log).id].calls > 0
hasPendingToolCalls(log) ==
  log # <<>> /\ Last(log).kind = "assistant" /\ answers[Last(log).id].calls > 0

\* runAgent resumes the tool batch of the last answer, or adds the prompt.
LoadMessages ==
  /\ pc = "loading"
  /\ IF hasPendingToolCalls(entries)
       THEN /\ messages' = messagesFromEntries(entries)
            /\ batch' = BeginBatch(Last(entries).id)
            /\ pc' = "batch"
            /\ UNCHANGED entries
       ELSE LET prompt == IF resume THEN ResumePrompt ELSE Prompt IN
            /\ entries' = Append(entries, prompt)
            /\ messages' = Append(messagesFromEntries(entries), prompt)
            /\ pc' = "ask"
            /\ UNCHANGED batch
  /\ UNCHANGED <<durable, execution, granted, turn, pending, queues, history>>

Down ==
  /\ pc' = "down"
  /\ entries' = <<>> /\ loaded' = 0 /\ stale' = FALSE /\ messages' = <<>>
  /\ steering' = <<>> /\ followUps' = <<>> /\ accepting' = FALSE
  /\ granted' = "none" /\ turn' = 0 /\ pending' = FALSE
  /\ batch' = NoBatch

\* A crash, a lost lease, a cancelled context or a failed event write: no
\* later event of the execution reaches the database.
Stop ==
  /\ pc # "down"
  /\ Down
  /\ UNCHANGED <<durable, starts, history>>

-----------------------------------------------------------------------------
(* pollControls runs beside the loop until runAgent's caller returns.      *)

\* The oldest of the messages that are still pending.
PendingRunControls == {inbox[i] : i \in DOMAIN inbox \cap {1}}

AcceptControl ==
  /\ pc # "down" /\ ~accepting
  /\ \E c \in PendingRunControls :
       /\ entries' = Append(entries, Accepted(c))
       /\ IF Delivery[c] = "steer"
            THEN steering' = Append(steering, c) /\ UNCHANGED followUps
            ELSE followUps' = Append(followUps, c) /\ UNCHANGED steering
  /\ accepting' = TRUE
  /\ UNCHANGED <<durable, loop, batch, history>>

\* control.accepted is written and the control is marked delivered.
MarkRunControlDelivered ==
  /\ accepting
  /\ accepting' = FALSE
  /\ inbox' = Tail(inbox)
  /\ UNCHANGED <<stage, verdict, sent, saved, copied, resume, loop, entries, steering,
                 followUps, batch, history>>

-----------------------------------------------------------------------------
(* The loop of runAgent.                                                   *)

Taken(queue) == IF OneAtATime THEN SubSeq(queue, 1, 1) ELSE queue
\* A slip, for the check of the properties: what was taken stays in the queue.
BadLeft(queue) == IF OneAtATime THEN queue ELSE <<>>
Left(queue)  == IF OneAtATime THEN Tail(queue) ELSE <<>>

\* injectQueuedMessages: drained messages become entries a second time.
Inject(queue) ==
  LET new == [i \in DOMAIN Taken(queue) |-> Queued(Taken(queue)[i])] IN
  /\ entries' = entries \o new
  /\ messages' = messages \o messagesFromEntries(new)

\* The bound is off by one.
BadTurnsLeft == turn <= MaxTurns

TurnsLeft == turn < MaxTurns

Ask ==
  /\ TurnsLeft
  /\ Goto("ask", "asking")
  /\ turn' = turn + 1
  /\ IF steering = <<>>
       THEN UNCHANGED <<entries, messages, steering>>
       ELSE Inject(steering) /\ steering' = Left(steering)
  /\ UNCHANGED <<durable, execution, followUps, accepting, granted, pending, batch, history>>

\* run.failed, without a last snapshot; the job is tried again.
ExceedTurns ==
  /\ pc = "ask" /\ ~TurnsLeft
  /\ stage' = IF stage = "running" THEN "failed" ELSE stage
  /\ Down
  /\ UNCHANGED <<verdict, sent, inbox, saved, copied, resume, starts, history>>

Receive(answer) ==
  /\ Len(answers) < MaxAnswers
  /\ answers' = Append(answers, answer)
  /\ entries' = Append(entries, Assistant(Len(answers) + 1))
  /\ messages' = Append(messages, Assistant(Len(answers) + 1))

\* The provider's failure becomes an assistant message and ends the run
\* like a text does, but queued messages are not looked at.
AnswerText(failed) ==
  /\ Goto("asking", IF failed THEN "ending" ELSE "settle")
  /\ Receive([calls |-> 0, dangerous |-> {}, mode |-> "parallel"])
  /\ UNCHANGED <<durable, execution, queues, granted, turn, pending, batch, executed>>

AnswerCalls(n, dangerous, mode) ==
  /\ Goto("asking", "checkpoint")
  /\ Receive([calls |-> n, dangerous |-> dangerous, mode |-> mode])
  /\ UNCHANGED <<durable, execution, queues, granted, turn, pending, batch, executed>>

\* After a text: steering first, then follow-ups, else the agent ends.
Settle ==
  /\ pc = "settle"
  /\ \/ /\ steering # <<>>
        /\ Inject(steering) /\ steering' = Left(steering)
        /\ pc' = "ask"
        /\ UNCHANGED followUps
     \/ /\ steering = <<>> /\ followUps # <<>>
        /\ Inject(followUps) /\ followUps' = Left(followUps)
        /\ pc' = "ask"
        /\ UNCHANGED steering
     \/ /\ steering = <<>> /\ followUps = <<>>
        /\ pc' = "ending"
        /\ UNCHANGED <<entries, messages, steering, followUps>>
  /\ UNCHANGED <<durable, execution, accepting, granted, turn, pending, batch, history>>

\* The assistant message with its calls is saved before a call runs.  The
\* calls of an answer cut off at the token limit only get error results.
failTruncatedToolCalls(g) ==
  [BeginBatch(g) EXCEPT !.prepared = answers[g].calls, !.done = 1..answers[g].calls]

FirstBatch(g) ==
  IF answers[g].mode = "truncated" THEN failTruncatedToolCalls(g) ELSE BeginBatch(g)

Checkpoint ==
  /\ Goto("checkpoint", "batch")
  /\ saved' = entries /\ stale' = FALSE
  /\ batch' = FirstBatch(Len(answers))
  /\ UNCHANGED <<stage, verdict, sent, inbox, copied, resume, starts, loaded, entries,
                 messages, queues, granted, turn, pending, history>>

-----------------------------------------------------------------------------
(* executeToolBatch: calls are prepared in order; unless a tool demands    *)
(* the sequential mode, all are prepared first, then run concurrently, and *)
(* their results are recorded in order.                                    *)

Current    == answers[batch.answer]
Sequential == Current.mode = "sequential"

\* A bash command, a project's agent or an MCP tool that wants a decision.
requiresApproval(k) == k \in Current.dangerous
NeedsApproval(k) == requiresApproval(k) /\ granted # "allow"

Prepare ==
  /\ pc = "batch" /\ batch.prepared < Current.calls
  /\ Sequential => batch.recorded = batch.prepared
  /\ LET k == batch.prepared + 1 IN
       \* allowed to run
       \/ /\ ~NeedsApproval(k)
          /\ batch' = [batch EXCEPT !.prepared = k, !.ready = @ \cup {k}]
          /\ UNCHANGED <<pending, verdict, stage>>
       \* unknown tool, invalid arguments, or denied
       \/ /\ NeedsApproval(k) => granted = "deny"
          /\ batch' = [batch EXCEPT !.prepared = k, !.done = @ \cup {k}]
          /\ UNCHANGED <<pending, verdict, stage>>
       \* approval.requested
       \/ /\ NeedsApproval(k) /\ granted # "deny"
          /\ batch' = [batch EXCEPT !.prepared = k, !.done = @ \cup {k}]
          /\ pending' = TRUE
          /\ verdict' = IF verdict = "none" THEN "asked" ELSE verdict
          /\ stage' = IF stage = "running" THEN "awaiting_approval" ELSE stage
  /\ UNCHANGED <<sent, inbox, saved, copied, resume, pc, execution, entries, messages,
                 queues, granted, turn, history>>

Execute(k) ==
  /\ pc = "batch" /\ k \in batch.ready \ batch.done
  /\ Sequential \/ batch.prepared = Current.calls
  /\ executed' = executed \cup {<<batch.answer, k, starts>>}
  /\ batch' = [batch EXCEPT !.done = @ \cup {k}]
  /\ UNCHANGED <<durable, loop, entries, queues, answers>>

RecordToolOutcome ==
  LET k == batch.recorded + 1 IN
  /\ pc = "batch" /\ k <= Current.calls
  /\ k \in batch.done
  /\ Sequential \/ 1..Current.calls \subseteq batch.done
  /\ entries' = Append(entries, Result(batch.answer, k))
  /\ messages' = Append(messages, Result(batch.answer, k))
  /\ batch' = [batch EXCEPT !.recorded = k]
  /\ UNCHANGED <<durable, pc, execution, granted, turn, pending, queues, history>>

\* Only a tool that ran can ask to terminate.
shouldTerminateToolOutcomes == batch.ready = 1..Current.calls

\* A pending approval, or tools that all ran and ask to terminate, end the
\* agent.
FinishBatch(terminate) ==
  /\ Goto("batch", IF pending \/ terminate THEN "ending" ELSE "ask")
  /\ batch.recorded = Current.calls
  /\ terminate => shouldTerminateToolOutcomes
  /\ batch' = NoBatch
  /\ UNCHANGED <<durable, execution, entries, messages, queues, granted, turn, pending, history>>

Snapshot ==
  /\ Goto("ending", "closing")
  /\ saved' = entries /\ stale' = FALSE
  /\ UNCHANGED <<stage, verdict, sent, inbox, copied, resume, starts, loaded, entries,
                 messages, queues, granted, turn, pending, batch, history>>

\* run.paused or run.completed.
Finish ==
  /\ pc = "closing"
  /\ stage' = IF ~pending /\ stage = "running" THEN "completed" ELSE stage
  /\ Down
  /\ UNCHANGED <<verdict, sent, inbox, saved, copied, resume, starts, history>>

-----------------------------------------------------------------------------
Users ==
  \/ \E c \in Controls : EnqueueRunControl(c)
  \/ \E d \in {"allow", "deny"} : DecideApproval(d)

Loop ==
  \/ LoadMessages \/ Ask \/ ExceedTurns \/ Settle \/ Checkpoint
  \/ \E failed \in BOOLEAN : AnswerText(failed)
  \/ \E n \in 1..MaxCalls, mode \in {"parallel", "sequential", "truncated"} :
       \E dangerous \in SUBSET (1..n) : AnswerCalls(n, dangerous, mode)
  \/ Prepare \/ RecordToolOutcome
  \/ \E k \in 1..MaxCalls : Execute(k)
  \/ \E terminate \in BOOLEAN : FinishBatch(terminate)
  \/ Snapshot \/ Finish

Next ==
  \/ Users
  \/ StartRun \/ Stop
  \/ AcceptControl \/ MarkRunControlDelivered
  \/ Loop

Spec == Init /\ [][Next]_vars

-----------------------------------------------------------------------------
(* Properties.                                                             *)

\* A request shows the provider every tool call with its results right behind
\* it, unless a control has come between them in the session, whatever crashes,
\* pauses and resumed batches there were (checkpointResume, RecordToolOutcome).
UndisturbedCallsAnswered ==
  pc = "asking" =>
    \A i \in DOMAIN messages :
      messages[i].kind = "assistant" =>
        LET results == i+1..i + answers[messages[i].id].calls IN
        \/ \E j \in results \cap DOMAIN messages : messages[j].kind = "control"
        \/ \A j \in results : /\ j <= Len(messages)
                             /\ messages[j] = Result(messages[i].id, j - i)

\* A request never shows the provider a tool call without its result: every
\* answer with calls is followed by exactly the results of its calls.
CallsAnswered ==
  pc = "asking" =>
    \A i \in DOMAIN messages :
      messages[i].kind = "assistant" =>
        \A k \in 1..answers[messages[i].id].calls :
          i + k <= Len(messages) /\ messages[i + k] = Result(messages[i].id, k)

\* What an execution builds on: the saved entries, or, if it could not read
\* them, those that the last decision copied into the job.
Basis == IF stale THEN copied ELSE saved

\* A call whose result was saved is never run again, whatever crashes or
\* retries follow: a resumed batch is one none of whose results was saved.
\* processJob ignores a failed read of the session (main.go:214), and its
\* execution then knows the results saved before the last decision only.
SavedResultsStand ==
  [][\A i \in DOMAIN Basis : Basis[i].kind = "result" =>
       \A e \in executed' \ executed : <<e[1], e[2]>> # <<Basis[i].id, Basis[i].call>>]_vars

\* Rewriting the session drops nothing that was saved before the last decision,
\* and nothing that an execution saved which read the session, or saved it once
\* before (persistSessionSnapshot deletes all entries and inserts the new list).
SessionGrows == [][IsPrefix(copied, saved') /\ IsPrefix(Basis, saved')]_saved

\* The calls of an answer cut off at the token limit are never executed.
TruncatedNeverRun ==
  \A e \in executed : answers[e[1]].mode # "truncated"

\* Within one execution a control is accepted at most once, and the provider
\* gets it at most once; the controls of one delivery reach it in the order in
\* which the users sent them.
ControlsInOrder ==
  LET own == loaded+1..Len(entries) IN
  \A i, j \in own :
    /\ entries[i].kind = "accepted" /\ entries[i] = entries[j] => i = j
    /\ /\ i < j /\ entries[i].kind = "queued" /\ entries[j].kind = "queued"
       /\ Delivery[entries[i].id] = Delivery[entries[j].id]
       => \E a, b \in own : /\ a < b
                            /\ entries[a] = Accepted(entries[i].id)
                            /\ entries[b] = Accepted(entries[j].id)
=============================================================================

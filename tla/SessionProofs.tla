----------------------------- MODULE SessionProofs -----------------------------
(***************************************************************************)
(* Theorems about AgentSession for any controls, turns, calls, answers and *)
(* executions.                                                             *)
(***************************************************************************)
EXTENDS AgentSession, SequenceTheorems, TLAPS

\* The answers an entry list speaks of are there.
Known(log) ==
  \A i \in 1..Len(log) : log[i].kind \in {"assistant", "result"} => log[i].id \in 1..Len(answers)

TypeInv ==
  /\ TypeOK
  /\ Known(saved) /\ Known(copied) /\ Known(entries)
  /\ pc # "down" => starts \in 1..MaxStarts
  /\ pc = "batch" => batch.answer \in 1..Len(answers)
  /\ pc = "checkpoint" => answers # <<>>
  /\ accepting => inbox # <<>>

\* Prompts and controls.
Plain(log) == \A i \in 1..Len(log) : log[i].kind \notin {"assistant", "result"}

-----------------------------------------------------------------------------
(* Entry lists.                                                            *)

LEMMA EntryTypes ==
  /\ Prompt \in Entry /\ ResumePrompt \in Entry
  /\ \A c \in Controls : Accepted(c) \in Entry /\ Queued(c) \in Entry
  /\ \A g \in Nat : Assistant(g) \in Entry
  /\ \A g, k \in Nat : Result(g, k) \in Entry
  /\ \A e \in Entry : MessageOf(e) \in Entry
  BY DEF Entry, Kinds, Prompt, ResumePrompt, Accepted, Queued, Assistant, Result, MessageOf

LEMMA MessagesType ==
  ASSUME NEW log \in Seq(Entry)
  PROVE  messagesFromEntries(log) \in Seq(Entry)
<1>1. DOMAIN log = 1..Len(log) /\ Len(log) \in Nat
  OBVIOUS
<1>2. messagesFromEntries(log) \in [1..Len(log) -> Entry]
  BY <1>1, EntryTypes, ElementOfSeq DEF messagesFromEntries
<1> QED
  BY <1>1, <1>2, SeqDef

LEMMA OneEntry ==
  ASSUME NEW log \in Seq(Entry), NEW e \in Entry
  PROVE  /\ <<e>> \in Seq(Entry) /\ Len(<<e>>) = 1 /\ <<e>>[1] = e
         /\ Append(log, e) = log \o <<e>>
         /\ Append(log, e) \in Seq(Entry)
<1>1. <<e>> \in Seq(Entry) /\ Len(<<e>>) = 1 /\ <<e>>[1] = e
  OBVIOUS
<1>2. /\ Append(log, e) \in Seq(Entry) /\ Len(Append(log, e)) = Len(log) + 1
      /\ \A i \in 1..Len(log) + 1 :
           Append(log, e)[i] = IF i <= Len(log) THEN log[i] ELSE e
  BY AppendProperties
<1>3. /\ log \o <<e>> \in Seq(Entry) /\ Len(log \o <<e>>) = Len(log) + 1
      /\ \A i \in 1..Len(log) + 1 :
           (log \o <<e>>)[i] = IF i <= Len(log) THEN log[i] ELSE e
  BY <1>1, ConcatProperties
<1> QED
  BY <1>1, <1>2, <1>3, SeqEqual

\* The messages of a queue become a list of entries.
LEMMA TakenType ==
  ASSUME NEW queue \in Seq(Controls), queue # <<>>
  PROVE  LET new == [i \in DOMAIN Taken(queue) |-> Queued(Taken(queue)[i])]
         IN  new \in Seq(Entry) /\ Plain(new)
<1> DEFINE q == Taken(queue)
           new == [i \in DOMAIN q |-> Queued(q[i])]
<1>1. q \in Seq(Controls)
  BY DEF Taken
<1> HIDE DEF q
<1>2. DOMAIN q = 1..Len(q) /\ Len(q) \in Nat /\ \A i \in 1..Len(q) : q[i] \in Controls
  BY <1>1, ElementOfSeq
<1>3. new \in [1..Len(q) -> Entry] /\ \A i \in 1..Len(q) : new[i].kind = "queued"
  BY <1>2, EntryTypes DEF Queued
<1>4. new \in Seq(Entry) /\ Len(new) = Len(q)
  BY <1>2, <1>3, SeqDef
<1> QED
  BY <1>3, <1>4 DEF Plain, q

LEMMA LeftType ==
  ASSUME NEW queue \in Seq(Controls), queue # <<>>
  PROVE  Left(queue) \in Seq(Controls)
  BY HeadTailProperties DEF Left

LEMMA ConcatType ==
  ASSUME NEW log \in Seq(Entry), NEW new \in Seq(Entry)
  PROVE  log \o new \in Seq(Entry)
  BY ConcatProperties

-----------------------------------------------------------------------------
(* What a step does to the lists.                                          *)

\* What may be appended to the entries, and where the execution is then.
Extends(new) ==
  \/ Plain(new) /\ answers' = answers
  \/ /\ new = <<Assistant(Len(answers) + 1)>>
     /\ pc = "asking" /\ pc' \in {"settle", "ending", "checkpoint"}
     /\ \E a \in Answer : Len(answers) < MaxAnswers /\ answers' = Append(answers, a)
  \/ /\ new = <<Result(batch.answer, batch.recorded + 1)>>
     /\ pc = "batch" /\ pc' = "batch" /\ answers' = answers

EntriesStep ==
  \/ /\ entries' = entries /\ loaded' = loaded /\ answers' = answers
     /\ pc' = "down" <=> pc = "down"
  \/ entries' = <<>> /\ loaded' = 0 /\ pc' = "down" /\ answers' = answers
  \/ /\ pc = "down" /\ pc' = "loading" /\ answers' = answers
     /\ entries' \in {saved, copied} /\ entries' = Basis' /\ loaded' = Len(entries')
  \/ /\ pc # "down" /\ pc' # "down" /\ loaded' = loaded
     /\ \E new \in Seq(Entry) : entries' = entries \o new /\ Extends(new)

SavedStep ==
  \/ saved' = saved
  \/ /\ saved' = entries /\ entries' = entries /\ answers' = answers
     /\ pc \in {"checkpoint", "ending"}

\* What an execution builds on changes when it saves, and with its start and end.
BasisStep ==
  \/ UNCHANGED <<saved, copied, stale>> /\ (pc' = "down" <=> pc = "down")
  \/ saved' = entries /\ stale' = FALSE /\ copied' = copied /\ pc # "down" /\ pc' # "down"
  \/ /\ pc = "down" /\ pc' = "down" /\ UNCHANGED <<saved, stale>>
     /\ copied' \in {copied, saved}
  \/ pc' = "down" /\ stale' = FALSE /\ UNCHANGED <<saved, copied>>
  \/ pc = "down" /\ pc' = "loading" /\ stale' \in BOOLEAN /\ UNCHANGED <<saved, copied>>

LEMMA PlainEntry ==
  ASSUME NEW e \in Entry, e.kind \notin {"assistant", "result"}
  PROVE  Plain(<<e>>)
  BY DEF Plain

LEMMA InjectStep ==
  ASSUME TypeOK, NEW queue \in Seq(Controls), queue # <<>>, Inject(queue)
  PROVE  /\ \E new \in Seq(Entry) : entries' = entries \o new /\ Plain(new)
         /\ messages' \in Seq(Entry)
<1> DEFINE new == [i \in DOMAIN Taken(queue) |-> Queued(Taken(queue)[i])]
<1>1. new \in Seq(Entry) /\ Plain(new)
  BY TakenType
<1>2. entries' = entries \o new /\ messages' = messages \o messagesFromEntries(new)
  BY DEF Inject
<1> HIDE DEF new
<1>3. messagesFromEntries(new) \in Seq(Entry)
  BY <1>1, MessagesType
<1> QED
  BY <1>1, <1>2, <1>3, ConcatType DEF TypeOK

LEMMA LogStep ==
  ASSUME TypeInv, [Next]_vars
  PROVE  EntriesStep /\ SavedStep /\ BasisStep
<1> USE DEF TypeInv
<1>0. entries \in Seq(Entry) /\ steering \in Seq(Controls) /\ followUps \in Seq(Controls)
  BY DEF TypeOK
<1> DEFINE Grown == \E new \in Seq(Entry) : entries' = entries \o new /\ Extends(new)
<1>1. ASSUME NEW e \in Entry, entries' = Append(entries, e), Extends(<<e>>) PROVE Grown
  BY <1>0, <1>1, OneEntry
<1>2. ASSUME NEW queue \in Seq(Controls), queue # <<>>, Inject(queue), answers' = answers
      PROVE  Grown
  BY <1>2, InjectStep DEF Extends
<1> HIDE DEF Grown
<1>3. CASE Users
  BY <1>3 DEF Users, EnqueueRunControl, DecideApproval, loop, execution, history, EntriesStep,
     SavedStep, BasisStep
<1>4. CASE StartRun \/ Stop
  BY <1>4 DEF StartRun, Source, Basis, Stop, Goto, Down, durable, execution, history,
     EntriesStep, SavedStep, BasisStep
<1>5. CASE AcceptControl
  <2>1. PICK c \in Controls : entries' = Append(entries, Accepted(c))
    BY <1>5, ElementOfSeq DEF AcceptControl, PendingRunControls, TypeOK
  <2>2. Plain(<<Accepted(c)>>)
    BY EntryTypes, PlainEntry DEF Accepted
  <2>3. UNCHANGED <<durable, loop, history>> /\ pc # "down"
    BY <1>5 DEF AcceptControl
  <2>4. Grown
    BY <1>1, <2>1, <2>2, <2>3, EntryTypes DEF Extends, history, execution
  <2> QED
    BY <2>3, <2>4 DEF EntriesStep, SavedStep, BasisStep, Grown, durable, execution, loop
<1>6. CASE MarkRunControlDelivered
  BY <1>6 DEF MarkRunControlDelivered, loop, execution, history, EntriesStep, SavedStep, BasisStep
<1>7. CASE LoadMessages
  <2>1. UNCHANGED <<saved, copied, answers, loaded, stale>> /\ pc = "loading" /\ pc' # "down"
    BY <1>7 DEF LoadMessages, durable, execution, history
  <2>2. CASE entries' = entries
    BY <2>1, <2>2 DEF EntriesStep, SavedStep, BasisStep
  <2>3. ASSUME NEW e \in {Prompt, ResumePrompt}, entries' = Append(entries, e) PROVE Grown
    <3>1. e \in Entry /\ Plain(<<e>>)
      BY EntryTypes, PlainEntry DEF Prompt, ResumePrompt
    <3> QED
      BY <1>1, <2>1, <2>3, <3>1 DEF Extends
  <2>4. \/ entries' = entries
        \/ \E e \in {Prompt, ResumePrompt} : entries' = Append(entries, e)
    BY <1>7 DEF LoadMessages
  <2> QED
    BY <2>1, <2>2, <2>3, <2>4 DEF EntriesStep, SavedStep, BasisStep, Grown
<1>8. CASE Ask
  <2>1. UNCHANGED <<saved, copied, answers, loaded, stale>> /\ pc = "ask" /\ pc' = "asking"
    BY <1>8 DEF Ask, Goto, durable, execution, history
  <2>2. entries' = entries \/ Grown
    BY <1>0, <1>2, <1>8, <2>1 DEF Ask
  <2> QED
    BY <2>1, <2>2 DEF EntriesStep, SavedStep, BasisStep, Grown
<1>9. CASE ExceedTurns \/ Finish
  BY <1>9 DEF ExceedTurns, Finish, Down, history, execution, EntriesStep, SavedStep, BasisStep
<1>10. CASE Settle
  <2>1. /\ UNCHANGED <<saved, copied, answers, loaded, stale>>
        /\ pc = "settle" /\ pc' \in {"ask", "ending"}
    BY <1>10 DEF Settle, durable, execution, history
  <2>2. entries' = entries \/ Grown
    BY <1>0, <1>2, <1>10, <2>1 DEF Settle
  <2> QED
    BY <2>1, <2>2 DEF EntriesStep, SavedStep, BasisStep, Grown
<1>11. CASE Checkpoint \/ Snapshot
  BY <1>11 DEF Checkpoint, Snapshot, Goto, history, execution, EntriesStep, SavedStep, BasisStep
<1>12. ASSUME NEW a \in Answer, NEW to \in {"settle", "ending", "checkpoint"},
              Goto("asking", to), Receive(a), UNCHANGED <<saved, copied, loaded, stale>>
       PROVE  EntriesStep /\ SavedStep /\ BasisStep
  <2>1. Assistant(Len(answers) + 1) \in Entry
    BY EntryTypes DEF TypeOK
  <2>2. Extends(<<Assistant(Len(answers) + 1)>>)
    BY <1>12 DEF Extends, Goto, Receive
  <2>3. Grown
    BY <1>1, <1>12, <2>1, <2>2 DEF Receive
  <2> QED
    BY <1>12, <2>3 DEF EntriesStep, SavedStep, BasisStep, Grown, Goto
<1>13. ASSUME NEW failed \in BOOLEAN, AnswerText(failed) PROVE EntriesStep /\ SavedStep /\ BasisStep
  <2>1. [calls |-> 0, dangerous |-> {}, mode |-> "parallel"] \in Answer
    BY SessionAssumption DEF Answer
  <2> QED
    BY <1>12, <1>13, <2>1 DEF AnswerText, durable, execution
<1>14. ASSUME NEW n \in 1..MaxCalls, NEW mode \in {"parallel", "sequential", "truncated"},
              NEW dangerous \in SUBSET (1..n), AnswerCalls(n, dangerous, mode)
       PROVE  EntriesStep /\ SavedStep /\ BasisStep
  <2>1. [calls |-> n, dangerous |-> dangerous, mode |-> mode] \in Answer
    BY SessionAssumption DEF Answer
  <2> QED
    BY <1>12, <1>14, <2>1 DEF AnswerCalls, durable, execution
<1>15. CASE Prepare
  BY <1>15 DEF Prepare, history, execution, EntriesStep, SavedStep, BasisStep
<1>16. CASE RecordToolOutcome
  <2>1. /\ UNCHANGED <<saved, copied, answers, loaded, stale>> /\ pc = "batch" /\ pc' = "batch"
        /\ entries' = Append(entries, Result(batch.answer, batch.recorded + 1))
    BY <1>16 DEF RecordToolOutcome, durable, execution, history
  <2>2. Result(batch.answer, batch.recorded + 1) \in Entry
    BY SMTT(30), EntryTypes, SessionAssumption DEF TypeOK, Batch
  <2>3. Grown
    BY <1>1, <2>1, <2>2 DEF Extends
  <2> QED
    BY <2>1, <2>3 DEF EntriesStep, SavedStep, BasisStep, Grown
<1>17. ASSUME NEW k \in 1..MaxCalls, Execute(k) PROVE EntriesStep /\ SavedStep /\ BasisStep
  BY <1>17 DEF Execute, durable, execution, loop, EntriesStep, SavedStep, BasisStep
<1>18. ASSUME NEW terminate \in BOOLEAN, FinishBatch(terminate)
       PROVE  EntriesStep /\ SavedStep /\ BasisStep
  BY <1>18 DEF FinishBatch, Goto, durable, execution, history, EntriesStep, SavedStep, BasisStep
<1>19. CASE UNCHANGED vars
  BY <1>19 DEF vars, EntriesStep, SavedStep, BasisStep
<1> QED
  BY <1>3, <1>4, <1>5, <1>6, <1>7, <1>8, <1>9, <1>10, <1>11, <1>13, <1>14, <1>15, <1>16,
     <1>17, <1>18, <1>19 DEF Next, Loop

-----------------------------------------------------------------------------
(* Types.                                                                  *)

LEMMA AnswersGrow ==
  ASSUME TypeInv, EntriesStep
  PROVE  /\ answers' \in Seq(Answer) /\ Len(answers') <= MaxAnswers
         /\ Len(answers) \in Nat /\ Len(answers) <= Len(answers')
         /\ \A g \in 1..Len(answers) : answers'[g] = answers[g]
<1> USE DEF TypeInv, TypeOK
<1>1. ASSUME NEW a \in Answer, Len(answers) < MaxAnswers, answers' = Append(answers, a)
      PROVE  /\ answers' \in Seq(Answer) /\ Len(answers') <= MaxAnswers
             /\ Len(answers) \in Nat /\ Len(answers) <= Len(answers')
             /\ \A g \in 1..Len(answers) : answers'[g] = answers[g]
  BY <1>1, AppendProperties, SessionAssumption
<1>2. \/ answers' = answers
      \/ \E a \in Answer : Len(answers) < MaxAnswers /\ answers' = Append(answers, a)
  BY DEF EntriesStep, Extends
<1> QED
  BY <1>1, <1>2

LEMMA KnownStays ==
  ASSUME TypeInv, EntriesStep, NEW log, Known(log), Len(log) \in Nat, log' = log
  PROVE  Known(log)'
  BY AnswersGrow DEF Known

LEMMA ListsType ==
  ASSUME TypeInv, [Next]_vars
  PROVE  /\ answers' \in Seq(Answer) /\ Len(answers') <= MaxAnswers
         /\ entries' \in Seq(Entry) /\ saved' \in Seq(Entry) /\ copied' \in Seq(Entry)
         /\ Known(entries)' /\ Known(saved)' /\ Known(copied)' /\ loaded' \in 0..Len(entries')
<1>0. EntriesStep /\ SavedStep
  BY LogStep
<1> USE DEF TypeInv, TypeOK
<1>1. /\ answers' \in Seq(Answer) /\ Len(answers') <= MaxAnswers
      /\ Len(answers) \in Nat /\ Len(answers) <= Len(answers')
  BY <1>0, AnswersGrow
<1>2. entries' \in Seq(Entry) /\ Known(entries)'
  <2>1. CASE entries' = entries
    BY <1>1, <2>1 DEF Known
  <2>2. CASE entries' = <<>>
    BY <2>2 DEF Known
  <2>3. CASE entries' \in {saved, copied}
    BY SMTT(30), <1>1, <2>3 DEF Known
  <2>4. ASSUME NEW new \in Seq(Entry), entries' = entries \o new, Extends(new)
        PROVE  entries' \in Seq(Entry) /\ Known(entries)'
    <3>1. /\ entries' \in Seq(Entry) /\ Len(entries) \in Nat /\ Len(new) \in Nat
          /\ Len(entries') = Len(entries) + Len(new)
          /\ \A i \in 1..Len(entries') :
               entries'[i] = IF i <= Len(entries) THEN entries[i] ELSE new[i - Len(entries)]
      BY <2>4, ConcatProperties, LenProperties
    <3>2. \A i \in 1..Len(new) : new[i].kind \in {"assistant", "result"} =>
                                   new[i].id \in 1..Len(answers')
      <4>1. CASE Plain(new)
        BY <4>1 DEF Plain
      <4>2. CASE /\ new = <<Assistant(Len(answers) + 1)>>
                 /\ \E a \in Answer : answers' = Append(answers, a)
        BY <1>1, <4>2, AppendProperties DEF Assistant
      <4>3. CASE new = <<Result(batch.answer, batch.recorded + 1)>> /\ pc = "batch"
        BY <1>1, <4>3 DEF Result
      <4> QED
        BY <2>4, <4>1, <4>2, <4>3 DEF Extends
    <3>3. \A i \in 1..Len(entries) : entries[i].kind \in {"assistant", "result"} =>
                                      entries[i].id \in 1..Len(answers')
      BY SMTT(30), <1>1 DEF Known
    <3>4. \A i \in 1..Len(entries') : i > Len(entries) => i - Len(entries) \in 1..Len(new)
      BY <3>1
    <3>5. ASSUME NEW i \in 1..Len(entries'), entries'[i].kind \in {"assistant", "result"}
          PROVE  entries'[i].id \in 1..Len(answers')
      <4>1. CASE i <= Len(entries)
        <5>1. i \in 1..Len(entries) /\ entries'[i] = entries[i]
          BY <3>1, <3>5, <4>1
        <5> QED
          BY <3>3, <3>5, <5>1
      <4>2. CASE i > Len(entries)
        <5>1. entries'[i] = new[i - Len(entries)]
          BY ONLY <3>1, <3>5, <4>2
        <5> QED
          BY <3>2, <3>4, <3>5, <4>2, <5>1
      <4> QED
        BY <3>1, <4>1, <4>2
    <3> QED
      BY <3>1, <3>5 DEF Known
  <2> HIDE DEF TypeInv, TypeOK
  <2> QED
    BY <1>0, <2>1, <2>2, <2>3, <2>4 DEF EntriesStep
<1>3. saved' \in Seq(Entry) /\ Known(saved)'
  BY SMTT(30), <1>0, <1>1, <1>2 DEF SavedStep, Known
<1>4. copied' \in {copied, saved}
  <2> SUFFICES ASSUME TRUE PROVE copied' = copied \/ copied' = saved
    OBVIOUS
  <2>1. CASE Users
    BY <2>1 DEF Users, EnqueueRunControl, DecideApproval
  <2>2. CASE StartRun \/ Stop \/ AcceptControl \/ MarkRunControlDelivered
    BY <2>2 DEF StartRun, Stop, AcceptControl, MarkRunControlDelivered, durable, execution
  <2>3. CASE Loop
    BY <2>3 DEF Loop, LoadMessages, Ask, ExceedTurns, Settle, Checkpoint, AnswerText,
                AnswerCalls, Prepare, RecordToolOutcome, Execute, FinishBatch, Snapshot,
                Finish, durable, execution
  <2>4. CASE UNCHANGED vars
    BY <2>4 DEF vars
  <2> QED
    BY <2>1, <2>2, <2>3, <2>4 DEF Next
<1>5. copied' \in Seq(Entry) /\ Known(copied)'
  BY SMTT(30), <1>1, <1>4 DEF Known
<1>6. loaded' \in 0..Len(entries')
  <2>1. /\ loaded \in 0..Len(entries) /\ Len(entries) \in Nat /\ Len(entries') \in Nat
    BY <1>2, LenProperties
  <2>2. \A new \in Seq(Entry) : entries' = entries \o new => Len(entries) <= Len(entries')
    BY ConcatProperties, LenProperties
  <2> HIDE DEF TypeInv, TypeOK
  <2> QED
    BY <1>0, <2>1, <2>2, EmptySeq DEF EntriesStep
<1> QED
  BY <1>1, <1>2, <1>3, <1>5, <1>6

LEMMA InitTypes == Init => TypeInv
<1> SUFFICES ASSUME Init PROVE TypeInv
  OBVIOUS
<1>1. \A S : <<>> \in Seq(S)
  BY EmptySeq
<1>2. {MaxTurns, MaxCalls, MaxAnswers, MaxStarts} \subseteq Nat \ {0}
  BY SessionAssumption
<1>3. batch \in Batch
  BY <1>2 DEF Init, Batch, NoBatch
<1>4. TypeOK
  <2>1. /\ inbox \in Seq(Controls) /\ saved \in Seq(Entry) /\ copied \in Seq(Entry)
        /\ entries \in Seq(Entry) /\ messages \in Seq(Entry) /\ answers \in Seq(Answer)
        /\ steering \in Seq(Controls) /\ followUps \in Seq(Controls)
    BY <1>1 DEF Init
  <2>2. /\ Len(answers) <= MaxAnswers /\ starts \in 0..MaxStarts /\ turn \in 0..MaxTurns
        /\ loaded \in 0..Len(entries)
    BY <1>2 DEF Init
  <2> QED
    BY <1>3, <2>1, <2>2 DEF Init, TypeOK
<1> QED
  BY <1>4 DEF Init, TypeInv, Known

LEMMA StepTypes == TypeInv /\ [Next]_vars => TypeInv'
<1> SUFFICES ASSUME TypeInv, [Next]_vars PROVE TypeInv'
  OBVIOUS
<1>0. /\ answers' \in Seq(Answer) /\ Len(answers') <= MaxAnswers
      /\ entries' \in Seq(Entry) /\ saved' \in Seq(Entry) /\ copied' \in Seq(Entry)
      /\ Known(entries)' /\ Known(saved)' /\ Known(copied)' /\ loaded' \in 0..Len(entries')
  BY ListsType
<1>a. Len(answers) \in Nat /\ Len(answers') \in Nat /\ Len(answers) <= Len(answers')
  BY LogStep, AnswersGrow, LenProperties
<1>b. {MaxTurns, MaxCalls, MaxAnswers, MaxStarts} \subseteq Nat \ {0}
  BY SessionAssumption
\* What is left to show of a step.
<1> DEFINE Rest ==
             /\ stage' \in {"queued", "running", "awaiting_approval", "completed", "failed"}
             /\ verdict' \in {"none", "asked", "allow", "deny"}
             /\ sent' \subseteq Controls /\ inbox' \in Seq(Controls)
             /\ messages' \in Seq(Entry)
             /\ resume' \in BOOLEAN /\ accepting' \in BOOLEAN /\ pending' \in BOOLEAN
             /\ pc' \in {"down", "loading", "ask", "asking", "settle", "checkpoint",
                         "batch", "ending", "closing"}
             /\ starts' \in 0..MaxStarts
             /\ steering' \in Seq(Controls) /\ followUps' \in Seq(Controls)
             /\ granted' \in {"none", "asked", "allow", "deny"}
             /\ turn' \in 0..MaxTurns
             /\ batch' \in Batch
             /\ executed' \subseteq (1..MaxAnswers) \X (1..MaxCalls) \X (1..MaxStarts)
             /\ pc' # "down" => starts' \in 1..MaxStarts
             /\ pc' = "batch" => batch'.answer \in 1..Len(answers')
             /\ pc' = "checkpoint" => answers' # <<>>
             /\ accepting' => inbox' # <<>>
<1>s. stale' \in BOOLEAN
  BY LogStep DEF BasisStep, TypeInv, TypeOK
<1>c. ASSUME Rest PROVE TypeInv'
  BY <1>0, <1>c, <1>s DEF TypeInv, TypeOK
<1>d. NoBatch \in Batch /\ \A g \in Nat : BeginBatch(g) \in Batch /\ BeginBatch(g).answer = g
  BY <1>b DEF NoBatch, Batch, BeginBatch
<1>e. <<>> \in Seq(Entry) /\ <<>> \in Seq(Controls)
  BY EmptySeq
<1> USE DEF TypeInv, TypeOK
<1>f. ASSUME Down, UNCHANGED <<verdict, sent, inbox, resume, starts, history>>,
             stage' \in {"queued", "running", "awaiting_approval", "completed", "failed"}
      PROVE  Rest
  <2>1. /\ pc' = "down" /\ messages' = <<>> /\ steering' = <<>> /\ followUps' = <<>>
        /\ accepting' = FALSE /\ granted' = "none" /\ turn' = 0 /\ pending' = FALSE
        /\ batch' = NoBatch
    BY <1>f DEF Down
  <2>2. /\ verdict' = verdict /\ sent' = sent /\ inbox' = inbox /\ resume' = resume
        /\ starts' = starts /\ executed' = executed
    BY <1>f DEF history, execution
  <2>3. turn' \in 0..MaxTurns
    BY <1>b, <2>1
  <2> QED
    BY <1>d, <1>e, <1>f, <2>1, <2>2, <2>3
<1>1. CASE Users
  <2>1. ASSUME NEW c \in Controls, EnqueueRunControl(c) PROVE Rest
    <3>1. inbox' \in Seq(Controls) /\ inbox' # <<>>
      <4>1. inbox \in Seq(Controls) /\ inbox' = Append(inbox, c)
        BY <2>1 DEF EnqueueRunControl
      <4> QED
        BY ONLY <4>1, AppendProperties, LenProperties, EmptySeq
    <3>2. /\ sent' \subseteq Controls
          /\ UNCHANGED <<stage, verdict, resume, pc, starts, messages, granted, turn, pending,
                         steering, followUps, accepting, batch, answers, executed>>
      BY <2>1 DEF EnqueueRunControl, loop, execution, queues, history
    <3> QED
      BY <1>a, <3>1, <3>2
  <2>2. ASSUME NEW d \in {"allow", "deny"}, DecideApproval(d) PROVE Rest
    BY <1>a, <2>2 DEF DecideApproval, loop, execution, queues, history
  <2> QED
    BY <1>1, <1>c, <2>1, <2>2 DEF Users
<1>2. CASE StartRun
  <2>1. starts' \in 1..MaxStarts
    BY <1>2, <1>b DEF StartRun
  <2> QED
    <3>1. /\ pc' = "loading" /\ stage' = "running" /\ granted' = verdict
          /\ UNCHANGED <<verdict, sent, inbox, resume, messages, turn, pending, steering,
                         followUps, accepting, batch, executed>>
      BY <1>2 DEF StartRun, Goto, queues, execution, history
    <3>2. starts' \in 0..MaxStarts
      BY <1>b, <2>1
    <3> QED
      BY <1>c, <2>1, <3>1, <3>2
<1>3. CASE Stop
  BY <1>3, <1>c, <1>f DEF Stop, durable, execution
<1>4. CASE AcceptControl
  <2>1. PICK c \in Controls :
          \/ steering' = Append(steering, c) /\ UNCHANGED followUps
          \/ followUps' = Append(followUps, c) /\ UNCHANGED steering
    BY <1>4, ElementOfSeq DEF AcceptControl, PendingRunControls
  <2>2. steering' \in Seq(Controls) /\ followUps' \in Seq(Controls)
    <3>1. steering \in Seq(Controls) /\ followUps \in Seq(Controls)
      OBVIOUS
    <3>2. Append(steering, c) \in Seq(Controls) /\ Append(followUps, c) \in Seq(Controls)
      BY ONLY <3>1, AppendProperties
    <3> QED
      BY ONLY <2>1, <3>1, <3>2
  <2>3. inbox # <<>>
    BY <1>4 DEF AcceptControl, PendingRunControls
  <2> QED
    BY SMTT(30), <1>4, <1>a, <1>c, <2>2, <2>3 DEF AcceptControl, durable, execution, loop, history
<1>5. CASE MarkRunControlDelivered
  <2>1. inbox' \in Seq(Controls)
    <3>1. inbox' = Tail(inbox) /\ inbox # <<>>
      BY <1>5 DEF MarkRunControlDelivered
    <3> QED
      BY <3>1, HeadTailProperties
  <2>2. /\ accepting' = FALSE
        /\ UNCHANGED <<stage, verdict, sent, resume, pc, starts, messages, granted, turn,
                       pending, steering, followUps, batch, answers, executed>>
    BY <1>5 DEF MarkRunControlDelivered, loop, execution, history
  <2>3. accepting' \in BOOLEAN /\ (accepting' => inbox' # <<>>)
    BY ONLY <2>2
  <2>4. /\ pc' # "down" => starts' \in 1..MaxStarts
        /\ pc' = "batch" => batch'.answer \in 1..Len(answers')
        /\ pc' = "checkpoint" => answers' # <<>>
    BY <2>2
  <2> QED
    BY SMTT(30), <1>c, <2>1, <2>2, <2>3, <2>4
<1>6. CASE LoadMessages
  <2>1. UNCHANGED <<durable, execution, granted, turn, pending, queues, history>> /\ pc = "loading"
    BY <1>6 DEF LoadMessages
  <2>2. messagesFromEntries(entries) \in Seq(Entry)
    BY MessagesType
  <2>3. CASE hasPendingToolCalls(entries)
    <3>1. /\ messages' = messagesFromEntries(entries)
          /\ batch' = BeginBatch(Last(entries).id) /\ pc' = "batch"
      BY <1>6, <2>3 DEF LoadMessages
    <3>2. Last(entries).kind = "assistant" /\ Len(entries) \in 1..Len(entries)
      BY <2>3, LenProperties, EmptySeq DEF hasPendingToolCalls
    <3>3. Last(entries).id \in 1..Len(answers)
      BY <3>2 DEF Last, Known
    <3>4. batch' \in Batch /\ batch'.answer \in 1..Len(answers)
      BY <1>a, <1>d, <3>1, <3>3
    <3>5. answers' = answers
      BY <2>1 DEF history, execution
    <3> QED
      BY <1>c, <2>1, <2>2, <3>1, <3>4, <3>5 DEF durable, execution, queues, history
  <2>4. CASE ~hasPendingToolCalls(entries)
    <3>1. PICK e \in {Prompt, ResumePrompt} : messages' = Append(messagesFromEntries(entries), e)
      BY <1>6, <2>4 DEF LoadMessages
    <3>2. messages' \in Seq(Entry) /\ pc' = "ask" /\ batch' = batch
      BY <1>6, <2>2, <2>4, <3>1, EntryTypes, OneEntry DEF LoadMessages
    <3> QED
      BY <1>c, <2>1, <3>2 DEF durable, execution, queues, history
  <2> QED
    BY <2>3, <2>4
<1>7. CASE Ask
  <2>1. /\ UNCHANGED <<durable, execution, followUps, accepting, granted, pending, batch, history>>
        /\ pc = "ask" /\ pc' = "asking" /\ turn' = turn + 1 /\ turn < MaxTurns
    BY <1>7 DEF Ask, Goto, TurnsLeft
  <2>2. steering' \in Seq(Controls) /\ messages' \in Seq(Entry)
    <3>1. CASE steering = <<>>
      BY <1>7, <3>1 DEF Ask
    <3>2. CASE steering # <<>>
      BY <1>7, <3>2, InjectStep, LeftType DEF Ask
    <3> QED
      BY <3>1, <3>2
  <2>3. turn' \in 0..MaxTurns
    BY <1>b, <2>1
  <2> QED
    BY <1>c, <2>1, <2>2, <2>3 DEF durable, execution, history
<1>8. CASE ExceedTurns
  BY <1>8, <1>c, <1>f DEF ExceedTurns
<1>9. CASE Finish
  BY <1>9, <1>c, <1>f DEF Finish
<1>10. CASE Settle
  <2>1. /\ UNCHANGED <<durable, execution, accepting, granted, turn, pending, batch, history>>
        /\ pc = "settle" /\ pc' \in {"ask", "ending"}
    BY <1>10 DEF Settle
  <2>2. /\ steering' \in Seq(Controls) /\ followUps' \in Seq(Controls)
        /\ messages' \in Seq(Entry)
    <3>1. CASE steering # <<>>
      BY <1>10, <3>1, InjectStep, LeftType DEF Settle
    <3>2. CASE steering = <<>> /\ followUps # <<>>
      BY <1>10, <3>2, InjectStep, LeftType DEF Settle
    <3>3. CASE steering = <<>> /\ followUps = <<>>
      BY <1>10, <3>3 DEF Settle
    <3> QED
      BY <3>1, <3>2, <3>3
  <2> QED
    BY SMTT(30), <1>c, <2>1, <2>2 DEF durable, execution, history
<1>11. CASE Checkpoint
  <2>1. batch' = FirstBatch(Len(answers)) /\ answers' = answers
    BY <1>11 DEF Checkpoint, history, execution
  <2>2. Len(answers) \in 1..Len(answers)
    BY <1>11 DEF Checkpoint, Goto
  <2>3. answers[Len(answers)].calls \in 0..MaxCalls
    <3>1. answers[Len(answers)] \in Answer
      BY <2>2, ElementOfSeq
    <3> QED
      BY <3>1 DEF Answer
  <2> DEFINE n == answers[Len(answers)].calls
             g == Len(answers)
  <2>4. batch' \in Batch /\ batch'.answer = Len(answers)
    <3>1. n \in 0..MaxCalls /\ g \in Nat
      BY ONLY <1>a, <2>3
    <3>4. MaxCalls \in Nat
      BY <1>b
    <3>5. 1..n \subseteq 1..MaxCalls
      BY ONLY <3>1, <3>4
    <3>2. batch' = BeginBatch(g) \/ batch' = [BeginBatch(g) EXCEPT !.prepared = n, !.done = 1..n]
      BY <2>1 DEF FirstBatch, failTruncatedToolCalls
    <3> HIDE DEF n, g
    <3>3. batch' \in Batch /\ batch'.answer = g
      BY ONLY <1>d, <3>1, <3>2, <3>5 DEF Batch
    <3> QED
      BY <3>3 DEF g
  <2> QED
    BY <1>11, <1>c, <2>1, <2>2, <2>4 DEF Checkpoint, Goto, queues, execution, history
<1>12. CASE Snapshot
  BY <1>12, <1>c DEF Snapshot, Goto, queues, execution, history
<1>13. ASSUME NEW a \in Answer, NEW to \in {"settle", "ending", "checkpoint"},
              Goto("asking", to), Receive(a),
              UNCHANGED <<durable, execution, queues, granted, turn, pending, batch, executed>>
       PROVE  TypeInv'
  <2>1. Assistant(Len(answers) + 1) \in Entry
    BY <1>a, EntryTypes
  <2>2. messages' \in Seq(Entry)
    BY <1>13, <2>1, OneEntry DEF Receive
  <2>3. answers' # <<>>
    <3>1. Len(answers') = Len(answers) + 1
      BY <1>13, AppendProperties DEF Receive
    <3> QED
      BY <1>a, <3>1
  <2> QED
    BY SMTT(30), <1>13, <1>c, <2>2, <2>3 DEF Goto, durable, execution, queues
<1>14. ASSUME NEW failed \in BOOLEAN, AnswerText(failed) PROVE TypeInv'
  <2>1. [calls |-> 0, dangerous |-> {}, mode |-> "parallel"] \in Answer
    BY <1>b DEF Answer
  <2> QED
    BY <1>13, <1>14, <2>1 DEF AnswerText
<1>15. ASSUME NEW n \in 1..MaxCalls, NEW mode \in {"parallel", "sequential", "truncated"},
              NEW dangerous \in SUBSET (1..n), AnswerCalls(n, dangerous, mode)
       PROVE  TypeInv'
  <2>1. [calls |-> n, dangerous |-> dangerous, mode |-> mode] \in Answer
    BY <1>b DEF Answer
  <2> QED
    BY <1>13, <1>15, <2>1 DEF AnswerCalls
<1>g. ASSUME pc = "batch"
      PROVE  /\ Current \in Answer /\ batch.answer \in 1..MaxAnswers
             /\ Current.calls \in 0..MaxCalls
  <2>1. batch.answer \in 1..Len(answers)
    BY <1>g
  <2>2. answers[batch.answer] \in Answer
    BY <2>1, ElementOfSeq
  <2>3. MaxAnswers \in Nat /\ Len(answers) <= MaxAnswers
    BY <1>b
  <2>4. batch.answer \in 1..MaxAnswers
    BY ONLY <1>a, <2>1, <2>3
  <2>5. Current \in Answer
    BY ONLY <2>2 DEF Current
  <2> QED
    BY ONLY <2>4, <2>5 DEF Answer
<1>i. MaxCalls \in Nat
  BY <1>b
<1>h. /\ batch.prepared \in 0..MaxCalls /\ batch.recorded \in 0..MaxCalls
      /\ batch.answer \in Nat
  BY DEF Batch
<1>16. CASE Prepare
  <2>1. /\ pc = "batch" /\ batch.prepared < Current.calls
        /\ UNCHANGED <<sent, inbox, saved, copied, resume, pc, execution, entries, messages,
                       queues, granted, turn, history>>
    BY <1>16 DEF Prepare
  <2>2. batch.prepared + 1 \in 1..MaxCalls
    <3>1. Current.calls \in 0..MaxCalls
      BY <1>g, <2>1
    <3> QED
      BY ONLY <1>h, <1>i, <2>1, <3>1
  <2>3. /\ \/ batch' = [batch EXCEPT !.prepared = @ + 1, !.ready = @ \cup {batch.prepared + 1}]
           \/ batch' = [batch EXCEPT !.prepared = @ + 1, !.done = @ \cup {batch.prepared + 1}]
        /\ pending' \in BOOLEAN /\ verdict' \in {"none", "asked", "allow", "deny"}
        /\ stage' \in {"queued", "running", "awaiting_approval", "completed", "failed"}
    BY <1>16 DEF Prepare
  <2>4. batch' \in Batch /\ batch'.answer = batch.answer
    <3>1. batch.prepared + 1 \in 0..MaxCalls
      BY ONLY <1>i, <2>2
    <3>2. batch \in Batch
      OBVIOUS
    <3>3. \A s \in SUBSET (1..MaxCalls) : s \cup {batch.prepared + 1} \in SUBSET (1..MaxCalls)
      BY <2>2
    <3>4. CASE batch' = [batch EXCEPT !.prepared = @ + 1, !.ready = @ \cup {batch.prepared + 1}]
      BY ONLY <3>1, <3>2, <3>3, <3>4 DEF Batch
    <3>5. CASE batch' = [batch EXCEPT !.prepared = @ + 1, !.done = @ \cup {batch.prepared + 1}]
      BY ONLY <3>1, <3>2, <3>3, <3>5 DEF Batch
    <3> QED
      BY ONLY <2>3, <3>4, <3>5
  <2> QED
    BY <1>c, <2>1, <2>3, <2>4 DEF queues, execution, history
<1>17. CASE RecordToolOutcome
  <2>1. /\ pc = "batch" /\ batch.recorded + 1 <= Current.calls
        /\ messages' = Append(messages, Result(batch.answer, batch.recorded + 1))
        /\ batch' = [batch EXCEPT !.recorded = batch.recorded + 1]
        /\ UNCHANGED <<durable, pc, execution, granted, turn, pending, queues, history>>
    BY <1>17 DEF RecordToolOutcome
  <2>2. batch.recorded \in Nat /\ batch.recorded + 1 \in 0..MaxCalls /\ batch.answer \in Nat
    <3>1. Current.calls \in 0..MaxCalls
      BY <1>g, <2>1
    <3> QED
      BY ONLY <1>h, <1>i, <2>1, <3>1
  <2>3. batch' \in Batch /\ batch'.answer = batch.answer
    BY <2>1, <2>2 DEF Batch
  <2>4. messages' \in Seq(Entry)
    BY <2>1, <2>2, EntryTypes, OneEntry
  <2> QED
    BY <1>c, <2>1, <2>3, <2>4 DEF durable, execution, queues, history
<1>18. ASSUME NEW k \in 1..MaxCalls, Execute(k) PROVE TypeInv'
  <2>1. /\ pc = "batch" /\ executed' = executed \cup {<<batch.answer, k, starts>>}
        /\ batch' = [batch EXCEPT !.done = @ \cup {k}]
        /\ UNCHANGED <<durable, loop, entries, queues, answers>>
    BY <1>18 DEF Execute
  <2>2. batch' \in Batch /\ batch'.answer = batch.answer
    BY <2>1 DEF Batch
  <2>3. executed' \subseteq (1..MaxAnswers) \X (1..MaxCalls) \X (1..MaxStarts)
    BY SMTT(30), <1>g, <2>1
  <2> QED
    BY <1>c, <2>1, <2>2, <2>3 DEF durable, execution, loop, queues
<1>19. ASSUME NEW terminate \in BOOLEAN, FinishBatch(terminate) PROVE TypeInv'
  BY <1>19, <1>c, <1>d DEF FinishBatch, Goto, durable, execution, queues, history
<1>20. CASE UNCHANGED vars
  BY <1>20, <1>c DEF vars
<1> QED
  BY <1>1, <1>2, <1>3, <1>4, <1>5, <1>6, <1>7, <1>8, <1>9, <1>10, <1>11, <1>12, <1>14, <1>15,
     <1>16, <1>17, <1>18, <1>19, <1>20 DEF Next, Loop

\* Every reachable state is of its type: no batch is of an answer that was not
\* given, and no list of entries speaks of one.
THEOREM SessionTypes == Spec => []TypeOK
<1>1. TypeInv => TypeOK
  BY DEF TypeInv
<1> QED
  BY <1>1, InitTypes, StepTypes, PTL DEF Spec

-----------------------------------------------------------------------------
(* What was saved stays, and its results with it.                          *)

Prefix(s, t) == Len(s) <= Len(t) /\ \A i \in 1..Len(s) : s[i] = t[i]

\* The results of an entry list are of answers before g.
Earlier(log, g) == \A i \in 1..Len(log) : log[i].kind = "result" => log[i].id < g

\* No answer follows a result of a later one.
Ordered(log) ==
  \A i, j \in 1..Len(log) :
    i < j /\ log[i].kind = "result" /\ log[j].kind = "assistant" => log[i].id < log[j].id

StandInv ==
  /\ TypeInv
  /\ Prefix(copied, saved)
  /\ pc = "down" => ~stale
  /\ pc # "down" => Prefix(Basis, entries)
  /\ Ordered(saved) /\ Ordered(copied) /\ Ordered(entries)
  /\ pc = "checkpoint" => Earlier(entries, Len(answers))
  /\ pc = "batch" => Earlier(Basis, batch.answer)

LEMMA PrefixMeans ==
  ASSUME NEW s \in Seq(Entry), NEW t \in Seq(Entry), Prefix(s, t)
  PROVE  IsPrefix(s, t)
<1> DEFINE n == Len(s)
<1>1. n \in Nat /\ Len(t) \in Nat /\ n <= Len(t)
  BY LenProperties DEF Prefix
<1>2. \A i \in 1..n : s[i] \in Entry /\ t[i] \in Entry /\ s[i] = t[i]
  BY <1>1, ElementOfSeq DEF Prefix
<1>3. \A i \in 1..n : s[i] \in Entry
  BY <1>2
<1>4. \A i \in 1..n : t[i] \in Entry
  BY <1>2
<1> DEFINE a == SubSeq(s, 1, n)
           b == SubSeq(t, 1, n)
<1> HIDE DEF n
<1>5. a \in Seq(Entry) /\ Len(a) = n /\ \A i \in 1..n : a[i] = s[i]
  BY <1>1, <1>3, SubSeqProperties
<1>6. b \in Seq(Entry) /\ Len(b) = n /\ \A i \in 1..n : b[i] = t[i]
  BY <1>1, <1>4, SubSeqProperties
<1> HIDE DEF a, b
<1>7. a = b
  BY <1>2, <1>5, <1>6, SeqEqual
<1> QED
  BY <1>1, <1>7 DEF IsPrefix, Prefix, a, b, n

\* Where the execution goes.
LEMMA PcStep ==
  ASSUME TypeInv, [Next]_vars
  PROVE  /\ pc' = "checkpoint" =>
              \/ pc = "checkpoint" /\ saved' = saved
              \/ /\ pc = "asking" /\ entries' = Append(entries, Assistant(Len(answers) + 1))
                 /\ \E a \in Answer : answers' = Append(answers, a)
         /\ pc' = "batch" =>
              \/ pc = "batch" /\ UNCHANGED <<saved, copied, stale>> /\ batch'.answer = batch.answer
              \/ /\ pc = "loading" /\ UNCHANGED <<saved, copied, stale>>
                 /\ hasPendingToolCalls(entries) /\ batch' = BeginBatch(Last(entries).id)
              \/ /\ pc = "checkpoint" /\ saved' = entries /\ ~stale'
                 /\ batch' = FirstBatch(Len(answers))
         /\ \/ executed' = executed
            \/ /\ pc = "batch" /\ saved' = saved
               /\ \E k \in 1..MaxCalls : executed' = executed \cup {<<batch.answer, k, starts>>}
<1> DEFINE Checking ==
              \/ pc = "checkpoint" /\ saved' = saved
              \/ /\ pc = "asking" /\ entries' = Append(entries, Assistant(Len(answers) + 1))
                 /\ \E a \in Answer : answers' = Append(answers, a)
           Batching ==
              \/ pc = "batch" /\ UNCHANGED <<saved, copied, stale>> /\ batch'.answer = batch.answer
              \/ /\ pc = "loading" /\ UNCHANGED <<saved, copied, stale>>
                 /\ hasPendingToolCalls(entries) /\ batch' = BeginBatch(Last(entries).id)
              \/ /\ pc = "checkpoint" /\ saved' = entries /\ ~stale'
                 /\ batch' = FirstBatch(Len(answers))
           Executing ==
              \/ executed' = executed
              \/ /\ pc = "batch" /\ saved' = saved
                 /\ \E k \in 1..MaxCalls : executed' = executed \cup {<<batch.answer, k, starts>>}
           Goal == (pc' = "checkpoint" => Checking) /\ (pc' = "batch" => Batching) /\ Executing
<1>1. CASE Users
  BY <1>1 DEF Users, EnqueueRunControl, DecideApproval, loop, execution, history
<1>2. CASE StartRun \/ Stop \/ ExceedTurns \/ Finish
  BY <1>2 DEF StartRun, Stop, ExceedTurns, Finish, Down, Goto, history, execution
<1>3. CASE AcceptControl \/ MarkRunControlDelivered
  BY <1>3 DEF AcceptControl, MarkRunControlDelivered, durable, execution, loop, history
<1>4. CASE LoadMessages
  BY <1>4 DEF LoadMessages, durable, execution, history
<1>5. CASE Ask \/ Settle
  BY <1>5 DEF Ask, Settle, Goto, history, execution
<1>6. CASE Checkpoint \/ Snapshot
  BY <1>6 DEF Checkpoint, Snapshot, Goto, history, execution
<1>7. ASSUME NEW failed \in BOOLEAN, AnswerText(failed) PROVE Goal
  BY <1>7 DEF AnswerText, Goto
<1>8. ASSUME NEW n \in 1..MaxCalls, NEW mode \in {"parallel", "sequential", "truncated"},
             NEW dangerous \in SUBSET (1..n), AnswerCalls(n, dangerous, mode)
      PROVE  Goal
  <2>1. [calls |-> n, dangerous |-> dangerous, mode |-> mode] \in Answer
    BY SessionAssumption DEF Answer
  <2> QED
    BY <1>8, <2>1 DEF AnswerCalls, Goto, Receive
<1>9. CASE Prepare
  <2>1. /\ pc = "batch" /\ pc' = pc /\ UNCHANGED <<saved, copied, stale, executed>>
        /\ \/ batch' = [batch EXCEPT !.prepared = @ + 1, !.ready = @ \cup {batch.prepared + 1}]
           \/ batch' = [batch EXCEPT !.prepared = @ + 1, !.done = @ \cup {batch.prepared + 1}]
    BY <1>9 DEF Prepare, history, execution
  <2>2. batch \in Batch
    BY DEF TypeInv, TypeOK
  <2>3. batch'.answer = batch.answer
    BY ONLY <2>1, <2>2 DEF Batch
  <2> QED
    BY ONLY <2>1, <2>3
<1>10. CASE RecordToolOutcome
  BY <1>10 DEF RecordToolOutcome, durable, execution, history, TypeInv, TypeOK, Batch
<1>11. ASSUME NEW k \in 1..MaxCalls, Execute(k) PROVE Goal
  BY <1>11 DEF Execute, durable, execution, loop, TypeInv, TypeOK, Batch
<1>12. ASSUME NEW terminate \in BOOLEAN, FinishBatch(terminate) PROVE Goal
  BY <1>12 DEF FinishBatch, Goto, history, execution
<1>13. CASE UNCHANGED vars
  BY <1>13 DEF vars
<1> QED
  BY <1>1, <1>2, <1>3, <1>4, <1>5, <1>6, <1>7, <1>8, <1>9, <1>10, <1>11, <1>12, <1>13
     DEF Next, Loop

LEMMA PrefixTrans ==
  ASSUME NEW s \in Seq(Entry), NEW t \in Seq(Entry), NEW u \in Seq(Entry),
         Prefix(s, t), Prefix(t, u)
  PROVE  Prefix(s, u)
<1>1. Len(s) \in Nat /\ Len(t) \in Nat /\ Len(u) \in Nat
  BY LenProperties
<1> QED
  BY <1>1 DEF Prefix

\* What the last decision copied is in every execution's entries.
LEMMA CopiedPrefix ==
  ASSUME StandInv, pc # "down"
  PROVE  Prefix(copied, entries)
<1>1. copied \in Seq(Entry) /\ saved \in Seq(Entry) /\ entries \in Seq(Entry)
  BY DEF StandInv, TypeInv, TypeOK
<1>2. CASE stale
  BY <1>2 DEF StandInv, Basis
<1>3. CASE ~stale
  BY <1>1, <1>3, PrefixTrans DEF StandInv, Basis
<1> QED
  BY <1>2, <1>3

LEMMA StandStep ==
  ASSUME StandInv, [Next]_vars
  PROVE  StandInv'
<1>0. EntriesStep /\ SavedStep /\ BasisStep /\ TypeInv'
  BY LogStep, StepTypes DEF StandInv
<1>1. /\ saved \in Seq(Entry) /\ entries \in Seq(Entry) /\ answers \in Seq(Answer)
      /\ Len(saved) \in Nat /\ Len(entries) \in Nat /\ Len(answers) \in Nat
      /\ Known(entries) /\ copied \in Seq(Entry) /\ Len(copied) \in Nat
      /\ Basis \in Seq(Entry) /\ Len(Basis) \in Nat
  BY LenProperties DEF StandInv, TypeInv, TypeOK, Basis
\* The entries grow by something that is in order.
<1>2. ASSUME NEW new \in Seq(Entry), entries' = entries \o new, Extends(new)
      PROVE  /\ Prefix(entries, entries') /\ Ordered(entries)'
             /\ Plain(new) => \A g : Earlier(entries, g) => Earlier(entries', g)
  <2>1. /\ Len(new) \in Nat /\ Len(entries') = Len(entries) + Len(new)
        /\ \A i \in 1..Len(entries) : entries'[i] = entries[i]
        /\ \A i \in 1..Len(entries') : i > Len(entries) =>
             i - Len(entries) \in 1..Len(new) /\ entries'[i] = new[i - Len(entries)]
    BY <1>1, <1>2, ConcatProperties, LenProperties
  <2>2. Prefix(entries, entries')
    BY <1>1, <2>1 DEF Prefix
  <2>3. CASE Plain(new)
    <3>1. \A i \in 1..Len(entries') : entries'[i].kind \in {"assistant", "result"} =>
                                        i \in 1..Len(entries)
      <4>1. \A i \in 1..Len(entries') : i > Len(entries) =>
              entries'[i].kind \notin {"assistant", "result"}
        BY ONLY <2>1, <2>3 DEF Plain
      <4> QED
        BY ONLY <1>1, <2>1, <4>1
    <3>2. Ordered(entries)'
      <4>1. Ordered(entries)
        BY DEF StandInv
      <4> QED
        BY ONLY <2>1, <3>1, <4>1 DEF Ordered
    <3>3. \A g : Earlier(entries, g) => Earlier(entries', g)
      BY <2>1, <3>1 DEF Earlier
    <3> QED
      BY <2>2, <3>2, <3>3
  <2>4. CASE new = <<Assistant(Len(answers) + 1)>>
    <3>1. /\ Len(new) = 1 /\ new[1].kind = "assistant" /\ new[1].id = Len(answers) + 1
      BY <2>4 DEF Assistant
    <3>2. \A i \in 1..Len(entries') : i > Len(entries) =>
            entries'[i].kind = "assistant" /\ entries'[i].id = Len(answers) + 1
      BY <1>1, <2>1, <3>1
    <3>3. ASSUME NEW i \in 1..Len(entries'), NEW j \in 1..Len(entries'), i < j,
                 entries'[i].kind = "result", entries'[j].kind = "assistant"
          PROVE  entries'[i].id < entries'[j].id
      <4>1. i \in 1..Len(entries) /\ entries'[i] = entries[i]
        <5>1. ~(i > Len(entries)) /\ i \in Nat
          BY <3>2, <3>3
        <5> QED
          BY ONLY <1>1, <2>1, <5>1
      <4>2. CASE j <= Len(entries)
        <5>1. j \in 1..Len(entries) /\ entries'[j] = entries[j]
          BY <1>1, <2>1, <3>3, <4>2
        <5> QED
          BY <3>3, <4>1, <5>1 DEF Ordered, StandInv
      <4>3. CASE j > Len(entries)
        <5>1. entries'[j].id = Len(answers) + 1
          BY <3>2, <3>3, <4>3
        <5>2. entries'[i].id \in 1..Len(answers)
          BY <1>1, <3>3, <4>1 DEF Known
        <5>3. Len(answers) \in Nat
          BY <1>1
        <5> QED
          BY ONLY <4>1, <5>1, <5>2, <5>3
      <4> QED
        BY <1>1, <2>1, <4>2, <4>3
    <3>4. ~Plain(new)
      BY <3>1 DEF Plain
    <3> QED
      BY <2>2, <3>3, <3>4 DEF Ordered
  <2>5. CASE new = <<Result(batch.answer, batch.recorded + 1)>>
    <3>1. Len(new) = 1 /\ new[1].kind = "result"
      BY <2>5 DEF Result
    <3>2. \A i \in 1..Len(entries') : i > Len(entries) =>
            i = Len(entries') /\ entries'[i].kind = "result"
      BY <1>1, <2>1, <3>1
    <3>3. \A i, j \in 1..Len(entries') : i < j /\ entries'[j].kind = "assistant" =>
            i \in 1..Len(entries) /\ j \in 1..Len(entries)
      <4>1. \A j \in 1..Len(entries') : entries'[j].kind = "assistant" => ~(j > Len(entries))
        BY ONLY <3>2
      <4> QED
        BY ONLY <1>1, <2>1, <4>1
    <3>4. Ordered(entries)'
      BY <2>1, <3>3 DEF Ordered, StandInv
    <3>5. ~Plain(new)
      BY <3>1 DEF Plain
    <3> QED
      BY <2>2, <3>4, <3>5
  <2> QED
    BY <1>2, <2>3, <2>4, <2>5 DEF Extends
<1>3. Ordered(entries)'
  <2>1. CASE entries' = entries
    BY <2>1 DEF Ordered, StandInv
  <2>2. CASE entries' = <<>>
    BY <2>2 DEF Ordered
  <2>3. CASE entries' \in {saved, copied}
    BY <2>3 DEF Ordered, StandInv
  <2> QED
    BY <1>0, <1>2, <2>1, <2>2, <2>3 DEF EntriesStep
<1>4. Ordered(saved)' /\ Ordered(copied)'
  BY <1>0 DEF SavedStep, BasisStep, Ordered, StandInv
<1>5. pc' # "down" => Prefix(Basis', entries')
  <2> SUFFICES ASSUME pc' # "down" PROVE Prefix(Basis', entries')
    OBVIOUS
  <2>0. Prefix(entries, entries)
    BY <1>1 DEF Prefix
  <2>1. CASE pc = "down"
    <3>1. entries' = Basis' /\ Len(entries') \in Nat
      BY <1>0, <2>1, LenProperties DEF EntriesStep, TypeInv, TypeOK
    <3> QED
      BY <3>1 DEF Prefix
  <2>2. CASE pc # "down"
    <3>1. Prefix(entries, entries') /\ entries' \in Seq(Entry)
      BY <1>0, <1>2, <2>0, <2>2 DEF EntriesStep, TypeInv, TypeOK
    <3>2. Basis' = Basis \/ Basis' = entries
      BY <1>0, <2>2 DEF BasisStep, Basis
    <3>3. Prefix(Basis, entries)
      BY <2>2 DEF StandInv
    <3> QED
      BY <1>1, <3>1, <3>2, <3>3, PrefixTrans
  <2> QED
    BY <2>1, <2>2
<1>8. Prefix(copied', saved')
  <2>1. Prefix(saved, saved)
    BY <1>1 DEF Prefix
  <2>2. Prefix(copied, saved) /\ (pc # "down" => Prefix(copied, entries))
    BY CopiedPrefix DEF StandInv
  <2> QED
    BY <1>0, <2>1, <2>2 DEF BasisStep
<1>9. pc' = "down" => ~stale'
  BY <1>0 DEF BasisStep, StandInv
<1>6. pc' = "checkpoint" => Earlier(entries, Len(answers))'
  <2> SUFFICES ASSUME pc' = "checkpoint" PROVE Earlier(entries', Len(answers'))
    BY DEF Earlier
  <2>1. CASE pc = "checkpoint"
    <3>1. Earlier(entries, Len(answers))
      BY <2>1 DEF StandInv
    <3>2. \/ entries' = entries /\ answers' = answers
          \/ \E new \in Seq(Entry) : entries' = entries \o new /\ Extends(new)
      BY <1>0, <2>1 DEF EntriesStep
    <3>3. ASSUME NEW new \in Seq(Entry), entries' = entries \o new, Extends(new)
          PROVE  Earlier(entries', Len(answers'))
      <4>1. Plain(new) /\ answers' = answers
        BY <2>1, <3>3 DEF Extends
      <4> QED
        BY <1>2, <3>1, <3>3, <4>1
    <3> QED
      BY <3>1, <3>2, <3>3
  <2>2. CASE /\ entries' = Append(entries, Assistant(Len(answers) + 1))
             /\ \E a \in Answer : answers' = Append(answers, a)
    <3>1. Len(answers') = Len(answers) + 1
      BY <1>1, <2>2, AppendProperties
    <3>2. /\ Len(entries') = Len(entries) + 1
          /\ \A i \in 1..Len(entries') :
               entries'[i] = IF i <= Len(entries) THEN entries[i] ELSE Assistant(Len(answers) + 1)
      BY <1>1, <2>2, EntryTypes, AppendProperties
    <3>3. ASSUME NEW i \in 1..Len(entries'), entries'[i].kind = "result"
          PROVE  entries'[i].id < Len(answers')
      <4>1. i \in 1..Len(entries) /\ entries'[i] = entries[i]
        BY <1>1, <3>2, <3>3 DEF Assistant
      <4>2. entries'[i].id \in 1..Len(answers)
        BY <1>1, <3>3, <4>1 DEF Known
      <4> QED
        BY <1>1, <3>1, <4>2
    <3> QED
      BY <3>3 DEF Earlier
  <2> QED
    BY <2>1, <2>2, PcStep DEF StandInv
<1>7. pc' = "batch" => Earlier(Basis, batch.answer)'
  <2> SUFFICES ASSUME pc' = "batch" PROVE Earlier(Basis', batch'.answer)
    BY DEF Earlier
  <2>1. CASE pc = "batch" /\ UNCHANGED <<saved, copied, stale>> /\ batch'.answer = batch.answer
    <3>1. Basis' = Basis
      BY <2>1 DEF Basis
    <3> QED
      BY <2>1, <3>1 DEF StandInv
  <2>2. CASE /\ pc = "loading" /\ UNCHANGED <<saved, copied, stale>>
             /\ hasPendingToolCalls(entries) /\ batch' = BeginBatch(Last(entries).id)
    <3>1. /\ Len(entries) \in 1..Len(entries) /\ entries[Len(entries)].kind = "assistant"
          /\ Last(entries) = entries[Len(entries)]
      BY <1>1, <2>2, EmptySeq DEF hasPendingToolCalls, Last
    <3>2. batch'.answer = entries[Len(entries)].id
      BY <2>2, <3>1 DEF BeginBatch, NoBatch
    <3>3. Prefix(Basis, entries) /\ Basis' = Basis
      BY <2>2 DEF StandInv, Basis
    <3>4. ASSUME NEW i \in 1..Len(Basis), Basis[i].kind = "result"
          PROVE  Basis[i].id < batch'.answer
      <4>1. i \in 1..Len(entries) /\ entries[i] = Basis[i]
        BY <1>1, <3>3 DEF Prefix
      <4>2. i < Len(entries)
        BY <1>1, <3>1, <3>4, <4>1
      <4> QED
        BY <3>1, <3>2, <3>4, <4>1, <4>2 DEF Ordered, StandInv
    <3> QED
      BY <3>3, <3>4 DEF Earlier
  <2>3. CASE /\ pc = "checkpoint" /\ saved' = entries /\ ~stale'
             /\ batch' = FirstBatch(Len(answers))
    <3>1. batch'.answer = Len(answers) /\ Basis' = entries
      BY <2>3 DEF FirstBatch, failTruncatedToolCalls, BeginBatch, NoBatch, Basis
    <3> QED
      BY <2>3, <3>1 DEF StandInv
  <2> QED
    BY <2>1, <2>2, <2>3, PcStep DEF StandInv
<1> QED
  BY <1>0, <1>3, <1>4, <1>5, <1>6, <1>7, <1>8, <1>9 DEF StandInv

LEMMA InitStands == Init => StandInv
<1> SUFFICES ASSUME Init PROVE StandInv
  OBVIOUS
<1>1. TypeInv
  BY InitTypes
<1> QED
  BY <1>1 DEF Init, StandInv, Ordered, Prefix

\* A snapshot only ever adds to the entries that its execution built on, and
\* keeps those that the last decision copied, whatever crashes, pauses and
\* failed reads of the session come between.
THEOREM SavedGrows == Spec => SessionGrows
<1>0. ASSUME StandInv, [Next]_vars PROVE StandInv'
  BY <1>0, StandStep, ZenonT(60)
<1>1. StandInv /\ [Next]_vars => StandInv'
  BY <1>0
<1>2. ASSUME StandInv, [Next]_vars
      PROVE  [IsPrefix(copied, saved') /\ IsPrefix(Basis, saved')]_saved
  <2>1. saved' = saved \/ (saved' = entries /\ pc # "down")
    BY <1>2, LogStep DEF SavedStep, StandInv
  <2>2. CASE saved' = entries /\ pc # "down"
    <3>1. /\ Prefix(copied, entries) /\ Prefix(Basis, entries)
          /\ copied \in Seq(Entry) /\ Basis \in Seq(Entry) /\ entries \in Seq(Entry)
      BY <1>2, <2>2, CopiedPrefix DEF StandInv, TypeInv, TypeOK, Basis
    <3> QED
      BY <2>2, <3>1, PrefixMeans
  <2> QED
    BY <2>1, <2>2
<1>3. StandInv /\ [Next]_vars => [IsPrefix(copied, saved') /\ IsPrefix(Basis, saved')]_saved
  BY <1>2
<1> QED
  BY <1>1, <1>3, InitStands, PTL DEF Spec, SessionGrows

\* A call whose result was saved is never run again, unless the execution could
\* not read the session and the result was saved after the last decision.
THEOREM ResultsStand == Spec => SavedResultsStand
<1> DEFINE Stands ==
             \A i \in DOMAIN Basis : Basis[i].kind = "result" =>
               \A e \in executed' \ executed : <<e[1], e[2]>> # <<Basis[i].id, Basis[i].call>>
<1>0. ASSUME StandInv, [Next]_vars PROVE StandInv'
  BY <1>0, StandStep, ZenonT(60)
<1>1. StandInv /\ [Next]_vars => StandInv'
  BY <1>0
<1>2. ASSUME StandInv, [Next]_vars PROVE Stands
  <2>1. DOMAIN Basis = 1..Len(Basis)
    BY <1>2 DEF StandInv, TypeInv, TypeOK, Basis
  <2>2. CASE executed' = executed
    BY <2>2
  <2>3. CASE /\ pc = "batch"
             /\ \E k \in 1..MaxCalls : executed' = executed \cup {<<batch.answer, k, starts>>}
    <3>1. \A e \in executed' \ executed : e[1] = batch.answer
      BY <2>3
    <3>2. batch.answer \in Nat /\ Earlier(Basis, batch.answer)
      BY <1>2, <2>3 DEF StandInv, TypeInv, TypeOK, Batch
    <3>3. \A i \in DOMAIN Basis : Basis[i].kind = "result" => Basis[i].id # batch.answer
      BY <2>1, <3>2 DEF Earlier
    <3> QED
      BY <3>1, <3>3
  <2>4. TypeInv
    BY <1>2 DEF StandInv
  <2> QED
    BY <1>2, <2>2, <2>3, <2>4, PcStep
<1>3. StandInv /\ [Next]_vars => [Stands]_vars
  BY <1>2
<1> QED
  BY <1>1, <1>3, InitStands, PTL DEF Spec, SavedResultsStand

-----------------------------------------------------------------------------
(* Controls are accepted once and reach the provider in their order.       *)

\* Of a log: what the execution added to the n entries that it started from.
Own(log, n) == n+1..Len(log)
Here(log, n, c) == \E a \in Own(log, n) : log[a] = Accepted(c)
Before(log, n, c, d) ==
  \E a, b \in Own(log, n) : a < b /\ log[a] = Accepted(c) /\ log[b] = Accepted(d)

AcceptedOnce(log, n) ==
  \A a, b \in Own(log, n) : log[a].kind = "accepted" /\ log[a] = log[b] => a = b

QueuedInOrder(log, n) ==
  /\ \A i \in Own(log, n) : log[i].kind = "queued" => Here(log, n, log[i].id)
  /\ \A i, j \in Own(log, n) :
       /\ i < j /\ log[i].kind = "queued" /\ log[j].kind = "queued"
       /\ Delivery[log[i].id] = Delivery[log[j].id]
       => Before(log, n, log[i].id, log[j].id)

\* What waits in the queue of a delivery stands there in the order in which it
\* was accepted, and behind all that left the queue.
InLine(log, n, queue, delivery) ==
  /\ \A k \in 1..Len(queue) : Delivery[queue[k]] = delivery /\ Here(log, n, queue[k])
  /\ \A k, l \in 1..Len(queue) : k < l => Before(log, n, queue[k], queue[l])
  /\ \A i \in Own(log, n), k \in 1..Len(queue) :
       log[i].kind = "queued" /\ Delivery[log[i].id] = delivery =>
         Before(log, n, log[i].id, queue[k])

\* An accepted control is still in the inbox only until it is marked.
Accounted ==
  \A a \in Own(entries, loaded) :
    entries[a].kind = "accepted" =>
      /\ entries[a].id \in sent
      /\ \A m \in 1..Len(inbox) : inbox[m] = entries[a].id => accepting /\ m = 1

OrderInv ==
  /\ TypeInv
  /\ pc = "down" => entries = <<>> /\ steering = <<>> /\ followUps = <<>> /\ ~accepting
  /\ \A m \in 1..Len(inbox) : inbox[m] \in sent
  /\ \A l, m \in 1..Len(inbox) : inbox[l] = inbox[m] => l = m
  /\ Accounted
  /\ AcceptedOnce(entries, loaded) /\ QueuedInOrder(entries, loaded)
  /\ InLine(entries, loaded, steering, "steer")
  /\ InLine(entries, loaded, followUps, "follow_up")

\* Entries are only added behind.
LEMMA OwnGrows ==
  ASSUME NEW log \in Seq(Entry), NEW n \in 0..Len(log), NEW new \in Seq(Entry)
  PROVE  /\ Own(log, n) \subseteq Own(log \o new, n)
         /\ \A i \in Own(log, n) : (log \o new)[i] = log[i]
         /\ \A i \in Own(log \o new, n) : i \notin Own(log, n) =>
              i - Len(log) \in 1..Len(new) /\ (log \o new)[i] = new[i - Len(log)]
         /\ \A k \in 1..Len(new) : Len(log) + k \in Own(log \o new, n)
         /\ \A i \in Own(log, n) : i <= Len(log)
         /\ Len(log) \in Nat /\ Own(log \o new, n) \subseteq Nat
<1>1. /\ Len(log) \in Nat /\ Len(new) \in Nat /\ Len(log \o new) = Len(log) + Len(new)
      /\ \A i \in 1..Len(log) + Len(new) :
           (log \o new)[i] = IF i <= Len(log) THEN log[i] ELSE new[i - Len(log)]
  BY ConcatProperties, LenProperties
<1> QED
  BY <1>1 DEF Own

LEMMA BeforeStays ==
  ASSUME NEW log \in Seq(Entry), NEW n \in 0..Len(log), NEW new \in Seq(Entry)
  PROVE  /\ \A c : Here(log, n, c) => Here(log \o new, n, c)
         /\ \A c, d : Before(log, n, c, d) => Before(log \o new, n, c, d)
  BY OwnGrows DEF Here, Before

\* What is neither accepted nor taken from a queue changes no order.
LEMMA OtherKeepsOrder ==
  ASSUME NEW log \in Seq(Entry), NEW n \in 0..Len(log), NEW new \in Seq(Entry),
         \A k \in 1..Len(new) : new[k].kind \notin {"accepted", "queued"},
         AcceptedOnce(log, n), QueuedInOrder(log, n)
  PROVE  /\ AcceptedOnce(log \o new, n) /\ QueuedInOrder(log \o new, n)
         /\ \A queue, delivery :
              InLine(log, n, queue, delivery) => InLine(log \o new, n, queue, delivery)
<1> DEFINE all == log \o new
<1>1. \A i \in Own(all, n) : all[i].kind \in {"accepted", "queued"} =>
        i \in Own(log, n) /\ all[i] = log[i]
  <2>1. /\ \A i \in Own(log, n) : all[i] = log[i]
        /\ \A i \in Own(all, n) : i \notin Own(log, n) =>
             i - Len(log) \in 1..Len(new) /\ all[i] = new[i - Len(log)]
    BY OwnGrows
  <2>2. \A k \in 1..Len(new) : new[k].kind \notin {"accepted", "queued"}
    OBVIOUS
  <2> HIDE DEF all
  <2> QED
    BY ONLY <2>1, <2>2
<1>2. AcceptedOnce(all, n)
  BY <1>1 DEF AcceptedOnce
<1>3. QueuedInOrder(all, n)
  BY <1>1, BeforeStays DEF QueuedInOrder
<1>4. \A queue, delivery : InLine(log, n, queue, delivery) => InLine(all, n, queue, delivery)
  BY <1>1, BeforeStays DEF InLine
<1> QED
  BY <1>2, <1>3, <1>4

\* A control that is accepted for the first time goes to the end of its queue.
LEMMA AcceptKeepsOrder ==
  ASSUME NEW log \in Seq(Entry), NEW n \in 0..Len(log), NEW c \in Controls,
         \A a \in Own(log, n) : log[a] # Accepted(c),
         AcceptedOnce(log, n), QueuedInOrder(log, n)
  PROVE  LET all == Append(log, Accepted(c)) IN
         /\ AcceptedOnce(all, n) /\ QueuedInOrder(all, n)
         /\ \A queue, delivery :
              InLine(log, n, queue, delivery) => InLine(all, n, queue, delivery)
         /\ \A queue \in Seq(Controls) : \A delivery :
              InLine(log, n, queue, delivery) /\ Delivery[c] = delivery =>
                InLine(all, n, Append(queue, c), delivery)
<1> DEFINE e == Accepted(c)
           all == Append(log, e)
<1>1. /\ e \in Entry /\ e.kind = "accepted" /\ <<e>> \in Seq(Entry) /\ Len(<<e>>) = 1
      /\ <<e>>[1] = e /\ all = log \o <<e>>
  BY EntryTypes, OneEntry DEF Accepted
<1>2. /\ \A i \in Own(log, n) : i \in Own(all, n) /\ all[i] = log[i] /\ i < Len(log) + 1
      /\ \A i \in Own(all, n) : i \in Own(log, n) \/ (i = Len(log) + 1 /\ all[i] = e)
      /\ Len(log) + 1 \in Own(all, n) /\ all[Len(log) + 1] = e
  BY <1>1, OwnGrows, AppendProperties DEF Own
<1>3. /\ \A d : Here(log, n, d) => Here(all, n, d)
      /\ \A d, f : Before(log, n, d, f) => Before(all, n, d, f)
  BY <1>1, BeforeStays
<1>4. \A d : Here(log, n, d) => Before(all, n, d, c)
  BY <1>2 DEF Here, Before
<1>5. Here(all, n, c)
  BY <1>2 DEF Here
<1>a. ~(e.kind = "queued")
  BY <1>1
<1>b. \A a \in Own(log, n) : log[a] # e
  OBVIOUS
<1> HIDE DEF e, all
<1>6. AcceptedOnce(all, n)
  BY <1>2, <1>b DEF AcceptedOnce
<1>7. \A i \in Own(all, n) : all[i].kind = "queued" => i \in Own(log, n) /\ all[i] = log[i]
  BY <1>2, <1>a
<1>8. QueuedInOrder(all, n)
  BY <1>3, <1>7 DEF QueuedInOrder
<1>9. \A queue, delivery : InLine(log, n, queue, delivery) => InLine(all, n, queue, delivery)
  BY <1>3, <1>7 DEF InLine
<1>10. ASSUME NEW queue \in Seq(Controls), NEW delivery, InLine(log, n, queue, delivery),
              Delivery[c] = delivery
       PROVE  InLine(all, n, Append(queue, c), delivery)
  <2> DEFINE longer == Append(queue, c)
  <2>1. /\ Len(queue) \in Nat /\ Len(longer) = Len(queue) + 1 /\ longer[Len(queue) + 1] = c
        /\ \A k \in 1..Len(queue) : longer[k] = queue[k]
    BY AppendProperties, LenProperties
  <2> HIDE DEF longer
  <2>2. \A k \in 1..Len(longer) : k \in 1..Len(queue) \/ (k = Len(queue) + 1 /\ longer[k] = c)
    BY <2>1
  <2>3. \A k \in 1..Len(longer) : Delivery[longer[k]] = delivery /\ Here(all, n, longer[k])
    BY <1>3, <1>5, <1>10, <2>1, <2>2 DEF InLine
  <2>4. ASSUME NEW k \in 1..Len(longer), NEW l \in 1..Len(longer), k < l
        PROVE  Before(all, n, longer[k], longer[l])
    <3>1. k \in 1..Len(queue) /\ longer[k] = queue[k]
      BY <2>1, <2>4
    <3>2. CASE l \in 1..Len(queue)
      BY <1>3, <1>10, <2>1, <2>4, <3>1, <3>2 DEF InLine
    <3>3. CASE longer[l] = c
      BY <1>4, <1>10, <3>1, <3>3 DEF InLine
    <3> QED
      BY <2>2, <3>2, <3>3
  <2>5. ASSUME NEW i \in Own(all, n), NEW k \in 1..Len(longer), all[i].kind = "queued",
               Delivery[all[i].id] = delivery
        PROVE  Before(all, n, all[i].id, longer[k])
    <3>1. i \in Own(log, n) /\ all[i] = log[i] /\ Here(log, n, log[i].id)
      BY <1>7, <2>5 DEF QueuedInOrder
    <3>2. CASE k \in 1..Len(queue)
      BY <1>3, <1>10, <2>1, <2>5, <3>1, <3>2 DEF InLine
    <3>3. CASE longer[k] = c
      BY <1>4, <3>1, <3>3
    <3> QED
      BY <2>2, <3>2, <3>3
  <2> QED
    BY <2>3, <2>4, <2>5 DEF InLine, longer
<1> QED
  BY <1>6, <1>8, <1>9, <1>10 DEF all, e

\* What is taken from a queue are its first messages, and the rest stays.
LEMMA TakenFirst ==
  ASSUME NEW queue \in Seq(Controls), queue # <<>>
  PROVE  /\ Len(Taken(queue)) \in Nat /\ Len(Left(queue)) \in Nat
         /\ Len(queue) = Len(Taken(queue)) + Len(Left(queue))
         /\ \A k \in 1..Len(Taken(queue)) : k \in 1..Len(queue) /\ Taken(queue)[k] = queue[k]
         /\ \A k \in 1..Len(Left(queue)) : /\ Len(Taken(queue)) + k \in 1..Len(queue)
                                           /\ Left(queue)[k] = queue[Len(Taken(queue)) + k]
         /\ DOMAIN Taken(queue) = 1..Len(Taken(queue))
<1>1. Len(queue) \in Nat /\ Len(queue) > 0 /\ DOMAIN queue = 1..Len(queue)
  BY EmptySeq, LenProperties
<1>2. CASE OneAtATime
  <2>1. \A k \in 1..1 : queue[k] \in Controls
    BY <1>1, ElementOfSeq
  <2>2. /\ SubSeq(queue, 1, 1) \in Seq(Controls) /\ Len(SubSeq(queue, 1, 1)) = 1
        /\ \A k \in 1..1 : SubSeq(queue, 1, 1)[k] = queue[k]
    BY <2>1, SubSeqProperties
  <2>3. /\ Tail(queue) \in Seq(Controls) /\ Len(Tail(queue)) = Len(queue) - 1
        /\ \A k \in 1..Len(queue) - 1 : Tail(queue)[k] = queue[k + 1]
    BY HeadTailProperties
  <2>4. Taken(queue) = SubSeq(queue, 1, 1) /\ Left(queue) = Tail(queue)
    BY <1>2 DEF Taken, Left
  <2> QED
    BY <1>1, <2>2, <2>3, <2>4
<1>3. CASE ~OneAtATime
  <2>1. Taken(queue) = queue /\ Left(queue) = <<>>
    BY <1>3 DEF Taken, Left
  <2> QED
    BY <1>1, <2>1
<1> QED
  BY <1>2, <1>3

LEMMA InjectKeepsOrder ==
  ASSUME NEW log \in Seq(Entry), NEW n \in 0..Len(log), NEW queue \in Seq(Controls),
         queue # <<>>, NEW delivery, InLine(log, n, queue, delivery),
         AcceptedOnce(log, n), QueuedInOrder(log, n)
  PROVE  LET new == [i \in DOMAIN Taken(queue) |-> Queued(Taken(queue)[i])]
             all == log \o new IN
         /\ AcceptedOnce(all, n) /\ QueuedInOrder(all, n)
         /\ InLine(all, n, Left(queue), delivery)
         /\ \A other, d :
              InLine(log, n, other, d) /\ d # delivery => InLine(all, n, other, d)
         /\ \A a \in Own(all, n) : all[a].kind = "accepted" => a \in Own(log, n) /\ all[a] = log[a]
<1> DEFINE new == [i \in DOMAIN Taken(queue) |-> Queued(Taken(queue)[i])]
           all == log \o new
           m == Len(Taken(queue))
<1>1. new \in Seq(Entry)
  BY TakenType
<1>2. /\ m \in Nat /\ DOMAIN new = 1..m
      /\ \A k \in 1..m : k \in 1..Len(queue) /\ new[k] = Queued(queue[k])
      /\ \A k \in 1..Len(Left(queue)) :
           m + k \in 1..Len(queue) /\ Left(queue)[k] = queue[m + k] /\ m < m + k
  BY TakenFirst
<1>3. Len(new) = m
  BY <1>1, <1>2, LenProperties
<1>4. \A k \in 1..m : new[k].kind = "queued" /\ new[k].id = queue[k]
  BY <1>2 DEF Queued
<1> HIDE DEF new, m
<1>a. /\ \A i \in Own(log, n) : i \in Own(all, n) /\ all[i] = log[i]
      /\ \A i \in Own(all, n) : i \notin Own(log, n) =>
           i - Len(log) \in 1..Len(new) /\ all[i] = new[i - Len(log)]
      /\ \A i \in Own(log, n) : i <= Len(log)
      /\ Len(log) \in Nat /\ Own(all, n) \subseteq Nat
  BY <1>1, OwnGrows
<1>5. /\ \A i \in Own(log, n) : i \in Own(all, n) /\ all[i] = log[i]
      /\ \A i \in Own(all, n) : i \notin Own(log, n) =>
           /\ i - Len(log) \in 1..m /\ all[i].kind = "queued"
           /\ all[i].id = queue[i - Len(log)]
      /\ \A i \in Own(log, n) : i <= Len(log)
      /\ Len(log) \in Nat /\ Own(all, n) \subseteq Nat
  <2>1. ASSUME NEW i \in Own(all, n), i \notin Own(log, n)
        PROVE  /\ i - Len(log) \in 1..m /\ all[i].kind = "queued"
               /\ all[i].id = queue[i - Len(log)]
    <3>1. i - Len(log) \in 1..m /\ all[i] = new[i - Len(log)]
      BY ONLY <1>a, <1>3, <2>1
    <3> QED
      BY ONLY <3>1, <1>4
  <2> QED
    BY ONLY <1>a, <2>1
<1>6. /\ \A d : Here(log, n, d) => Here(all, n, d)
      /\ \A d, f : Before(log, n, d, f) => Before(all, n, d, f)
  BY <1>1, BeforeStays
<1> HIDE DEF all
<1>7. \A a \in Own(all, n) : all[a].kind = "accepted" => a \in Own(log, n) /\ all[a] = log[a]
  BY <1>5
<1>8. AcceptedOnce(all, n)
  BY <1>5, <1>7 DEF AcceptedOnce
<1>9. /\ \A k \in 1..Len(queue) : Delivery[queue[k]] = delivery /\ Here(all, n, queue[k])
      /\ \A k, l \in 1..Len(queue) : k < l => Before(all, n, queue[k], queue[l])
      /\ \A i \in Own(log, n), k \in 1..Len(queue) :
           log[i].kind = "queued" /\ Delivery[log[i].id] = delivery =>
             Before(all, n, log[i].id, queue[k])
  BY <1>6 DEF InLine
<1>10. QueuedInOrder(all, n)
  <2>1. ASSUME NEW i \in Own(all, n), all[i].kind = "queued" PROVE Here(all, n, all[i].id)
    <3>1. CASE i \in Own(log, n)
      BY <1>5, <1>6, <2>1, <3>1 DEF QueuedInOrder
    <3>2. CASE i \notin Own(log, n)
      BY <1>2, <1>5, <1>9, <3>2
    <3> QED
      BY <3>1, <3>2
  <2>2. ASSUME NEW i \in Own(all, n), NEW j \in Own(all, n), i < j, all[i].kind = "queued",
               all[j].kind = "queued", Delivery[all[i].id] = Delivery[all[j].id]
        PROVE  Before(all, n, all[i].id, all[j].id)
    <3>1. CASE j \in Own(log, n)
      <4>1. i \in Own(log, n)
        BY <1>5, <2>2, <3>1
      <4> QED
        BY <1>5, <1>6, <2>2, <3>1, <4>1 DEF QueuedInOrder
    <3>2. CASE i \in Own(log, n) /\ j \notin Own(log, n)
      <4>1. j - Len(log) \in 1..Len(queue) /\ all[j].id = queue[j - Len(log)]
        BY <1>2, <1>5, <3>2
      <4>2. all[i] = log[i] /\ Delivery[all[j].id] = delivery
        BY <1>5, <1>9, <3>2, <4>1
      <4> QED
        BY <1>9, <2>2, <3>2, <4>1, <4>2
    <3>3. CASE i \notin Own(log, n) /\ j \notin Own(log, n)
      <4>1. /\ i - Len(log) \in 1..Len(queue) /\ all[i].id = queue[i - Len(log)]
            /\ j - Len(log) \in 1..Len(queue) /\ all[j].id = queue[j - Len(log)]
        BY <1>2, <1>5, <3>3
      <4>2. i - Len(log) < j - Len(log)
        BY <1>5, <2>2
      <4> QED
        BY <1>9, <4>1, <4>2
    <3> QED
      BY <3>1, <3>2, <3>3
  <2> QED
    BY <2>1, <2>2 DEF QueuedInOrder
<1>11. InLine(all, n, Left(queue), delivery)
  <2> DEFINE rest == Left(queue)
  <2>1. \A k \in 1..Len(rest) : m + k \in 1..Len(queue) /\ rest[k] = queue[m + k]
    BY <1>2
  <2>2. Len(rest) \in Nat
    BY TakenFirst
  <2> HIDE DEF rest
  <2>3. \A k \in 1..Len(rest) : Delivery[rest[k]] = delivery /\ Here(all, n, rest[k])
    BY <1>9, <2>1
  <2>4. \A k, l \in 1..Len(rest) : k < l => Before(all, n, rest[k], rest[l])
    <3>1. \A k, l \in 1..Len(rest) : k < l => m + k < m + l
      BY <1>2, <2>2
    <3> QED
      BY <1>9, <2>1, <3>1
  <2>5. ASSUME NEW i \in Own(all, n), NEW k \in 1..Len(rest), all[i].kind = "queued",
               Delivery[all[i].id] = delivery
        PROVE  Before(all, n, all[i].id, rest[k])
    <3>1. CASE i \in Own(log, n)
      BY SMTT(30), <1>5, <1>9, <2>1, <2>5, <3>1
    <3>2. CASE i \notin Own(log, n)
      <4>1. /\ i - Len(log) \in 1..Len(queue) /\ i - Len(log) < m + k
            /\ all[i].id = queue[i - Len(log)]
        BY <1>2, <1>5, <2>2, <3>2
      <4> QED
        BY <1>9, <2>1, <4>1
    <3> QED
      BY <3>1, <3>2
  <2> QED
    BY <2>3, <2>4, <2>5 DEF InLine, rest
<1>12. ASSUME NEW other, NEW d, InLine(log, n, other, d), d # delivery
       PROVE  InLine(all, n, other, d)
  <2>1. \A i \in Own(all, n) : all[i].kind = "queued" /\ Delivery[all[i].id] = d =>
          i \in Own(log, n) /\ all[i] = log[i]
    BY <1>2, <1>5, <1>9, <1>12
  <2> QED
    BY <1>6, <1>12, <2>1 DEF InLine
<1> QED
  BY <1>7, <1>8, <1>10, <1>11, <1>12 DEF all, new

LEMMA OrderStep ==
  ASSUME OrderInv, [Next]_vars
  PROVE  OrderInv'
<1>0. TypeInv /\ TypeInv'
  BY StepTypes DEF OrderInv
<1>1. /\ entries \in Seq(Entry) /\ loaded \in 0..Len(entries) /\ inbox \in Seq(Controls)
      /\ steering \in Seq(Controls) /\ followUps \in Seq(Controls)
      /\ Len(entries) \in Nat /\ Len(inbox) \in Nat
  BY <1>0, LenProperties DEF TypeInv, TypeOK
<1>2. /\ AcceptedOnce(entries, loaded) /\ QueuedInOrder(entries, loaded) /\ Accounted
      /\ InLine(entries, loaded, steering, "steer")
      /\ InLine(entries, loaded, followUps, "follow_up")
      /\ \A m \in 1..Len(inbox) : inbox[m] \in sent
      /\ \A l, m \in 1..Len(inbox) : inbox[l] = inbox[m] => l = m
  BY DEF OrderInv
\* What is left to show of a step.
<1> DEFINE Resting == pc' = "down" => /\ entries' = <<>> /\ steering' = <<>>
                                     /\ followUps' = <<>> /\ ~accepting'
           Inbox ==
             /\ \A m \in 1..Len(inbox') : inbox'[m] \in sent'
             /\ \A l, m \in 1..Len(inbox') : inbox'[l] = inbox'[m] => l = m
           Order ==
             /\ AcceptedOnce(entries', loaded') /\ QueuedInOrder(entries', loaded')
             /\ InLine(entries', loaded', steering', "steer")
             /\ InLine(entries', loaded', followUps', "follow_up")
<1>3. ASSUME Resting, Inbox, Order, Accounted' PROVE OrderInv'
  BY <1>0, <1>3 DEF OrderInv, AcceptedOnce, QueuedInOrder, InLine, Here, Before, Own
<1>4. ASSUME UNCHANGED <<entries, loaded, steering, followUps>> PROVE Order
  BY <1>2, <1>4
<1>5. ASSUME UNCHANGED <<inbox, sent>> PROVE Inbox
  BY <1>2, <1>5
<1>6. ASSUME UNCHANGED <<entries, loaded, steering, followUps, accepting, inbox, sent>>,
             pc' = "down" <=> pc = "down"
      PROVE  OrderInv'
  <2>1. Accounted'
    BY <1>2, <1>6 DEF Accounted, Own
  <2>2. Resting
    BY <1>6 DEF OrderInv
  <2> QED
    BY <1>3, <1>4, <1>5, <1>6, <2>1, <2>2
\* An execution begins or ends.
<1>7. ASSUME Own(entries', loaded') = {}, steering' = <<>>, followUps' = <<>>,
             UNCHANGED <<sent, inbox>>, pc' = "down" => entries' = <<>> /\ ~accepting'
      PROVE  OrderInv'
  <2>1. Order
    BY <1>7 DEF AcceptedOnce, QueuedInOrder, InLine
  <2>2. Accounted'
    BY <1>7 DEF Accounted, Own
  <2> QED
    BY <1>3, <1>5, <1>7, <2>1, <2>2
<1>8. ASSUME Down, loaded' = 0, UNCHANGED <<sent, inbox>> PROVE OrderInv'
  <2>1. /\ pc' = "down" /\ entries' = <<>> /\ steering' = <<>> /\ followUps' = <<>>
        /\ accepting' = FALSE
    BY <1>8 DEF Down
  <2>2. Own(entries', loaded') = {}
    BY <1>8, <2>1 DEF Own
  <2> QED
    BY <1>7, <1>8, <2>1, <2>2
\* Entries are added that are no controls.
<1>9. ASSUME NEW new \in Seq(Entry), entries' = entries \o new, pc' # "down",
             \A k \in 1..Len(new) : new[k].kind \notin {"accepted", "queued"},
             UNCHANGED <<loaded, steering, followUps, accepting, inbox, sent>>
      PROVE  OrderInv'
  <2>1. Order
    BY <1>1, <1>2, <1>9, OtherKeepsOrder
  <2>2. \A a \in Own(entries', loaded') : entries'[a].kind = "accepted" =>
          a \in Own(entries, loaded) /\ entries'[a] = entries[a]
    <3> DEFINE all == entries \o new
    <3>1. /\ \A a \in Own(entries, loaded) : all[a] = entries[a]
          /\ \A a \in Own(all, loaded) : a \notin Own(entries, loaded) =>
               a - Len(entries) \in 1..Len(new) /\ all[a] = new[a - Len(entries)]
      BY <1>1, OwnGrows
    <3>2. \A k \in 1..Len(new) : new[k].kind # "accepted"
      BY <1>9
    <3>3. entries' = all /\ loaded' = loaded
      BY <1>9
    <3> HIDE DEF all
    <3> QED
      BY ONLY <3>1, <3>2, <3>3
  <2>3. Accounted'
    <3>1. \A a \in Own(entries', loaded') : entries'[a].kind = "accepted" =>
            /\ entries'[a].id \in sent
            /\ \A m \in 1..Len(inbox) : inbox[m] = entries'[a].id => accepting /\ m = 1
      BY <1>2, <2>2 DEF Accounted
    <3>2. inbox' = inbox /\ sent' = sent /\ accepting' = accepting
      BY <1>9
    <3> QED
      BY ONLY <3>1, <3>2 DEF Accounted, Own
  <2> QED
    BY <1>3, <1>5, <1>9, <2>1, <2>3
<1>10. ASSUME NEW e \in Entry, entries' = Append(entries, e), pc' # "down",
              e.kind \notin {"accepted", "queued"},
              UNCHANGED <<loaded, steering, followUps, accepting, inbox, sent>>
       PROVE  OrderInv'
  <2> DEFINE new == <<e>>
  <2>1. new \in Seq(Entry) /\ Len(new) = 1 /\ new[1] = e /\ entries' = entries \o new
    BY <1>1, <1>10, OneEntry
  <2> HIDE DEF new
  <2>2. \A k \in 1..Len(new) : new[k].kind \notin {"accepted", "queued"}
    BY <1>10, <2>1
  <2> QED
    BY <1>9, <1>10, <2>1, <2>2
\* Messages are taken from a queue.
<1>11. ASSUME Inject(steering), steering # <<>>, steering' = Left(steering), pc' # "down",
              UNCHANGED <<loaded, followUps, accepting, inbox, sent>>
       PROVE  OrderInv'
  <2>1. /\ Order
        /\ \A a \in Own(entries', loaded') : entries'[a].kind = "accepted" =>
             a \in Own(entries, loaded) /\ entries'[a] = entries[a]
    <3> DEFINE new == [i \in DOMAIN Taken(steering) |-> Queued(Taken(steering)[i])]
               all == entries \o new
    <3>1. /\ AcceptedOnce(all, loaded) /\ QueuedInOrder(all, loaded)
          /\ InLine(all, loaded, Left(steering), "steer")
          /\ InLine(all, loaded, followUps, "follow_up")
          /\ \A a \in Own(all, loaded) : all[a].kind = "accepted" =>
               a \in Own(entries, loaded) /\ all[a] = entries[a]
      <4>1. /\ AcceptedOnce(all, loaded) /\ QueuedInOrder(all, loaded)
            /\ InLine(all, loaded, Left(steering), "steer")
            /\ \A other, d :
                 InLine(entries, loaded, other, d) /\ d # "steer" => InLine(all, loaded, other, d)
            /\ \A a \in Own(all, loaded) : all[a].kind = "accepted" =>
                 a \in Own(entries, loaded) /\ all[a] = entries[a]
        BY <1>1, <1>2, <1>11, InjectKeepsOrder
      <4> HIDE DEF all
      <4> QED
        BY <1>2, <4>1
    <3>2. entries' = all
      BY <1>11 DEF Inject
    <3> HIDE DEF all
    <3> QED
      BY <1>11, <3>1, <3>2
  <2>2. Accounted'
    BY <1>2, <1>11, <2>1 DEF Accounted, Own
  <2> QED
    BY <1>3, <1>5, <1>11, <2>1, <2>2
<1>12. ASSUME Inject(followUps), followUps # <<>>, followUps' = Left(followUps), pc' # "down",
              UNCHANGED <<loaded, steering, accepting, inbox, sent>>
       PROVE  OrderInv'
  <2>1. /\ Order
        /\ \A a \in Own(entries', loaded') : entries'[a].kind = "accepted" =>
             a \in Own(entries, loaded) /\ entries'[a] = entries[a]
    <3> DEFINE new == [i \in DOMAIN Taken(followUps) |-> Queued(Taken(followUps)[i])]
               all == entries \o new
    <3>1. /\ AcceptedOnce(all, loaded) /\ QueuedInOrder(all, loaded)
          /\ InLine(all, loaded, Left(followUps), "follow_up")
          /\ InLine(all, loaded, steering, "steer")
          /\ \A a \in Own(all, loaded) : all[a].kind = "accepted" =>
               a \in Own(entries, loaded) /\ all[a] = entries[a]
      <4>1. /\ AcceptedOnce(all, loaded) /\ QueuedInOrder(all, loaded)
            /\ InLine(all, loaded, Left(followUps), "follow_up")
            /\ \A other, d :
                 InLine(entries, loaded, other, d) /\ d # "follow_up" =>
                   InLine(all, loaded, other, d)
            /\ \A a \in Own(all, loaded) : all[a].kind = "accepted" =>
                 a \in Own(entries, loaded) /\ all[a] = entries[a]
        BY <1>1, <1>2, <1>12, InjectKeepsOrder
      <4> HIDE DEF all
      <4> QED
        BY <1>2, <4>1
    <3>2. entries' = all
      BY <1>12 DEF Inject
    <3> HIDE DEF all
    <3> QED
      BY <1>12, <3>1, <3>2
  <2>2. Accounted'
    BY <1>2, <1>12, <2>1 DEF Accounted, Own
  <2> QED
    BY <1>3, <1>5, <1>12, <2>1, <2>2
<1>13. CASE Users
  <2>1. ASSUME NEW c \in Controls, EnqueueRunControl(c) PROVE OrderInv'
    <3>1. /\ c \notin sent /\ sent' = sent \cup {c} /\ inbox' = Append(inbox, c)
          /\ UNCHANGED <<entries, loaded, steering, followUps, accepting, pc>>
      BY <2>1 DEF EnqueueRunControl, loop, execution, queues
    <3>2. /\ Len(inbox') = Len(inbox) + 1 /\ inbox'[Len(inbox) + 1] = c
          /\ \A m \in 1..Len(inbox) : inbox'[m] = inbox[m]
      BY <1>1, <3>1, AppendProperties
    <3>3. Inbox
      <4>1. \A m \in 1..Len(inbox') : m \in 1..Len(inbox) \/ m = Len(inbox) + 1
        BY <1>1, <3>2
      <4> QED
        BY <1>2, <3>1, <3>2, <4>1
    <3>4. Accounted'
      <4>1. \A m \in 1..Len(inbox') : m \in 1..Len(inbox) \/ inbox'[m] = c
        BY <1>1, <3>2
      <4> QED
        BY <1>2, <3>1, <3>2, <4>1 DEF Accounted, Own
    <3>5. Resting
      BY <3>1 DEF OrderInv
    <3> QED
      BY <1>3, <1>4, <3>1, <3>3, <3>4, <3>5
  <2>2. ASSUME NEW d \in {"allow", "deny"}, DecideApproval(d) PROVE OrderInv'
    BY <1>6, <2>2 DEF DecideApproval, loop, execution, queues
  <2> QED
    BY <1>13, <2>1, <2>2 DEF Users
<1>14. CASE StartRun
  <2>1. /\ pc = "down" /\ pc' = "loading" /\ loaded' = Len(entries')
        /\ UNCHANGED <<steering, followUps, accepting, inbox, sent>>
    BY <1>14 DEF StartRun, Goto, queues
  <2>2. Own(entries', loaded') = {}
    <3>1. Len(entries') \in Nat
      BY <1>0, LenProperties DEF TypeInv, TypeOK
    <3> QED
      BY <2>1, <3>1 DEF Own
  <2>3. steering' = <<>> /\ followUps' = <<>>
    BY <2>1 DEF OrderInv
  <2> QED
    BY <1>7, <2>1, <2>2, <2>3
<1>15. CASE Stop \/ ExceedTurns \/ Finish
  BY <1>8, <1>15 DEF Stop, ExceedTurns, Finish, Down, durable
<1>16. CASE AcceptControl
  <2>1. PICK c \in Controls :
          /\ inbox # <<>> /\ c = inbox[1] /\ entries' = Append(entries, Accepted(c))
          /\ IF Delivery[c] = "steer"
               THEN steering' = Append(steering, c) /\ UNCHANGED followUps
               ELSE followUps' = Append(followUps, c) /\ UNCHANGED steering
    BY <1>1, <1>16, ElementOfSeq DEF AcceptControl, PendingRunControls
  <2>2. /\ pc # "down" /\ pc' = pc /\ ~accepting /\ accepting' = TRUE
        /\ UNCHANGED <<inbox, sent, loaded>>
    BY <1>16 DEF AcceptControl, durable, loop, execution
  <2>3. 1 \in 1..Len(inbox)
    BY <1>1, <2>1, EmptySeq
  <2>4. \A a \in Own(entries, loaded) : entries[a] # Accepted(c)
    BY <1>2, <2>1, <2>2, <2>3 DEF Accounted, Accepted
  <2>5. Delivery[c] \in {"steer", "follow_up"}
    BY SessionAssumption
  <2>6. Order
    <3>1. CASE Delivery[c] = "steer"
      <4> DEFINE all == Append(entries, Accepted(c))
      <4>1. /\ AcceptedOnce(all, loaded) /\ QueuedInOrder(all, loaded)
            /\ InLine(all, loaded, Append(steering, c), "steer")
            /\ InLine(all, loaded, followUps, "follow_up")
        BY <1>1, <1>2, <2>4, <3>1, AcceptKeepsOrder
      <4>2. /\ entries' = all /\ loaded' = loaded
            /\ steering' = Append(steering, c) /\ followUps' = followUps
        BY <2>1, <2>2, <3>1
      <4> HIDE DEF all
      <4> QED
        BY <4>1, <4>2
    <3>2. CASE Delivery[c] = "follow_up"
      <4> DEFINE all == Append(entries, Accepted(c))
      <4>1. /\ AcceptedOnce(all, loaded) /\ QueuedInOrder(all, loaded)
            /\ InLine(all, loaded, Append(followUps, c), "follow_up")
            /\ InLine(all, loaded, steering, "steer")
        BY <1>1, <1>2, <2>4, <3>2, AcceptKeepsOrder
      <4>2. /\ entries' = all /\ loaded' = loaded
            /\ followUps' = Append(followUps, c) /\ steering' = steering
        BY <2>1, <2>2, <3>2
      <4> HIDE DEF all
      <4> QED
        BY <4>1, <4>2
    <3> QED
      BY <2>5, <3>1, <3>2
  <2>7. Accounted'
    <3>1. /\ \A a \in Own(entries', loaded') :
               \/ a \in Own(entries, loaded) /\ entries'[a] = entries[a]
               \/ entries'[a] = Accepted(c)
      BY <1>1, <2>1, <2>2, EntryTypes, AppendProperties DEF Own
    <3>2. ASSUME NEW a \in Own(entries', loaded'), entries'[a].kind = "accepted"
          PROVE  /\ entries'[a].id \in sent
                 /\ \A m \in 1..Len(inbox) : inbox[m] = entries'[a].id => m = 1
      <4>1. CASE a \in Own(entries, loaded) /\ entries'[a] = entries[a]
        BY <1>2, <3>2, <4>1 DEF Accounted
      <4>2. CASE entries'[a] = Accepted(c)
        <5>1. entries'[a].id = inbox[1]
          <6>1. Accepted(c).id = c
            BY DEF Accepted
          <6> QED
            BY ONLY <2>1, <4>2, <6>1
        <5> QED
          BY <1>2, <2>3, <5>1
      <4> QED
        BY <3>1, <4>1, <4>2
    <3> QED
      BY <2>2, <3>2 DEF Accounted, Own
  <2> QED
    BY <1>3, <1>5, <2>2, <2>6, <2>7
<1>17. CASE MarkRunControlDelivered
  <2>1. /\ accepting /\ accepting' = FALSE /\ inbox' = Tail(inbox)
        /\ UNCHANGED <<entries, loaded, steering, followUps, sent, pc>>
    BY <1>17 DEF MarkRunControlDelivered, loop, execution
  <2>2. /\ Len(inbox') = Len(inbox) - 1
        /\ \A m \in 1..Len(inbox') : m + 1 \in 1..Len(inbox) /\ inbox'[m] = inbox[m + 1]
    <3>1. inbox # <<>>
      BY <1>0, <2>1 DEF TypeInv
    <3> QED
      BY <1>1, <2>1, <3>1, HeadTailProperties
  <2>3. Inbox
    BY <1>1, <1>2, <2>1, <2>2
  <2>4. Accounted'
    BY <1>1, <1>2, <2>1, <2>2 DEF Accounted, Own
  <2>5. Resting
    BY <2>1 DEF OrderInv
  <2> QED
    BY <1>3, <1>4, <2>1, <2>3, <2>4, <2>5
<1>18. CASE LoadMessages
  <2>1. /\ UNCHANGED <<loaded, steering, followUps, accepting, inbox, sent>>
        /\ pc = "loading" /\ pc' # "down"
        /\ \/ entries' = entries
           \/ \E e \in {Prompt, ResumePrompt} : entries' = Append(entries, e)
    BY <1>18 DEF LoadMessages, durable, execution, queues
  <2>2. \A e \in {Prompt, ResumePrompt} : e \in Entry /\ e.kind \notin {"accepted", "queued"}
    BY EntryTypes DEF Prompt, ResumePrompt
  <2> QED
    BY <1>6, <1>10, <2>1, <2>2
<1>19. CASE Ask
  <2>1. /\ UNCHANGED <<loaded, followUps, accepting, inbox, sent>> /\ pc = "ask" /\ pc' = "asking"
        /\ \/ UNCHANGED <<entries, steering>>
           \/ steering # <<>> /\ Inject(steering) /\ steering' = Left(steering)
    BY <1>19 DEF Ask, Goto, durable, execution
  <2> QED
    BY <1>6, <1>11, <2>1
<1>20. CASE Settle
  <2>1. /\ UNCHANGED <<loaded, accepting, inbox, sent>> /\ pc = "settle" /\ pc' # "down"
        /\ \/ UNCHANGED <<entries, steering, followUps>>
           \/ /\ steering # <<>> /\ Inject(steering) /\ steering' = Left(steering)
              /\ UNCHANGED followUps
           \/ /\ followUps # <<>> /\ Inject(followUps) /\ followUps' = Left(followUps)
              /\ UNCHANGED steering
    BY <1>20 DEF Settle, durable, execution
  <2> QED
    BY <1>6, <1>11, <1>12, <2>1
<1>21. ASSUME NEW a, NEW to \in {"settle", "ending", "checkpoint"},
              Goto("asking", to), Receive(a),
              UNCHANGED <<loaded, steering, followUps, accepting, inbox, sent>>
       PROVE  OrderInv'
  <2>1. Assistant(Len(answers) + 1) \in Entry
    BY <1>0, EntryTypes, LenProperties DEF TypeInv, TypeOK
  <2>2. Assistant(Len(answers) + 1).kind = "assistant"
    BY DEF Assistant
  <2> QED
    BY <1>10, <1>21, <2>1, <2>2 DEF Receive, Goto
<1>22. ASSUME NEW failed \in BOOLEAN, AnswerText(failed) PROVE OrderInv'
  BY <1>21, <1>22 DEF AnswerText, durable, execution, queues
<1>23. ASSUME NEW n \in 1..MaxCalls, NEW mode \in {"parallel", "sequential", "truncated"},
              NEW dangerous \in SUBSET (1..n), AnswerCalls(n, dangerous, mode)
       PROVE  OrderInv'
  BY <1>21, <1>23 DEF AnswerCalls, durable, execution, queues
<1>24. CASE RecordToolOutcome
  <2>1. /\ UNCHANGED <<loaded, steering, followUps, accepting, inbox, sent>>
        /\ pc = "batch" /\ pc' = pc
        /\ entries' = Append(entries, Result(batch.answer, batch.recorded + 1))
    BY <1>24 DEF RecordToolOutcome, durable, execution, queues
  <2>2. Result(batch.answer, batch.recorded + 1) \in Entry
    <3>1. batch.answer \in Nat /\ batch.recorded \in Nat
      BY <1>0, SessionAssumption DEF TypeInv, TypeOK, Batch
    <3> QED
      BY <3>1, EntryTypes
  <2>3. Result(batch.answer, batch.recorded + 1).kind = "result"
    BY DEF Result
  <2> QED
    BY <1>10, <2>1, <2>2, <2>3
<1>25. CASE Checkpoint \/ Snapshot \/ Prepare
  BY <1>6, <1>25 DEF Checkpoint, Snapshot, Prepare, Goto, queues, execution
<1>26. ASSUME NEW k \in 1..MaxCalls, Execute(k) PROVE OrderInv'
  BY <1>6, <1>26 DEF Execute, durable, loop, execution, queues
<1>27. ASSUME NEW terminate \in BOOLEAN, FinishBatch(terminate) PROVE OrderInv'
  BY <1>6, <1>27 DEF FinishBatch, Goto, durable, execution, queues
<1>28. CASE UNCHANGED vars
  BY <1>6, <1>28 DEF vars
<1> QED
  BY <1>13, <1>14, <1>15, <1>16, <1>17, <1>18, <1>19, <1>20, <1>22, <1>23, <1>24, <1>25, <1>26,
     <1>27, <1>28 DEF Next, Loop

\* A control is accepted and reaches the provider at most once in an execution,
\* and the controls of one delivery in the order in which the users sent them,
\* for any number of controls, either queue mode and any crashes and restarts.
THEOREM ControlsKeepOrder == Spec => []ControlsInOrder
<1>1. Init => OrderInv
  <2> SUFFICES ASSUME Init PROVE OrderInv
    OBVIOUS
  <2>1. TypeInv
    BY InitTypes
  <2>2. Own(entries, loaded) = {} /\ steering = <<>> /\ followUps = <<>> /\ inbox = <<>>
    BY DEF Init, Own
  <2>3. AcceptedOnce(entries, loaded) /\ QueuedInOrder(entries, loaded) /\ Accounted
    BY <2>2 DEF AcceptedOnce, QueuedInOrder, Accounted
  <2>4. InLine(entries, loaded, <<>>, "steer") /\ InLine(entries, loaded, <<>>, "follow_up")
    BY <2>2 DEF InLine
  <2> QED
    BY <2>1, <2>2, <2>3, <2>4 DEF Init, OrderInv
<1>2. OrderInv /\ [Next]_vars => OrderInv'
  BY OrderStep
<1>3. OrderInv => ControlsInOrder
  BY DEF OrderInv, ControlsInOrder, AcceptedOnce, QueuedInOrder, Before, Own
<1> QED
  BY <1>1, <1>2, <1>3, PTL DEF Spec

-----------------------------------------------------------------------------
(* The provider is shown every call with its results, unless a control has *)
(* come between them.                                                      *)

IsControl(e) == e.kind \in {"accepted", "queued", "control"}

\* The calls of the answers among the first n entries have their results
\* behind them, or a control in the place of one.
Answered(log, n, given) ==
  \A i \in 1..n :
    log[i].kind = "assistant" =>
      /\ log[i].id \in 1..Len(given)
      /\ \/ \E j \in i+1..i + given[log[i].id].calls : j <= Len(log) /\ IsControl(log[j])
         \/ \A j \in i+1..i + given[log[i].id].calls :
              j <= Len(log) /\ log[j] = Result(log[i].id, j - i)

\* An execution can start from it: only the last answer may wait for results.
Resumable(log) == Answered(log, Len(log) - 1, answers)

\* The first r results of answer g are recorded behind it.
Recording(log, g, r) ==
  \E n \in 1..Len(log) :
    /\ log[n].kind = "assistant" /\ log[n].id = g
    /\ Answered(log, n - 1, answers)
    /\ n + r <= Len(log)
    /\ \A j \in n+1..Len(log) :
         /\ log[j].kind # "assistant"
         /\ (\E m \in n+1..j : IsControl(log[m])) \/ (j <= n + r /\ log[j] = Result(g, j - n))

CallsInv ==
  /\ TypeInv
  /\ Resumable(saved) /\ Resumable(copied)
  /\ pc = "loading" => Resumable(entries)
  /\ pc \in {"ask", "asking", "settle", "ending", "closing"} =>
       /\ Answered(entries, Len(entries), answers)
       /\ Answered(messages, Len(messages), answers)
  /\ pc = "checkpoint" => /\ Recording(entries, Len(answers), 0)
                          /\ Recording(messages, Len(answers), 0)
  /\ pc = "batch" => /\ Recording(entries, batch.answer, batch.recorded)
                     /\ Recording(messages, batch.answer, batch.recorded)

\* Later answers change nothing about the earlier ones.
LEMMA AnsweredStays ==
  ASSUME NEW log, NEW n, NEW given, NEW later, Len(given) \in Nat, Len(later) \in Nat,
         Len(given) <= Len(later), \A g \in 1..Len(given) : later[g] = given[g],
         Answered(log, n, given)
  PROVE  Answered(log, n, later)
<1>1. \A g \in 1..Len(given) : g \in 1..Len(later)
  OBVIOUS
<1> QED
  BY <1>1 DEF Answered

LEMMA AnsweredConcat ==
  ASSUME NEW log \in Seq(Entry), NEW new \in Seq(Entry), NEW given, NEW n \in Int,
         n <= Len(log), Answered(log, n, given)
  PROVE  Answered(log \o new, n, given)
<1> DEFINE all == log \o new
<1>1. /\ Len(log) \in Nat /\ Len(log) <= Len(all) /\ Len(all) \in Nat
      /\ \A i \in 1..Len(log) : all[i] = log[i]
  BY ConcatProperties, LenProperties
<1> HIDE DEF all
<1>2. ASSUME NEW i \in 1..n, all[i].kind = "assistant"
      PROVE  /\ all[i].id \in 1..Len(given)
             /\ \/ \E j \in i+1..i + given[all[i].id].calls : j <= Len(all) /\ IsControl(all[j])
                \/ \A j \in i+1..i + given[all[i].id].calls :
                     j <= Len(all) /\ all[j] = Result(all[i].id, j - i)
  <2>1. i \in 1..Len(log) /\ all[i] = log[i]
    BY <1>1
  <2> DEFINE window == i+1..i + given[log[i].id].calls
  <2>2. /\ log[i].id \in 1..Len(given)
        /\ \/ \E j \in window : j <= Len(log) /\ IsControl(log[j])
           \/ \A j \in window : j <= Len(log) /\ log[j] = Result(log[i].id, j - i)
    BY <1>2, <2>1 DEF Answered
  <2>3. \A j \in window : j \in Int /\ j >= 1
    BY <2>1
  <2> HIDE DEF window
  <2>4. \A j \in window : j <= Len(log) => j <= Len(all) /\ all[j] = log[j]
    BY <1>1, <2>3
  <2>5. \/ \E j \in window : j <= Len(all) /\ IsControl(all[j])
        \/ \A j \in window : j <= Len(all) /\ all[j] = Result(log[i].id, j - i)
    BY <2>2, <2>4
  <2> QED
    BY <2>1, <2>2, <2>5 DEF window
<1> QED
  BY <1>2 DEF Answered, all

\* What has no calls can be added to a list that is whole.
LEMMA WholeConcat ==
  ASSUME NEW log \in Seq(Entry), NEW new \in Seq(Entry), NEW given,
         Answered(log, Len(log), given),
         \A k \in 1..Len(new) : new[k].kind = "assistant" =>
           new[k].id \in 1..Len(given) /\ given[new[k].id].calls = 0
  PROVE  Answered(log \o new, Len(log \o new), given)
<1> DEFINE all == log \o new
<1>1. /\ Len(log) \in Nat /\ Len(new) \in Nat /\ Len(all) = Len(log) + Len(new)
      /\ \A i \in 1..Len(all) : i > Len(log) =>
           i - Len(log) \in 1..Len(new) /\ all[i] = new[i - Len(log)]
  BY ConcatProperties, LenProperties
<1>2. Answered(all, Len(log), given)
  BY <1>1, AnsweredConcat
<1> HIDE DEF all
<1>3. ASSUME NEW i \in 1..Len(all), all[i].kind = "assistant", i > Len(log)
      PROVE  all[i].id \in 1..Len(given) /\ i+1..i + given[all[i].id].calls = {}
  <2>1. all[i].id \in 1..Len(given) /\ given[all[i].id].calls = 0
    BY <1>1, <1>3
  <2> QED
    BY <2>1
<1>4. \A i \in 1..Len(all) : i > Len(log) \/ i \in 1..Len(log)
  BY <1>1
<1> QED
  BY <1>2, <1>3, <1>4 DEF Answered, all

\* The batch that a resumed execution begins with.
LEMMA ResumesRecording ==
  ASSUME NEW log \in Seq(Entry), log # <<>>, log[Len(log)].kind = "assistant", Resumable(log)
  PROVE  Recording(log, log[Len(log)].id, 0)
<1>1. /\ Len(log) \in 1..Len(log) /\ Len(log) + 0 <= Len(log) /\ Len(log)+1..Len(log) = {}
  BY EmptySeq, LenProperties
<1> QED
  BY <1>1 DEF Recording, Resumable

\* Nothing but the next result, or a control, is recorded in a batch.
LEMMA RecordingGrows ==
  ASSUME NEW log \in Seq(Entry), NEW g \in Nat, NEW r \in Nat, Recording(log, g, r),
         NEW e \in Entry, NEW s \in Nat,
         (IsControl(e) /\ s = r) \/ (e = Result(g, r + 1) /\ s = r + 1)
  PROVE  Recording(Append(log, e), g, s)
<1> DEFINE all == Append(log, e)
<1>1. /\ Len(log) \in Nat /\ Len(all) = Len(log) + 1 /\ all[Len(log) + 1] = e
      /\ \A i \in 1..Len(log) : all[i] = log[i]
      /\ all = log \o <<e>> /\ <<e>> \in Seq(Entry)
  BY OneEntry, AppendProperties, LenProperties
<1>2. PICK n \in 1..Len(log) :
        /\ log[n].kind = "assistant" /\ log[n].id = g
        /\ Answered(log, n - 1, answers)
        /\ n + r <= Len(log)
        /\ \A j \in n+1..Len(log) :
             /\ log[j].kind # "assistant"
             /\ (\E m \in n+1..j : IsControl(log[m])) \/ (j <= n + r /\ log[j] = Result(g, j - n))
  BY DEF Recording
<1>3. n - 1 \in Int /\ n - 1 <= Len(log)
  BY <1>1
<1>4. Answered(all, n - 1, answers)
  BY <1>1, <1>2, <1>3, AnsweredConcat
<1> HIDE DEF all
<1>5. n \in 1..Len(all) /\ all[n] = log[n] /\ n + s <= Len(all) /\ r <= s
  BY <1>1, <1>2
<1>6. e.kind # "assistant"
  BY DEF IsControl, Result
<1>7. ASSUME NEW j \in n+1..Len(all)
      PROVE  /\ all[j].kind # "assistant"
             /\ (\E m \in n+1..j : IsControl(all[m])) \/ (j <= n + s /\ all[j] = Result(g, j - n))
  <2>1. CASE j <= Len(log)
    <3>1. j \in n+1..Len(log) /\ all[j] = log[j] /\ \A m \in n+1..j : all[m] = log[m]
      BY <1>1, <2>1
    <3>2. j <= n + r => j <= n + s
      BY <1>5
    <3> QED
      BY <1>2, <3>1, <3>2
  <2>2. CASE j = Len(log) + 1
    <3>1. all[j] = e /\ j \in n+1..j
      BY <1>1, <2>2
    <3>2. CASE IsControl(e)
      BY <1>6, <3>1, <3>2
    <3>3. CASE e = Result(g, r + 1) /\ s = r + 1 /\ Len(log) = n + r
      <4>1. j - n = r + 1 /\ j <= n + s
        BY <2>2, <3>3
      <4> QED
        BY <1>6, <3>1, <3>3, <4>1
    <3>4. CASE Len(log) # n + r
      <4>1. Len(log) \in n+1..Len(log) /\ ~(Len(log) <= n + r)
        BY <1>1, <1>2, <3>4
      <4>2. PICK m \in n+1..Len(log) : IsControl(log[m])
        BY <1>2, <4>1
      <4>3. m \in n+1..j /\ all[m] = log[m]
        BY <1>1, <2>2
      <4> QED
        BY <1>6, <3>1, <4>2, <4>3
    <3> QED
      BY <3>2, <3>3, <3>4
  <2>3. j <= Len(log) \/ j = Len(log) + 1
    <3>1. j \in n+1..Len(log) + 1 /\ n \in Nat /\ Len(log) \in Nat
      BY <1>1
    <3> QED
      BY ONLY <3>1
  <2> QED
    BY <2>1, <2>2, <2>3
<1> QED
  BY <1>2, <1>4, <1>5, <1>7 DEF Recording, all

\* All results of the batch are recorded.
LEMMA RecordingEnds ==
  ASSUME TypeInv, NEW log \in Seq(Entry), NEW g \in 1..Len(answers), NEW r \in Nat,
         Recording(log, g, r), r = answers[g].calls
  PROVE  Answered(log, Len(log), answers)
<1>1. PICK n \in 1..Len(log) :
        /\ log[n].kind = "assistant" /\ log[n].id = g
        /\ Answered(log, n - 1, answers)
        /\ n + r <= Len(log)
        /\ \A j \in n+1..Len(log) :
             /\ log[j].kind # "assistant"
             /\ (\E m \in n+1..j : IsControl(log[m])) \/ (j <= n + r /\ log[j] = Result(g, j - n))
  BY DEF Recording
<1>2. Len(log) \in Nat
  BY LenProperties
<1> DEFINE Whole(i) == /\ log[i].id \in 1..Len(answers)
                       /\ \/ \E j \in i+1..i + answers[log[i].id].calls :
                               j <= Len(log) /\ IsControl(log[j])
                          \/ \A j \in i+1..i + answers[log[i].id].calls :
                               j <= Len(log) /\ log[j] = Result(log[i].id, j - i)
<1>3. ASSUME NEW i \in 1..Len(log), log[i].kind = "assistant" PROVE Whole(i)
  <2>1. CASE i < n
    <3>1. i \in 1..n - 1
      BY <2>1
    <3> QED
      BY <1>1, <1>3, <3>1 DEF Answered
  <2>2. CASE i = n
    <3>1. \A j \in n+1..n + r :
            /\ j \in n+1..Len(log) /\ j <= Len(log)
            /\ \A m \in n+1..j : m \in n+1..n + r /\ m <= Len(log)
      <4>1. n \in Nat /\ r \in Nat /\ n + r <= Len(log)
        BY <1>1
      <4> QED
        BY ONLY <1>2, <4>1
    <3>2. \/ \E j \in n+1..n + r : j <= Len(log) /\ IsControl(log[j])
          \/ \A j \in n+1..n + r : j <= Len(log) /\ log[j] = Result(g, j - n)
      BY ONLY <1>1, <3>1
    <3> QED
      BY <1>1, <2>2, <3>2
  <2>3. CASE i > n
    <3>1. i \in n+1..Len(log)
      BY <2>3
    <3> QED
      BY <1>1, <1>3, <3>1
  <2> QED
    BY <2>1, <2>2, <2>3
<1> QED
  BY <1>3 DEF Answered

LEMMA CallsCounted ==
  ASSUME TypeInv, NEW g \in 1..Len(answers)
  PROVE  answers[g].calls \in Nat
<1>1. answers[g] \in Answer
  BY ElementOfSeq DEF TypeInv, TypeOK
<1> QED
  BY <1>1, SessionAssumption DEF Answer

\* A checkpoint can be resumed, also when controls stand behind the calls.
LEMMA CheckpointResumable ==
  ASSUME TypeInv, NEW log \in Seq(Entry), NEW g \in 1..Len(answers), Recording(log, g, 0)
  PROVE  Resumable(log)
<1>1. PICK n \in 1..Len(log) :
        /\ log[n].kind = "assistant" /\ log[n].id = g
        /\ Answered(log, n - 1, answers)
        /\ n + 0 <= Len(log)
        /\ \A j \in n+1..Len(log) :
             /\ log[j].kind # "assistant"
             /\ (\E m \in n+1..j : IsControl(log[m])) \/ (j <= n + 0 /\ log[j] = Result(g, j - n))
  BY DEF Recording
<1>2. Len(log) \in Nat
  BY LenProperties
<1> DEFINE Whole(i) == /\ log[i].id \in 1..Len(answers)
                       /\ \/ \E j \in i+1..i + answers[log[i].id].calls :
                               j <= Len(log) /\ IsControl(log[j])
                          \/ \A j \in i+1..i + answers[log[i].id].calls :
                               j <= Len(log) /\ log[j] = Result(log[i].id, j - i)
<1>3. ASSUME NEW i \in 1..Len(log) - 1, log[i].kind = "assistant" PROVE Whole(i)
  <2>0. i \in Nat /\ n \in Nat
    BY <1>2
  <2>1. CASE i < n
    <3>1. i \in 1..n - 1
      BY <2>1
    <3> QED
      BY <1>1, <1>3, <3>1 DEF Answered
  <2>2. CASE i = n
    <3>1. n + 1 \in n+1..Len(log) /\ ~(n + 1 <= n + 0)
      BY <1>2, <2>2
    <3>2. IsControl(log[n + 1])
      <4>1. PICK m \in n+1..n+1 : IsControl(log[m])
        BY <1>1, <3>1
      <4>2. m = n + 1
        OBVIOUS
      <4> QED
        BY <4>1, <4>2
    <3>3. n + 1 \in n+1..n + answers[g].calls \/ n+1..n + answers[g].calls = {}
      <4> DEFINE calls == answers[g].calls
      <4>1. calls \in Nat
        BY CallsCounted
      <4> HIDE DEF calls
      <4>2. n + 1 \in n+1..n + calls \/ n+1..n + calls = {}
        BY ONLY <2>0, <4>1
      <4> QED
        BY <4>2 DEF calls
    <3> QED
      BY <1>1, <2>2, <3>1, <3>2, <3>3
  <2>3. CASE i > n
    <3>1. i \in n+1..Len(log)
      BY <1>2, <2>3
    <3> QED
      BY <1>1, <1>3, <3>1
  <2> QED
    BY <2>0, <2>1, <2>2, <2>3
<1> QED
  BY <1>3 DEF Answered, Resumable

\* What an execution loads is whole, or ends with a batch to resume.
LEMMA LoadedWhole ==
  ASSUME TypeInv, NEW log \in Seq(Entry), Known(log), Resumable(log), ~hasPendingToolCalls(log)
  PROVE  Answered(log, Len(log), answers)
<1>1. Len(log) \in Nat
  BY LenProperties
<1> SUFFICES ASSUME Len(log) > 0, log[Len(log)].kind = "assistant"
             PROVE  /\ log[Len(log)].id \in 1..Len(answers)
                    /\ Len(log)+1..Len(log) + answers[log[Len(log)].id].calls = {}
  <2>1. \A i \in 1..Len(log) : i \in 1..Len(log) - 1 \/ (i = Len(log) /\ Len(log) > 0)
    BY <1>1
  <2> QED
    BY <2>1 DEF Resumable, Answered
<1>2. Len(log) \in 1..Len(log) /\ log # <<>>
  BY <1>1
<1>3. log[Len(log)].id \in 1..Len(answers)
  BY <1>2 DEF Known
<1>4. ~(answers[log[Len(log)].id].calls > 0)
  BY <1>2 DEF hasPendingToolCalls, Last
<1>5. answers[log[Len(log)].id].calls \in Nat
  BY <1>3, CallsCounted
<1> QED
  BY <1>1, <1>3, <1>4, <1>5

\* A control that is accepted before the entries are loaded.
LEMMA ControlBehind ==
  ASSUME TypeInv, NEW log \in Seq(Entry), NEW e \in Entry, IsControl(e), Known(log),
         Resumable(log)
  PROVE  Resumable(Append(log, e))
<1> DEFINE all == Append(log, e)
<1>1. /\ Len(log) \in Nat /\ Len(all) = Len(log) + 1 /\ all[Len(log) + 1] = e
      /\ \A i \in 1..Len(log) : all[i] = log[i]
      /\ all = log \o <<e>> /\ <<e>> \in Seq(Entry)
  BY OneEntry, AppendProperties, LenProperties
<1>2. Len(log) - 1 \in Int /\ Len(log) - 1 <= Len(log)
  BY <1>1
<1>3. Answered(all, Len(log) - 1, answers)
  BY <1>1, <1>2, AnsweredConcat DEF Resumable
<1> HIDE DEF all
<1>4. \A i \in 1..Len(all) - 1 : i \in 1..Len(log) - 1 \/ (i = Len(log) /\ i \in 1..Len(log))
  BY <1>1
<1> DEFINE i == Len(log)
<1>5. ASSUME i \in 1..Len(log), all[i].kind = "assistant"
      PROVE  /\ all[i].id \in 1..Len(answers)
             /\ \/ \E j \in i+1..i + answers[all[i].id].calls : j <= Len(all) /\ IsControl(all[j])
                \/ i+1..i + answers[all[i].id].calls = {}
  <2>1. all[i].id \in 1..Len(answers)
    BY <1>1, <1>5 DEF Known
  <2>2. i + 1 <= Len(all) /\ IsControl(all[i + 1])
    BY <1>1
  <2>3. i + 1 \in i+1..i + answers[all[i].id].calls \/ i+1..i + answers[all[i].id].calls = {}
    <3> DEFINE calls == answers[all[i].id].calls
    <3>1. calls \in Nat /\ i \in Nat
      BY <1>1, <2>1, CallsCounted
    <3> HIDE DEF calls, i
    <3>2. i + 1 \in i+1..i + calls \/ i+1..i + calls = {}
      BY ONLY <3>1
    <3> QED
      BY <3>2 DEF calls
  <2> QED
    BY <2>1, <2>2, <2>3
<1> HIDE DEF i
<1> QED
  BY <1>3, <1>4, <1>5 DEF Answered, Resumable, all, i

\* What the provider is shown of a list.
LEMMA MessagesAnswered ==
  ASSUME NEW log \in Seq(Entry)
  PROVE  /\ Len(messagesFromEntries(log)) = Len(log)
         /\ \A n, given : n <= Len(log) /\ n \in Int /\ Answered(log, n, given) =>
                            Answered(messagesFromEntries(log), n, given)
         /\ \A g, r : Recording(log, g, r) => Recording(messagesFromEntries(log), g, r)
<1> DEFINE new == messagesFromEntries(log)
<1>1. /\ Len(log) \in Nat /\ new \in Seq(Entry) /\ DOMAIN log = 1..Len(log)
      /\ \A i \in 1..Len(log) : new[i] = MessageOf(log[i]) /\ log[i] \in Entry
  BY MessagesType, ElementOfSeq, LenProperties DEF messagesFromEntries
<1>2. Len(new) = Len(log)
  <2>1. DOMAIN new = 1..Len(log)
    BY <1>1 DEF messagesFromEntries
  <2> QED
    BY <1>1, <2>1, LenProperties
<1>3. \A e \in Entry : /\ IsControl(MessageOf(e)) <=> IsControl(e)
                       /\ ~IsControl(e) => MessageOf(e) = e
                       /\ MessageOf(e).kind = "assistant" => ~IsControl(e)
  BY DEF Entry, MessageOf, IsControl
<1>4. \A g, k : ~IsControl(Result(g, k))
  BY DEF Result, IsControl
<1> HIDE DEF new
<1>a. \A e : e.kind = "assistant" => ~IsControl(e)
  BY DEF IsControl
<1>5. \A i \in 1..Len(log) : IsControl(log[i]) => IsControl(new[i])
  BY <1>1, <1>3
<1>8. \A i \in 1..Len(log) : log[i].kind = "assistant" => new[i] = log[i]
  BY <1>1, <1>3, <1>a
<1>9. \A i \in 1..Len(log) : new[i].kind = "assistant" => new[i] = log[i]
  BY <1>1, <1>3
<1>10. \A g, k : \A i \in 1..Len(log) : log[i] = Result(g, k) => new[i] = Result(g, k)
  BY <1>1, <1>3, <1>4
<1>6. ASSUME NEW n, NEW given, n <= Len(log), n \in Int, Answered(log, n, given)
      PROVE  Answered(new, n, given)
  <2>1. ASSUME NEW i \in 1..n, new[i].kind = "assistant"
        PROVE  /\ new[i].id \in 1..Len(given)
               /\ \/ \E j \in i+1..i + given[new[i].id].calls : j <= Len(new) /\ IsControl(new[j])
                  \/ \A j \in i+1..i + given[new[i].id].calls :
                       j <= Len(new) /\ new[j] = Result(new[i].id, j - i)
    <3>0. i \in 1..Len(log)
      BY <1>1, <1>6
    <3>1. i \in 1..Len(log) /\ new[i] = log[i]
      BY <1>9, <2>1, <3>0
    <3> DEFINE window == i+1..i + given[log[i].id].calls
    <3>2. /\ log[i].id \in 1..Len(given)
          /\ \/ \E j \in window : j <= Len(log) /\ IsControl(log[j])
             \/ \A j \in window : j <= Len(log) /\ log[j] = Result(log[i].id, j - i)
      BY <1>6, <2>1, <3>1 DEF Answered
    <3>3. \A j \in window : j \in Int /\ j >= 1
      BY <3>1
    <3> HIDE DEF window
    <3>4. \A j \in window : j <= Len(log) => j \in 1..Len(log)
      BY <1>1, <3>3
    <3>5. \/ \E j \in window : j <= Len(new) /\ IsControl(new[j])
          \/ \A j \in window : j <= Len(new) /\ new[j] = Result(log[i].id, j - i)
      <4>1. ASSUME NEW j \in window, j <= Len(log), IsControl(log[j])
            PROVE  \E m \in window : m <= Len(new) /\ IsControl(new[m])
        BY <1>2, <1>5, <3>4, <4>1
      <4>2. ASSUME NEW j \in window, j <= Len(log), log[j] = Result(log[i].id, j - i)
            PROVE  j <= Len(new) /\ new[j] = Result(log[i].id, j - i)
        BY <1>2, <1>10, <3>4, <4>2
      <4> QED
        BY <3>2, <4>1, <4>2
    <3> QED
      BY <3>1, <3>2, <3>5 DEF window
  <2> QED
    BY <2>1 DEF Answered
<1>7. ASSUME NEW g, NEW r, Recording(log, g, r)
      PROVE  Recording(new, g, r)
  <2>1. PICK n \in 1..Len(log) :
          /\ log[n].kind = "assistant" /\ log[n].id = g
          /\ Answered(log, n - 1, answers)
          /\ n + r <= Len(log)
          /\ \A j \in n+1..Len(log) :
               /\ log[j].kind # "assistant"
               /\ (\E m \in n+1..j : IsControl(log[m])) \/ (j <= n + r /\ log[j] = Result(g, j - n))
    BY <1>7 DEF Recording
  <2>2. n - 1 \in Int /\ n - 1 <= Len(log)
    BY <1>1
  <2>3. Answered(new, n - 1, answers)
    BY <1>6, <2>1, <2>2
  <2>4. \A j \in n+1..Len(log) : j \in 1..Len(log) /\ \A m \in n+1..j : m \in 1..Len(log)
    BY <1>1
  <2>5. \A j \in n+1..Len(log) :
          /\ new[j].kind # "assistant"
          /\ (\E m \in n+1..j : IsControl(new[m])) \/ (j <= n + r /\ new[j] = Result(g, j - n))
    <3> TAKE j \in n+1..Len(log)
    <3>1. j \in 1..Len(log) /\ \A m \in n+1..j : m \in 1..Len(log)
      BY <2>4
    <3>2. new[j].kind # "assistant"
      BY <1>9, <2>1, <3>1
    <3>3. ASSUME NEW m \in n+1..j, IsControl(log[m]) PROVE IsControl(new[m])
      BY <1>5, <3>1, <3>3
    <3>4. log[j] = Result(g, j - n) => new[j] = Result(g, j - n)
      BY <1>10, <3>1
    <3> QED
      BY <2>1, <3>2, <3>3, <3>4
  <2>6. n \in 1..Len(new) /\ new[n] = log[n] /\ n + r <= Len(new)
    BY <1>2, <1>8, <2>1
  <2> QED
    BY <1>2, <2>1, <2>3, <2>5, <2>6 DEF Recording
<1> QED
  BY <1>2, <1>6, <1>7 DEF new

LEMMA CallsStep ==
  ASSUME CallsInv, [Next]_vars
  PROVE  CallsInv'
<1>0. EntriesStep /\ SavedStep /\ TypeInv /\ TypeInv'
  BY LogStep, StepTypes DEF CallsInv
<1>1. /\ saved \in Seq(Entry) /\ copied \in Seq(Entry) /\ entries \in Seq(Entry)
      /\ messages \in Seq(Entry) /\ Known(entries) /\ Len(answers) \in Nat
      /\ Len(entries) \in Nat /\ Len(messages) \in Nat
  BY <1>0, LenProperties DEF TypeInv, TypeOK
<1>2. /\ Len(answers') \in Nat /\ Len(answers) <= Len(answers')
      /\ \A g \in 1..Len(answers) : answers'[g] = answers[g]
  BY <1>0, AnswersGrow, LenProperties
<1>3. \A log, n : Answered(log, n, answers) => Answered(log, n, answers')
  BY <1>1, <1>2, AnsweredStays
\* What is left to show of a step: of the lists that are stored, and of the
\* ones of the execution.
<1> DEFINE Stored ==
             /\ Answered(saved', Len(saved') - 1, answers')
             /\ Answered(copied', Len(copied') - 1, answers')
           Running ==
             /\ pc' = "loading" => Answered(entries', Len(entries') - 1, answers')
             /\ pc' \in {"ask", "asking", "settle", "ending", "closing"} =>
                  /\ Answered(entries', Len(entries'), answers')
                  /\ Answered(messages', Len(messages'), answers')
             /\ pc' = "checkpoint" => /\ Recording(entries, Len(answers), 0)'
                                      /\ Recording(messages, Len(answers), 0)'
             /\ pc' = "batch" => /\ Recording(entries, batch.answer, batch.recorded)'
                                 /\ Recording(messages, batch.answer, batch.recorded)'
<1>4. ASSUME Stored, Running PROVE CallsInv'
  BY <1>0, <1>4 DEF CallsInv, Resumable, Answered
<1>5. ASSUME saved' = saved, copied' = copied PROVE Stored
  BY <1>3, <1>5 DEF CallsInv, Resumable
<1>6. ASSUME UNCHANGED <<saved, copied, entries, messages, answers, pc, batch>> PROVE CallsInv'
  <2>1. Running
    BY <1>6 DEF CallsInv, Resumable, Recording, Answered
  <2> QED
    BY <1>4, <1>5, <1>6, <2>1
<1>8. CASE Users
  <2>1. ASSUME NEW c \in Controls, EnqueueRunControl(c) PROVE CallsInv'
    BY <1>6, <2>1 DEF EnqueueRunControl, loop, execution, history
  <2>2. ASSUME NEW d \in {"allow", "deny"}, DecideApproval(d) PROVE CallsInv'
    <3>1. saved' = saved /\ copied' = saved /\ pc' = "down"
      BY <2>2 DEF DecideApproval, loop
    <3>2. Stored
      BY <1>3, <3>1 DEF CallsInv, Resumable
    <3> QED
      BY <1>4, <3>1, <3>2
  <2> QED
    BY <1>8, <2>1, <2>2 DEF Users
<1>9. CASE StartRun
  <2>1. /\ saved' = saved /\ copied' = copied /\ pc' = "loading" /\ answers' = answers
        /\ entries' = saved \/ entries' = copied
    BY <1>9 DEF StartRun, Goto, history, Source
  <2>2. Running
    BY <2>1 DEF CallsInv, Resumable
  <2> QED
    BY <1>4, <1>5, <2>1, <2>2
<1>10. CASE Stop \/ ExceedTurns \/ Finish
  <2>1. saved' = saved /\ copied' = copied /\ pc' = "down"
    BY <1>10 DEF Stop, ExceedTurns, Finish, Down, durable
  <2> QED
    BY <1>4, <1>5, <2>1
<1>16. steering \in Seq(Controls) /\ followUps \in Seq(Controls) /\ inbox \in Seq(Controls)
  BY <1>0 DEF TypeInv, TypeOK
<1>11. CASE AcceptControl
  <2>1. PICK c \in Controls : entries' = Append(entries, Accepted(c))
    BY <1>11, <1>16, ElementOfSeq DEF AcceptControl, PendingRunControls
  <2>2. UNCHANGED <<saved, copied, messages, answers, pc, batch>> /\ pc # "down"
    BY <1>11 DEF AcceptControl, durable, loop, history
  <2> DEFINE e == Accepted(c)
             all == Append(entries, e)
  <2>3. e \in Entry /\ IsControl(e) /\ e.kind # "assistant"
    BY EntryTypes DEF Accepted, IsControl
  <2>4. /\ all = entries \o <<e>> /\ <<e>> \in Seq(Entry) /\ Len(<<e>>) = 1 /\ <<e>>[1] = e
    BY <1>1, <2>3, OneEntry
  <2> HIDE DEF e
  <2>5. pc = "loading" => Answered(all, Len(all) - 1, answers)
    BY <1>0, <1>1, <2>3, ControlBehind DEF CallsInv, Resumable
  <2>6. Answered(entries, Len(entries), answers) => Answered(all, Len(all), answers)
    <3>1. \A k \in 1..Len(<<e>>) : <<e>>[k].kind # "assistant"
      BY <2>3, <2>4
    <3> QED
      BY <1>1, <2>4, <3>1, WholeConcat
  <2>7. \A g, r \in Nat : Recording(entries, g, r) => Recording(all, g, r)
    BY <1>1, <2>3, RecordingGrows
  <2>8. batch.answer \in Nat /\ batch.recorded \in Nat
    BY <1>0, SessionAssumption DEF TypeInv, TypeOK, Batch
  <2>9. entries' = all
    BY <2>1 DEF e
  <2> HIDE DEF all
  <2>10. pc = "checkpoint" => Recording(entries, Len(answers), 0)'
    <3>1. pc = "checkpoint" => Recording(all, Len(answers), 0)
      BY <1>1, <2>7 DEF CallsInv
    <3> QED
      BY <2>2, <2>9, <3>1 DEF Recording, Answered
  <2>11. pc = "batch" => Recording(entries, batch.answer, batch.recorded)'
    <3>1. pc = "batch" => Recording(all, batch.answer, batch.recorded)
      BY <2>7, <2>8 DEF CallsInv
    <3> QED
      BY <2>2, <2>9, <3>1 DEF Recording, Answered
  <2>12. /\ pc = "checkpoint" => Recording(messages, Len(answers), 0)'
         /\ pc = "batch" => Recording(messages, batch.answer, batch.recorded)'
    BY <2>2 DEF CallsInv, Recording, Answered
  <2>13. Running
    BY <2>2, <2>5, <2>6, <2>9, <2>10, <2>11, <2>12 DEF CallsInv
  <2> QED
    BY <1>4, <1>5, <2>2, <2>13
<1>12. CASE MarkRunControlDelivered
  BY <1>6, <1>12 DEF MarkRunControlDelivered, loop, execution, history
\* An entry without calls, for the provider too.
<1>13. ASSUME NEW e \in Entry, e.kind \notin {"assistant", "result"}, NEW log \in Seq(Entry),
              Len(log) = Len(entries), Answered(log, Len(log), answers),
              Answered(entries, Len(entries), answers),
              entries' = Append(entries, e), messages' = Append(log, e),
              pc' = "ask", UNCHANGED <<saved, copied, answers>>
       PROVE  CallsInv'
  <2> DEFINE new == <<e>>
  <2>1. /\ new \in Seq(Entry) /\ Len(new) = 1 /\ new[1] = e
        /\ Append(entries, e) = entries \o new /\ Append(log, e) = log \o new
    BY <1>1, OneEntry
  <2> HIDE DEF new
  <2>2. \A k \in 1..Len(new) : new[k].kind # "assistant"
    BY <1>13, <2>1
  <2>3. /\ Answered(entries \o new, Len(entries \o new), answers)
        /\ Answered(log \o new, Len(log \o new), answers)
    BY <1>1, <1>13, <2>1, <2>2, WholeConcat
  <2>4. Running
    BY <1>13, <2>1, <2>3
  <2> QED
    BY <1>4, <1>5, <1>13, <2>4
<1>14. CASE LoadMessages
  <2> DEFINE shown == messagesFromEntries(entries)
  <2>1. UNCHANGED <<saved, copied, answers>> /\ pc = "loading"
    BY <1>14 DEF LoadMessages, durable, history
  <2>2. Resumable(entries) /\ shown \in Seq(Entry) /\ Len(shown) = Len(entries)
    BY <1>1, <2>1, MessagesType, MessagesAnswered DEF CallsInv
  <2>3. CASE hasPendingToolCalls(entries)
    <3>1. /\ entries' = entries /\ messages' = shown /\ pc' = "batch"
          /\ batch' = BeginBatch(Last(entries).id)
      BY <1>14, <2>3 DEF LoadMessages
    <3>2. entries # <<>> /\ entries[Len(entries)].kind = "assistant"
      BY <2>3 DEF hasPendingToolCalls, Last
    <3>3. batch'.recorded = 0 /\ batch'.answer = entries[Len(entries)].id
      BY <3>1 DEF BeginBatch, NoBatch, Last
    <3>4. Recording(entries, batch'.answer, batch'.recorded)
      BY <1>1, <2>2, <3>2, <3>3, ResumesRecording
    <3>5. Recording(shown, batch'.answer, batch'.recorded)
      BY <1>1, <3>4, MessagesAnswered
    <3> HIDE DEF shown
    <3>6. /\ Recording(entries, batch.answer, batch.recorded)'
          /\ Recording(messages, batch.answer, batch.recorded)'
      BY <2>1, <3>1, <3>4, <3>5 DEF Recording, Answered
    <3>7. Running
      BY <3>1, <3>6
    <3> QED
      BY <1>4, <1>5, <2>1, <3>7
  <2>4. CASE ~hasPendingToolCalls(entries)
    <3>1. PICK e \in {Prompt, ResumePrompt} :
            entries' = Append(entries, e) /\ messages' = Append(shown, e) /\ pc' = "ask"
      BY <1>14, <2>4 DEF LoadMessages
    <3>2. e \in Entry /\ e.kind \notin {"assistant", "result"}
      BY <3>1, EntryTypes DEF Prompt, ResumePrompt
    <3>3. Answered(entries, Len(entries), answers)
      BY <1>0, <1>1, <2>2, <2>4, LoadedWhole
    <3>4. Answered(shown, Len(shown), answers)
      BY <1>1, <2>2, <3>3, MessagesAnswered
    <3> HIDE DEF shown
    <3> QED
      BY <1>13, <2>1, <2>2, <3>1, <3>2, <3>3, <3>4
  <2> QED
    BY <2>3, <2>4
\* Messages from a queue, between two requests.
<1>15. ASSUME NEW queue \in Seq(Controls), queue # <<>>, Inject(queue),
              pc \in {"ask", "settle"}, pc' \in {"ask", "asking"},
              UNCHANGED <<saved, copied, answers>>
       PROVE  CallsInv'
  <2> DEFINE new == [i \in DOMAIN Taken(queue) |-> Queued(Taken(queue)[i])]
             shown == messagesFromEntries(new)
  <2>1. /\ new \in Seq(Entry) /\ Plain(new)
        /\ entries' = entries \o new /\ messages' = messages \o shown
    BY <1>15, TakenType DEF Inject
  <2> HIDE DEF new
  <2>2. \A k \in 1..Len(new) : new[k].kind # "assistant"
    BY <2>1 DEF Plain
  <2>3. /\ shown \in Seq(Entry) /\ Len(shown) = Len(new) /\ Len(new) \in Nat
        /\ DOMAIN new = 1..Len(new)
    BY <2>1, MessagesType, MessagesAnswered, LenProperties
  <2>4. \A k \in 1..Len(shown) : shown[k].kind # "assistant"
    <3>1. \A k \in 1..Len(new) : new[k] \in Entry /\ shown[k] = MessageOf(new[k])
      BY <2>1, <2>3, ElementOfSeq DEF messagesFromEntries
    <3>2. \A e \in Entry : e.kind # "assistant" => MessageOf(e).kind # "assistant"
      BY DEF MessageOf, Entry
    <3> QED
      BY <2>2, <2>3, <3>1, <3>2
  <2> HIDE DEF shown
  <2>5. /\ Answered(entries \o new, Len(entries \o new), answers)
        /\ Answered(messages \o shown, Len(messages \o shown), answers)
    BY <1>1, <1>15, <2>1, <2>2, <2>3, <2>4, WholeConcat DEF CallsInv
  <2>6. Running
    BY <1>15, <2>1, <2>5
  <2> QED
    BY <1>4, <1>5, <1>15, <2>6
\* The lists stay, and the batch is none.
<1>17. ASSUME UNCHANGED <<saved, copied, entries, messages, answers>>,
              pc \in {"ask", "settle"}, pc' \in {"ask", "asking", "ending"}
       PROVE  CallsInv'
  <2>1. Running
    BY <1>17 DEF CallsInv
  <2> QED
    BY <1>4, <1>5, <1>17, <2>1
<1>18. CASE Ask
  <2>1. /\ UNCHANGED <<saved, copied, answers>> /\ pc = "ask" /\ pc' = "asking"
        /\ \/ UNCHANGED <<entries, messages>>
           \/ steering # <<>> /\ Inject(steering)
    BY <1>18 DEF Ask, Goto, durable, history
  <2> QED
    BY <1>15, <1>16, <1>17, <2>1
<1>19. CASE Settle
  <2>1. /\ UNCHANGED <<saved, copied, answers>> /\ pc = "settle" /\ pc' \in {"ask", "ending"}
        /\ \/ UNCHANGED <<entries, messages>>
           \/ steering # <<>> /\ Inject(steering) /\ pc' = "ask"
           \/ followUps # <<>> /\ Inject(followUps) /\ pc' = "ask"
    BY <1>19 DEF Settle, durable, history
  <2> QED
    BY <1>15, <1>16, <1>17, <2>1
<1>20. CASE Snapshot
  <2>1. /\ saved' = entries /\ UNCHANGED <<copied, entries, messages, answers>>
        /\ pc = "ending" /\ pc' = "closing"
    BY <1>20 DEF Snapshot, Goto, history
  <2>2. Answered(entries, Len(entries) - 1, answers)
    <3>1. /\ Answered(entries, Len(entries), answers)
          /\ \A i \in 1..Len(entries) - 1 : i \in 1..Len(entries)
      BY <1>1, <2>1 DEF CallsInv
    <3> QED
      BY <3>1 DEF Answered
  <2>3. Stored /\ Running
    BY <2>1, <2>2 DEF CallsInv, Resumable
  <2> QED
    BY <1>4, <2>3
<1>21. CASE Checkpoint
  <2>1. /\ saved' = entries /\ UNCHANGED <<copied, entries, messages, answers>>
        /\ pc = "checkpoint" /\ pc' = "batch" /\ batch' = FirstBatch(Len(answers))
    BY <1>21 DEF Checkpoint, Goto, history
  <2>2. /\ Recording(entries, Len(answers), 0) /\ Recording(messages, Len(answers), 0)
        /\ Len(answers) \in 1..Len(answers)
    BY <1>0, <1>1, <2>1, EmptySeq DEF CallsInv, TypeInv, TypeOK
  <2>3. Resumable(entries)
    BY <1>0, <1>1, <2>2, CheckpointResumable
  <2>4. batch'.recorded = 0 /\ batch'.answer = Len(answers)
    BY <2>1 DEF FirstBatch, failTruncatedToolCalls, BeginBatch, NoBatch
  <2>5. /\ Recording(entries, batch'.answer, batch'.recorded)
        /\ Recording(messages, batch'.answer, batch'.recorded)
    BY <2>2, <2>4
  <2>7. /\ Recording(entries, batch.answer, batch.recorded)'
        /\ Recording(messages, batch.answer, batch.recorded)'
    BY <2>1, <2>5 DEF Recording, Answered
  <2>6. Stored /\ Running
    BY <2>1, <2>3, <2>7 DEF CallsInv, Resumable
  <2> QED
    BY <1>4, <2>6
\* An answer without calls, or with calls on the way to the checkpoint.
<1>22. ASSUME NEW a \in Answer, NEW to \in {"settle", "ending", "checkpoint"},
              Goto("asking", to), Receive(a), to # "checkpoint" => a.calls = 0,
              saved' = saved, copied' = copied
       PROVE  CallsInv'
  <2> DEFINE e == Assistant(Len(answers) + 1)
             new == <<e>>
  <2>1. /\ pc = "asking" /\ pc' = to /\ answers' = Append(answers, a)
        /\ entries' = Append(entries, e) /\ messages' = Append(messages, e)
    BY <1>22 DEF Goto, Receive
  <2>2. e \in Entry /\ e.kind = "assistant" /\ e.id = Len(answers) + 1
    BY <1>1, EntryTypes DEF Assistant
  <2>3. Len(answers') = Len(answers) + 1 /\ answers'[Len(answers')] = a
    BY <1>0, <1>1, <2>1, AppendProperties DEF TypeInv, TypeOK
  <2> HIDE DEF e
  <2>4. /\ new \in Seq(Entry) /\ Len(new) = 1 /\ new[1] = e
        /\ entries' = entries \o new /\ messages' = messages \o new
    BY <1>1, <2>1, <2>2, OneEntry
  <2>5. /\ Answered(entries, Len(entries), answers')
        /\ Answered(messages, Len(messages), answers')
    BY <1>3, <2>1 DEF CallsInv
  <2> HIDE DEF new
  <2>6. CASE to = "checkpoint"
    <3>1. \A log \in Seq(Entry) : \A list :
            Answered(log, Len(log), answers') /\ list = log \o new =>
              \E n \in 1..Len(list) :
                /\ list[n] = e /\ n = Len(list) /\ Answered(list, n - 1, answers')
      <4> SUFFICES ASSUME NEW log \in Seq(Entry), Answered(log, Len(log), answers')
                   PROVE  /\ Len(log \o new) \in 1..Len(log \o new)
                          /\ (log \o new)[Len(log \o new)] = e
                          /\ Answered(log \o new, Len(log \o new) - 1, answers')
        OBVIOUS
      <4>1. /\ Len(log) \in Nat /\ Len(log \o new) = Len(log) + 1
            /\ (log \o new)[Len(log) + 1] = e
        <5>1. /\ Len(log) \in Nat /\ Len(log \o new) = Len(log) + Len(new)
              /\ \A i \in 1..Len(log) + Len(new) :
                   (log \o new)[i] = IF i <= Len(log) THEN log[i] ELSE new[i - Len(log)]
          BY <2>4, ConcatProperties, LenProperties
        <5>2. Len(log) + 1 \in 1..Len(log) + Len(new) /\ Len(log) + 1 - Len(log) = 1
          BY <2>4, <5>1
        <5> QED
          BY <2>4, <5>1, <5>2
      <4>2. Len(log) \in Int /\ Len(log) <= Len(log)
        BY <4>1
      <4>3. Answered(log \o new, Len(log), answers')
        BY <2>4, <4>2, AnsweredConcat
      <4>4. Len(log \o new) - 1 = Len(log) /\ Len(log) + 1 \in 1..Len(log) + 1
        BY <4>1
      <4> QED
        BY <4>1, <4>3, <4>4
    <3>2. ASSUME NEW list, NEW n \in 1..Len(list), list[n] = e, n = Len(list),
                 Answered(list, n - 1, answers')
          PROVE  \E m \in 1..Len(list) :
                   /\ list[m].kind = "assistant" /\ list[m].id = Len(answers')
                   /\ Answered(list, m - 1, answers')
                   /\ m + 0 <= Len(list) /\ m+1..Len(list) = {}
      <4>1. n + 0 <= Len(list) /\ n+1..Len(list) = {}
        BY <3>2
      <4> QED
        BY <2>2, <2>3, <3>2, <4>1
    <3>3. Recording(entries, Len(answers), 0)'
      <4>1. PICK n \in 1..Len(entries') : /\ entries'[n] = e /\ n = Len(entries')
                                         /\ Answered(entries', n - 1, answers')
        BY <1>1, <2>4, <2>5, <3>1
      <4>2. PICK m \in 1..Len(entries') :
              /\ entries'[m].kind = "assistant" /\ entries'[m].id = Len(answers')
              /\ Answered(entries', m - 1, answers')
              /\ m + 0 <= Len(entries') /\ m+1..Len(entries') = {}
        BY <3>2, <4>1
      <4>3. Answered(entries, m - 1, answers)'
        BY <4>2 DEF Answered
      <4> QED
        BY <4>2, <4>3 DEF Recording
    <3>4. Recording(messages, Len(answers), 0)'
      <4>1. PICK n \in 1..Len(messages') : /\ messages'[n] = e /\ n = Len(messages')
                                          /\ Answered(messages', n - 1, answers')
        BY <1>1, <2>4, <2>5, <3>1
      <4>2. PICK m \in 1..Len(messages') :
              /\ messages'[m].kind = "assistant" /\ messages'[m].id = Len(answers')
              /\ Answered(messages', m - 1, answers')
              /\ m + 0 <= Len(messages') /\ m+1..Len(messages') = {}
        BY <3>2, <4>1
      <4>3. Answered(messages, m - 1, answers)'
        BY <4>2 DEF Answered
      <4> QED
        BY <4>2, <4>3 DEF Recording
    <3>5. Running
      BY <2>1, <2>6, <3>3, <3>4
    <3> QED
      BY <1>4, <1>5, <1>22, <3>5
  <2>7. CASE to # "checkpoint"
    <3>1. \A k \in 1..Len(new) : new[k].kind = "assistant" =>
            new[k].id \in 1..Len(answers') /\ answers'[new[k].id].calls = 0
      <4>1. answers'[e.id].calls = 0 /\ e.id \in 1..Len(answers')
        BY <1>1, <1>22, <2>2, <2>3, <2>7
      <4> QED
        BY <2>4, <4>1
    <3>2. /\ Answered(entries', Len(entries'), answers')
          /\ Answered(messages', Len(messages'), answers')
      BY <1>1, <2>4, <2>5, <3>1, WholeConcat
    <3>3. Running
      BY <2>1, <2>7, <3>2
    <3> QED
      BY <1>4, <1>5, <1>22, <3>3
  <2> QED
    BY <2>6, <2>7
<1>23. ASSUME NEW failed \in BOOLEAN, AnswerText(failed) PROVE CallsInv'
  <2> DEFINE a == [calls |-> 0, dangerous |-> {}, mode |-> "parallel"]
             to == IF failed THEN "ending" ELSE "settle"
  <2>1. a \in Answer /\ a.calls = 0
    BY SessionAssumption DEF Answer
  <2>2. Goto("asking", to) /\ Receive(a) /\ saved' = saved /\ copied' = copied
    BY <1>23 DEF AnswerText, durable
  <2>3. to \in {"settle", "ending"}
    OBVIOUS
  <2> HIDE DEF a, to
  <2> QED
    BY <1>22, <2>1, <2>2, <2>3
<1>24. ASSUME NEW n \in 1..MaxCalls, NEW mode \in {"parallel", "sequential", "truncated"},
              NEW dangerous \in SUBSET (1..n), AnswerCalls(n, dangerous, mode)
       PROVE  CallsInv'
  <2>1. [calls |-> n, dangerous |-> dangerous, mode |-> mode] \in Answer
    BY SessionAssumption DEF Answer
  <2> QED
    BY <1>22, <1>24, <2>1 DEF AnswerCalls, durable
\* Calls are prepared and run: the entries stay.
<1>25. ASSUME pc = "batch", pc' = "batch",
              UNCHANGED <<saved, copied, entries, messages, answers>>,
              batch'.answer = batch.answer, batch'.recorded = batch.recorded
       PROVE  CallsInv'
  <2>1. /\ Recording(entries, batch.answer, batch.recorded)
        /\ Recording(messages, batch.answer, batch.recorded)
    BY <1>25 DEF CallsInv
  <2>2. /\ Recording(entries, batch.answer, batch.recorded)'
        /\ Recording(messages, batch.answer, batch.recorded)'
    BY <1>25, <2>1 DEF Recording, Answered
  <2>3. Running
    BY <1>25, <2>2
  <2> QED
    BY <1>4, <1>5, <1>25, <2>3
<1>b. batch \in Batch
  BY <1>0 DEF TypeInv, TypeOK
<1>26. CASE Prepare
  <2>1. /\ pc = "batch" /\ pc' = pc
        /\ UNCHANGED <<saved, copied, entries, messages, answers>>
        /\ \/ batch' = [batch EXCEPT !.prepared = @ + 1, !.ready = @ \cup {batch.prepared + 1}]
           \/ batch' = [batch EXCEPT !.prepared = @ + 1, !.done = @ \cup {batch.prepared + 1}]
    BY <1>26 DEF Prepare, history
  <2>2. batch'.answer = batch.answer /\ batch'.recorded = batch.recorded
    BY ONLY <1>b, <2>1 DEF Batch
  <2> QED
    BY <1>25, <2>1, <2>2
<1>27. ASSUME NEW k \in 1..MaxCalls, Execute(k) PROVE CallsInv'
  <2>1. /\ pc = "batch" /\ pc' = pc
        /\ UNCHANGED <<saved, copied, entries, messages, answers>>
        /\ batch' = [batch EXCEPT !.done = @ \cup {k}]
    BY <1>27 DEF Execute, durable, loop
  <2>2. batch'.answer = batch.answer /\ batch'.recorded = batch.recorded
    BY ONLY <1>b, <2>1 DEF Batch
  <2> QED
    BY <1>25, <2>1, <2>2
<1>28. CASE RecordToolOutcome
  <2> DEFINE r == batch.recorded
             g == batch.answer
             e == Result(g, r + 1)
  <2>1. /\ pc = "batch" /\ pc' = pc /\ UNCHANGED <<saved, copied, answers>>
        /\ entries' = Append(entries, e) /\ messages' = Append(messages, e)
        /\ batch' = [batch EXCEPT !.recorded = r + 1]
    BY <1>28 DEF RecordToolOutcome, durable, history
  <2>2. r \in Nat /\ g \in Nat /\ batch'.answer = g /\ batch'.recorded = r + 1
    BY ONLY <1>b, <2>1, SessionAssumption DEF Batch
  <2>3. Recording(entries, g, r) /\ Recording(messages, g, r) /\ e \in Entry
    BY <2>1, <2>2, EntryTypes DEF CallsInv
  <2>4. r + 1 \in Nat
    BY <2>2
  <2>5. Recording(Append(entries, e), g, r + 1) /\ Recording(Append(messages, e), g, r + 1)
    BY <1>1, <2>2, <2>3, <2>4, RecordingGrows
  <2> HIDE DEF g, r, e
  <2>6. /\ Recording(entries, batch.answer, batch.recorded)'
        /\ Recording(messages, batch.answer, batch.recorded)'
    BY <2>1, <2>2, <2>5 DEF Recording, Answered
  <2>7. Running
    BY <2>1, <2>6
  <2> QED
    BY <1>4, <1>5, <2>1, <2>7
<1>29. ASSUME NEW terminate \in BOOLEAN, FinishBatch(terminate) PROVE CallsInv'
  <2>1. /\ pc = "batch" /\ pc' \in {"ending", "ask"}
        /\ batch.recorded = answers[batch.answer].calls
        /\ UNCHANGED <<saved, copied, entries, messages, answers>>
    BY <1>29 DEF FinishBatch, Goto, durable, history, Current
  <2>2. batch.recorded \in Nat /\ batch.answer \in 1..Len(answers)
    BY <1>0, <1>b, <2>1, SessionAssumption DEF Batch, TypeInv
  <2>3. /\ Answered(entries, Len(entries), answers)
        /\ Answered(messages, Len(messages), answers)
    BY <1>0, <1>1, <2>1, <2>2, RecordingEnds DEF CallsInv
  <2>4. Running
    BY <2>1, <2>3
  <2> QED
    BY <1>4, <1>5, <2>1, <2>4
<1>30. CASE UNCHANGED vars
  BY <1>6, <1>30 DEF vars
<1> QED
  BY <1>8, <1>9, <1>10, <1>11, <1>12, <1>14, <1>18, <1>19, <1>20, <1>21, <1>23, <1>24, <1>26,
     <1>27, <1>28, <1>29, <1>30 DEF Next, Loop

\* The provider sees of a control only the user's message.
Shown(log) == \A i \in 1..Len(log) : log[i].kind \notin {"accepted", "queued"}

LEMMA MessagesShown ==
  ASSUME NEW log \in Seq(Entry)
  PROVE  Shown(messagesFromEntries(log)) /\ messagesFromEntries(log) \in Seq(Entry)
<1>1. \A e \in Entry : MessageOf(e).kind \notin {"accepted", "queued"}
  BY DEF MessageOf, Entry
<1>2. DOMAIN log = 1..Len(log) /\ \A i \in 1..Len(log) : log[i] \in Entry
  BY LenProperties, ElementOfSeq
<1>3. Len(messagesFromEntries(log)) = Len(log)
  BY MessagesAnswered
<1> QED
  BY <1>1, <1>2, <1>3, MessagesType DEF Shown, messagesFromEntries

LEMMA ShownGrows ==
  ASSUME NEW log \in Seq(Entry), NEW new \in Seq(Entry), Shown(log), Shown(new)
  PROVE  Shown(log \o new)
<1>1. /\ Len(log) \in Nat /\ Len(new) \in Nat /\ Len(log \o new) = Len(log) + Len(new)
      /\ \A i \in 1..Len(log) + Len(new) :
           (log \o new)[i] = IF i <= Len(log) THEN log[i] ELSE new[i - Len(log)]
  BY ConcatProperties, LenProperties
<1>2. \A i \in 1..Len(log) + Len(new) :
        i \in 1..Len(log) \/ (~(i <= Len(log)) /\ i - Len(log) \in 1..Len(new))
  BY <1>1
<1> QED
  BY <1>1, <1>2 DEF Shown

LEMMA ShownStep ==
  ASSUME TypeInv, Shown(messages), [Next]_vars
  PROVE  Shown(messages')
<1>1. messages \in Seq(Entry) /\ entries \in Seq(Entry)
  BY DEF TypeInv, TypeOK
<1>2. ASSUME NEW log \in Seq(Entry), NEW e \in Entry, Shown(log),
             e.kind \notin {"accepted", "queued"}
      PROVE  Shown(Append(log, e))
  <2>1. <<e>> \in Seq(Entry) /\ Append(log, e) = log \o <<e>> /\ Shown(<<e>>)
    BY <1>2, OneEntry DEF Shown
  <2> QED
    BY <1>2, <2>1, ShownGrows
<1>3. CASE UNCHANGED messages
  BY <1>3
<1>4. CASE messages' = <<>>
  BY <1>4 DEF Shown
<1>5. CASE LoadMessages
  <2>1. Shown(messagesFromEntries(entries)) /\ messagesFromEntries(entries) \in Seq(Entry)
    BY <1>1, MessagesShown
  <2>2. \A e \in {Prompt, ResumePrompt} : e \in Entry /\ e.kind \notin {"accepted", "queued"}
    BY EntryTypes DEF Prompt, ResumePrompt
  <2>3. \/ messages' = messagesFromEntries(entries)
        \/ \E e \in {Prompt, ResumePrompt} :
             messages' = Append(messagesFromEntries(entries), e)
    BY <1>5 DEF LoadMessages
  <2> HIDE DEF Prompt, ResumePrompt
  <2> QED
    BY <1>2, <2>1, <2>2, <2>3
<1>6. ASSUME NEW queue \in Seq(Controls), queue # <<>>, Inject(queue) PROVE Shown(messages')
  <2>1. PICK new \in Seq(Entry) : messages' = messages \o messagesFromEntries(new)
    BY <1>6, TakenType DEF Inject
  <2> QED
    BY <1>1, <2>1, MessagesShown, ShownGrows
<1>7. steering \in Seq(Controls) /\ followUps \in Seq(Controls)
  BY DEF TypeInv, TypeOK
<1>8. CASE Ask \/ Settle
  <2>1. \/ UNCHANGED messages
        \/ steering # <<>> /\ Inject(steering)
        \/ followUps # <<>> /\ Inject(followUps)
    BY <1>8 DEF Ask, Settle
  <2> QED
    BY <1>3, <1>6, <1>7, <2>1
<1>9. ASSUME NEW a \in Answer, Receive(a) PROVE Shown(messages')
  <2>1. /\ messages' = Append(messages, Assistant(Len(answers) + 1))
        /\ Assistant(Len(answers) + 1) \in Entry
        /\ Assistant(Len(answers) + 1).kind = "assistant"
    BY <1>9, EntryTypes DEF Receive, Assistant, TypeInv, TypeOK
  <2> HIDE DEF Assistant
  <2> QED
    BY <1>1, <1>2, <2>1
<1>10. ASSUME NEW failed \in BOOLEAN, AnswerText(failed) PROVE Shown(messages')
  <2>1. [calls |-> 0, dangerous |-> {}, mode |-> "parallel"] \in Answer
    BY SessionAssumption DEF Answer
  <2> QED
    BY <1>9, <1>10, <2>1 DEF AnswerText
<1>11. ASSUME NEW n \in 1..MaxCalls, NEW mode \in {"parallel", "sequential", "truncated"},
              NEW dangerous \in SUBSET (1..n), AnswerCalls(n, dangerous, mode)
       PROVE  Shown(messages')
  <2>1. [calls |-> n, dangerous |-> dangerous, mode |-> mode] \in Answer
    BY SessionAssumption DEF Answer
  <2> QED
    BY <1>9, <1>11, <2>1 DEF AnswerCalls
<1>12. CASE RecordToolOutcome
  <2> DEFINE e == Result(batch.answer, batch.recorded + 1)
  <2>1. messages' = Append(messages, e)
    BY <1>12 DEF RecordToolOutcome
  <2>2. batch.answer \in Nat /\ batch.recorded \in Nat
    BY SessionAssumption DEF TypeInv, TypeOK, Batch
  <2>3. e \in Entry /\ e.kind = "result"
    BY <2>2, EntryTypes DEF Result
  <2> HIDE DEF e
  <2> QED
    BY <1>1, <1>2, <2>1, <2>3
<1>13. CASE Users
  BY <1>3, <1>13 DEF Users, EnqueueRunControl, DecideApproval, loop
<1>14. CASE StartRun \/ MarkRunControlDelivered \/ AcceptControl
  BY <1>3, <1>14 DEF StartRun, MarkRunControlDelivered, AcceptControl, loop
<1>15. CASE Stop \/ ExceedTurns \/ Finish
  BY <1>4, <1>15 DEF Stop, ExceedTurns, Finish, Down
<1>16. CASE Checkpoint \/ Snapshot \/ Prepare \/ \E k \in 1..MaxCalls : Execute(k)
  BY <1>3, <1>16 DEF Checkpoint, Snapshot, Prepare, Execute, loop
<1>17. CASE \E terminate \in BOOLEAN : FinishBatch(terminate)
  BY <1>3, <1>17 DEF FinishBatch
<1>18. CASE UNCHANGED vars
  BY <1>3, <1>18 DEF vars
<1> QED
  BY <1>5, <1>8, <1>10, <1>11, <1>12, <1>13, <1>14, <1>15, <1>16, <1>17, <1>18 DEF Next, Loop

\* The provider is never shown a tool call without its result but where a
\* control came between them, however often the run is paused, crashes and is
\* resumed, also from the stale copy of the entries in the job.
THEOREM CallsHaveResults == Spec => []UndisturbedCallsAnswered
<1>1. Init => CallsInv /\ Shown(messages)
  <2> SUFFICES ASSUME Init PROVE CallsInv /\ Shown(messages)
    OBVIOUS
  <2>1. TypeInv
    BY InitTypes
  <2> QED
    BY <2>1 DEF Init, CallsInv, Resumable, Answered, Shown
<1>2. CallsInv /\ Shown(messages) /\ [Next]_vars => (CallsInv /\ Shown(messages))'
  BY CallsStep, ShownStep DEF CallsInv
<1>3. ASSUME CallsInv, Shown(messages) PROVE UndisturbedCallsAnswered
  <2> SUFFICES ASSUME pc = "asking", NEW i \in DOMAIN messages, messages[i].kind = "assistant"
               PROVE  LET results == i+1..i + answers[messages[i].id].calls IN
                      \/ \E j \in results \cap DOMAIN messages : messages[j].kind = "control"
                      \/ \A j \in results : /\ j <= Len(messages)
                                           /\ messages[j] = Result(messages[i].id, j - i)
    BY DEF UndisturbedCallsAnswered
  <2> DEFINE results == i+1..i + answers[messages[i].id].calls
  <2>1. Answered(messages, Len(messages), answers) /\ messages \in Seq(Entry)
    BY <1>3 DEF CallsInv, TypeInv, TypeOK
  <2>2. DOMAIN messages = 1..Len(messages) /\ Len(messages) \in Nat /\ i \in Nat
    BY <2>1, LenProperties
  <2>3. \/ \E j \in results : j <= Len(messages) /\ IsControl(messages[j])
        \/ \A j \in results : j <= Len(messages) /\ messages[j] = Result(messages[i].id, j - i)
    BY <2>1, <2>2 DEF Answered
  <2>4. \A j \in results : j \in Int /\ j >= 1
    BY <2>2
  <2> HIDE DEF results
  <2>5. \A j \in results : j <= Len(messages) => j \in DOMAIN messages
    BY <2>2, <2>4
  <2>6. \A j \in DOMAIN messages : IsControl(messages[j]) => messages[j].kind = "control"
    BY <1>3, <2>2 DEF IsControl, Shown
  <2>7. \/ \E j \in results \cap DOMAIN messages : messages[j].kind = "control"
        \/ \A j \in results : /\ j <= Len(messages)
                             /\ messages[j] = Result(messages[i].id, j - i)
    BY <2>3, <2>5, <2>6
  <2> QED
    BY <2>7 DEF results
<1>4. CallsInv /\ Shown(messages) => UndisturbedCallsAnswered
  BY <1>3
<1> QED
  BY <1>1, <1>2, <1>4, PTL DEF Spec
=============================================================================

------------------------------ MODULE SessionTree ------------------------------
(***************************************************************************)
(* The entries of a session as a tree, and what the provider sees of them. *)
(* Every entry hangs under the leaf of its time; the branch of the leaf is *)
(* the conversation.  compactWithReason replaces its older part by a       *)
(* summary, navigate_tree moves the leaf and may summarise the branch it   *)
(* leaves.  Both ask the provider in between, and pollControls goes on     *)
(* appending entries while an agent's compaction waits for the answer.     *)
(*                                                                         *)
(* An entry's id is its place in the list, so that an entry's parent has a *)
(* smaller id (unless it does not exist): a branch is a set of ids, and in *)
(* the order of these.  A text is the set of entries it speaks of: a       *)
(* summary covers the entries the summariser was given, and what the       *)
(* earlier summary it was given covers.                                    *)
(***************************************************************************)
EXTENDS Naturals, FiniteSets, SequencesExt

CONSTANTS
  MaxEntries,  \* bound: entries of the session
  Quota,       \* bound: entries of each kind
  MaxForks,    \* bound: entries appended after a navigation
  KeepRecent,  \* CompactionKeepRecent, in tokens
  Size         \* estimateMessageTokens of a message, by kind

Speakers   == {"user", "assistant", "tool", "custom_message"}
EntryKinds == Speakers \cup {"branch_summary", "compaction", "note"}
NoEntry    == MaxEntries + 1  \* an id that no entry has

ASSUME TreeAssumption ==
  /\ {MaxEntries, MaxForks, KeepRecent} \subseteq Nat \ {0}
  /\ Size \in [Speakers -> Nat \ {0}]
  /\ Quota \in [EntryKinds -> Nat]

VARIABLES
  treeEntries,  \* execution.entries
  leaf,         \* execution.leafID, 0 for ""
  running,      \* a prompt run is executing
  open,         \* calls of its last answer that have no result yet
  waiting,      \* execution.steering: entries of controls to be taken
  work          \* the compaction or navigation that waits for the provider

treeVars == <<treeEntries, leaf, running, open, waiting, work>>

\* ref: whether an answer has a call (1), the answer a tool result is for,
\* the control a queued message repeats, the first entry a compaction kept.
TreeEntry == [kind : EntryKinds, parent : 0..NoEntry, ref : 0..MaxEntries,
              tail : SUBSET (1..MaxEntries), covers : SUBSET (1..MaxEntries)]
NoWork == [op |-> "none", first |-> 0, tail |-> {}, covers |-> {}]

TreeTypeOK ==
  /\ treeEntries \in Seq(TreeEntry) /\ Len(treeEntries) <= MaxEntries
  /\ leaf \in 0..NoEntry
  /\ \A i \in DOMAIN treeEntries : treeEntries[i].parent < i \/ treeEntries[i].parent = NoEntry
  /\ running \in BOOLEAN /\ open \in Nat
  /\ waiting \in Seq(DOMAIN treeEntries)
  /\ work.op \in {"none", "compact", "navigate"}
  /\ open > 0 => running /\ work = NoWork

TreeInit ==
  /\ treeEntries = <<>> /\ leaf = 0
  /\ running = FALSE /\ open = 0 /\ waiting = <<>>
  /\ work = NoWork

-----------------------------------------------------------------------------
(* The branch and its messages.                                            *)

Path[i \in 0..NoEntry] ==
  IF i \in DOMAIN treeEntries THEN Path[treeEntries[i].parent] \cup {i} ELSE {}

\* A missing leaf gives an empty branch, no leaf the whole list.
branchEntries == IF leaf = 0 THEN DOMAIN treeEntries ELSE Path[leaf]

entryMessage(i) == treeEntries[i].kind \in Speakers

Greatest(S) == IF S = {} THEN 0 ELSE Max(S)

LastCompaction(branch) == Greatest({i \in branch : treeEntries[i].kind = "compaction"})

\* Where the entries kept by the last compaction begin; the whole branch if
\* that entry is not on it.
FirstKept(branch) ==
  LET c == LastCompaction(branch)
  IN  IF c > 0 /\ treeEntries[c].ref \in branch THEN treeEntries[c].ref ELSE 0

Spoken(branch, from) ==
  {i \in branch : i >= from /\ (entryMessage(i) \/ treeEntries[i].kind = "branch_summary")}

Ordered(S) ==
  [k \in 1..Cardinality(S) |-> CHOOSE i \in S : Cardinality({j \in S : j < i}) = k - 1]

\* A slip, for the check of the properties: the retained tail is sent beside the entries it repeats.
BadMessagesFromBranch(branch) ==
  LET c    == LastCompaction(branch)
      tail == IF c = 0 THEN {} ELSE treeEntries[c].tail
  IN  (IF c = 0 THEN <<>> ELSE <<c>>) \o Ordered(tail)
        \o Ordered(Spoken(branch, FirstKept(branch)))

messagesFromBranch(branch) ==
  LET c     == LastCompaction(branch)
      tail  == IF c = 0 THEN {} ELSE treeEntries[c].tail
      start == IF tail = {} THEN FirstKept(branch) ELSE c + 1
  IN  (IF c = 0 THEN <<>> ELSE <<c>>) \o Ordered(tail) \o Ordered(Spoken(branch, start))

-----------------------------------------------------------------------------
(* Where a compaction cuts.                                                *)

Tokens(branch, from) ==
  FoldSet(LAMBDA i, sum : sum + Size[treeEntries[i].kind], 0,
          {i \in branch : i >= from /\ entryMessage(i)})

\* A slip, for the check of the properties: a cut may fall before a tool result.
BadValidCuts(branch) ==
  {i \in branch : i >= FirstKept(branch)
                   /\ treeEntries[i].kind \in Speakers \cup {"branch_summary"}}

\* An answer is never separated from the results after it, so a cut is not
\* placed before a tool result.
ValidCuts(branch) ==
  {i \in branch : /\ i >= FirstKept(branch)
                  /\ treeEntries[i].kind \in {"user", "assistant", "custom_message",
                                          "branch_summary"}}

RecentCut(branch) ==
  LET full  == {i \in branch : /\ i >= FirstKept(branch) /\ entryMessage(i)
                               /\ Tokens(branch, i) >= KeepRecent}
      after == {i \in ValidCuts(branch) : full # {} /\ i >= Max(full)}
  IN  IF after = {} THEN Min(ValidCuts(branch)) ELSE Min(after)

\* Entries that are no messages stay with what follows them.
Cut(branch) ==
  Min({k \in branch :
         /\ FirstKept(branch) <= k /\ k <= RecentCut(branch)
         /\ \A j \in branch : k <= j /\ j < RecentCut(branch) =>
              treeEntries[j].kind \in {"custom_message", "branch_summary", "note"}})

\* A cut inside a turn splits it at the message that began it.
TurnStart(branch) ==
  IF treeEntries[Cut(branch)].kind \in {"user", "custom_message"}
  THEN 0
  ELSE Greatest({i \in branch :
         /\ FirstKept(branch) <= i /\ i <= Cut(branch)
         /\ treeEntries[i].kind \in {"user", "custom_message", "branch_summary"}})

\* What a message says: the queued copy of a control what the control said.
TextOf(i) ==
  IF treeEntries[i].kind = "user" /\ treeEntries[i].ref > 0 THEN treeEntries[i].ref ELSE i
TextsOf(messages) == {TextOf(i) : i \in messages}

\* A slip, for the check of the properties: the last entry of a range is left out.
BadMessages(branch, from, to) == {i \in branch : from <= i /\ i < to /\ entryMessage(i)}

Messages(branch, from, to) == {i \in branch : from <= i /\ i <= to /\ entryMessage(i)}

\* What a split turn with no history before it is told of the summary so far.
PreviousCovers(branch) ==
  LET c == LastCompaction(branch) IN IF c = 0 THEN {} ELSE treeEntries[c].covers

prepareCompaction(branch) ==
  LET cut     == Cut(branch)
      turn    == TurnStart(branch)
      history == Messages(branch, FirstKept(branch), (IF turn > 0 THEN turn ELSE cut) - 1)
      prefix  == IF turn > 0 THEN Messages(branch, turn, cut - 1) ELSE {}
  IN  IF ValidCuts(branch) = {} THEN NoWork
      ELSE IF history \cup prefix = {} THEN NoWork
      ELSE [op     |-> "compact", first |-> cut, tail |-> Messages(branch, cut, Max(branch)),
            covers |-> TextsOf(history \cup prefix) \cup
                       (IF prefix # {} /\ history = {} THEN {} ELSE PreviousCovers(branch))]

-----------------------------------------------------------------------------
(* Appending.                                                              *)

Plain(kind, ref) ==
  [kind |-> kind, parent |-> leaf, ref |-> ref, tail |-> {}, covers |-> {}]

appendEntry(entry) ==
  /\ Len(treeEntries) < MaxEntries
  /\ Cardinality({i \in DOMAIN treeEntries : treeEntries[i].kind = entry.kind})
       < Quota[entry.kind]
  /\ treeEntries' = Append(treeEntries, entry)
  /\ leaf' = Len(treeEntries) + 1

CurrentBranch == branchEntries
Context == messagesFromBranch(CurrentBranch)
Idle    == ~running /\ work = NoWork

\* The agent loop between two turns, where it may compact.
AtTurn  == running /\ open = 0 /\ work = NoWork

PendingToolCalls ==
  /\ Context # <<>>
  /\ treeEntries[Context[Len(Context)]].kind = "assistant"
  /\ treeEntries[Context[Len(Context)]].ref = 1

\* A prompt is appended, unless the branch ends with an answer whose calls
\* have no results: then these are run, and the prompt is not used.
StartPrompt ==
  /\ Idle
  /\ running' = TRUE
  /\ \/ /\ ~PendingToolCalls
        /\ appendEntry(Plain("user", 0))
        /\ open' = 0
     \/ /\ PendingToolCalls
        /\ open' = 1
        /\ UNCHANGED <<treeEntries, leaf>>
  /\ UNCHANGED <<waiting, work>>

\* An answer has one call or none.
AppendAnswer(calls) ==
  /\ AtTurn
  /\ treeEntries[Max(CurrentBranch)].kind # "assistant"
  /\ appendEntry(Plain("assistant", calls))
  /\ open' = calls
  /\ UNCHANGED <<running, waiting, work>>

LastAnswer == Max({i \in CurrentBranch : treeEntries[i].kind = "assistant"})

ToolResult ==
  /\ open = 1
  /\ appendEntry(Plain("tool", LastAnswer))
  /\ open' = 0
  /\ UNCHANGED <<running, waiting, work>>

\* pollControls, at any time of a run.
PollControl ==
  /\ running
  /\ appendEntry(Plain("user", 0))
  /\ waiting' = Append(waiting, Len(treeEntries) + 1)
  /\ UNCHANGED <<running, open, work>>

injectQueuedMessages ==
  /\ AtTurn
  /\ waiting # <<>>
  /\ appendEntry(Plain("user", Head(waiting)))
  /\ waiting' = Tail(waiting)
  /\ UNCHANGED <<running, open, work>>

\* The run ends with an answer, by a failure, or waiting for an approval
\* (which leaves a call open); its queue is gone.
EndPrompt ==
  /\ running /\ work = NoWork
  /\ running' = FALSE /\ open' = 0 /\ waiting' = <<>>
  /\ UNCHANGED <<treeEntries, leaf, work>>

\* append_custom_message, and the operations that append another entry:
\* set_label, set_model, set_thinking_level, set_active_tools,
\* set_session_name, set_queue_modes, set_plan_mode, append_custom_entry.
AppendOperation(kind) ==
  /\ Idle
  /\ appendEntry(Plain(kind, 0))
  /\ UNCHANGED <<running, open, waiting, work>>

-----------------------------------------------------------------------------
(* Compaction and navigation.                                              *)

\* compactWithReason: asked for by a threshold, an overflow or an extension
\* between two turns of a run, or by the operation compact.
BeginCompact ==
  /\ AtTurn \/ Idle
  /\ CurrentBranch # {} /\ treeEntries[Max(CurrentBranch)].kind # "compaction"
  /\ work' = prepareCompaction(CurrentBranch)
  /\ UNCHANGED <<treeEntries, leaf, running, open, waiting>>

FinishCompact ==
  /\ work.op = "compact"
  /\ appendEntry([Plain("compaction", work.first) EXCEPT !.tail = work.tail,
                                                         !.covers = work.covers])
  /\ work' = NoWork
  /\ UNCHANGED <<running, open, waiting>>

\* The messages of the branch after the last entry it shares with another.
Abandoned(target) ==
  Messages(CurrentBranch, Greatest(CurrentBranch \cap Path[target]) + 1, Greatest(CurrentBranch))

Forks   == {i \in DOMAIN treeEntries : treeEntries[i].parent # i - 1}
Targets == IF Cardinality(Forks) < MaxForks
           THEN (DOMAIN treeEntries \cup {NoEntry}) \ {leaf} ELSE {}

\* navigate_tree without a summary, or with nothing to summarise.  Nothing
\* checks that the target exists.
Navigate(target) ==
  /\ Idle
  /\ leaf' = target
  /\ UNCHANGED <<treeEntries, running, open, waiting, work>>

BeginNavigate(target) ==
  /\ Idle
  /\ Abandoned(target) # {}
  /\ work' = [op |-> "navigate", first |-> target, tail |-> {},
              covers |-> TextsOf(Abandoned(target))]
  /\ UNCHANGED <<treeEntries, leaf, running, open, waiting>>

FinishNavigate ==
  /\ work.op = "navigate"
  /\ appendEntry([Plain("branch_summary", 0) EXCEPT !.parent = work.first,
                                                    !.covers = work.covers])
  /\ work' = NoWork
  /\ UNCHANGED <<running, open, waiting>>

\* The provider's error ends the run, and appends nothing.
FailWork ==
  /\ work # NoWork
  /\ work' = NoWork
  /\ running' = FALSE /\ open' = 0 /\ waiting' = <<>>
  /\ UNCHANGED <<treeEntries, leaf>>

TreeNext ==
  \/ StartPrompt \/ ToolResult \/ PollControl \/ injectQueuedMessages \/ EndPrompt
  \/ BeginCompact \/ FinishCompact \/ FinishNavigate \/ FailWork
  \/ \E calls \in {0, 1} : AppendAnswer(calls)
  \/ \E kind \in {"custom_message", "note"} : AppendOperation(kind)
  \/ \E target \in Targets : Navigate(target) \/ BeginNavigate(target)

TreeSpec == TreeInit /\ [][TreeNext]_treeVars

-----------------------------------------------------------------------------
(* Properties.                                                             *)

\* What the provider learns from an entry: a text, or those a summary covers.
Says(i) ==
  IF treeEntries[i].kind \in {"compaction", "branch_summary"} THEN treeEntries[i].covers
  ELSE {TextOf(i)}
Known(context) == UNION {Says(i) : i \in context}

\* A compaction forgets no message that the provider saw word for word: it is
\* kept or covered, or it is still in the queue.  The cut, the split turn and
\* the retained tail are computed before the provider is asked, while
\* pollControls goes on appending.
CompactionKeepsMessages ==
  [][FinishCompact =>
       TextsOf({i \in ToSet(Context) : entryMessage(i)})
         \subseteq Known(ToSet(Context))' \cup ToSet(waiting)]_treeVars

\* A compaction covers what the summary before it covered.  The instructions
\* for it say "PRESERVE all existing information from the previous summary"
\* (compaction.go:74), but a split turn with no history before it is
\* summarised without that summary.
SummariesKept ==
  [][FinishCompact => PreviousCovers(CurrentBranch) \subseteq Known(ToSet(Context))']_treeVars

\* The provider refuses a tool result without the answer that called the tool.
\* Whatever a compaction keeps, a result keeps its answer, unless a control
\* was appended between the two.
ResultsKeepAnswers ==
  \A i \in DOMAIN Context : treeEntries[Context[i]].kind = "tool" =>
    LET answer == treeEntries[Context[i]].ref
    IN  \/ \E j \in 1..(i - 1) : Context[j] = answer
        \/ \E u \in answer..Context[i] : treeEntries[u].kind = "user"

\* What the provider sees is of the branch, and no entry twice: navigation,
\* compaction and what is appended meanwhile mix no other branch into it.
ContextOnBranch ==
  /\ IsInjective(Context)
  /\ ToSet(Context) \subseteq CurrentBranch
=============================================================================

# Verification of ergo-agent

TLA+ modules, TLC configurations and TLAPS proofs kept beside
`github.com/ageniti/ergo-agent`: a Go agent runtime (`internal/engine`,
`provider`, `resource`) and the ECS control plane that runs it on many machines
over one MySQL database (`examples/ecs`). Paths below are relative to the
repository; `PROJECT.json` maps every definition to the lines it models.

## 1. The system

```
users -> API tasks -> MySQL: runs, jobs, approvals, interactions, controls,
                      sessions, plans, todos, keys, events, outbox
                        ^ leases, heartbeats, events, outcomes
worker tasks: a tick, N goroutines of processJob, pollControls, the outbox publisher
                        | calls, and is called back with events
engine (Runtime.RunWithOptions): agent loop, tool batches, sub-agents, MCP, compaction
                        | requests, files
model providers, MCP servers, the workspace, package sources, the webhook consumer
```

| component | state it keeps | what makes it correct | hard because | module |
|---|---|---|---|---|
| run control (`mysql.go`, `agent-worker/main.go`) | rows of runs, jobs, approvals, interactions; per goroutine: its run, its copy of the verdicts, pending requests | no dangerous call without consent; verdicts are final and reach the job; one executor per run; cancelled and completed are final; jobs and runs come to an end | every transaction of every task interleaves; leases lapse under a live worker; processes die between transactions; decisions arrive at any moment | `RunControl` |
| run creation, keys, forks (`mysql.go`, `run_service.go`) | idempotency rows, sessions | one run per key, one fork per key, each a whole branch | a key is looked up without a lock; the fork is read back in two statements | `PlanControl`, `Forks` |
| plans and todos (`mysql.go`, `run_service.go`, `tools.go`) | plan, steps, todos | a plan is executed once per approval; a run reports to its own plan; a later execution has the todos of its branch | a plan is read before the transaction that takes it; projections of late events; details that share an array | `PlanControl`, `Todos` |
| event outbox (`mysql.go`, `agent-worker/main.go`) | rows of agent_outbox; per publisher: its batch | at least once, each copy a numbered attempt, acknowledged only after a copy arrived | the lease covers a batch; answers get lost; two publishers hold one event | `Outbox`, `EventDelivery` |
| provider retry, event pipeline, event stream (`runtime.go`, `mysql.go`, `httpapi/server.go`) | the partial message, emit's mutex and number, committed rows, a reader's cursor | persisted in order without a gap; a reader ends with the messages the loop has; the stream ends | retries in mid-message, rows that commit out of order, reconnections | `EventPipeline` |
| agent loop and durable session (`runtime.go`, `agent-worker/main.go`) | entries, messages, two queues, the tool batch; saved: the entry list, the job's copy of it, run controls | every tool call is answered in later requests; saved results are never recomputed; the saved session is only extended; controls in order | crashes between checkpoint and results; pollControls appends to the same list from another goroutine | `AgentSession` |
| settings of an execution (`runtime.go`, `extensions.go`) | command, entries of the branch, overrides of extensions | what the entries say agrees with what the execution does | three sources with different precedence, changed while a request is out | `Settings` |
| compaction and session tree (`compaction.go`, `runtime.go`) | the entry tree, the active leaf | a cut never separates a call from its result, and forgets nothing | cut points inside turns, entries appended while the summary is made, forks | `SessionTree` |
| sub-agents (`tools.go`, `extensions.go`) | running agents, their results, the idle signal | chains go on from results; a waiter is woken and sees all end | a counter and a channel of one token | `Delegation` |
| agent profiles and packages (`resource/`, `runtime.go`) | profiles in several scopes, bundles | an agent runs only if its caller allows it; a bundle has exactly its delegates | two look-ups with different scopes; roles, wildcards, patterns | `AgentPackages` |
| package operations (`package_manager.go`) | a directory, its backup, settings.json | an installed package stays whole and listed | renames that fail, operations that overlap | `Packages` |
| file tools (`file_edit.go`, `truncate.go`, `tools.go`) | files, a lock per path | an edit changes only the place it names; pages cover a file | a fuzzy match led back to the bytes; calls in parallel; limits | `FileEdits`, `FilePages` |
| tool arguments (`tool_validation.go`) | none | the tool gets what its schema accepts, and what was accepted is not changed | conversions before validation, alternatives | `ToolArguments` |
| providers (`provider/`) | accumulators of a stream | a completion without an error is the whole answer | pieces in any order, connections that end anywhere | `ProviderStream` |
| MCP bridge (`mcp.go`) | connections, elicitations | an elicitation ends with an answer, a cancellation or the run | it waits inside a tool call | in `RunControl` |
| extensions (`extensions.go`) | registered hooks | | arbitrary user code | their context's calls in `Delegation`, `SessionTree`, `Settings` |
| SDK facade, CLI, exporter, Bocha | none | | | none |

How they interact. API tasks and workers never talk to each other: all they
share is the database, and a worker learns of a decision, a cancellation or a
control by polling or by its next lease. The engine runs inside a worker's
goroutine and reports through a callback (`emit`), which is the transaction
`AppendRunEvent`; that transaction moves the run (`Project` in `RunControl`),
saves the session (`saved` in `AgentSession`), moves a plan (`persistPlan` in
`PlanControl`), replaces the todo rows (`persistTodos` in `Todos`), takes the
event's seq (`Insert` in `EventPipeline`) and inserts the outbox row (`Record` in
`Outbox`). `pollControls` and the heartbeat are goroutines beside the loop.

The list of what is hard to test, each item at its line, is `hazards` in
`PROJECT.json`; the properties below are aimed at it.

## 2. The modules

Modules are written so that they can be proved about: constants with named assumptions,
one action per transaction or local step, no RECURSIVE operator (except in
`ToolArguments`, of which nothing is proved); what the code does in a loop is a
recursive function, a fold or a set. The proofs of a module are in another that extends
it: `RunControlProofs`, `PlanProofs`, `EventProofs` (outbox and pipeline),
`SessionProofs`, `TreeProofs` (the session tree and forks), `FileProofs` (edits and
pages), and `EngineProofs` for the other modules of the engine. `Numbers` has the lemmas
on natural numbers that they share. An operator named `Bad...` is a slip the code might
have had, kept beside the definition it would replace; the specifications do not use
them.

Five MC modules hold the instance of one component: `MCRunControl`,
`MCPlanControl`, `MCAgentSession`, `MCSessionTree` and `MCTodos`; two violation runs
check `Packages` and `ProviderStream` as they are. `MCRuns` holds three instances of
`RunControl` that differ in what an execution asks for and in what is assumed of the
environment. `MCEvents` and
`MCEngine` hold several that share no state: they extend the modules, so that
the properties they check are those that the theorems name, and a variable `focus`,
chosen at the start, says which one moves, while the others rest in one state.
Such a run checks the sum of the instances, not their product, which would show
nothing more. `ToolArguments`, which is only checked, is instantiated in `MCEngine`.

### RunControl

`run`, `job`, `owner`, `lapsed`, `attempts`, `decided`, `approval` and
`interaction` are columns: status of the run, status, lease owner, "lease_until
is past", attempts and verdicts of its job, decision of an approval ("lapsed" is
an undecided row past expires_at), status of an interaction. `pc`, `at`, `grant`,
`asked` and `waiting` are the local state of a goroutine of `processJob`: the
step it is at, its run, the verdicts it read with the lease, the requests it left
pending, the interactions it waits for. `ran` is a history of executed calls.

An action is one committed transaction, all its statements included, or one
local step. For example `LeaseJob` is the four statements of `LeaseJobs` (bury
exhausted jobs, fail the runs of dead ones, select, update); `DecideApproval` is
the verdict, the payload, the unconditional requeue of the job and the
conditional requeue of the run; `ExpireApprovals` is two statements with a time of
their own each, so that a row that lapses between them is denied while its run is not
failed. Time is a set of environment steps
(`LeaseLapses`, `ApprovalLapses`, `InteractionLapses`) that may happen whenever
the clock allows it, and `Crash(w)` removes all goroutines of a worker and
leaves its leases.

The engine appears by the events it hands to its sink, in every order: it asks
for approvals and inputs, runs granted calls, pauses, completes, fails, or stops
without an event (`Abort`).

Three constants name assumptions about the environment. `TimelyLeases`: a lease
lapses only when nobody holds the run (heartbeats are in time).
`EarlyDecisions`: users may decide while a goroutine still holds the run (they
may, in the code). `LostRejections`: the run.failed event of a rejected workspace
may be lost (its error is dropped at `main.go:197`).

### PlanControl

EXTENDS `RunControl` and takes each of its steps whole, together with what the
same transaction does to `keys` (agent_idempotency_keys) and to a plan's row:
`plan` its status, `executor` its execution_run_id, `completed` its completed
steps, `plans` the order of created_at. `CreatePlannedRun` is `CreateRun` with the
key's row and the plan's update, `CancelPlannedRun` and `FailPlannedRun` close the
plan of a run that is cancelled or reports run.failed. Outside the transactions,
`request` says how far a client is: ExecutePlan reads the plan (`ReadPlan`), the
key is looked up without a lock (`LookUpKey`), and only the insertion of the key and
the plan's condition, at the end, decide (`Accepted`). A refused request changes
nothing and may be sent again. `persistPlan` and `persistPlanProgress` are the
projections of the two plan events, which an execution emits once, after its last
snapshot (`Reports`). `consents` counts approvals, as a history. A plan without
steps is left out: the engine emits no plan.created without one.

### Outbox and EventDelivery

`owner`, `lapsed`, `due`, `attempts` and `published` are columns; `batch` is what
a publisher still has to send, each event with the attempt it was leased at.
`LeaseOutbox` picks the first `Batch` eligible rows in order among those no other
transaction has locked (`SKIP LOCKED`: any set may be locked). `Post` has three
outcomes: accepted; refused or lost before the consumer; received by the consumer
with an answer that is lost. `EventDelivery` is the contract: an event may arrive
more than once and in any order, each copy is a different attempt within the
limit, and it is acknowledged only after a copy arrived. The mapping is
`accepted <- rows, copies <- received, acknowledged <- published`.

### EventPipeline

One request of the loop with its retries, and the end of the run. A delta extends
`partial` and is emitted; a provider's failure starts another attempt
(`ProviderRetry`, `MessageReset`, `BackoffEnds`). `emit` is four steps: the mutex
(`Lock`, or `Refuse` after a failure), the seq of the transaction (`Insert`), the
commit (`CommitEvent`), and `failEventPipeline` from any point between.
`pollControls` emits through the same mutex; the API writes events of the run
without it. `ListRunEvents`, the sending, the poll of the run's status and the
end are steps of `streamRunEvents`, and a client may reconnect with its last id.

### AgentSession

`entries` and `messages` are those of the execution and of `runAgent`; `saved` is
the session in MySQL, `copied` the list that `DecideApproval` puts in the job.
An entry stands for a message by kind and identity: a prompt, a control (once
when accepted, once when taken from its queue, as the code does), the answer
number g, the result of call k of answer g. `answers` remembers what each answer
asked for: how many calls, which are dangerous, and whether the batch is parallel,
sequential or cut off at the token limit. `LoadMessages` resumes the batch of the
last entry or appends the prompt; `Checkpoint` and `Snapshot` replace `saved`;
`Stop` is any loss of the execution. `AcceptControl` and
`MarkRunControlDelivered` are the two halves of one poll of `pollControls`, and
interleave with every step of the loop.

One execution at a time is assumed here, which is what `RunControl` is about; one
verdict stands for all approvals of the run. `loaded` is how many entries the execution
found, which makes the entries behind it its own. processJob ignores an error of
GetSession and then starts from the job's own copy: `Source` may take it, and `stale`
says that it did.

### SessionTree

The entries with their parents, the leaf, the entries of controls not yet taken,
and the compaction or navigation that waits for the provider. `branchEntries`,
`messagesFromBranch` and `prepareCompaction` are operators over them. An entry's id is
its place in the list, and its parent has a smaller one or does not exist; so
a branch is the set of the ids on it, in the order of the numbers, and "the last
compaction" or "the first entry kept" are the greatest and least elements of a set.
A text is the set of entries it speaks of, so that "the summary still covers this"
can be said. A compaction is two actions, before and after the provider's answer, with
entries appended in between. A token count is the size of a message.

### Settings

`Start` takes a command and the branch, `RunAgent` resolves model, level, tools and
plan mode (`Resolve`), `SetModel`, `SetThinkingLevel` and `SetActiveTools` are an
extension's calls, `SetOperation` the operations of the same names, `SendRequest` and
`AnswerRequest` a request, `SaveBranch`, `FinishRun` and `DropRun` what the next
execution sees.

### Delegation, AgentPackages

`Delegation` is the tool subagent: `Call` starts an agent when `Turn` allows it (single,
the chain's next, a free place of the parallel width), `Enter` and `Leave` count it in
`activeAgents`, `signalStateChanged` puts the token into the channel, `Report`
and `Return` end task and tool, and `WaitForIdle` runs beside them.

`AgentPackages` builds a bundle from the profiles of a resource root, validates it,
installs it in a scope with patterns, beside loose profiles of the project and of the
user, and then starts and delegates to agents by
name. It is about who may call whom; `Damage` deletes a file of an installed
bundle.

### Packages, FileEdits, FilePages, ToolArguments, ProviderStream, Todos, Forks

`Packages`: installing (`Stage`) and `RemovePackage` in the steps of the file system:
the backup (`ClearBackup`, `MoveAside`), the new directory (`Place`, `Restore`), the
removal of the backup (`DropBackup`), where renames and removals may fail, then the read
and write of settings.json under a mutex per process. `FileEdits`: lock, read,
`applyFileEdits` behind a byte order mark, write; the match on normalised text and the
table of boundaries are operators, and the replacements, from the last place to the
first, a recursive function (`Applied`). `Chars` is what texts consist of: any set with
the characters that the code looks at, among them the line ends \n, \r\n and a lone \r.
`FilePages`: `truncateHead`, `truncateTail` and the tool read following its own hints,
with or without a limit in each call, zero included. `ToolArguments`: schemas and values
as records, `coerceWithJSONSchema` and `validateSchemaValue` as recursive operators (so
nothing is proved of them); a number is a text, and `Formatted` is the text that the
float64 read from it is written as, which rounds integers beyond 2^53. `ProviderStream`:
what each of six protocols may send, event by event, and what the reader accumulates,
with the reason that it gives: "length", "error" (a filter or a refusal, without a Go
error) or one that says nothing of the kind. `Todos`: the tool's list, the details in
the entries, restoration in a later execution, and the rows; an append may or may not
move the list to another array, as Go's append may. `Forks`: requests to fork, with
their look-up, transaction and two reads, while runs extend the sessions.

## 3. What is checked

A run takes up to two and a half minutes. A violation run checks one sentence of
the repository that the code does not keep; section 6 says what it shows.

| run | instance | properties | shows |
|---|---|---|---|
| runs | three instances of 1 run and 2 workers in one sum, 447k states | eleven properties, below | run control |
| delivery | outbox: 2 publishers, 2 events, batches of 2, 2 attempts; stream: 1 retry, 1 delta per attempt, 1 event each of pollControls and the API, pages of 2, 138k | TypeOK, ImplementsDelivery, LiveLeaseKept, EventsSettle; PersistedInOrder, FollowerAgrees, SkipsOnlyOvertaken, StreamEnds | the outbox implements its contract and leaves no event behind; the stream shows what the loop has |
| resume | thirteen instances in one sum, 2.1M | eighteen properties, below | the engine |
| plans | 5 requests with 3 keys, 2 planners, 2 executions of one plan, 1 stray run, 2 slots, 1 attempt, 1.2M | KeysAgree, ApprovalsSpent, OwnProgress | requests that race for a key or a plan, late executions, progress that falls back to another plan |
| fence | 2 workers, 1 call | ExclusiveExecution | violated, finding 1 |
| awaits | 2 workers, 2 calls | DecidedRunResumes | violated, finding 2 |
| calls | 1 control, 2 executions | CallsAnswered | violated, finding 3 |
| truncated | no control, 2 executions | TruncatedNeverRun | violated, finding 4 |
| summaries | 6 entries | SummariesKept | violated, finding 5 |
| todos | 3 calls, 1 execution | RowsFollowTodos | violated, finding 6 |
| atomic | as packages below | ReplacementAtomic | violated, finding 7 |
| ended | 6 protocols, 1 piece of text, 2 calls of 2 pieces | StreamsTerminated | violated, finding 8 |

The instances of `runs`, each with 2 attempts:

| focus | instance | properties | shows |
|---|---|---|---|
| approvals | 2 dangerous calls, any lapse, 328k | TypeOK, ApprovedBeforeRun, DecisionsKept, RetryBudget, FinalRunsStay, VerdictsStay, CancelStopsExecution | consent, verdicts, retries and final statuses under every interleaving, with overlapping executions and expired leases |
| inputs | 1 questionnaire, 1 elicitation, any lapse, 112k | AwaitsInput, and those of approvals | a run that waits for input has an unanswered one; a cancellation is noticed wherever the execution is |
| timely | 1 call, 1 questionnaire, timely leases, 6k | TimelyExclusion, TimelyRunningEnds, TimelyJobsSettle, and those of approvals | under the three assumptions of section 2, one executor, no run running for ever, no job ready or leased for ever |

The instances of `resume`:

| focus | instance | properties |
|---|---|---|
| session | 3 executions, 2 answers of up to 2 calls, no controls | TypeOK, UndisturbedCallsAnswered, SavedResultsStand, SessionGrows |
| queues | 3 controls of 2 kinds, 2 executions, one control less for the second, answers of at most 1 call | ControlsInOrder, and those of session |
| tree | 6 entries, 1 fork, 2 tokens kept | ResultsKeepAnswers, ContextOnBranch, CompactionKeepsMessages |
| edits | 10 contents, 13 old texts in lists of one or two, a second edit or write beside it | EditsOnlyMatches |
| pages | all files of up to 5 lines of up to 3 bytes, pages of 2 lines and 2 bytes, no limit or one of 0 to 3 | PagesCoverFile |
| tool | every schema of two types, unions and alternatives, every atom; eleven numbers, two of them beyond 2^53 | ArgumentsKept |
| packages | 2 operations on 2 sources, in one or two processes, renames and removals that fail | PackagesStand |
| children | 1, 3, 4 or 6 tasks, limit 5, width 2 | IdleSeen |
| stream | 6 protocols, 1 piece of text, 3 calls of 2 pieces, every reason | CompletionWhole |
| profiles | catalogues of a chief, a scout and an aide in every form, with files of the project and of the user | AgentsAllowed |
| todos | 4 todo calls, 2 todos, 2 executions | TodosReconstructed |
| forks | 2 requests with one key or two, 3 entries | ForksWhole |
| settings | 2 models, 1 level, 2 tool lists, 3 entries | SettingsResume |

TypeOK is the type of `AgentSession`. SavedResultsStand and SessionGrows hold of the
session by itself; in the other instances they are trivially true.

Why these properties. ApprovedBeforeRun relates a call that ran to a verdict
given maybe several leases earlier, through the payload and the execution's copy
of it. DecisionsKept relates the payload to the approval rows. RetryBudget relates
a dead job to its run and its attempts, and attempts are reset by every requeue.
FinalRunsStay must hold although events of executions that lost their lease are
still written. AwaitsInput relates two tables that three transactions update.
ApprovalsSpent compares the runs created for a plan with the approvals users
gave, over requests that read the plan at any earlier time. UndisturbedCallsAnswered,
SavedResultsStand, SessionGrows, TodosReconstructed and SettingsResume each relate
what one execution left in the database to what a later one does with it.
ControlsInOrder and PersistedInOrder compare what two goroutines wrote to one
list; FollowerAgrees and SkipsOnlyOvertaken what one task wrote and what another
task's reader got. CompactionKeepsMessages relates two states with a request to
the provider and other goroutines' entries between them. EditsOnlyMatches,
PagesCoverFile and ArgumentsKept are reference definitions of what a text
algorithm promises, which do not mention how it works. PackagesStand and ForksWhole
say what is left after overlapping operations. Each property is falsified by at
least one of the `Bad...` slips, listed under `mutants`.

Bounds, and why they are enough.

- `RunControl`, one run: runs share only the session count of CreateRun, the batch
  of LeaseJobs (equal to several single leases) and a worker's slots; the
  theorems of section 5 hold for any number. Two slots of two workers: the hazards
  need an old execution and a new one. Two calls: the second decision after
  the first is what finding 2 needs. Two attempts: the first one that fails and
  the last one. Hashes differ per call.
- `PlanControl`: the five requests are paired so that two races exclude each other
  and need no more runs: the second planner and the second execution share a key,
  as do the first planner and the stray run. One attempt keeps this to minutes; a
  planner that writes its plan twice needs two. The theorems hold for any number.
- `AgentSession`: `MaxAnswers`, `MaxCalls` and `MaxStarts` bound what the code does
  not; three executions are a crash, a resumption and a crash of that one.
  `MaxTurns` is the runtime's limit, small so that it is met.
- `EventPipeline`: one retry with a delta before and after it, one event of each
  other writer, so that a slower transaction can be overtaken; a page of two rows
  ends within the log.
- `SessionTree`: six entries hold a compaction behind a split turn with a branch
  beside it. `Quota` limits each kind of entry so that the tree cannot be filled with
  one.
- `Delegation`: width 2 and at most 5 tasks stand for 4 and 8: a call with fewer,
  as many and more tasks than the width, and more than allowed. The theorem holds
  for any.
- `FilePages`: limits of two lines and two bytes make each limit the one that
  decides, and lines of three bytes fit no page. Likewise the other data
  modules have inputs on both sides of every case of the algorithm.
- `Todos`, `Forks`, `Settings`: two executions, two requests, or an execution and a
  later one; entries for one write before, between and after.

Deadlock checking is off: the systems may stop, when every run is finished, every
event is settled, or a bound is reached.

In the instance timely, elicitations are left out: an elicitation nobody answers keeps its
execution alive with heartbeats for ever, which is what the code means it to do.

Fairness, and why the code justifies it. `FairSpec` of RunControl: each worker's
ticker fires every poll interval, so leasing and expiring are weakly fair for each
run and slot set; a goroutine's own next step is weakly fair where the code has
nothing to wait for (`Progress`), and its two observers, the heartbeat and the
cancellation watch, are tickers; clocks pass, so a lease that nobody renews lapses.
Nothing is assumed of users, of which way an engine ends, of crashes or of lost
outcomes. A job's attempts are what makes TimelyJobsSettle true in spite of them.
`MCEvents`: the publisher loop goes on, and clocks pass; and a connected
streamRunEvents, which polls on a ticker, goes on reading, sending and looking at
the run's status (`Streaming`). The writers of the stream are under no fairness: the
run may never end, and StreamEnds speaks only of one that has. AgentSession has no
liveness property: its loop is only as live as the provider.

## 4. What is assumed for some properties

`TimelyRunningEnds` needs `LostRejections` FALSE for the reason given in section 2, and
`TimelyLeases` TRUE with `EarlyDecisions` FALSE: otherwise the job may be completed by
one execution while another has set the run to running, and `LeaseJobs` only declares
runs lost whose job is dead. `SavedResultsStand` and `SessionGrows` are about what an
execution builds on (`Basis`). That is the saved session; but processJob ignores an
error of GetSession (`main.go:214`), and then it is the copy that the last decision put
into the job. The first snapshot of such an execution deletes what was saved since, and
calls whose results it deletes run again. The properties say that nothing more is lost:
never what was saved at the last decision, and nothing once the execution has saved.
No sentence of the repository promises otherwise, so the loss is a hazard in
`PROJECT.json`, not a finding. CallsAnswered holds only without controls (finding 3);
UndisturbedCallsAnswered is what holds with them: a call without its results has
a control's message in their place.

`OwnProgress` is about a plan while it is the run's to execute. Two things that
it does not say are hazards in `PROJECT.json`: a run that executes no plan and
prints a [DONE:n] mark moves the newest plan of the session that has no executor,
approved or not (`mysql.go:1094`), and so does the late progress of a run whose plan
was written again, approved again and taken by another run.

Exceptions that other properties name, because the code behaves so and nothing in
the repository promises better:

- SettingsResume: a model set while a request of another model is out is hidden, in
  the next execution, by the answer's own entry (`runtime.go:2176`); tools that the
  command lists win over tools set later.
- CompletionWhole: arguments may be cut if the answer's reason is "length" or "error", or
  if there is none. Of calls under "error" (a content filter, a refusal) the loop is not
  wary: only "length" keeps them from being run (`runtime.go:878`), which is a hazard. An
  answer without a reason comes from google and bedrock, whose streams are not held to a
  last event: that is finding 8.
- SkipsOnlyOvertaken: the cursor misses a row that commits after one with a
  greater seq was sent.
- PackagesStand: two processes may overwrite each other's settings.json, whose mutex is
  one process's. Of a crash it says only that the package is still there as a backup;
  that this is less than the documents promise is finding 7. A removal that fails leaves
  what it did not remove, and the call reports an error.
- EditsOnlyMatches: a file whose first line end is \r\n gets it at the end of every
  line, and a lone \r becomes one of the file's line ends. The lock is keyed by the path
  as it is spelled; two spellings are two locks and are not modelled.
- ArgumentsKept: with anyOf or oneOf, the first alternative that a converted value
  fits takes it. An integer sent as a string is written anew from its float64 ("1e3"
  becomes 1000), and beyond 2^53 it becomes another integer: the property admits the
  same text or the same float64.
- TodosReconstructed: the mark of a todo may be a later one of the same execution,
  since the details share the list's array.
- ResultsKeepAnswers: a control appended between an answer and its result may be
  taken for the start of a turn.
- ForksWhole: a repeated request gets the first one's fork although it names
  another entry.

## 5. What is proved

TLAPS checks these for every value of the constants that the modules' named
assumptions allow (the `ASSUME` of each module; they say of what kind a constant is, that
bounds are numbers, and, where it matters, that a set is finite or that a marker
is no member of it). Every theorem of a run's property names the
property itself: the run shows it on a small instance, the theorem on all.

How induction is done. The provers cannot instantiate the library's induction
theorems, which take an operator. `Numbers!LeastNat` (every set of natural
numbers that is not empty has a least one) is derived from the well-foundedness of the
subsets of a finite set, which is a fact without an operator; an induction is then "the set of
counterexamples has a least element, and it is none". That is how recursive
functions (`Path`, `Ancestors`, `Bytes`, `Applied`, `Shown` of the stream,
`restoreTodos`) and folds are reasoned about.
`Numbers!RankGrows`, `RankTaken` and `Sorted` say that the elements of a finite set
have ranks without gaps, from which what is sorted is a sequence of all of
them, once and in order.

Run control (`RunControlProofs`).

- `TypeCorrect`: TypeOK is an invariant, by the actions of Next in three groups
  (API, worker, environment). That attempts stay within MaxAttempts needs the guard
  of `Leasable`.
- `ApprovalGate`, `PayloadExact`: ApprovedBeforeRun is not
  inductive, since RunCall looks at the goroutine's copy of the verdicts only.
  `VerdictInv` adds that the payload is exactly the rows' verdicts (DecisionsKept)
  and that no goroutine's copy has more than the payload of its run (GrantBacked).
  `ApprovalStep` isolates the one action that touches payload and verdicts,
  `DecisionsStep`, `GrantStep` and `RanStep` preserve one part each.
- `VerdictsFinal` and `FinalRuns`: action properties, from TypeOK and a case
  analysis of the actions that write approvals or run statuses.
- `RetriesSpent`: RetryBudget needs FinalRunsStay, because a job buried by a
  cancellation must keep its cancelled run (`FinalStep`), and the fact that a job
  dies only by its last attempt or a cancellation and keeps its attempts while it
  is dead (`DeadStep`).
- `WaitsForSomebody`: AwaitsInput is inductive together with TypeOK. `WaitStep` says
  that every step but an answer (AnswerInteraction) and a question (AskInput) can
  only take a run out of awaiting_input and keeps an unanswered row unanswered
  (`Unmoved`); the two are proved one by one, by what they write.
- `ExclusiveFence`: what the fence of the lease rests on, for any number of workers with
  any number of slots and without an assumption on leases or decisions in general. If of
  one run no approval is decided and no questionnaire answered while an execution holds
  it, and its lease does not run out then (`Undisturbed`), the run never has two executors
  (`ExecutedOnce`), whatever happens to other runs and to this one between its
  executions. The two clauses are what finding 1 and a late heartbeat break. `Fenced`
  says that the run has one holder and that its job is not up for lease: neither ready
  nor leased with a lapsed lease. `Placed` and `Born` say that slots hold runs that have
  a job, and that jobs, approvals and interactions belong to created runs, without which
  CreateRun could make a held run's job ready. Crashes, cancellations, expiries,
  conflicts and answered elicitations need no clause: they make no job ready.

Plans (`PlanProofs`).

- `PlansKeepRuns`: PlanSpec => Spec. Every step of PlanControl is a step of
  RunControl or leaves its variables alone, so the theorems above that assume
  nothing more hold of planned runs.
- `PlanTypes`: PlanTypeOK is an invariant.
- `OneRunPerKey`: KeysAgree. A client that has an answer has the run in its key's
  row (`KeyInv`), and a row never changes once it is written.
- `ConsentsCover`: ApprovalsSpent, for finitely many runs. `SpendInv` counts the
  unspent approval too: the runs created for a plan, and one more while the plan is
  approved, are at most the consents. Creation spends that one, and a plan that is
  written again loses it.
- `ProgressIsOwn`: OwnProgress. `OwnInv` says that a plan's executor is a run made
  for it, that plans being executed or decided were written, and that no plan is
  in the list twice, so that the newest plan that the run executes is its own.

The session (`SessionProofs`).

- `SessionTypes`: TypeOK, strengthened by `Known`: entries speak only of answers that
  were given.
- `SavedGrows`, `ResultsStand`: SessionGrows and SavedResultsStand, whether or not an
  execution could read the session. `StandInv`: the job's copy is a prefix of the saved
  list, and while an execution is up what it builds on is a prefix of its entries, and
  so is the copy (`CopiedPrefix`); `BasisStep` says how a step moves the three lists;
  answers and results are in order (`Ordered`); and whatever is recorded precedes the
  answer about to be checkpointed or the batch at work (`Earlier`). This is why a
  resumed batch runs only calls without a result.
- `ControlsKeepOrder`: ControlsInOrder, for any controls sent at any time and any queue
  mode. `OrderInv` follows a control through its four places. An accepted one is still in
  the inbox only between the two halves of a poll, and then at its head
  (`Accounted`), so that no poll accepts it again (`AcceptedOnce`); a
  queue is in the order of acceptance and behind everything of its delivery that has left it
  (`InLine`), so that what is taken from its head, one or all, extends the order
  (`QueuedInOrder`). A crash empties the queues, and the next execution counts only
  the entries it appends itself: hence `loaded`.
- `CallsHaveResults`: UndisturbedCallsAnswered, with any controls. `CallsInv` says
  for each step of the loop how complete the entries are: every answer has its results
  behind it, or a control in the place of one, when a request is made (`Answered`);
  the same of all but the last answer in a saved list (`Resumable`); and of all but
  the unrecorded rest of the batch while it is at work (`Recording`). Without the
  clause for controls it fails (finding 3), in the step from the checkpoint to
  `Resumable`.

The session tree (`TreeProofs`), for any number of entries and navigations, any sizes of
messages and any budget. `TreeHolds` is its inductive invariant, `TreeInv`:

- `CompactionsRetain`: every compaction kept a part of its own branch that begins at an
  entry of that branch, holds every answer, result and custom message from there on, and
  no result whose answer is before it, unless a user's message is between the two;
  `PlanRetains` says the same of a plan that waits for the provider, whatever is appended
  meanwhile.
- `ResultsFollow`: a result has its answer on its branch, and between the two either a
  user's message, or no message at all and no compaction that hides the answer;
  `OpenAnswer` says that this will be so of the result that is still to come. A run
  resumed from a branch that ends with an unanswered call has it too (`PendingAnswer`).
- `PlanCovers`: the plan keeps or covers every message of the context, or it is a control's
  and is still in the queue.

`PathsExist` and `PathIs` show that `Path` is well-defined, `PathEnds` that a branch
contains the branch of each of its entries, `PathAppended` that an append changes no
other branch. `ContextIs` says what `messagesFromBranch` returns, `CutKeepsAnswers` and
`PlanIs` what `prepareCompaction` guarantees: there is a message between a valid cut and
the one chosen (`RecentCutIs`), so a cut behind an answer is behind its results. From
these:

- `ContextStays`: ContextOnBranch; `ResultsStay`: ResultsKeepAnswers.
- `MessagesStay`: CompactionKeepsMessages, an action property, from `PlanCovers` and what
  the context is after the compaction (`Recalled`).
- `TreeTypesHold`: TreeTypeOK, with the type of the queue (`RunTypes`).

Forks (`TreeProofs` too).

- `EveryForkWhole`: ForksWhole, for any requests, keys and sessions. It is not inductive:
  it speaks of the fork that was read back, in two statements, and of nothing before.
  `ForksInv` adds that in every session each entry's ancestors are in it, up to one root
  (`Lineage`), that sessions agree on the entries they share (`OneHistory`), that a
  fork shares some with its source and has a key (`ForksKeyed`), and that a request on its
  way back has its key's session and a leaf that is still in it (`RequestKnown`). That
  sessions only grow is why a leaf read before the entries is among them.
  `AncestorsTold` and `AncestorsClosed` say what the recursive function `Ancestors` is.

File tools (`FileProofs`), for any texts.

- `HintsCoverFile`: PagesCoverFile, for any lines and limits. `PagesInv` is
  PagesCoverFile with the types. The proof is in what `truncateHead` and `truncateTail`
  return: `Totals` are the sums of a text's beginnings, from which the bytes of any part
  of it follow (`PartBytes`); `HeadFits` says that what a page takes fits and leaves
  nothing out when all fits, `TailWhole` that no longer end fits than the one shown;
  `NothingSelected`, that a page without a line, of a limit that is not positive,
  changes nothing (`PageEmpty`); `PageAdded`, that a page of the lines at the offset,
  behind which only an empty last line is left out, keeps the invariant.
- `EditsReplaceMatches`: EditsOnlyMatches, for any texts, calls and replacements. Its
  invariant, `EditInv`, is the lock: a call between its read and its write holds the
  lock, and what it read is the file. So it is enough to know what `applyFileEdits` does
  to one text (`EditApplied`): an exact match is a place of the text (`ExactFound`); a
  place of the normalised text is led back by the boundaries to a place that normalises
  to it (`FuzzyFound`), because normalising a part from one kept character to the next
  is taking that part of the normalised text (`PartFuzzy`); any other place apart from
  it that read the same would occur in the normalised text without overlap and be
  refused by `Several` (`FuzzyOnce`). All this is about the text behind the byte order
  mark (`TextEdited`), which comes back before the result (`MarkTold`). The result has
  one kind of line end (`AppliedClean`), which is led back at last (`LineEnds`).
- `ReplacementsInPlace`: the property's new content is `Applied`, the operator of the
  model, so this theorem says what that one does: of edits that do not overlap, applied
  from the last place to the first, each finds at its place what the original
  text has there. What precedes a place is not moved by what was replaced behind it
  (`BackwardTold`, `SplicedClean`).

Events (`EventProofs`).

- `OutboxDelivers`: the initial states map to initial states
  (`InvInit`), every step maps to a step or a stutter (`DeliveryStep`), under an
  invariant that bounds and distinguishes attempts: a lease in a batch carries an
  attempt not larger than the row's and no two publishers hold the same one
  (`AttemptsUnique`), an attempt still to be posted is not received and an accepted
  one is (`PostsCounted`), only recorded events are leased (`Recorded`).
- `OutboxTypes`, `LiveLeases`: from the same invariant.
- `PersistedOrder`: PersistedInOrder, for any number of retries,
  deltas and other events. `PipelineInv` adds that whoever is between the mutex and
  the commit holds the mutex and has the number after the rows committed so far
  (`Serial`), and that a row inserted and not committed has a larger sequence than
  the execution's committed rows (`Ahead`). A failed emit may spend a number, so
  `Serial` says nothing of the counter once eventErr is set.
- `StreamSkips`: SkipsOnlyOvertaken, for any page size and any reconnections. `StreamInv`
  adds that no two rows have one seq, those not committed yet included (`Distinct`),
  and that the cursor is at a committed row and behind none that was sent (`Cursor`);
  `Page` says what ListRunEvents returns.
- `FollowerReads`: FollowerAgrees. `FollowInv` says, of every step of the loop, which
  event it has in hand and that the rows tell the partial message but for that event
  (`Follows`). What the rows tell is a recursive function of them, and a row adds its own
  telling (`ShownReads`, `ReadsAgree`).

The engine's smaller modules (`EngineProofs`).

- `PackagesHold`: PackagesStand, for any sources, processes, workers, renames and
  removals that fail. `PackInv`: a source nobody removes is whole, or some call is about
  to put it in place (`Standing`); the only call for a source finds, and keeps in the
  backup, what the one before left (`Alone`); within one process the settings that are
  written contain those that were read (`Exclusive`), so that installed packages are
  listed (`Listed`).
- `NoLostWakeup`: IdleSeen, for any number of tasks and any width. The counter is the
  number of agents that run (`AgentsCounted`), a task has a result exactly when its agent is
  gone (`AgentsReported`), and a chain's agent starts only after the results before it
  (`ChainGoesOn`).
- `AgentsMayRun`: AgentsAllowed, for any profiles, files of the project and of the user,
  catalogues, patterns and depth.
  `BuiltDelegates` says that packaging freezes wildcards to just the delegates that
  the source had; `AgentsInv` that a built bundle is the package of a valid entry until
  it is installed or damaged (`BundleStands`), and that each agent on the stack
  may run there (`MayRun`) and was allowed by the one below it (`MayDelegate`). That
  the stack has at most three agents follows from the levels of the roles.
- `CompletionsWhole`: CompletionWhole, for any provider, call indices and order of events.
  `ReaderInv` says that the accumulator has every call that the provider began, once
  and with all its pieces so far (`CallsTold`), under the key its protocol uses
  (`Keyed`), and that a finish reason other than "length" and "error" comes only when
  all are whole. The reason "error" without an error of the call is among the outcomes.
- `TodosRestored`: TodosReconstructed, over any number of runs. `TodoInv` says that what
  shares the list's array is a prefix of it and of this execution (`SharesPrefix`), so
  that a mark set later is one that a later call reports (`Marked`).
- `SettingsKept`: SettingsResume. `SettingsInv` says that what extensions set in this
  execution its branch says too (`Said`), and that what the execution resolved
  agrees with its branch where they left it alone (`Agrees`).

Only model-checked:

- the liveness properties (CancelStopsExecution, TimelyRunningEnds, TimelyJobsSettle,
  EventsSettle, StreamEnds), since fairness is out of the prover's reach;
- ArgumentsKept, since schemas and values nest and the coercion is a RECURSIVE
  operator on them, which costs the prover its main backend.

## 6. Findings

1. *fence*. The comment at `mysql.go:545` says "A leased job is the exclusive
   execution fence." DecideApproval (`mysql.go:355`) sets the job to ready and
   clears the lease whatever its status, so a decision made between
   approval.requested and the end of the asking execution lets a second worker
   execute the run beside the first, until the first one's next heartbeat.
2. *awaits*. `docs/ARCHITECTURE.md:71` says that the decision requeues the job and
   resumes it. A worker that leased the job before the last decision asks again
   for a call just decided: the duplicate row is kept, the run is set to
   awaiting_approval, nothing is left to decide, and StartRun refuses the run for
   ever.
3. *calls*. A control accepted between an assistant message and its checkpoint is
   the last entry of the checkpoint; `hasPendingToolCalls` looks only at the last
   message, so the resumed execution repeats the prompt and sends the provider
   a call without a result.
4. *truncated*. The checkpoint of a length-truncated answer is written before its
   calls get their error results; the resumed execution runs them.
5. *summaries*. A compaction whose cut falls in a turn that begins right behind the
   previous compaction has no history; the text "No prior history." stands in for it
   and the previous summary is not handed on (`compaction.go:450`), although the
   new compaction hides it. The instructions for an update say "PRESERVE all
   existing information from the previous summary" (`compaction.go:74`).
6. *todos*. A todo call that fails emits todo.updated without details, and
   `persistTodos` (`mysql.go:979`) deletes all rows of the session before it finds
   none to insert; the agent's list stays. `docs/PI-PARITY.md:18` says that details
   persist to MySQL. The next call that succeeds repairs the rows.
7. *atomic*. `replaceDirectory` renames the installed package away
   (`package_manager.go:295`) and the new one into its place (`:299`). A process that
   stops between the two leaves no package in its directory; the old one lies beside it
   as `.previous`, which nothing looks for, and which the next installation removes
   first. `docs/PI-PARITY.md:29` speaks of "atomic replacement", `docs/SECURITY.md:17`
   says that extraction "installs atomically", `docs/AGENT-PACKAGES.md:43` that
   "installation remains atomic".
8. *ended*. The readers of google (`stream.go:510`) and bedrock (`bedrock.go:119`) look
   for no last event. A stream that is cut between two events is returned as an answer
   without an error and without a reason to stop. `docs/PI-PARITY.md:43` says that the
   adapters "verify terminal events when streams end early", and
   `docs/CONFORMANCE.md:26` counts "terminal-event checks" as complete.

## 7. What is not modelled, and why

Left out of the modelled components:

- Payload text, prompts, hashing (a hash is a value), timestamps (a lapse is an
  event).
- Plans: a plan and the runs created for it are taken to be of one session. CreateRun
  (`mysql.go:109-117`) checks the plan's tenant only; ExecutePlan passes the plan's own
  session, but a request that names a plan of another session is not modelled.
- Run creation: Retry, which is CreateRun with the old run's request, and the
  session's queueing of follow-ups.
- Agent loop: plan mode and questionnaires inside `AgentSession` (they are in
  `Settings` and `RunControl`), prompt templates, skills, exports, shell operations.
- Event stream: statuses other than the terminal ones that end it (awaiting_*), and
  events of hooks after run.completed.
- Settings: a provider and its model are one value; plan mode removes only "write"
  (edit and generate_image are treated alike, bash stays); settings of sub-agents.
- Delegation and profiles: working directories, MCP tools, patterns in tool names;
  files change only between delegations. A second waiter of WaitForIdle.
- Streams: requests, the catalogue, images, usage. A text's deltas all come or none; the
  output positions of responses are its indices. A reason that
  normalizeStopReason does not know is handed on and counts as "error"; mistral's reader
  makes it "stop" (`openai.go:204`), which counts as a whole answer.
- Packages: a rename that fails and whose restoration fails too leaves what a crash
  between the two leaves, and is not a case of its own.
- File tools: two spellings of one path (two locks), and a crash inside os.WriteFile.
- Tool arguments: additionalProperties with a schema, tuple items, formats.
- Forks: sessions only grow while forked; deadlocks of the database are not
  modelled.
- Tools bash, grep, find, ls, git_read, fetch and images: single calls of the
  system with formatting.

Left out as a whole: MCP connections, sampling and discovery (calls of an SDK);
extension hooks (user code: a step that a hook may refuse is a step that may fail);
parsing of resources, skills, prompt templates and context files (pure functions of
files); the other HTTP routes (each is one call of RunService); the SDK facade,
CLI, exporter and Bocha (no state). `PROJECT.json` lists every component with its
status.

## 8. Plan

Done: every module of section 2, with theorems for all the safety properties that a
run checks except ArgumentsKept; of TimelyExclusion, `ExclusiveFence` says more.

Left, in this order:

1. A composition of `RunControl` and `AgentSession`, in which two executions that
   overlap (finding 1) save the same session.
2. An abstract specification of a run as a user sees it (created, waiting, over), and
   `RunControl` shown to implement it.
3. Retry and the queueing of follow-ups; two waiters of WaitForIdle; MCP
   connections with sampling.

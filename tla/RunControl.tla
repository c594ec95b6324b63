------------------------------ MODULE RunControl ------------------------------
(***************************************************************************)
(* The durable run state machine of the ECS control plane: the rows of     *)
(* agent_runs, agent_jobs, agent_approvals and agent_interactions, the     *)
(* transactions of the MySQL repository over them, and the worker          *)
(* goroutines (processJob) that lease a job, execute the run and report    *)
(* its outcome.  One action is one committed transaction or one local      *)
(* step of a goroutine between two transactions, so every interleaving of  *)
(* API calls, workers, lease expiry and crashes is a behaviour.            *)
(*                                                                         *)
(* The engine appears through the events it hands to its sink: it asks for *)
(* approvals and inputs, runs approved calls, and ends by pausing,         *)
(* completing or failing.                                                  *)
(*                                                                         *)
(* An operator whose name starts with Bad is a slip the code could have    *)
(* had; the specification does not use it, and the runs show that a        *)
(* property would catch it.                                                *)
(***************************************************************************)
EXTENDS Naturals, FiniteSets

CONSTANTS
  Runs,           \* run ids
  Slots,          \* goroutine slots: one element of a worker's semaphore
  Calls,          \* tool calls that need an approval (one approval row each)
  Hashes,         \* hashes of {tool name, arguments}
  Inputs,         \* interactions: questionnaires and MCP elicitations
  Elicitations,   \* the interactions of kind "mcp_elicitation"
  WorkerOf,       \* the worker id of a slot; it is the lease owner
  SessionOf,      \* the session a run belongs to
  RunOf,          \* the run of a call or an interaction
  HashOf,         \* the argument hash of a call
  MaxAttempts,    \* max_attempts of a job (5 in the code)
  None,           \* NULL
  TimelyLeases,   \* TRUE: a lease lapses only once no goroutine holds the run
  EarlyDecisions, \* TRUE: users may decide while a goroutine holds the run
  LostRejections  \* TRUE: the run.failed of a rejected workspace may be lost

ASSUME ConstantsAssumption ==
  /\ None \notin Runs
  /\ Elicitations \subseteq Inputs
  /\ WorkerOf \in [Slots -> {WorkerOf[s] : s \in Slots}]
  /\ None \notin {WorkerOf[s] : s \in Slots}
  /\ SessionOf \in [Runs -> {SessionOf[r] : r \in Runs}]
  /\ RunOf \in [Calls \cup Inputs -> Runs]
  /\ HashOf \in [Calls -> Hashes]
  /\ MaxAttempts \in Nat \ {0}
  /\ TimelyLeases \in BOOLEAN
  /\ EarlyDecisions \in BOOLEAN
  /\ LostRejections \in BOOLEAN

Workers == {WorkerOf[s] : s \in Slots}

VARIABLES
  run,         \* agent_runs.status, "none" before the row exists
  job,         \* agent_jobs.status of the run's job
  owner,       \* agent_jobs.lease_owner
  lapsed,      \* lease_until is in the past
  attempts,    \* agent_jobs.attempts
  decided,     \* the approved and denied hashes of agent_jobs.payload_json
  approval,    \* agent_approvals.decision, with "lapsed" past expires_at
  interaction, \* agent_interactions.status, with "lapsed" past expires_at
  pc,          \* where a goroutine of processJob is
  at,          \* the run it holds
  grant,       \* its copy of the decided hashes, read when it leased the job
  asked,       \* requests it left pending (execution.pending, pendingInput)
  waiting,     \* interactions it polled or waits for
  ran          \* calls that were executed (history)

rows  == <<run, job, owner, lapsed, attempts, decided, approval, interaction>>
local == <<pc, at, grant, asked, waiting>>
lease == <<owner, lapsed, attempts>>
vars  == <<run, job, owner, lapsed, attempts, decided, approval, interaction,
           pc, at, grant, asked, waiting, ran>>

RunStatus == {"none", "queued", "running", "awaiting_approval",
              "awaiting_input", "completed", "failed", "cancelled"}
JobStatus == {"none", "ready", "leased", "completed", "dead"}
Active    == {"queued", "running", "awaiting_approval", "awaiting_input"}
Startable == {"queued", "failed", "running", "awaiting_input"}

Verdict    == {"allow", "deny"}
Verdicts   == [Verdict -> SUBSET Hashes]
NoVerdicts == [d \in Verdict |-> {}]

TypeOK ==
  /\ run \in [Runs -> RunStatus]
  /\ job \in [Runs -> JobStatus]
  /\ owner \in [Runs -> Workers \cup {None}]
  /\ lapsed \in [Runs -> BOOLEAN]
  /\ attempts \in [Runs -> 0..MaxAttempts]
  /\ decided \in [Runs -> Verdicts]
  /\ approval \in
       [Calls -> {"none", "pending", "lapsed", "allow", "deny", "expired"}]
  /\ interaction \in
       [Inputs -> {"none", "pending", "lapsed", "answered", "cancelled"}]
  /\ pc \in [Slots -> {"idle", "leased", "active", "check", "ack", "failing"}]
  /\ at \in [Slots -> Runs \cup {None}]
  /\ grant \in [Slots -> Verdicts]
  /\ asked \in [Slots -> SUBSET (Calls \cup Inputs)]
  /\ waiting \in [Slots -> SUBSET Inputs]
  /\ ran \in SUBSET Calls

Init ==
  /\ run = [r \in Runs |-> "none"]
  /\ job = [r \in Runs |-> "none"]
  /\ owner = [r \in Runs |-> None]
  /\ lapsed = [r \in Runs |-> FALSE]
  /\ attempts = [r \in Runs |-> 0]
  /\ decided = [r \in Runs |-> NoVerdicts]
  /\ approval = [c \in Calls |-> "none"]
  /\ interaction = [i \in Inputs |-> "none"]
  /\ pc = [s \in Slots |-> "idle"]
  /\ at = [s \in Slots |-> None]
  /\ grant = [s \in Slots |-> NoVerdicts]
  /\ asked = [s \in Slots |-> {}]
  /\ waiting = [s \in Slots |-> {}]
  /\ ran = {}

Held(r) == \E s \in Slots : at[s] = r

-----------------------------------------------------------------------------
(* Transactions of the API tasks.                                          *)

SetJob(r, status) ==
  /\ job' = [job EXCEPT ![r] = status]
  /\ owner' = [owner EXCEPT ![r] = None]
  /\ lapsed' = [lapsed EXCEPT ![r] = FALSE]

\* The session row is locked FOR UPDATE while the active runs are counted.
CreateRun(r) ==
  /\ run[r] = "none"
  /\ \A q \in Runs : SessionOf[q] = SessionOf[r] => run[q] \notin Active
  /\ run' = [run EXCEPT ![r] = "queued"]
  /\ SetJob(r, "ready")
  /\ attempts' = [attempts EXCEPT ![r] = 0]
  /\ UNCHANGED <<decided, approval, interaction, local, ran>>

CancelRun(r) ==
  /\ run[r] \in Active
  /\ run' = [run EXCEPT ![r] = "cancelled"]
  /\ IF job[r] \in {"ready", "leased"}
       THEN SetJob(r, "dead")
       ELSE UNCHANGED <<job, owner, lapsed>>
  /\ UNCHANGED <<attempts, decided, approval, interaction, local, ran>>

\* A decision requeues the job whatever its status, then requeues the run
\* if it is the one that waits.
Requeue(r, status) ==
  /\ SetJob(r, "ready")
  /\ attempts' = [attempts EXCEPT ![r] = 0]
  /\ run' = [run EXCEPT ![r] = IF @ = status THEN "queued" ELSE @]

MayDecide(r) == EarlyDecisions \/ ~Held(r)

\* A slip, for the check of the properties: a denial is stored with the allowed hashes.
BadAddDenialAsAllow(r, d, h) == [decided EXCEPT ![r]["allow"] = @ \cup {h}]
\* A slip, for the check of the properties: a verdict replaces those before it.
BadAddVerdictAlone(r, d, h) == [decided EXCEPT ![r][d] = {h}]
AddVerdict(r, d, h) == [decided EXCEPT ![r][d] = @ \cup {h}]

\* A slip, for the check of the properties: a decided row is decided again.
BadDecideTwice(c, d) ==
  /\ approval[c] # "none"
  /\ MayDecide(RunOf[c])
  /\ approval' = [approval EXCEPT ![c] = d]
  /\ decided' = AddVerdict(RunOf[c], d, HashOf[c])
  /\ Requeue(RunOf[c], "awaiting_approval")
  /\ UNCHANGED <<interaction, local, ran>>

DecideApproval(c, d) ==
  /\ approval[c] = "pending"
  /\ MayDecide(RunOf[c])
  /\ approval' = [approval EXCEPT ![c] = d]
  /\ decided' = AddVerdict(RunOf[c], d, HashOf[c])
  /\ Requeue(RunOf[c], "awaiting_approval")
  /\ UNCHANGED <<interaction, local, ran>>

\* A slip, for the check of the properties: the interaction answered counts as unanswered.
BadResumeCountsItself(i) ==
  LET r == RunOf[i]
      open == \E j \in Inputs : RunOf[j] = r /\ interaction[j] \in {"pending", "lapsed"}
  IN run' = [run EXCEPT ![r] = IF @ \in {"running", "awaiting_input"}
                                 THEN IF open THEN "awaiting_input" ELSE "running"
                                 ELSE @]

\* An elicitation is answered inside a live execution: the run resumes in
\* place unless another interaction of it is pending.
ResumeInPlace(i) ==
  LET r == RunOf[i]
      open == \E j \in Inputs \ {i} : /\ RunOf[j] = r
                                      /\ interaction[j] \in {"pending", "lapsed"}
  IN run' = [run EXCEPT ![r] = IF @ \in {"running", "awaiting_input"}
                                 THEN IF open THEN "awaiting_input" ELSE "running"
                                 ELSE @]

AnswerInteraction(i, status) ==
  /\ interaction[i] = "pending"
  /\ interaction' = [interaction EXCEPT ![i] = status]
  /\ \/ /\ i \in Elicitations
        /\ ResumeInPlace(i)
        /\ UNCHANGED <<job, lease>>
     \/ /\ i \notin Elicitations
        /\ MayDecide(RunOf[i])
        /\ Requeue(RunOf[i], "awaiting_input")
  /\ UNCHANGED <<decided, approval, local, ran>>

-----------------------------------------------------------------------------
(* The worker's tick: expired approvals, then leases.                      *)

\* Two statements, each at its own time: an approval that lapses between them
\* expires although the first one did not fail its run.
ExpireApprovals ==
  LET late == {c \in Calls : approval[c] = "lapsed"} IN
  /\ late # {}
  /\ \E early \in SUBSET late :
       run' = [r \in Runs |-> IF /\ run[r] = "awaiting_approval"
                                 /\ \E c \in early : RunOf[c] = r
                                THEN "failed" ELSE run[r]]
  /\ approval' = [c \in Calls |-> IF c \in late THEN "expired" ELSE approval[c]]
  /\ UNCHANGED <<job, lease, decided, interaction, local, ran>>

\* The first two statements of LeaseJobs: a lapsed lease without attempts
\* left kills the job, and a running run with a dead job has lost its executor.
BadExhaustedEarly(r) == job[r] = "leased" /\ lapsed[r] /\ attempts[r] >= MaxAttempts - 1
BadExhaustedLate(r)  == job[r] = "leased" /\ lapsed[r] /\ attempts[r] > MaxAttempts
Exhausted(r) == job[r] = "leased" /\ lapsed[r] /\ attempts[r] >= MaxAttempts

\* A slip, for the check of the properties: a run in any status is declared lost.
BadLostAnyStatus(r) == (job[r] = "dead" \/ Exhausted(r)) /\ run[r] # "none"
BadLostOnLapse(r)   == Exhausted(r) /\ run[r] = "running"
ExecutorLost(r) == (job[r] = "dead" \/ Exhausted(r)) /\ run[r] = "running"

FailLostRuns ==
  run' = [r \in Runs |-> IF ExecutorLost(r) THEN "failed" ELSE run[r]]

\* A slip, for the check of the properties: attempts are not bounded.
BadLeasableUncapped(r) == job[r] = "ready" \/ (job[r] = "leased" /\ lapsed[r])
BadLeasableHeld(r)     == attempts[r] < MaxAttempts /\ job[r] \in {"ready", "leased"}
Leasable(r) ==
  /\ attempts[r] < MaxAttempts
  /\ job[r] = "ready" \/ (job[r] = "leased" /\ lapsed[r])

\* LeaseJobs with one row selected for slot s.  A transaction that leases
\* several rows is the same as several of these in a row.
LeaseJob(s, r) ==
  /\ pc[s] = "idle"
  /\ Leasable(r)
  /\ FailLostRuns
  /\ job' = [q \in Runs |-> IF q = r THEN "leased"
                            ELSE IF Exhausted(q) THEN "dead" ELSE job[q]]
  /\ owner' = [q \in Runs |-> IF q = r THEN WorkerOf[s]
                              ELSE IF Exhausted(q) THEN None ELSE owner[q]]
  /\ lapsed' = [q \in Runs |-> IF q = r \/ Exhausted(q) THEN FALSE ELSE lapsed[q]]
  /\ attempts' = [attempts EXCEPT ![r] = @ + 1]
  /\ pc' = [pc EXCEPT ![s] = "leased"]
  /\ at' = [at EXCEPT ![s] = r]
  /\ grant' = [grant EXCEPT ![s] = decided[r]]
  /\ UNCHANGED <<decided, approval, interaction, asked, waiting, ran>>

\* LeaseJobs that selects no row: none is leasable, or all are locked.
LeaseNothing ==
  /\ \E s \in Slots : pc[s] = "idle"
  /\ \E r \in Runs : Exhausted(r) \/ ExecutorLost(r)
  /\ FailLostRuns
  /\ job' = [q \in Runs |-> IF Exhausted(q) THEN "dead" ELSE job[q]]
  /\ owner' = [q \in Runs |-> IF Exhausted(q) THEN None ELSE owner[q]]
  /\ lapsed' = [q \in Runs |-> IF Exhausted(q) THEN FALSE ELSE lapsed[q]]
  /\ UNCHANGED <<attempts, decided, approval, interaction, local, ran>>

-----------------------------------------------------------------------------
(* A goroutine of processJob.                                              *)

Goto(s, from, to) == pc[s] = from /\ pc' = [pc EXCEPT ![s] = to]

Stay == UNCHANGED <<at, grant, asked, waiting>>

\* AppendRunEvent moves the run only out of the statuses it names.
Project(r, from, to) == run' = [run EXCEPT ![r] = IF @ \in from THEN to ELSE @]

\* The error of the event's transaction is ignored.
RejectWorkspace(s) ==
  /\ Goto(s, "leased", "ack")
  /\ \/ Project(at[s], {"queued", "running"}, "failed")
     \/ LostRejections /\ UNCHANGED run
  /\ UNCHANGED <<job, lease, decided, approval, interaction, ran>> /\ Stay

StartRun(s) ==
  /\ Goto(s, "leased", "active")
  /\ run[at[s]] \in Startable
  /\ run' = [run EXCEPT ![at[s]] = "running"]
  /\ UNCHANGED <<job, lease, decided, approval, interaction, ran>> /\ Stay

StartConflict(s) ==
  /\ Goto(s, "leased", "check")
  /\ run[at[s]] \notin Startable
  /\ UNCHANGED <<rows, ran>> /\ Stay

\* A heartbeat extends the lease only for its owner; a conflict cancels the
\* execution, and with its context cancelled it writes no further event.
Heartbeat(s) ==
  /\ pc[s] = "active"
  /\ job[at[s]] = "leased" /\ owner[at[s]] = WorkerOf[s]
  /\ lapsed' = [lapsed EXCEPT ![at[s]] = FALSE]
  /\ UNCHANGED <<run, job, owner, attempts, decided, approval, interaction,
                 local, ran>>

HeartbeatConflict(s) ==
  /\ Goto(s, "active", "check")
  /\ job[at[s]] # "leased" \/ owner[at[s]] # WorkerOf[s]
  /\ UNCHANGED <<rows, ran>> /\ Stay

ObserveCancel(s) ==
  /\ Goto(s, "active", "check")
  /\ run[at[s]] = "cancelled"
  /\ UNCHANGED <<rows, ran>> /\ Stay

\* A database error, a shutdown, or a runtime error before the agent loop:
\* RunWithOptions returns an error without a run.failed event.
Abort(s) ==
  /\ pc[s] \in {"leased", "active"}
  /\ pc' = [pc EXCEPT ![s] = "check"]
  /\ UNCHANGED <<rows, ran>> /\ Stay

\* approval.requested for a call without a verdict in the execution's copy.
RequestApproval(s, c) ==
  /\ pc[s] = "active" /\ RunOf[c] = at[s]
  /\ HashOf[c] \notin grant[s]["allow"] \cup grant[s]["deny"]
  /\ c \notin asked[s]
  /\ approval' = [approval EXCEPT ![c] = IF @ = "none" THEN "pending" ELSE @]
  /\ Project(at[s], {"running"}, "awaiting_approval")
  /\ asked' = [asked EXCEPT ![s] = @ \cup {c}]
  /\ UNCHANGED <<job, lease, decided, interaction, pc, at, grant, waiting, ran>>

RunCall(s, c) ==
  /\ pc[s] = "active" /\ RunOf[c] = at[s]
  /\ HashOf[c] \in grant[s]["allow"] \ grant[s]["deny"]
  /\ ran' = ran \cup {c}
  /\ UNCHANGED <<rows, local>>

\* A questionnaire is polled first, and asked if no answer is there yet.
PollInput(s, i) ==
  /\ pc[s] = "active" /\ RunOf[i] = at[s]
  /\ i \notin Elicitations \cup waiting[s] \cup asked[s]
  /\ interaction[i] \notin {"answered", "cancelled"}
  /\ waiting' = [waiting EXCEPT ![s] = @ \cup {i}]
  /\ UNCHANGED <<rows, pc, at, grant, asked, ran>>

\* input.requested: the run waits only if the interaction row is pending.
AskInput(s, i) ==
  /\ interaction' = [interaction EXCEPT ![i] = IF @ = "none" THEN "pending" ELSE @]
  /\ IF interaction[i] \in {"none", "pending", "lapsed"}
       THEN Project(at[s], {"running"}, "awaiting_input")
       ELSE UNCHANGED run
  /\ UNCHANGED <<job, lease, decided, approval, pc, at, grant, ran>>

RequestInput(s, i) ==
  /\ pc[s] = "active" /\ RunOf[i] = at[s]
  /\ i \in waiting[s] \ Elicitations
  /\ AskInput(s, i)
  /\ waiting' = [waiting EXCEPT ![s] = @ \ {i}]
  /\ asked' = [asked EXCEPT ![s] = @ \cup {i}]

\* waitForMCPElicitation announces the interaction, then polls its answer.
Elicit(s, i) ==
  /\ pc[s] = "active" /\ RunOf[i] = at[s]
  /\ i \in Elicitations \ waiting[s]
  /\ AskInput(s, i)
  /\ waiting' = [waiting EXCEPT ![s] = @ \cup {i}]
  /\ UNCHANGED asked

ReceiveAnswer(s, i) ==
  /\ pc[s] = "active" /\ i \in waiting[s] \cap Elicitations
  /\ interaction[i] \in {"answered", "cancelled"}
  /\ waiting' = [waiting EXCEPT ![s] = @ \ {i}]
  /\ UNCHANGED <<rows, pc, at, grant, asked, ran>>

Pause(s) ==
  /\ Goto(s, "active", "ack")
  /\ asked[s] # {} /\ waiting[s] = {}
  /\ UNCHANGED <<rows, ran>> /\ Stay

Complete(s) ==
  /\ Goto(s, "active", "ack")
  /\ asked[s] = {} /\ waiting[s] = {}
  /\ Project(at[s], {"running"}, "completed")
  /\ UNCHANGED <<job, lease, decided, approval, interaction, ran>> /\ Stay

Fail(s) ==
  /\ Goto(s, "active", "check")
  /\ waiting[s] = {}
  /\ Project(at[s], {"queued", "running"}, "failed")
  /\ UNCHANGED <<job, lease, decided, approval, interaction, ran>> /\ Stay

\* After an error the worker reads the run: a cancelled one is acknowledged.
FindCancelled(s) ==
  /\ Goto(s, "check", "ack")
  /\ run[at[s]] = "cancelled"
  /\ UNCHANGED <<rows, ran>> /\ Stay

\* Any other status, or no answer from the database.
FindFailure(s) ==
  /\ Goto(s, "check", "failing")
  /\ UNCHANGED <<rows, ran>> /\ Stay

Release(s) ==
  /\ pc' = [pc EXCEPT ![s] = "idle"]
  /\ at' = [at EXCEPT ![s] = None]
  /\ grant' = [grant EXCEPT ![s] = NoVerdicts]
  /\ asked' = [asked EXCEPT ![s] = {}]
  /\ waiting' = [waiting EXCEPT ![s] = {}]

OwnsLease(s) == job[at[s]] = "leased" /\ owner[at[s]] = WorkerOf[s]

\* A slip, for the check of the properties: without its lease the worker keeps trying.
BadCompleteRetried(s) ==
  /\ pc[s] = "ack"
  /\ OwnsLease(s)
  /\ SetJob(at[s], "completed")
  /\ Release(s)
  /\ UNCHANGED <<run, attempts, decided, approval, interaction, ran>>

CompleteJob(s) ==
  /\ pc[s] = "ack"
  /\ IF OwnsLease(s) THEN SetJob(at[s], "completed")
                     ELSE UNCHANGED <<job, owner, lapsed>>
  /\ Release(s)
  /\ UNCHANGED <<run, attempts, decided, approval, interaction, ran>>

FailJob(s) ==
  /\ pc[s] = "failing"
  /\ IF OwnsLease(s)
       THEN SetJob(at[s], IF attempts[at[s]] >= MaxAttempts THEN "dead" ELSE "ready")
       ELSE UNCHANGED <<job, owner, lapsed>>
  /\ Release(s)
  /\ UNCHANGED <<run, attempts, decided, approval, interaction, ran>>

\* The outcome of a job could not be written; the error is only logged.
LoseOutcome(s) ==
  /\ pc[s] \in {"ack", "failing"}
  /\ Release(s)
  /\ UNCHANGED <<rows, ran>>

-----------------------------------------------------------------------------
(* The environment: clocks and process death.                              *)

LeaseLapses(r) ==
  /\ job[r] = "leased" /\ ~lapsed[r]
  /\ TimelyLeases => ~Held(r)
  /\ lapsed' = [lapsed EXCEPT ![r] = TRUE]
  /\ UNCHANGED <<run, job, owner, attempts, decided, approval, interaction,
                 local, ran>>

ApprovalLapses(c) ==
  /\ approval[c] = "pending"
  /\ approval' = [approval EXCEPT ![c] = "lapsed"]
  /\ UNCHANGED <<run, job, lease, decided, interaction, local, ran>>

InteractionLapses(i) ==
  /\ interaction[i] = "pending"
  /\ interaction' = [interaction EXCEPT ![i] = "lapsed"]
  /\ UNCHANGED <<run, job, lease, decided, approval, local, ran>>

\* A worker process dies: its goroutines vanish, its leases stay.
Crash(w) ==
  LET gone(s) == WorkerOf[s] = w IN
  /\ \E s \in Slots : gone(s) /\ pc[s] # "idle"
  /\ pc' = [s \in Slots |-> IF gone(s) THEN "idle" ELSE pc[s]]
  /\ at' = [s \in Slots |-> IF gone(s) THEN None ELSE at[s]]
  /\ grant' = [s \in Slots |-> IF gone(s) THEN NoVerdicts ELSE grant[s]]
  /\ asked' = [s \in Slots |-> IF gone(s) THEN {} ELSE asked[s]]
  /\ waiting' = [s \in Slots |-> IF gone(s) THEN {} ELSE waiting[s]]
  /\ UNCHANGED <<rows, ran>>

-----------------------------------------------------------------------------
Api ==
  \/ \E r \in Runs : CreateRun(r) \/ CancelRun(r)
  \/ \E c \in Calls, d \in Verdict : DecideApproval(c, d)
  \/ \E i \in Inputs, status \in {"answered", "cancelled"} :
        AnswerInteraction(i, status)

Engine(s) ==
  \/ \E c \in Calls : RequestApproval(s, c) \/ RunCall(s, c)
  \/ \E i \in Inputs : \/ PollInput(s, i) \/ RequestInput(s, i)
                       \/ Elicit(s, i) \/ ReceiveAnswer(s, i)
  \/ Pause(s) \/ Complete(s) \/ Fail(s)

Goroutine(s) ==
  \/ \E r \in Runs : LeaseJob(s, r)
  \/ RejectWorkspace(s) \/ StartRun(s) \/ StartConflict(s)
  \/ Heartbeat(s) \/ HeartbeatConflict(s) \/ ObserveCancel(s) \/ Abort(s)
  \/ Engine(s)
  \/ FindCancelled(s) \/ FindFailure(s)
  \/ CompleteJob(s) \/ FailJob(s) \/ LoseOutcome(s)

Environment ==
  \/ \E r \in Runs : LeaseLapses(r)
  \/ \E c \in Calls : ApprovalLapses(c)
  \/ \E i \in Inputs : InteractionLapses(i)
  \/ \E w \in Workers : Crash(w)

Next ==
  \/ Api
  \/ ExpireApprovals
  \/ LeaseNothing
  \/ \E s \in Slots : Goroutine(s)
  \/ Environment

Spec == Init /\ [][Next]_vars

\* A worker keeps ticking and its goroutines keep stepping; wall-clock time
\* passes, so an unattended lease lapses.  Nothing is assumed of users, of
\* crashes, of heartbeats, or of how an engine that can end chooses to end.
Progress(s) ==
  \/ StartRun(s) \/ StartConflict(s) \/ HeartbeatConflict(s) \/ ObserveCancel(s)
  \/ Pause(s) \/ Complete(s) \/ \E i \in Inputs : RequestInput(s, i)
  \/ FindCancelled(s) \/ FindFailure(s) \/ CompleteJob(s) \/ FailJob(s)

Fairness ==
  /\ \A s \in Slots : WF_vars(Progress(s))
  /\ \A r \in Runs : WF_vars(\E s \in Slots : LeaseJob(s, r))
  /\ WF_vars(ExpireApprovals)
  /\ WF_vars(LeaseNothing)
  /\ \A r \in Runs : WF_vars(LeaseLapses(r))

FairSpec == Spec /\ Fairness

-----------------------------------------------------------------------------
(* Properties.                                                             *)

\* No call that needs an approval runs before a user allowed that call, or
\* one with the same tool name and arguments in the same run, whichever
\* execution, lease or retry runs it (prepareToolExecution, DecideApproval).
ApprovedBeforeRun ==
  \A c \in ran : \E d \in Calls : /\ RunOf[d] = RunOf[c]
                                /\ HashOf[d] = HashOf[c]
                                /\ approval[d] = "allow"

\* The job payload carries exactly the verdicts users gave, so a resumed
\* execution neither misses one nor sees an expiry as a user's denial.
DecisionsKept ==
  \A r \in Runs, d \in Verdict :
    decided[r][d] = {HashOf[c] : c \in {x \in Calls : RunOf[x] = r /\ approval[x] = d}}

\* A job is given up only for a cancelled run or after its last attempt.
RetryBudget ==
  \A r \in Runs : job[r] = "dead" => run[r] = "cancelled" \/ attempts[r] = MaxAttempts

\* Completed and cancelled are final, whatever a late worker, decision,
\* expiry or lease does to the run afterwards.
FinalRunsStay ==
  [][\A r \in Runs : run[r] \in {"completed", "cancelled"} => run'[r] = run[r]]_run

\* A verdict is never changed: not by a second user, not by expiry.
VerdictsStay ==
  [][\A c \in Calls : approval[c] \in {"allow", "deny", "expired"}
                       => approval'[c] = approval[c]]_approval

\* At most one goroutine executes a run: the lease is an exclusive fence
\* (the comment in StartRun).
ExclusiveExecution ==
  \A s, t \in Slots : pc[s] = "active" /\ pc[t] = "active" /\ at[s] = at[t] => s = t

\* A run waits for input only while an interaction of it is unanswered, so
\* there is always an answer that moves it on (the CASE WHEN EXISTS of
\* AnswerInteraction and AppendRunEvent).
AwaitsInput ==
  \A r \in Runs : run[r] = "awaiting_input" =>
    \E i \in Inputs : RunOf[i] = r /\ interaction[i] \in {"pending", "lapsed"}

\* No run stays in awaiting_approval for ever once the user has decided
\* every approval it asked for: a decision requeues the run.
DecidedRunResumes ==
  \A r \in Runs :
    []<>~(/\ run[r] = "awaiting_approval"
          /\ \A c \in Calls : RunOf[c] = r => approval[c] \in {"none", "allow", "deny"})

\* Cancelling a run stops every execution of it.
CancelStopsExecution ==
  \A r \in Runs : run[r] = "cancelled" ~> ~Held(r)

\* A job that is ready is finished or given up in the end.
JobsSettle ==
  \A r \in Runs : job[r] = "ready" ~> job[r] \in {"completed", "dead"}

\* A run does not stay in running for ever: its executor finishes, is
\* replaced, or is declared lost.
RunningEnds ==
  \A r \in Runs : run[r] = "running" ~> run[r] # "running"
=============================================================================

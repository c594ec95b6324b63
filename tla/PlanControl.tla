----------------------------- MODULE PlanControl -----------------------------
(***************************************************************************)
(* Runs as clients create them, and the plans that pass from one run to    *)
(* the next.  A client's request carries an idempotency key and creates at *)
(* most one run.  A run in plan mode writes a plan, a user approves or     *)
(* denies it, and a request of ExecutePlan creates the run that executes   *)
(* it; marks in that run's answer complete the steps.                      *)
(*                                                                         *)
(* The runs are those of RunControl: each of its steps is taken whole,     *)
(* with what the same transaction does to plans and keys.  A run is named  *)
(* by the request that would create it, and a plan by the run that wrote   *)
(* it.  Approvals and inputs, which plans do not depend on, are left to    *)
(* RunControl: the executions here ask for none.  Operators named Bad are  *)
(* slips that the runs of TLC must catch.                                  *)
(***************************************************************************)
EXTENDS RunControl, SequencesExt

CONSTANTS
  Keys,      \* idempotency keys of one tenant
  KeyOf,     \* the key of a request
  Planners,  \* runs in plan mode
  PlanOf,    \* the plan a request of ExecutePlan names, None for another run
  Steps,     \* positions of a plan's steps
  Strays     \* runs that execute no plan and may print a [DONE:n] mark

ASSUME PlanAssumption ==
  /\ KeyOf \in [Runs -> Keys]
  /\ Planners \subseteq Runs
  /\ PlanOf \in [Runs -> Planners \cup {None}]
  /\ \A r \in Planners \cup Strays : PlanOf[r] = None
  /\ \A r \in Runs : PlanOf[r] # None => SessionOf[PlanOf[r]] = SessionOf[r]
  /\ Strays \subseteq Runs \ Planners

VARIABLES
  request,   \* how far a client's request is
  reply,     \* the run it was answered with, None for none
  keys,      \* agent_idempotency_keys
  plan,      \* agent_plans.status, "none" before the row exists
  plans,     \* the plans in order of created_at
  executor,  \* agent_plans.execution_run_id
  completed, \* steps with status completed
  reported,  \* the execution in a slot has emitted plan.created or plan.progress
  consents   \* how often users approved a plan (history)

plansTable == <<plan, plans, executor, completed>>
client     == <<request, reply, keys>>
planVars   == <<request, reply, keys, plan, plans, executor, completed, reported,
                consents>>

PlanTypeOK ==
  /\ TypeOK
  /\ request \in [Runs -> {"new", "read", "looked", "answered"}]
  /\ reply \in [Runs -> Runs \cup {None}]
  /\ keys \in [Keys -> Runs \cup {None}]
  /\ plan \in [Planners -> {"none", "awaiting_approval", "approved", "executing",
                            "completed", "failed", "cancelled"}]
  /\ plans \in Seq(Planners)
  /\ executor \in [Planners -> Runs \cup {None}]
  /\ completed \in [Planners -> SUBSET Steps]
  /\ reported \in [Slots -> BOOLEAN]
  /\ consents \in [Planners -> Nat]

PlanInit ==
  /\ Init
  /\ request = [r \in Runs |-> "new"]
  /\ reply = [r \in Runs |-> None]
  /\ keys = [k \in Keys |-> None]
  /\ plan = [p \in Planners |-> "none"]
  /\ plans = <<>>
  /\ executor = [p \in Planners |-> None]
  /\ completed = [p \in Planners |-> {}]
  /\ reported = [s \in Slots |-> FALSE]
  /\ consents = [p \in Planners |-> 0]

-----------------------------------------------------------------------------
(* Clients.                                                                *)

Answer(r, with) ==
  /\ request' = [request EXCEPT ![r] = "answered"]
  /\ reply' = [reply EXCEPT ![r] = with]

\* ExecutePlan reads the plan before it builds the request for a run; it
\* refuses any other plan, which changes nothing and may be tried again.
ReadPlan(r) ==
  /\ request[r] = "new" /\ PlanOf[r] # None
  /\ plan[PlanOf[r]] = "approved" /\ completed[PlanOf[r]] # Steps
  /\ request' = [request EXCEPT ![r] = "read"]
  /\ UNCHANGED <<vars, reply, keys, plansTable, reported, consents>>

\* The key is looked up in the transaction, but without a lock.
LookUpKey(r) ==
  /\ request[r] = IF PlanOf[r] = None THEN "new" ELSE "read"
  /\ IF keys[KeyOf[r]] # None
       THEN Answer(r, keys[KeyOf[r]])
       ELSE request' = [request EXCEPT ![r] = "looked"] /\ UNCHANGED reply
  /\ UNCHANGED <<vars, keys, plansTable, reported, consents>>

\* The rest of the transaction, under the lock of the session: the key is
\* unique, and only an approved plan gets an executor.
BadAcceptedTwice(r) == PlanOf[r] # None => plan[PlanOf[r]] = "approved"
BadAcceptedAny(r)   == keys[KeyOf[r]] = None
Accepted(r) ==
  /\ keys[KeyOf[r]] = None
  /\ PlanOf[r] # None => plan[PlanOf[r]] = "approved"

CreatePlannedRun(r) ==
  /\ request[r] = "looked"
  /\ Accepted(r)
  /\ CreateRun(r)
  /\ keys' = [keys EXCEPT ![KeyOf[r]] = r]
  /\ IF PlanOf[r] = None
       THEN UNCHANGED <<plan, executor>>
       ELSE /\ plan' = [plan EXCEPT ![PlanOf[r]] = "executing"]
            /\ executor' = [executor EXCEPT ![PlanOf[r]] = r]
  /\ Answer(r, r)
  /\ UNCHANGED <<plans, completed, reported, consents>>

\* ErrConflict, or the duplicate key: the transaction is rolled back, and the
\* client may send its request again.
RefuseRun(r) ==
  /\ request[r] = "looked"
  /\ \/ ~Accepted(r)
     \/ \E q \in Runs : SessionOf[q] = SessionOf[r] /\ run[q] \in Active
  /\ request' = [request EXCEPT ![r] = "new"]
  /\ UNCHANGED <<vars, reply, keys, plansTable, reported, consents>>

DecidePlan(p, approved) ==
  /\ plan[p] = "awaiting_approval"
  /\ plan' = [plan EXCEPT ![p] = IF approved THEN "approved" ELSE "cancelled"]
  /\ consents' = [consents EXCEPT ![p] = IF approved THEN @ + 1 ELSE @]
  /\ UNCHANGED <<vars, client, plans, executor, completed, reported>>

-----------------------------------------------------------------------------
(* Events of an execution.                                                 *)

\* The plan that r executes leaves the status executing.
Close(r, status) ==
  plan' = [p \in Planners |-> IF executor[p] = r /\ plan[p] = "executing"
                                THEN status ELSE plan[p]]

CancelPlannedRun(r) ==
  /\ CancelRun(r)
  /\ Close(r, "cancelled")
  /\ UNCHANGED <<client, plans, executor, completed, reported, consents>>

\* run.failed fails the plan whatever the status of the run; a rejected
\* workspace may lose the event.
FailPlannedRun(s) ==
  /\ \/ Fail(s) /\ ~reported[s]
     \/ RejectWorkspace(s) /\ run'[at[s]] \notin {"queued", "running"}
  /\ Close(at[s], "failed")
  /\ UNCHANGED <<client, plans, executor, completed, reported, consents>>

LosePlannedRun(s) ==
  /\ RejectWorkspace(s)
  /\ run' = run
  /\ UNCHANGED planVars

\* The two plan events follow the last snapshot; only run.completed is left.
Reports(s) ==
  /\ pc[s] = "active" /\ ~reported[s]
  /\ asked[s] = {} /\ waiting[s] = {}
  /\ reported' = [reported EXCEPT ![s] = TRUE]

\* A run has one plan: a second plan.created replaces its steps and asks for
\* approval again, but keeps the executor.
persistPlan(s) ==
  LET p == at[s] IN
  /\ Reports(s)
  /\ p \in Planners
  /\ plan' = [plan EXCEPT ![p] = "awaiting_approval"]
  /\ plans' = IF p \in Range(plans) THEN plans ELSE Append(plans, p)
  /\ completed' = [completed EXCEPT ![p] = {}]
  /\ UNCHANGED <<vars, client, executor, consents>>

\* Progress goes to the plan the run executes, or else to the newest one of
\* the session that has no executor.
Candidates(r) ==
  {p \in Range(plans) : SessionOf[p] = SessionOf[r] /\ executor[p] \in {r, None}}
\* A slip, for the check of the properties: progress goes to the newest plan, whoever executes it.
BadProgressed(r) ==
  IF Candidates(r) = {} THEN {}
  ELSE {plans[Max({i \in DOMAIN plans : plans[i] \in Candidates(r)})]}
Progressed(r) ==
  LET own   == {p \in Candidates(r) : executor[p] = r}
      among == IF own # {} THEN own ELSE Candidates(r)
  IN IF among = {} THEN {}
     ELSE {plans[Max({i \in DOMAIN plans : plans[i] \in among})]}

persistPlanProgress(s, marks) ==
  LET r == at[s] IN
  /\ Reports(s)
  /\ r \in Strays \/ PlanOf[r] # None
  /\ completed' = [p \in Planners |-> IF p \in Progressed(r)
                                        THEN completed[p] \cup marks ELSE completed[p]]
  /\ plan' = [p \in Planners |-> IF p \notin Progressed(r) THEN plan[p]
                                 ELSE IF completed'[p] = Steps THEN "completed"
                                 ELSE "executing"]
  /\ UNCHANGED <<vars, client, plans, executor, consents>>

\* The steps that leave plans alone.  Once a plan event is out, an execution
\* only completes or is given up.
OtherStep(s) ==
  \/ \E r \in Runs : LeaseJob(s, r)
  \/ StartRun(s) \/ StartConflict(s) \/ Heartbeat(s)
  \/ HeartbeatConflict(s) \/ ObserveCancel(s)
  \/ Abort(s) \/ Complete(s)
  \/ FindCancelled(s) \/ FindFailure(s)

\* A slot that is released starts its next execution afresh.
ReleaseSlot(s) ==
  /\ CompleteJob(s) \/ FailJob(s) \/ LoseOutcome(s)
  /\ reported' = [reported EXCEPT ![s] = FALSE]
  /\ UNCHANGED <<client, plansTable, consents>>

CrashWorker(w) ==
  /\ Crash(w)
  /\ reported' = [s \in Slots |-> WorkerOf[s] # w /\ reported[s]]
  /\ UNCHANGED <<client, plansTable, consents>>

PlanNext ==
  \/ \E r \in Runs : \/ ReadPlan(r) \/ LookUpKey(r)
                     \/ CreatePlannedRun(r) \/ RefuseRun(r) \/ CancelPlannedRun(r)
  \/ \E p \in Planners, approved \in BOOLEAN : DecidePlan(p, approved)
  \/ \E s \in Slots : \/ FailPlannedRun(s) \/ LosePlannedRun(s)
                      \/ persistPlan(s)
                      \/ \E marks \in SUBSET Steps \ {{}} : persistPlanProgress(s, marks)
                      \/ ReleaseSlot(s)
                      \/ OtherStep(s) /\ UNCHANGED planVars
  \/ LeaseNothing /\ UNCHANGED planVars
  \/ \E r \in Runs : LeaseLapses(r) /\ UNCHANGED planVars
  \/ \E w \in Workers : CrashWorker(w)

allVars  == <<vars, planVars>>
PlanSpec == PlanInit /\ [][PlanNext]_allVars

-----------------------------------------------------------------------------
(* Properties.                                                             *)

\* Requests with one key are answered with one run, however they race between
\* the look-up of the key and the insertion of its row (CreateRun).
KeysAgree ==
  \A q, r \in Runs : KeyOf[q] = KeyOf[r] /\ reply[q] # None /\ reply[r] # None
                      => reply[q] = reply[r]

\* A plan is executed at most once for each time a user approved it, however
\* requests with different keys race between reading the plan and the
\* transaction that takes it (ExecutePlan, CreateRun).
ApprovalsSpent ==
  \A p \in Planners :
    Cardinality({r \in Runs : PlanOf[r] = p /\ run[r] # "none"}) <= consents[p]

\* While a plan is a run's to execute, that run marks no step of another
\* plan, such as a newer one that no user approved (persistPlanProgress).
OwnProgress ==
  [][\A s \in Slots, p \in Planners :
       /\ reported'[s] /\ ~reported[s]
       /\ PlanOf[at[s]] \notin {None, p} /\ executor[PlanOf[at[s]]] = at[s]
       => <<plan[p], completed[p]>>' = <<plan[p], completed[p]>>]_allVars
=============================================================================

--------------------------- MODULE RunControlProofs ---------------------------
(***************************************************************************)
(* Theorems about RunControl for every set of runs, slots, calls, hashes   *)
(* and interactions, and every attempt limit.                              *)
(***************************************************************************)
EXTENDS RunControl, TLAPS

LEMMA InitType == Init => TypeOK
  BY ConstantsAssumption
     DEF Init, TypeOK, Verdicts, NoVerdicts, Verdict, RunStatus, JobStatus

\* Every API transaction keeps the types.
LEMMA ApiType == TypeOK /\ Api => TypeOK'
<1> SUFFICES ASSUME TypeOK, Api PROVE TypeOK'
  OBVIOUS
<1> USE ConstantsAssumption DEF TypeOK, RunStatus, JobStatus, Active, SetJob, local, lease
<1>1. ASSUME NEW r \in Runs, CreateRun(r) PROVE TypeOK'
  BY <1>1 DEF CreateRun
<1>2. ASSUME NEW r \in Runs, CancelRun(r) PROVE TypeOK'
  BY <1>2 DEF CancelRun
<1>3. ASSUME NEW c \in Calls, NEW d \in Verdict, DecideApproval(c, d) PROVE TypeOK'
  BY <1>3 DEF DecideApproval, Requeue, AddVerdict, Verdicts, Verdict
<1>4. ASSUME NEW i \in Inputs, NEW v \in {"answered", "cancelled"},
             AnswerInteraction(i, v)
      PROVE  TypeOK'
  <2>1. interaction' \in [Inputs -> {"none", "pending", "lapsed", "answered", "cancelled"}]
    BY <1>4 DEF AnswerInteraction
  <2>2. RunOf[i] \in Runs
    OBVIOUS
  <2>3. CASE ResumeInPlace(i) /\ UNCHANGED <<job, lease>>
    <3>1. run' \in [Runs -> RunStatus]
      BY <2>3 DEF ResumeInPlace
    <3> QED
      BY <1>4, <2>1, <2>3, <3>1 DEF AnswerInteraction
  <2>4. CASE Requeue(RunOf[i], "awaiting_input")
    <3>1. run' \in [Runs -> RunStatus]
      BY <2>2, <2>4 DEF Requeue
    <3>2. attempts' \in [Runs -> 0..MaxAttempts]
      BY <2>2, <2>4 DEF Requeue
    <3> QED
      BY <1>4, <2>1, <2>2, <2>4, <3>1, <3>2 DEF AnswerInteraction, Requeue
  <2> QED
    BY <1>4, <2>3, <2>4 DEF AnswerInteraction
<1> QED
  BY <1>1, <1>2, <1>3, <1>4 DEF Api

\* Every step of the worker's tick and of a goroutine keeps the types.
LEMMA WorkerType ==
  TypeOK /\ (ExpireApprovals \/ LeaseNothing \/ \E s \in Slots : Goroutine(s)) => TypeOK'
<1> SUFFICES ASSUME TypeOK,
                    ExpireApprovals \/ LeaseNothing \/ \E s \in Slots : Goroutine(s)
             PROVE  TypeOK'
  OBVIOUS
<1> USE ConstantsAssumption
    DEF TypeOK, RunStatus, JobStatus, SetJob, local, lease, rows, Stay, Goto, Project
<1>1. CASE ExpireApprovals
  BY <1>1 DEF ExpireApprovals
<1>2. CASE LeaseNothing
  BY <1>2 DEF LeaseNothing, FailLostRuns
<1>3. ASSUME NEW s \in Slots, Goroutine(s) PROVE TypeOK'
  <2>1. ASSUME NEW r \in Runs, LeaseJob(s, r) PROVE TypeOK'
    <3>1. run' \in [Runs -> RunStatus] /\ job' \in [Runs -> JobStatus]
      BY <2>1 DEF LeaseJob, FailLostRuns
    <3>2. owner' \in [Runs -> Workers \cup {None}] /\ lapsed' \in [Runs -> BOOLEAN]
      BY <2>1 DEF LeaseJob, Workers
    <3>3. attempts' \in [Runs -> 0..MaxAttempts]
      <4>1. attempts[r] \in 0..MaxAttempts /\ attempts[r] < MaxAttempts
        BY <2>1 DEF LeaseJob, Leasable
      <4> QED
        BY <2>1, <4>1 DEF LeaseJob
    <3> QED
      BY <2>1, <3>1, <3>2, <3>3 DEF LeaseJob
  <2>2. CASE RejectWorkspace(s)
    BY SMTT(30), <2>2 DEF RejectWorkspace
  <2>3. CASE StartRun(s)
    BY <2>3 DEF StartRun
  <2>4. CASE StartConflict(s) \/ HeartbeatConflict(s) \/ ObserveCancel(s)
             \/ FindCancelled(s) \/ FindFailure(s)
    <3>1. CASE StartConflict(s) \/ HeartbeatConflict(s)
      <4>1. CASE StartConflict(s)
        BY SMTT(30), <4>1 DEF StartConflict
      <4>2. CASE HeartbeatConflict(s)
        BY SMTT(30), <4>2 DEF HeartbeatConflict
      <4> QED
        BY <3>1, <4>1, <4>2
    <3>2. CASE ObserveCancel(s)
      BY <3>2 DEF ObserveCancel
    <3>3. CASE FindCancelled(s)
      BY <3>3 DEF FindCancelled
    <3>4. CASE FindFailure(s)
      BY <3>4 DEF FindFailure
    <3> QED
      BY <2>4, <3>1, <3>2, <3>3, <3>4
  <2>5. CASE Abort(s)
    BY <2>5 DEF Abort
  <2>6. CASE Heartbeat(s)
    BY <2>6 DEF Heartbeat
  <2>7. CASE Engine(s)
    <3>1. ASSUME NEW c \in Calls, RequestApproval(s, c) PROVE TypeOK'
      BY <3>1 DEF RequestApproval
    <3>2. ASSUME NEW c \in Calls, RunCall(s, c) PROVE TypeOK'
      BY <3>2 DEF RunCall
    <3>3. ASSUME NEW i \in Inputs,
                 PollInput(s, i) \/ RequestInput(s, i) \/ Elicit(s, i) \/ ReceiveAnswer(s, i)
          PROVE  TypeOK'
      <4>1. ASSUME AskInput(s, i), pc[s] = "active"
            PROVE  /\ run' \in [Runs -> RunStatus]
                   /\ interaction' \in
                        [Inputs -> {"none", "pending", "lapsed", "answered", "cancelled"}]
        <5>1. ASSUME Project(at[s], {"running"}, "awaiting_input")
              PROVE  run' \in [Runs -> RunStatus]
          BY <5>1
        <5>2. run' \in [Runs -> RunStatus]
          BY <4>1, <5>1 DEF AskInput
        <5>3. interaction' = [interaction EXCEPT ![i] = IF @ = "none" THEN "pending" ELSE @]
          BY <4>1 DEF AskInput
        <5>4. interaction' \in
                [Inputs -> {"none", "pending", "lapsed", "answered", "cancelled"}]
          BY <5>3
        <5> QED
          BY <5>2, <5>4
      <4>2. CASE PollInput(s, i)
        BY <4>2 DEF PollInput
      <4>3. CASE RequestInput(s, i)
        BY <4>1, <4>3 DEF RequestInput, AskInput
      <4>4. CASE Elicit(s, i)
        BY <4>1, <4>4 DEF Elicit, AskInput
      <4>5. CASE ReceiveAnswer(s, i)
        BY <4>5 DEF ReceiveAnswer
      <4> QED
        BY <3>3, <4>2, <4>3, <4>4, <4>5
    <3>4. CASE Pause(s) \/ Complete(s) \/ Fail(s)
      <4>1. CASE Pause(s)
        BY <4>1 DEF Pause
      <4>2. CASE Complete(s)
        BY <4>2 DEF Complete
      <4>3. CASE Fail(s)
        BY <4>3 DEF Fail
      <4> QED
        BY <3>4, <4>1, <4>2, <4>3
    <3> QED
      BY <2>7, <3>1, <3>2, <3>3, <3>4 DEF Engine
  <2>8. CASE CompleteJob(s)
    BY ZenonT(60), <2>8 DEF CompleteJob, Release, Verdicts, NoVerdicts
  <2>9. CASE FailJob(s)
    BY ZenonT(60), <2>9 DEF FailJob, Release, Verdicts, NoVerdicts
  <2>10. CASE LoseOutcome(s)
    BY <2>10 DEF LoseOutcome, Release, Verdicts, NoVerdicts
  <2> QED
    BY <1>3, <2>1, <2>2, <2>3, <2>4, <2>5, <2>6, <2>7, <2>8, <2>9, <2>10 DEF Goroutine
<1> QED
  BY <1>1, <1>2, <1>3

\* Clocks and crashes keep the types.
LEMMA EnvironmentType == TypeOK /\ Environment => TypeOK'
<1> SUFFICES ASSUME TypeOK, Environment PROVE TypeOK'
  OBVIOUS
<1> USE DEF TypeOK, local, lease, rows
<1>1. ASSUME NEW r \in Runs, LeaseLapses(r) PROVE TypeOK'
  BY <1>1 DEF LeaseLapses
<1>2. ASSUME NEW c \in Calls, ApprovalLapses(c) PROVE TypeOK'
  BY <1>2 DEF ApprovalLapses
<1>3. ASSUME NEW i \in Inputs, InteractionLapses(i) PROVE TypeOK'
  BY <1>3 DEF InteractionLapses
<1>4. ASSUME NEW w \in Workers, Crash(w) PROVE TypeOK'
  BY <1>4 DEF Crash, Verdicts, NoVerdicts
<1> QED
  BY <1>1, <1>2, <1>3, <1>4 DEF Environment

\* Every reachable state has rows, leases and goroutines of the declared
\* shapes; in particular a job never exceeds max_attempts.
THEOREM TypeCorrect == Spec => []TypeOK
<1>1. Init => TypeOK
  BY InitType
<1>2. TypeOK /\ [Next]_vars => TypeOK'
  <2>1. CASE UNCHANGED vars
    BY <2>1 DEF TypeOK, vars
  <2> QED
    BY <2>1, ApiType, WorkerType, EnvironmentType DEF Next
<1> QED
  BY <1>1, <1>2, PTL DEF Spec

-----------------------------------------------------------------------------
(* Verdicts: the payload of a job, the copy an execution holds, and the    *)
(* calls that ran.                                                         *)

\* An execution's copy of the verdicts is never ahead of the job's payload.
GrantBacked ==
  \A s \in Slots : at[s] # None =>
    \A d \in Verdict : grant[s][d] \subseteq decided[at[s]][d]

VerdictInv == TypeOK /\ DecisionsKept /\ GrantBacked /\ ApprovedBeforeRun

\* Only a user's decision touches the payload or makes a row allow or deny.
LEMMA ApprovalStep ==
  ASSUME TypeOK, Next
  PROVE  \/ \E c \in Calls, d \in Verdict : DecideApproval(c, d)
         \/ /\ decided' = decided
            /\ \A c \in Calls, d \in Verdict : approval'[c] = d <=> approval[c] = d
            /\ \A c \in Calls : approval[c] = "expired" => approval'[c] = "expired"
<1> DEFINE Same ==
      /\ decided' = decided
      /\ \A c \in Calls, d \in Verdict : approval'[c] = d <=> approval[c] = d
      /\ \A c \in Calls : approval[c] = "expired" => approval'[c] = "expired"
<1> USE DEF Verdict
<1>1. CASE Api
  <2>1. ASSUME NEW r \in Runs, CreateRun(r) \/ CancelRun(r) PROVE Same
    BY <2>1 DEF CreateRun, CancelRun
  <2>2. ASSUME NEW i \in Inputs, NEW v \in {"answered", "cancelled"}, AnswerInteraction(i, v)
        PROVE  Same
    BY <2>2 DEF AnswerInteraction
  <2> QED
    BY <1>1, <2>1, <2>2 DEF Api
<1>2. CASE ExpireApprovals
  BY <1>2 DEF ExpireApprovals, TypeOK
<1>3. CASE LeaseNothing
  BY <1>3 DEF LeaseNothing
<1>4. ASSUME NEW s \in Slots, Goroutine(s) PROVE Same
  <2>1. ASSUME NEW c \in Calls, RequestApproval(s, c) PROVE Same
    BY <2>1 DEF RequestApproval, TypeOK
  <2>2. ASSUME NEW c \in Calls, RunCall(s, c) PROVE Same
    BY <2>2 DEF RunCall, rows
  <2>3. ASSUME NEW i \in Inputs,
               PollInput(s, i) \/ RequestInput(s, i) \/ Elicit(s, i) \/ ReceiveAnswer(s, i)
        PROVE  Same
    BY <2>3 DEF PollInput, RequestInput, Elicit, ReceiveAnswer, AskInput, rows
  <2>4. CASE Pause(s) \/ Complete(s) \/ Fail(s)
    BY <2>4 DEF Pause, Complete, Fail, rows
  <2>5. CASE (\E r \in Runs : LeaseJob(s, r)) \/ RejectWorkspace(s) \/ StartRun(s)
    BY <2>5 DEF LeaseJob, RejectWorkspace, StartRun
  <2>6. CASE StartConflict(s) \/ Heartbeat(s) \/ HeartbeatConflict(s) \/ ObserveCancel(s)
             \/ Abort(s) \/ FindCancelled(s) \/ FindFailure(s)
    BY <2>6 DEF StartConflict, Heartbeat, HeartbeatConflict, ObserveCancel, Abort,
                FindCancelled, FindFailure, rows
  <2>7. CASE CompleteJob(s) \/ FailJob(s) \/ LoseOutcome(s)
    BY <2>7 DEF CompleteJob, FailJob, LoseOutcome, rows
  <2> QED
    BY <1>4, <2>1, <2>2, <2>3, <2>4, <2>5, <2>6, <2>7 DEF Goroutine, Engine
<1>5. CASE Environment
  <2>1. ASSUME NEW c \in Calls, ApprovalLapses(c) PROVE Same
    BY <2>1 DEF ApprovalLapses, TypeOK
  <2>2. ASSUME NEW r \in Runs, LeaseLapses(r) PROVE Same
    BY <2>2 DEF LeaseLapses
  <2>3. ASSUME NEW i \in Inputs, InteractionLapses(i) PROVE Same
    BY <2>3 DEF InteractionLapses
  <2>4. ASSUME NEW w \in Workers, Crash(w) PROVE Same
    BY <2>4 DEF Crash, rows
  <2> QED
    BY <1>5, <2>1, <2>2, <2>3, <2>4 DEF Environment
<1> QED
  BY <1>1, <1>2, <1>3, <1>4, <1>5 DEF Next, Api

\* The payload only grows, and stays equal to the verdicts of the rows.
LEMMA DecisionsStep ==
  ASSUME TypeOK, TypeOK', DecisionsKept, Next
  PROVE  /\ DecisionsKept'
         /\ \A r \in Runs, d \in Verdict : decided[r][d] \subseteq decided'[r][d]
         /\ \A c \in Calls : approval[c] = "allow" => approval'[c] = "allow"
<1>1. ASSUME NEW c \in Calls, NEW d \in Verdict, DecideApproval(c, d)
      PROVE  /\ DecisionsKept'
             /\ \A r \in Runs, e \in Verdict : decided[r][e] \subseteq decided'[r][e]
             /\ \A x \in Calls : approval[x] = "allow" => approval'[x] = "allow"
  <2>1. /\ approval[c] = "pending"
        /\ approval' = [approval EXCEPT ![c] = d]
        /\ RunOf[c] \in Runs
        /\ decided' = [decided EXCEPT ![RunOf[c]][d] = @ \cup {HashOf[c]}]
    BY <1>1, ConstantsAssumption DEF DecideApproval, AddVerdict
  <2>2. \A r \in Runs, e \in Verdict :
          decided'[r][e] = IF r = RunOf[c] /\ e = d THEN decided[r][e] \cup {HashOf[c]}
                                                   ELSE decided[r][e]
    BY ZenonT(60), <2>1 DEF TypeOK, Verdicts
  <2>3. \A x \in Calls, e \in Verdict :
          approval'[x] = e <=> (approval[x] = e \/ (x = c /\ e = d))
    BY <2>1 DEF TypeOK, Verdict
  <2>4. ASSUME NEW r \in Runs, NEW e \in Verdict
        PROVE  decided'[r][e] =
                 {HashOf[x] : x \in {y \in Calls : RunOf[y] = r /\ approval'[y] = e}}
    <3>1. decided[r][e] = {HashOf[x] : x \in {y \in Calls : RunOf[y] = r /\ approval[y] = e}}
      BY DEF DecisionsKept
    <3>2. CASE r = RunOf[c] /\ e = d
      <4>1. {y \in Calls : RunOf[y] = r /\ approval'[y] = e}
              = {y \in Calls : RunOf[y] = r /\ approval[y] = e} \cup {c}
        BY <2>3, <3>2
      <4>2. {HashOf[x] : x \in {y \in Calls : RunOf[y] = r /\ approval'[y] = e}}
              = {HashOf[x] : x \in {y \in Calls : RunOf[y] = r /\ approval[y] = e}}
                  \cup {HashOf[c]}
        BY <4>1
      <4>3. decided'[r][e] = decided[r][e] \cup {HashOf[c]}
        BY <2>2, <3>2
      <4> QED
        BY <3>1, <4>2, <4>3
    <3>3. CASE ~(r = RunOf[c] /\ e = d)
      <4>1. {y \in Calls : RunOf[y] = r /\ approval'[y] = e}
              = {y \in Calls : RunOf[y] = r /\ approval[y] = e}
        BY <2>3, <3>3
      <4> QED
        BY <2>2, <3>1, <3>3, <4>1
    <3> QED
      BY <3>2, <3>3
  <2>5. DecisionsKept'
    BY <2>4 DEF DecisionsKept
  <2>6. \A r \in Runs, e \in Verdict : decided[r][e] \subseteq decided'[r][e]
    BY <2>2
  <2>7. \A x \in Calls : approval[x] = "allow" => approval'[x] = "allow"
    BY <2>3 DEF Verdict
  <2> QED
    BY <2>5, <2>6, <2>7
<1>2. ASSUME decided' = decided,
             \A c \in Calls, d \in Verdict : approval'[c] = d <=> approval[c] = d
      PROVE  /\ DecisionsKept'
             /\ \A r \in Runs, d \in Verdict : decided[r][d] \subseteq decided'[r][d]
             /\ \A c \in Calls : approval[c] = "allow" => approval'[c] = "allow"
  <2>1. \A r \in Runs, d \in Verdict :
          {x \in Calls : RunOf[x] = r /\ approval'[x] = d}
            = {x \in Calls : RunOf[x] = r /\ approval[x] = d}
    BY <1>2
  <2> QED
    BY <1>2, <2>1 DEF DecisionsKept, Verdict
<1> QED
  BY <1>1, <1>2, ApprovalStep

\* A slot's run and verdicts change only when it leases a job, taking the
\* payload of that moment, or when it lets go.
LEMMA GrantStep ==
  ASSUME TypeOK, Next, NEW s \in Slots
  PROVE  \/ at'[s] = at[s] /\ grant'[s] = grant[s]
         \/ at'[s] = None
         \/ \E r \in Runs : at'[s] = r /\ grant'[s] = decided[r] /\ decided' = decided
<1>1. CASE UNCHANGED <<at, grant>>
  BY <1>1
<1>2. ASSUME NEW t \in Slots, NEW r \in Runs, LeaseJob(t, r)
      PROVE  \/ at'[s] = at[s] /\ grant'[s] = grant[s]
             \/ \E q \in Runs : at'[s] = q /\ grant'[s] = decided[q] /\ decided' = decided
  BY <1>2 DEF LeaseJob, TypeOK
<1>3. ASSUME NEW t \in Slots, CompleteJob(t) \/ FailJob(t) \/ LoseOutcome(t)
      PROVE  (at'[s] = at[s] /\ grant'[s] = grant[s]) \/ at'[s] = None
  BY <1>3 DEF CompleteJob, FailJob, LoseOutcome, Release, TypeOK
<1>4. ASSUME NEW w \in Workers, Crash(w)
      PROVE  (at'[s] = at[s] /\ grant'[s] = grant[s]) \/ at'[s] = None
  BY <1>4 DEF Crash, TypeOK
<1>5. ASSUME NEW t \in Slots, Goroutine(t),
             ~\E r \in Runs : LeaseJob(t, r), ~(CompleteJob(t) \/ FailJob(t) \/ LoseOutcome(t))
      PROVE  UNCHANGED <<at, grant>>
  <2>1. CASE RejectWorkspace(t) \/ StartRun(t) \/ StartConflict(t) \/ Heartbeat(t)
             \/ HeartbeatConflict(t) \/ ObserveCancel(t) \/ Abort(t)
             \/ FindCancelled(t) \/ FindFailure(t)
    BY <2>1 DEF RejectWorkspace, StartRun, StartConflict, Heartbeat, HeartbeatConflict,
                ObserveCancel, Abort, FindCancelled, FindFailure, Stay, local
  <2>2. CASE Engine(t)
    BY <2>2 DEF Engine, RequestApproval, RunCall, PollInput, RequestInput, Elicit,
                ReceiveAnswer, AskInput, Pause, Complete, Fail, Stay, local
  <2> QED
    BY <1>5, <2>1, <2>2 DEF Goroutine
<1>6. CASE Api \/ ExpireApprovals \/ LeaseNothing
  BY <1>6 DEF Api, CreateRun, CancelRun, DecideApproval, AnswerInteraction,
              ExpireApprovals, LeaseNothing, local
<1>7. ASSUME Environment, ~\E w \in Workers : Crash(w) PROVE UNCHANGED <<at, grant>>
  BY <1>7 DEF Environment, LeaseLapses, ApprovalLapses, InteractionLapses, local
<1>8. CASE \E t \in Slots : Goroutine(t)
  BY <1>1, <1>2, <1>3, <1>5, <1>8
<1>9. CASE Environment
  BY <1>1, <1>4, <1>7, <1>9
<1> QED
  BY <1>1, <1>6, <1>8, <1>9 DEF Next, Api, CreateRun, CancelRun, DecideApproval,
     AnswerInteraction, ExpireApprovals, LeaseNothing, local

\* A call runs only on a verdict of its execution's copy.
LEMMA RanStep ==
  ASSUME Next
  PROVE  \/ ran' = ran
         \/ \E s \in Slots, c \in Calls : /\ at[s] = RunOf[c]
                                          /\ HashOf[c] \in grant[s]["allow"]
                                          /\ ran' = ran \cup {c}
<1>1. CASE Api \/ ExpireApprovals \/ LeaseNothing \/ Environment
  BY <1>1 DEF Api, CreateRun, CancelRun, DecideApproval, AnswerInteraction,
              ExpireApprovals, LeaseNothing, Environment, LeaseLapses,
              ApprovalLapses, InteractionLapses, Crash
<1>2. ASSUME NEW s \in Slots, Goroutine(s), ~\E c \in Calls : RunCall(s, c) PROVE ran' = ran
  <2>1. CASE Engine(s)
    BY <1>2, <2>1 DEF Engine, RequestApproval, PollInput, RequestInput, Elicit,
                      ReceiveAnswer, AskInput, Pause, Complete, Fail
  <2>2. CASE ~Engine(s)
    BY <1>2, <2>2 DEF Goroutine, LeaseJob, RejectWorkspace, StartRun, StartConflict, Heartbeat,
       HeartbeatConflict, ObserveCancel, Abort, FindCancelled, FindFailure, CompleteJob,
       FailJob, LoseOutcome
  <2> QED
    BY <2>1, <2>2
<1>3. ASSUME NEW s \in Slots, NEW c \in Calls, RunCall(s, c)
      PROVE  at[s] = RunOf[c] /\ HashOf[c] \in grant[s]["allow"] /\ ran' = ran \cup {c}
  BY <1>3 DEF RunCall
<1> QED
  BY <1>1, <1>2, <1>3 DEF Next

LEMMA VerdictStep == VerdictInv /\ [Next]_vars => VerdictInv'
<1> SUFFICES ASSUME VerdictInv, [Next]_vars PROVE VerdictInv'
  OBVIOUS
<1>1. CASE UNCHANGED vars
  BY <1>1 DEF VerdictInv, TypeOK, DecisionsKept, GrantBacked, ApprovedBeforeRun, vars
<1>2. CASE Next
  <2>1. TypeOK'
    BY <1>2, ApiType, WorkerType, EnvironmentType DEF Next, VerdictInv
  <2>2. /\ DecisionsKept'
        /\ \A r \in Runs, d \in Verdict : decided[r][d] \subseteq decided'[r][d]
        /\ \A c \in Calls : approval[c] = "allow" => approval'[c] = "allow"
    BY <1>2, <2>1, DecisionsStep DEF VerdictInv
  <2>3. GrantBacked'
    <3> SUFFICES ASSUME NEW s \in Slots, at'[s] # None, NEW d \in Verdict
                 PROVE  grant'[s][d] \subseteq decided'[at'[s]][d]
      BY DEF GrantBacked
    <3>1. CASE at'[s] = at[s] /\ grant'[s] = grant[s]
      <4>1. at[s] \in Runs /\ grant[s][d] \subseteq decided[at[s]][d]
        BY <3>1 DEF VerdictInv, GrantBacked, TypeOK
      <4> QED
        BY <2>2, <3>1, <4>1
    <3>2. CASE \E r \in Runs : at'[s] = r /\ grant'[s] = decided[r] /\ decided' = decided
      BY <3>2
    <3> QED
      BY <1>2, <3>1, <3>2, GrantStep DEF VerdictInv
  <2>4. ApprovedBeforeRun'
    <3>1. CASE ran' = ran
      BY <2>2, <3>1 DEF VerdictInv, ApprovedBeforeRun
    <3>2. ASSUME NEW s \in Slots, NEW c \in Calls, at[s] = RunOf[c],
                 HashOf[c] \in grant[s]["allow"], ran' = ran \cup {c}
          PROVE  ApprovedBeforeRun'
      <4>1. at[s] \in Runs /\ at[s] # None
        BY <3>2, ConstantsAssumption
      <4>2. HashOf[c] \in decided[RunOf[c]]["allow"]
        BY <3>2, <4>1 DEF VerdictInv, GrantBacked, Verdict
      <4>3. \E x \in Calls : RunOf[x] = RunOf[c] /\ approval[x] = "allow" /\ HashOf[x] = HashOf[c]
        BY <3>2, <4>1, <4>2 DEF VerdictInv, DecisionsKept, Verdict
      <4> QED
        BY <2>2, <3>2, <4>3 DEF VerdictInv, ApprovedBeforeRun
    <3> QED
      BY <1>2, <3>1, <3>2, RanStep
  <2> QED
    BY <2>1, <2>2, <2>3, <2>4 DEF VerdictInv
<1> QED
  BY <1>1, <1>2

LEMMA VerdictInit == Init => VerdictInv
<1> SUFFICES ASSUME Init PROVE VerdictInv
  OBVIOUS
<1>1. TypeOK
  BY InitType
<1>2. DecisionsKept
  <2>1. \A r \in Runs, d \in Verdict : decided[r][d] = {}
    BY DEF Init, NoVerdicts
  <2>2. \A r \in Runs, d \in Verdict : {x \in Calls : RunOf[x] = r /\ approval[x] = d} = {}
    BY DEF Init, Verdict
  <2> QED
    BY <2>1, <2>2 DEF DecisionsKept
<1>3. GrantBacked /\ ApprovedBeforeRun
  BY DEF Init, GrantBacked, ApprovedBeforeRun
<1> QED
  BY <1>1, <1>2, <1>3 DEF VerdictInv

\* The approval gate: whatever is retried, resumed, lost or taken over, a
\* call runs only if the user allowed that call or one just like it.
THEOREM ApprovalGate == Spec => []ApprovedBeforeRun
<1>1. VerdictInv => ApprovedBeforeRun
  BY DEF VerdictInv
<1> QED
  BY <1>1, VerdictInit, VerdictStep, PTL DEF Spec

\* The payload a resumed execution is given holds exactly the verdicts of
\* the approval rows.
THEOREM PayloadExact == Spec => []DecisionsKept
<1>1. VerdictInv => DecisionsKept
  BY DEF VerdictInv
<1> QED
  BY <1>1, VerdictInit, VerdictStep, PTL DEF Spec
-----------------------------------------------------------------------------
(* Final statuses, final verdicts, and the retry budget.                   *)

\* No step moves a completed or a cancelled run.
LEMMA FinalStep ==
  ASSUME TypeOK, Next, NEW r \in Runs, run[r] \in {"completed", "cancelled"}
  PROVE  run'[r] = run[r]
<1> USE DEF TypeOK, Active, Startable, Project
<1>1. ASSUME Api PROVE run'[r] = run[r]
  <2>1. ASSUME NEW q \in Runs, CreateRun(q) \/ CancelRun(q) PROVE run'[r] = run[r]
    BY <2>1 DEF CreateRun, CancelRun
  <2>2. ASSUME NEW c \in Calls, NEW d \in Verdict, DecideApproval(c, d) PROVE run'[r] = run[r]
    BY <2>2 DEF DecideApproval, Requeue
  <2>3. ASSUME NEW i \in Inputs, NEW v \in {"answered", "cancelled"}, AnswerInteraction(i, v)
        PROVE  run'[r] = run[r]
    BY <2>3 DEF AnswerInteraction, Requeue, ResumeInPlace
  <2> QED
    BY <1>1, <2>1, <2>2, <2>3 DEF Api
<1>2. ASSUME ExpireApprovals \/ LeaseNothing PROVE run'[r] = run[r]
  <2>1. CASE ExpireApprovals
    BY <2>1 DEF ExpireApprovals
  <2>2. CASE LeaseNothing
    <3>1. run'[r] = IF ExecutorLost(r) THEN "failed" ELSE run[r]
      BY <2>2 DEF LeaseNothing, FailLostRuns
    <3> QED
      BY <3>1 DEF ExecutorLost
  <2> QED
    BY <1>2, <2>1, <2>2
<1>3. ASSUME NEW s \in Slots, Goroutine(s) PROVE run'[r] = run[r]
  <2>1. ASSUME NEW q \in Runs, LeaseJob(s, q) PROVE run'[r] = run[r]
    BY <2>1 DEF LeaseJob, FailLostRuns, ExecutorLost
  <2>2. CASE RejectWorkspace(s) \/ StartRun(s)
    BY <2>2 DEF RejectWorkspace, StartRun
  <2>3. ASSUME NEW c \in Calls, RequestApproval(s, c) \/ RunCall(s, c) PROVE run'[r] = run[r]
    BY <2>3 DEF RequestApproval, RunCall, rows
  <2>4. ASSUME NEW i \in Inputs,
               PollInput(s, i) \/ RequestInput(s, i) \/ Elicit(s, i) \/ ReceiveAnswer(s, i)
        PROVE  run'[r] = run[r]
    BY <2>4 DEF PollInput, RequestInput, Elicit, ReceiveAnswer, AskInput, rows
  <2>5. CASE Pause(s) \/ Complete(s) \/ Fail(s)
    BY <2>5 DEF Pause, Complete, Fail, rows
  <2>6. CASE StartConflict(s) \/ Heartbeat(s) \/ HeartbeatConflict(s) \/ ObserveCancel(s)
             \/ Abort(s) \/ FindCancelled(s) \/ FindFailure(s)
    BY <2>6 DEF StartConflict, Heartbeat, HeartbeatConflict, ObserveCancel, Abort,
                FindCancelled, FindFailure, rows
  <2>7. CASE CompleteJob(s) \/ FailJob(s) \/ LoseOutcome(s)
    BY <2>7 DEF CompleteJob, FailJob, LoseOutcome, rows
  <2> QED
    BY <1>3, <2>1, <2>2, <2>3, <2>4, <2>5, <2>6, <2>7 DEF Goroutine, Engine
<1>4. ASSUME Environment PROVE run'[r] = run[r]
  BY <1>4 DEF Environment, LeaseLapses, ApprovalLapses, InteractionLapses, Crash, rows
<1> QED
  BY <1>1, <1>2, <1>3, <1>4 DEF Next

\* A verdict, and an expiry, is final for every approval, in every behaviour.
THEOREM VerdictsFinal == Spec => VerdictsStay
<1>1. TypeOK /\ [Next]_vars =>
        [\A c \in Calls : approval[c] \in {"allow", "deny", "expired"}
                           => approval'[c] = approval[c]]_approval
  <2> SUFFICES ASSUME TypeOK, Next, NEW c \in Calls,
                      approval[c] \in {"allow", "deny", "expired"}
               PROVE  approval'[c] = approval[c]
    BY DEF vars
  <2>1. ASSUME NEW x \in Calls, NEW d \in Verdict, DecideApproval(x, d)
        PROVE  approval'[c] = approval[c]
    BY <2>1 DEF DecideApproval, TypeOK
  <2> QED
    BY <2>1, ApprovalStep DEF Verdict
<1> QED
  BY <1>1, TypeCorrect, PTL DEF Spec, VerdictsStay

\* Completed and cancelled are final for every run, in every behaviour.
THEOREM FinalRuns == Spec => FinalRunsStay
<1>1. TypeOK /\ [Next]_vars =>
        [\A r \in Runs : run[r] \in {"completed", "cancelled"} => run'[r] = run[r]]_run
  BY FinalStep DEF vars
<1> QED
  BY <1>1, TypeCorrect, PTL DEF Spec, FinalRunsStay

\* A job dies only by a cancellation or with its attempts spent.
LEMMA DeadStep ==
  ASSUME TypeOK, Next, NEW r \in Runs, job'[r] = "dead"
  PROVE  \/ job[r] = "dead" /\ attempts'[r] = attempts[r]
         \/ run'[r] = "cancelled"
         \/ attempts'[r] >= MaxAttempts
<1> DEFINE Goal == \/ job[r] = "dead" /\ attempts'[r] = attempts[r]
                   \/ run'[r] = "cancelled"
                   \/ attempts'[r] >= MaxAttempts
<1> USE ConstantsAssumption DEF TypeOK, SetJob, lease, rows
<1>1. ASSUME Api PROVE Goal
  <2>1. ASSUME NEW q \in Runs, CreateRun(q) \/ CancelRun(q) PROVE Goal
    BY <2>1 DEF CreateRun, CancelRun
  <2>2. ASSUME NEW c \in Calls, NEW d \in Verdict, DecideApproval(c, d) PROVE Goal
    BY <2>2 DEF DecideApproval, Requeue
  <2>3. ASSUME NEW i \in Inputs, NEW v \in {"answered", "cancelled"}, AnswerInteraction(i, v)
        PROVE  Goal
    BY <2>3 DEF AnswerInteraction, Requeue
  <2> QED
    BY <1>1, <2>1, <2>2, <2>3 DEF Api
<1>2. ASSUME ExpireApprovals \/ LeaseNothing PROVE Goal
  <2>1. CASE ExpireApprovals
    <3>1. job' = job /\ attempts' = attempts
      BY <2>1 DEF ExpireApprovals
    <3> QED
      BY <3>1
  <2>2. CASE LeaseNothing
    <3>1. job'[r] = (IF Exhausted(r) THEN "dead" ELSE job[r]) /\ attempts' = attempts
      BY <2>2 DEF LeaseNothing
    <3> QED
      BY <3>1 DEF Exhausted
  <2> QED
    BY <1>2, <2>1, <2>2
<1>3. ASSUME NEW s \in Slots, Goroutine(s) PROVE Goal
  <2>1. ASSUME NEW q \in Runs, LeaseJob(s, q) PROVE Goal
    BY <2>1 DEF LeaseJob, Exhausted
  <2>2. ASSUME NEW c \in Calls, RequestApproval(s, c) \/ RunCall(s, c) PROVE Goal
    BY <2>2 DEF RequestApproval, RunCall
  <2>3. ASSUME NEW i \in Inputs,
               PollInput(s, i) \/ RequestInput(s, i) \/ Elicit(s, i) \/ ReceiveAnswer(s, i)
        PROVE  Goal
    BY <2>3 DEF PollInput, RequestInput, Elicit, ReceiveAnswer, AskInput
  <2>4. CASE RejectWorkspace(s) \/ StartRun(s) \/ Pause(s) \/ Complete(s) \/ Fail(s)
    BY <2>4 DEF RejectWorkspace, StartRun, Pause, Complete, Fail
  <2>5. CASE StartConflict(s) \/ Heartbeat(s) \/ HeartbeatConflict(s) \/ ObserveCancel(s)
             \/ Abort(s) \/ FindCancelled(s) \/ FindFailure(s) \/ LoseOutcome(s)
    BY <2>5 DEF StartConflict, Heartbeat, HeartbeatConflict, ObserveCancel, Abort,
                FindCancelled, FindFailure, LoseOutcome
  <2>6. CASE CompleteJob(s)
    BY <2>6 DEF CompleteJob
  <2>7. CASE FailJob(s)
    BY <2>7 DEF FailJob
  <2> QED
    BY <1>3, <2>1, <2>2, <2>3, <2>4, <2>5, <2>6, <2>7 DEF Goroutine, Engine
<1>4. ASSUME Environment PROVE Goal
  BY <1>4 DEF Environment, LeaseLapses, ApprovalLapses, InteractionLapses, Crash
<1> QED
  BY <1>1, <1>2, <1>3, <1>4 DEF Next

\* No job is given up early: a dead job belongs to a cancelled run or has
\* used every attempt, whoever counted them.
THEOREM RetriesSpent == Spec => []RetryBudget
<1>1. Init => RetryBudget
  BY DEF Init, RetryBudget
<1>2. TypeOK /\ TypeOK' /\ RetryBudget /\ [Next]_vars => RetryBudget'
  <2> SUFFICES ASSUME TypeOK, TypeOK', RetryBudget, [Next]_vars,
                      NEW r \in Runs, job'[r] = "dead"
               PROVE  run'[r] = "cancelled" \/ attempts'[r] = MaxAttempts
    BY DEF RetryBudget
  <2>1. CASE UNCHANGED vars
    BY <2>1 DEF vars, RetryBudget
  <2>2. CASE Next
    <3>1. CASE job[r] = "dead" /\ attempts'[r] = attempts[r]
      BY <2>2, <3>1, FinalStep DEF RetryBudget
    <3>2. CASE attempts'[r] >= MaxAttempts
      <4>1. attempts'[r] \in 0..MaxAttempts
        BY DEF TypeOK
      <4> QED
        BY <3>2, <4>1, ConstantsAssumption
    <3> QED
      BY <2>2, <3>1, <3>2, DeadStep
  <2> QED
    BY <2>1, <2>2
<1> QED
  BY <1>1, <1>2, TypeCorrect, PTL DEF Spec
-----------------------------------------------------------------------------
(* The lease as a fence around a run, as long as nobody decides and the    *)
(* lease does not lapse while a goroutine holds the run.                   *)

\* Rows refer to a run that was created.
Born ==
  /\ \A r \in Runs : job[r] # "none" => run[r] # "none"
  /\ \A c \in Calls : approval[c] # "none" => run[RunOf[c]] # "none"
  /\ \A i \in Inputs : interaction[i] # "none" => run[RunOf[i]] # "none"

\* A slot is busy exactly when it holds a run, and the job of that run exists.
Placed ==
  /\ \A s \in Slots : pc[s] = "idle" <=> at[s] = None
  /\ \A s \in Slots : at[s] # None => job[at[s]] # "none"

\* A held run has one holder and its job is not up for lease.
Fenced(r) ==
  /\ \A s, t \in Slots : at[s] = r /\ at[t] = r => s = t
  /\ Held(r) => job[r] # "ready" /\ ~(job[r] = "leased" /\ lapsed[r])

BornInv == TypeOK /\ Born /\ Placed

\* While a goroutine holds the run, no approval or question of it is answered
\* and its lease does not run out.  Elicitations may be answered.
Undisturbed(r) ==
  Held(r) =>
    /\ \A c \in Calls : RunOf[c] = r /\ approval[c] = "pending" => approval'[c] \notin Verdict
    /\ \A i \in Inputs \ Elicitations : RunOf[i] = r /\ interaction[i] = "pending"
         => interaction'[i] \notin {"answered", "cancelled"}
    /\ lapsed'[r] => lapsed[r]

\* The run has at most one executor.
ExecutedOnce(r) ==
  \A s, t \in Slots : pc[s] = "active" /\ pc[t] = "active" /\ at[s] = r /\ at[t] = r => s = t

\* Rows are inserted for created runs only, and no run is forgotten.
LEMMA BornStep == ASSUME BornInv, Next PROVE Born'
<1> USE ConstantsAssumption DEF BornInv, TypeOK, Born, SetJob, lease, rows, Project
<1>1. ASSUME Api PROVE Born'
  <2>1. ASSUME NEW q \in Runs, CreateRun(q) PROVE Born'
    BY <2>1 DEF CreateRun
  <2>2. ASSUME NEW q \in Runs, CancelRun(q) PROVE Born'
    BY <2>2 DEF CancelRun
  <2>3. ASSUME NEW c \in Calls, NEW d \in Verdict, DecideApproval(c, d) PROVE Born'
    BY <2>3 DEF DecideApproval, Requeue
  <2>4. ASSUME NEW i \in Inputs, NEW v \in {"answered", "cancelled"}, AnswerInteraction(i, v)
        PROVE  Born'
    BY <2>4 DEF AnswerInteraction, Requeue, ResumeInPlace
  <2> QED
    BY <1>1, <2>1, <2>2, <2>3, <2>4 DEF Api
<1>2. CASE ExpireApprovals
  BY <1>2 DEF ExpireApprovals
<1>3. CASE LeaseNothing
  BY <1>3 DEF LeaseNothing, FailLostRuns, Exhausted
<1>4. ASSUME NEW s \in Slots, Goroutine(s) PROVE Born'
  <2>1. ASSUME NEW q \in Runs, LeaseJob(s, q) PROVE Born'
    BY <2>1 DEF LeaseJob, FailLostRuns, Exhausted, Leasable
  <2>2. CASE RejectWorkspace(s) \/ StartRun(s)
    BY <2>2 DEF RejectWorkspace, StartRun
  <2>3. ASSUME NEW c \in Calls, RequestApproval(s, c) PROVE Born'
    BY <2>3 DEF RequestApproval, Placed
  <2>4. ASSUME NEW i \in Inputs, RequestInput(s, i) \/ Elicit(s, i) PROVE Born'
    <3>1. RunOf[i] = at[s] /\ at[s] \in Runs /\ job[at[s]] # "none"
      BY <2>4 DEF RequestInput, Elicit, Placed
    <3>2. AskInput(s, i)
      BY <2>4 DEF RequestInput, Elicit
    <3>3. run[at[s]] # "none"
      BY <3>1
    <3>4. \A q \in Runs : run[q] # "none" => run'[q] # "none"
      BY <3>2 DEF AskInput
    <3>5. job' = job /\ approval' = approval
      BY <3>2 DEF AskInput
    <3>6. \A j \in Inputs : interaction'[j] # "none" => interaction[j] # "none" \/ j = i
      BY <3>2 DEF AskInput
    <3> QED
      BY <3>1, <3>3, <3>4, <3>5, <3>6
  <2>5. CASE Pause(s) \/ Complete(s) \/ Fail(s)
    BY <2>5 DEF Pause, Complete, Fail
  <2>6. CASE StartConflict(s) \/ Heartbeat(s) \/ HeartbeatConflict(s) \/ ObserveCancel(s)
             \/ Abort(s) \/ FindCancelled(s) \/ FindFailure(s) \/ LoseOutcome(s)
             \/ (\E c \in Calls : RunCall(s, c))
             \/ (\E i \in Inputs : PollInput(s, i) \/ ReceiveAnswer(s, i))
    BY <2>6 DEF StartConflict, Heartbeat, HeartbeatConflict, ObserveCancel, Abort,
                FindCancelled, FindFailure, LoseOutcome, RunCall, PollInput, ReceiveAnswer
  <2>7. CASE CompleteJob(s) \/ FailJob(s)
    BY <2>7 DEF CompleteJob, FailJob, OwnsLease
  <2> QED
    BY <1>4, <2>1, <2>2, <2>3, <2>4, <2>5, <2>6, <2>7 DEF Goroutine, Engine
<1>5. CASE Environment
  BY <1>5 DEF Environment, LeaseLapses, ApprovalLapses, InteractionLapses, Crash
<1> QED
  BY <1>1, <1>2, <1>3, <1>4, <1>5 DEF Next

\* A goroutine takes its slot with the run, and no job is forgotten.
LEMMA PlacedStep == ASSUME BornInv, Next PROVE Placed'
<1> USE ConstantsAssumption
    DEF BornInv, TypeOK, Placed, SetJob, lease, rows, local, Goto, Stay, Release
<1>1. ASSUME Api PROVE Placed'
  <2>1. ASSUME NEW q \in Runs, CreateRun(q) \/ CancelRun(q) PROVE Placed'
    BY <2>1 DEF CreateRun, CancelRun
  <2>2. ASSUME NEW c \in Calls, NEW d \in Verdict, DecideApproval(c, d) PROVE Placed'
    BY <2>2 DEF DecideApproval, Requeue
  <2>3. ASSUME NEW i \in Inputs, NEW v \in {"answered", "cancelled"}, AnswerInteraction(i, v)
        PROVE  Placed'
    BY <2>3 DEF AnswerInteraction, Requeue
  <2> QED
    BY <1>1, <2>1, <2>2, <2>3 DEF Api
<1>2. CASE ExpireApprovals
  BY <1>2 DEF ExpireApprovals
<1>3. CASE LeaseNothing
  BY <1>3 DEF LeaseNothing
<1>4. ASSUME NEW s \in Slots, Goroutine(s) PROVE Placed'
  <2>1. ASSUME NEW q \in Runs, LeaseJob(s, q) PROVE Placed'
    <3>1. /\ at' = [at EXCEPT ![s] = q] /\ pc' = [pc EXCEPT ![s] = "leased"]
          /\ \A r \in Runs : job'[r] = "none" => job[r] = "none" /\ r # q
      BY <2>1 DEF LeaseJob
    <3>2. \A t \in Slots : /\ at'[t] = IF t = s THEN q ELSE at[t]
                           /\ pc'[t] = IF t = s THEN "leased" ELSE pc[t]
      BY <3>1
    <3>3. q # None /\ (\A t \in Slots : at[t] # None => at[t] \in Runs)
      OBVIOUS
    <3> QED
      BY <3>1, <3>2, <3>3
  <2>2. CASE RejectWorkspace(s) \/ StartRun(s) \/ StartConflict(s) \/ Heartbeat(s)
             \/ HeartbeatConflict(s) \/ ObserveCancel(s) \/ Abort(s) \/ FindCancelled(s)
             \/ FindFailure(s)
    BY <2>2 DEF RejectWorkspace, StartRun, StartConflict, Heartbeat, HeartbeatConflict,
                ObserveCancel, Abort, FindCancelled, FindFailure
  <2>3. CASE Engine(s)
    BY <2>3 DEF Engine, RequestApproval, RunCall, PollInput, RequestInput, Elicit,
                ReceiveAnswer, AskInput, Pause, Complete, Fail
  <2>4. CASE CompleteJob(s) \/ FailJob(s) \/ LoseOutcome(s)
    <3>1. /\ at' = [at EXCEPT ![s] = None] /\ pc' = [pc EXCEPT ![s] = "idle"]
          /\ \A q \in Runs : job'[q] = "none" => job[q] = "none"
      <4>1. CASE CompleteJob(s)
        BY <4>1 DEF CompleteJob
      <4>2. CASE FailJob(s)
        BY <4>2 DEF FailJob
      <4>3. CASE LoseOutcome(s)
        BY <4>3 DEF LoseOutcome
      <4> QED
        BY <2>4, <4>1, <4>2, <4>3
    <3>2. \A t \in Slots : /\ at'[t] = IF t = s THEN None ELSE at[t]
                           /\ pc'[t] = IF t = s THEN "idle" ELSE pc[t]
      BY <3>1
    <3>3. \A t \in Slots : at[t] # None => at[t] \in Runs
      OBVIOUS
    <3> QED
      BY <3>1, <3>2, <3>3
  <2> QED
    BY <1>4, <2>1, <2>2, <2>3, <2>4 DEF Goroutine
<1>5. CASE Environment
  BY <1>5 DEF Environment, LeaseLapses, ApprovalLapses, InteractionLapses, Crash
<1> QED
  BY <1>1, <1>2, <1>3, <1>4, <1>5 DEF Next

\* A held run is put up for lease only by a decision or a lapse, so without
\* them it never gets a second holder.
LEMMA FencedStep ==
  ASSUME NEW r \in Runs, BornInv, Fenced(r), Undisturbed(r), Next
  PROVE  Fenced(r)'
<1> USE ConstantsAssumption
    DEF BornInv, TypeOK, Fenced, Held, SetJob, lease, rows, local, Goto, Stay
<1>1. ASSUME Api PROVE Fenced(r)'
  <2>1. ASSUME NEW q \in Runs, CreateRun(q) PROVE Fenced(r)'
    BY <2>1 DEF CreateRun, Born, Placed
  <2>2. ASSUME NEW q \in Runs, CancelRun(q) PROVE Fenced(r)'
    BY <2>2 DEF CancelRun
  <2>3. ASSUME NEW c \in Calls, NEW d \in Verdict, DecideApproval(c, d) PROVE Fenced(r)'
    BY <2>3 DEF DecideApproval, Requeue, Undisturbed
  <2>4. ASSUME NEW i \in Inputs, NEW v \in {"answered", "cancelled"}, AnswerInteraction(i, v)
        PROVE  Fenced(r)'
    BY <2>4 DEF AnswerInteraction, Requeue, Undisturbed
  <2> QED
    BY <1>1, <2>1, <2>2, <2>3, <2>4 DEF Api
<1>2. CASE ExpireApprovals
  BY <1>2 DEF ExpireApprovals
<1>3. CASE LeaseNothing
  BY <1>3 DEF LeaseNothing, Exhausted
<1>4. ASSUME NEW s \in Slots, Goroutine(s) PROVE Fenced(r)'
  <2>1. ASSUME NEW q \in Runs, LeaseJob(s, q) PROVE Fenced(r)'
    <3>1. \A t \in Slots : at'[t] = IF t = s THEN q ELSE at[t]
      <4>1. at' = [at EXCEPT ![s] = q]
        BY <2>1 DEF LeaseJob
      <4> QED
        BY <4>1
    <3>2. CASE q = r
      <4>1. \A t \in Slots : at[t] # r
        BY <2>1, <3>2 DEF LeaseJob, Leasable
      <4>2. job'[r] = "leased" /\ ~lapsed'[r]
        BY <2>1, <3>2 DEF LeaseJob
      <4> QED
        BY <3>1, <4>1, <4>2
    <3>3. CASE q # r
      <4>1. \A t \in Slots : at'[t] = r => at[t] = r
        BY <3>1, <3>3
      <4>2. CASE Held(r)
        <5>1. job'[r] = job[r] /\ lapsed'[r] = lapsed[r]
          BY <2>1, <3>3, <4>2 DEF LeaseJob, Exhausted
        <5> QED
          BY <4>1, <4>2, <5>1
      <4>3. CASE ~Held(r)
        BY <4>1, <4>3
      <4> QED
        BY <4>2, <4>3
    <3> QED
      BY <3>2, <3>3
  <2>2. CASE RejectWorkspace(s) \/ StartRun(s) \/ StartConflict(s) \/ Abort(s)
             \/ HeartbeatConflict(s) \/ ObserveCancel(s) \/ FindCancelled(s) \/ FindFailure(s)
    BY <2>2 DEF RejectWorkspace, StartRun, StartConflict, Abort, HeartbeatConflict,
                ObserveCancel, FindCancelled, FindFailure
  <2>3. CASE Heartbeat(s)
    BY <2>3 DEF Heartbeat
  <2>4. CASE Engine(s)
    BY <2>4 DEF Engine, RequestApproval, RunCall, PollInput, RequestInput, Elicit,
                ReceiveAnswer, AskInput, Pause, Complete, Fail
  <2>5. CASE CompleteJob(s) \/ FailJob(s) \/ LoseOutcome(s)
    <3>1. /\ at' = [at EXCEPT ![s] = None]
          /\ \A q \in Runs : q # at[s] => job'[q] = job[q] /\ lapsed'[q] = lapsed[q]
      BY <2>5 DEF CompleteJob, FailJob, LoseOutcome, Release, OwnsLease
    <3>2. \A t \in Slots : at'[t] = r => t # s /\ at[t] = r
      BY <3>1
    <3>3. ASSUME NEW t \in Slots, at'[t] = r PROVE job'[r] = job[r] /\ lapsed'[r] = lapsed[r]
      BY <3>1, <3>2, <3>3
    <3> QED
      BY <3>2, <3>3
  <2> QED
    BY <1>4, <2>1, <2>2, <2>3, <2>4, <2>5 DEF Goroutine
<1>5. CASE Environment
  <2>1. ASSUME NEW q \in Runs, LeaseLapses(q) PROVE Fenced(r)'
    BY <2>1 DEF LeaseLapses, Undisturbed
  <2>2. ASSUME NEW c \in Calls, ApprovalLapses(c) PROVE Fenced(r)'
    BY <2>2 DEF ApprovalLapses
  <2>3. ASSUME NEW i \in Inputs, InteractionLapses(i) PROVE Fenced(r)'
    BY <2>3 DEF InteractionLapses
  <2>4. ASSUME NEW w \in Workers, Crash(w) PROVE Fenced(r)'
    BY <2>4 DEF Crash
  <2> QED
    BY <1>5, <2>1, <2>2, <2>3, <2>4 DEF Environment
<1> QED
  BY <1>1, <1>2, <1>3, <1>4, <1>5 DEF Next

\* The lease is a fence around a run, through every crash, cancellation,
\* expiry, conflict and takeover, as long as no user decides on the run and its
\* lease does not lapse while a goroutine holds it.  Both can happen, and
\* nothing else lets a second executor in.
THEOREM ExclusiveFence ==
  ASSUME NEW r \in Runs
  PROVE  Spec /\ [][Undisturbed(r)]_vars => []ExecutedOnce(r)
<1> DEFINE FenceInv == BornInv /\ Fenced(r)
<1>1. Init => FenceInv
  BY InitType, ConstantsAssumption DEF Init, BornInv, Born, Placed, Fenced, Held
<1>2. FenceInv /\ [Next]_vars /\ [Undisturbed(r)]_vars => FenceInv'
  <2> SUFFICES ASSUME FenceInv, [Next]_vars, [Undisturbed(r)]_vars PROVE FenceInv'
    OBVIOUS
  <2>1. CASE UNCHANGED vars
    BY <2>1 DEF BornInv, TypeOK, Born, Placed, Fenced, Held, vars
  <2>2. CASE Next /\ ~UNCHANGED vars
    <3>1. TypeOK' /\ Born' /\ Placed'
      BY <2>2, BornStep, PlacedStep, ApiType, WorkerType, EnvironmentType DEF BornInv, Next
    <3>2. Fenced(r)'
      BY <2>2, FencedStep
    <3> QED
      BY <3>1, <3>2 DEF BornInv
  <2> QED
    BY <2>1, <2>2
<1>3. FenceInv => ExecutedOnce(r)
  BY DEF Fenced, ExecutedOnce
<1> QED
  BY <1>1, <1>2, <1>3, PTL DEF Spec

-----------------------------------------------------------------------------
(* A run that waits for input.                                             *)

\* A run that does not begin to wait keeps its unanswered interaction.
Unmoved ==
  /\ \A r \in Runs : run'[r] = "awaiting_input" => run[r] = "awaiting_input"
  /\ \A i \in Inputs : interaction[i] \in {"pending", "lapsed"} =>
                         interaction'[i] \in {"pending", "lapsed"}

LEMMA WaitStep ==
  ASSUME TypeOK, Next
  PROVE  \/ Unmoved
         \/ \E i \in Inputs, status \in {"answered", "cancelled"} : AnswerInteraction(i, status)
         \/ \E s \in Slots, i \in Inputs : RunOf[i] = at[s] /\ AskInput(s, i)
<1> USE DEF Unmoved, TypeOK
<1>1. CASE Api
  <2>1. ASSUME NEW r \in Runs, CreateRun(r) \/ CancelRun(r) PROVE Unmoved
    BY <2>1 DEF CreateRun, CancelRun
  <2>2. ASSUME NEW c \in Calls, NEW d \in Verdict, DecideApproval(c, d) PROVE Unmoved
    BY <2>2 DEF DecideApproval, Requeue
  <2> QED
    BY <1>1, <2>1, <2>2 DEF Api
<1>2. CASE ExpireApprovals
  BY <1>2 DEF ExpireApprovals
<1>3. CASE LeaseNothing
  BY <1>3 DEF LeaseNothing, FailLostRuns
<1>4. ASSUME NEW s \in Slots, Goroutine(s)
      PROVE  Unmoved \/ \E i \in Inputs : RunOf[i] = at[s] /\ AskInput(s, i)
  <2>1. ASSUME NEW c \in Calls, RequestApproval(s, c) \/ RunCall(s, c) PROVE Unmoved
    BY <2>1 DEF RequestApproval, RunCall, Project, rows
  <2>2. ASSUME NEW i \in Inputs, PollInput(s, i) \/ ReceiveAnswer(s, i) PROVE Unmoved
    BY <2>2 DEF PollInput, ReceiveAnswer, rows
  <2>3. ASSUME NEW i \in Inputs, RequestInput(s, i) \/ Elicit(s, i)
        PROVE  RunOf[i] = at[s] /\ AskInput(s, i)
    BY <2>3 DEF RequestInput, Elicit
  <2>4. CASE Pause(s) \/ Complete(s) \/ Fail(s) \/ RejectWorkspace(s) \/ StartRun(s)
    BY <2>4 DEF Pause, Complete, Fail, RejectWorkspace, StartRun, Project, rows
  <2>5. CASE \E r \in Runs : LeaseJob(s, r)
    BY <2>5 DEF LeaseJob, FailLostRuns
  <2>6. CASE StartConflict(s) \/ Heartbeat(s) \/ HeartbeatConflict(s) \/ ObserveCancel(s)
             \/ Abort(s) \/ FindCancelled(s) \/ FindFailure(s)
    BY <2>6 DEF StartConflict, Heartbeat, HeartbeatConflict, ObserveCancel, Abort,
                FindCancelled, FindFailure, rows
  <2>7. CASE CompleteJob(s) \/ FailJob(s) \/ LoseOutcome(s)
    BY <2>7 DEF CompleteJob, FailJob, LoseOutcome, rows
  <2> QED
    BY <1>4, <2>1, <2>2, <2>3, <2>4, <2>5, <2>6, <2>7 DEF Goroutine, Engine
<1>5. CASE Environment
  <2>1. ASSUME NEW i \in Inputs, InteractionLapses(i) PROVE Unmoved
    BY <2>1 DEF InteractionLapses
  <2>2. ASSUME NEW c \in Calls, ApprovalLapses(c) PROVE Unmoved
    BY <2>2 DEF ApprovalLapses
  <2>3. ASSUME NEW r \in Runs, LeaseLapses(r) PROVE Unmoved
    BY <2>3 DEF LeaseLapses
  <2>4. ASSUME NEW w \in Workers, Crash(w) PROVE Unmoved
    BY <2>4 DEF Crash, rows
  <2> QED
    BY <1>5, <2>1, <2>2, <2>3, <2>4 DEF Environment
<1> QED
  BY <1>1, <1>2, <1>3, <1>4, <1>5 DEF Next, Api

\* The tables of runs and of interactions agree, for any number of interactions
\* asked, answered and lapsing in any order: whoever answers last moves the run.
THEOREM WaitsForSomebody == Spec => []AwaitsInput
<1>1. Init => TypeOK /\ AwaitsInput
  BY InitType DEF Init, AwaitsInput
<1>2. ASSUME TypeOK, AwaitsInput, [Next]_vars PROVE AwaitsInput'
  <2>1. CASE UNCHANGED vars
    BY <1>2, <2>1 DEF AwaitsInput, vars
  <2>2. CASE Unmoved
    BY <1>2, <2>2 DEF AwaitsInput, Unmoved
  <2>3. ASSUME NEW i \in Inputs, NEW status \in {"answered", "cancelled"},
               AnswerInteraction(i, status)
        PROVE  AwaitsInput'
    <3>1. RunOf[i] \in Runs
      BY ConstantsAssumption
    <3>2. \A j \in Inputs \ {i} : interaction'[j] = interaction[j]
      BY <1>2, <2>3 DEF AnswerInteraction, TypeOK
    <3>3. \A r \in Runs \ {RunOf[i]} : run'[r] = run[r]
      BY <1>2, <2>3, <3>1 DEF AnswerInteraction, ResumeInPlace, Requeue, TypeOK
    <3>4. CASE ResumeInPlace(i)
      BY <1>2, <3>1, <3>2, <3>3, <3>4 DEF ResumeInPlace, AwaitsInput, TypeOK
    <3>5. CASE Requeue(RunOf[i], "awaiting_input")
      BY <1>2, <3>1, <3>2, <3>3, <3>5 DEF Requeue, AwaitsInput, TypeOK
    <3> QED
      BY <2>3, <3>4, <3>5 DEF AnswerInteraction
  <2>4. ASSUME NEW s \in Slots, NEW i \in Inputs, RunOf[i] = at[s], AskInput(s, i)
        PROVE  AwaitsInput'
    <3>1. RunOf[i] \in Runs
      BY ConstantsAssumption
    <3>2. \A j \in Inputs : interaction[j] \in {"pending", "lapsed"} =>
                              interaction'[j] \in {"pending", "lapsed"}
      BY <1>2, <2>4 DEF AskInput, TypeOK
    <3>3. \A r \in Runs : run'[r] = "awaiting_input" =>
            \/ run[r] = "awaiting_input"
            \/ r = RunOf[i] /\ interaction[i] \in {"none", "pending", "lapsed"}
      BY <1>2, <2>4, <3>1 DEF AskInput, Project, TypeOK
    <3>4. interaction[i] \in {"none", "pending", "lapsed"} =>
            interaction'[i] \in {"pending", "lapsed"}
      BY <1>2, <2>4 DEF AskInput, TypeOK
    <3> QED
      BY <1>2, <3>2, <3>3, <3>4 DEF AwaitsInput
  <2> QED
    BY <1>2, <2>1, <2>2, <2>3, <2>4, WaitStep
<1>3. TypeOK /\ AwaitsInput /\ [Next]_vars => (TypeOK /\ AwaitsInput)'
  <2> SUFFICES ASSUME TypeOK, AwaitsInput, [Next]_vars PROVE TypeOK'
    BY <1>2
  <2>1. CASE UNCHANGED vars
    BY <2>1 DEF TypeOK, vars
  <2>2. CASE Next
    BY <2>2, ApiType, WorkerType, EnvironmentType DEF Next
  <2> QED
    BY <2>1, <2>2
<1> QED
  BY <1>1, <1>3, PTL DEF Spec
===============================================================================

------------------------------ MODULE PlanProofs ------------------------------
(***************************************************************************)
(* Theorems about PlanControl for any runs, keys, plans and steps.         *)
(***************************************************************************)
EXTENDS PlanControl, RunControlProofs, FiniteSetTheorems, SequenceTheorems

-----------------------------------------------------------------------------
(* The runs of PlanControl are runs of RunControl.                         *)

LEMMA PlanStep == PlanNext => [Next]_vars
<1> SUFFICES ASSUME PlanNext PROVE Next \/ UNCHANGED vars
  OBVIOUS
<1>1. ASSUME NEW r \in Runs, ReadPlan(r) \/ LookUpKey(r) \/ RefuseRun(r) PROVE UNCHANGED vars
  BY <1>1 DEF ReadPlan, LookUpKey, RefuseRun
<1>2. ASSUME NEW r \in Runs, CreatePlannedRun(r) \/ CancelPlannedRun(r) PROVE Next
  BY <1>2 DEF CreatePlannedRun, CancelPlannedRun, Next, Api
<1>3. ASSUME NEW p \in Planners, NEW approved \in BOOLEAN, DecidePlan(p, approved)
      PROVE  UNCHANGED vars
  BY <1>3 DEF DecidePlan
<1>4. ASSUME NEW s \in Slots, FailPlannedRun(s) \/ LosePlannedRun(s) PROVE Next
  BY <1>4 DEF FailPlannedRun, LosePlannedRun, Next, Goroutine, Engine
<1>5. ASSUME NEW s \in Slots,
             persistPlan(s) \/ \E marks \in SUBSET Steps : persistPlanProgress(s, marks)
      PROVE  UNCHANGED vars
  BY <1>5 DEF persistPlan, persistPlanProgress
<1>6. ASSUME NEW s \in Slots, ReleaseSlot(s) \/ OtherStep(s) PROVE Next
  BY <1>6 DEF ReleaseSlot, OtherStep, Next, Goroutine, Engine
<1>7. ASSUME LeaseNothing \/ \E r \in Runs : LeaseLapses(r) PROVE Next
  BY <1>7 DEF Next, Environment
<1>8. ASSUME NEW w \in Workers, CrashWorker(w) PROVE Next
  BY <1>8 DEF CrashWorker, Next, Environment
<1> QED
  BY <1>1, <1>2, <1>3, <1>4, <1>5, <1>6, <1>7, <1>8 DEF PlanNext

\* Keys and plans only restrict what runs do: what holds of every run holds
\* of runs created under idempotency keys and of runs that execute plans.
THEOREM PlansKeepRuns == PlanSpec => Spec
<1>1. PlanInit => Init
  BY DEF PlanInit
<1>2. [PlanNext]_allVars => [Next]_vars
  BY PlanStep DEF allVars
<1> QED
  BY <1>1, <1>2, PTL DEF PlanSpec, Spec

LEMMA RunTypes == TypeOK /\ [PlanNext]_allVars => TypeOK'
<1>1. TypeOK /\ [Next]_vars => TypeOK'
  BY ApiType, WorkerType, EnvironmentType DEF Next, TypeOK, vars
<1> QED
  BY <1>1, PlanStep DEF allVars
-----------------------------------------------------------------------------
(* Types.                                                                  *)

LEMMA PlanTypeInit == PlanInit => PlanTypeOK
<1> SUFFICES ASSUME PlanInit PROVE PlanTypeOK
  OBVIOUS
<1>1. TypeOK
  BY InitType DEF PlanInit
<1>2. <<>> \in Seq(Planners)
  BY EmptySeq
<1> QED
  BY <1>1, <1>2 DEF PlanInit, PlanTypeOK

LEMMA AnswerType ==
  ASSUME PlanTypeOK, NEW r \in Runs, NEW with \in Runs \cup {None}, Answer(r, with)
  PROVE  /\ request' \in [Runs -> {"new", "read", "looked", "answered"}]
         /\ reply' \in [Runs -> Runs \cup {None}]
  BY DEF PlanTypeOK, Answer

\* What a step does to the plans' part of the state is of its type.
LEMMA PlanTypeStep == PlanTypeOK /\ [PlanNext]_allVars => PlanTypeOK'
<1> SUFFICES ASSUME PlanTypeOK, [PlanNext]_allVars PROVE PlanTypeOK'
  OBVIOUS
<1>0. TypeOK'
  BY RunTypes DEF PlanTypeOK
<1> DEFINE Rest ==
             /\ request' \in [Runs -> {"new", "read", "looked", "answered"}]
             /\ reply' \in [Runs -> Runs \cup {None}]
             /\ keys' \in [Keys -> Runs \cup {None}]
             /\ plan' \in [Planners -> {"none", "awaiting_approval", "approved", "executing",
                                        "completed", "failed", "cancelled"}]
             /\ plans' \in Seq(Planners)
             /\ executor' \in [Planners -> Runs \cup {None}]
             /\ completed' \in [Planners -> SUBSET Steps]
             /\ reported' \in [Slots -> BOOLEAN]
             /\ consents' \in [Planners -> Nat]
<1>a. ASSUME Rest PROVE PlanTypeOK'
  BY <1>0, <1>a DEF PlanTypeOK
<1>1. ASSUME NEW r \in Runs, ReadPlan(r) \/ RefuseRun(r) PROVE Rest
  BY <1>1 DEF ReadPlan, RefuseRun, plansTable, PlanTypeOK
<1>2. ASSUME NEW r \in Runs, LookUpKey(r) PROVE Rest
  <2>1. keys[KeyOf[r]] \in Runs \cup {None}
    BY PlanAssumption DEF PlanTypeOK
  <2>2. /\ request' \in [Runs -> {"new", "read", "looked", "answered"}]
        /\ reply' \in [Runs -> Runs \cup {None}]
    BY <1>2, <2>1, AnswerType DEF LookUpKey, PlanTypeOK
  <2> QED
    BY <1>2, <2>2 DEF LookUpKey, plansTable, PlanTypeOK
<1>3. ASSUME NEW r \in Runs, CreatePlannedRun(r) PROVE Rest
  <2>1. /\ request' \in [Runs -> {"new", "read", "looked", "answered"}]
        /\ reply' \in [Runs -> Runs \cup {None}]
    BY <1>3, AnswerType DEF CreatePlannedRun
  <2> QED
    BY <1>3, <2>1, PlanAssumption DEF CreatePlannedRun, PlanTypeOK
<1>4. ASSUME NEW r \in Runs, CancelPlannedRun(r) PROVE Rest
  BY <1>4 DEF CancelPlannedRun, Close, client, PlanTypeOK
<1>5. ASSUME NEW p \in Planners, NEW approved \in BOOLEAN, DecidePlan(p, approved) PROVE Rest
  BY <1>5 DEF DecidePlan, client, PlanTypeOK
<1>6. ASSUME NEW s \in Slots, FailPlannedRun(s) PROVE Rest
  BY <1>6 DEF FailPlannedRun, Close, client, PlanTypeOK
<1>7. ASSUME NEW s \in Slots, persistPlan(s) PROVE Rest
  <2>1. at[s] \in Planners /\ plans \in Seq(Planners)
    BY <1>7 DEF persistPlan, PlanTypeOK
  <2>2. plans' \in Seq(Planners)
    BY <1>7, <2>1, AppendProperties DEF persistPlan
  <2> QED
    BY <1>7, <2>1, <2>2 DEF persistPlan, Reports, client, PlanTypeOK
<1>8. ASSUME NEW s \in Slots, NEW marks \in SUBSET Steps, persistPlanProgress(s, marks) PROVE Rest
  BY <1>8 DEF persistPlanProgress, Reports, client, PlanTypeOK
<1>9. ASSUME NEW s \in Slots, ReleaseSlot(s) PROVE Rest
  BY <1>9 DEF ReleaseSlot, client, plansTable, PlanTypeOK
<1>10. ASSUME NEW w \in Workers, CrashWorker(w) PROVE Rest
  BY <1>10 DEF CrashWorker, client, plansTable, PlanTypeOK
<1>11. ASSUME UNCHANGED planVars PROVE Rest
  BY <1>11 DEF planVars, PlanTypeOK
<1> HIDE DEF Rest
<1>12. ASSUME NEW s \in Slots, LosePlannedRun(s) PROVE Rest
  BY <1>11, <1>12 DEF LosePlannedRun
<1>13. ASSUME UNCHANGED allVars PROVE Rest
  <2>1. UNCHANGED planVars
    BY <1>13 DEF allVars, planVars
  <2> QED
    BY <1>11, <2>1
<1>14. Rest
  BY <1>1, <1>2, <1>3, <1>4, <1>5, <1>6, <1>7, <1>8, <1>9, <1>10, <1>11, <1>12, <1>13
     DEF PlanNext
<1> QED
  BY <1>a, <1>14

\* Every reachable state of the plans' tables is of its type.
THEOREM PlanTypes == PlanSpec => []PlanTypeOK
  BY PlanTypeInit, PlanTypeStep, PTL DEF PlanSpec

-----------------------------------------------------------------------------
(* One key, one run.                                                       *)

KeyInv == PlanTypeOK /\ \A r \in Runs : reply[r] # None => reply[r] = keys[KeyOf[r]]

LEMMA KeyStep == KeyInv /\ [PlanNext]_allVars => KeyInv'
<1> SUFFICES ASSUME KeyInv, [PlanNext]_allVars PROVE KeyInv'
  OBVIOUS
<1>0. PlanTypeOK'
  BY PlanTypeStep DEF KeyInv
<1> DEFINE Goal == \A r \in Runs : reply'[r] # None => reply'[r] = keys'[KeyOf[r]]
<1>1. ASSUME reply' = reply, keys' = keys PROVE Goal
  BY <1>1 DEF KeyInv
<1>2. ASSUME NEW r \in Runs, LookUpKey(r) PROVE Goal
  BY <1>2 DEF LookUpKey, Answer, KeyInv, PlanTypeOK
<1>3. ASSUME NEW r \in Runs, CreatePlannedRun(r) PROVE Goal
  <2>1. /\ keys[KeyOf[r]] = None /\ keys' = [keys EXCEPT ![KeyOf[r]] = r]
        /\ reply' = [reply EXCEPT ![r] = r]
    BY <1>3 DEF CreatePlannedRun, Accepted, Answer
  <2>2. keys'[KeyOf[r]] = r /\ reply'[r] = r
    BY <2>1, PlanAssumption DEF KeyInv, PlanTypeOK
  <2>3. ASSUME NEW q \in Runs, q # r, reply'[q] # None PROVE reply'[q] = keys'[KeyOf[q]]
    <3>1. reply'[q] = reply[q] /\ reply[q] = keys[KeyOf[q]]
      BY <2>1, <2>3 DEF KeyInv, PlanTypeOK
    <3>2. KeyOf[q] # KeyOf[r]
      BY <2>1, <2>3, <3>1
    <3> QED
      BY <2>1, <3>1, <3>2, PlanAssumption DEF KeyInv, PlanTypeOK
  <2> QED
    BY <2>2, <2>3
<1>4. \/ reply' = reply /\ keys' = keys
      \/ \E r \in Runs : LookUpKey(r) \/ CreatePlannedRun(r)
  BY DEF PlanNext, ReadPlan, RefuseRun, CancelPlannedRun, DecidePlan, FailPlannedRun,
         LosePlannedRun, persistPlan, persistPlanProgress, ReleaseSlot, CrashWorker,
         client, planVars, allVars
<1> HIDE DEF Goal
<1>5. Goal
  BY <1>1, <1>2, <1>3, <1>4
<1> QED
  BY <1>0, <1>5 DEF KeyInv, Goal

\* However many requests carry one key, and however they race between the
\* look-up and the insertion, they are answered with one run.
THEOREM OneRunPerKey == PlanSpec => []KeysAgree
<1>1. PlanInit => KeyInv
  BY PlanTypeInit DEF PlanInit, KeyInv
<1>2. KeyInv => KeysAgree
  BY DEF KeyInv, KeysAgree
<1> QED
  BY <1>1, <1>2, KeyStep, PTL DEF PlanSpec

-----------------------------------------------------------------------------
(* One approval, one execution.                                            *)

Created(p) == {r \in Runs : PlanOf[r] = p /\ run[r] # "none"}

\* An approved plan still has an execution to come.
SpendInv ==
  /\ PlanTypeOK
  /\ \A p \in Planners :
       Cardinality(Created(p)) + (IF plan[p] = "approved" THEN 1 ELSE 0) <= consents[p]

SameRuns == \A r \in Runs : run'[r] = "none" <=> run[r] = "none"

\* Only the request of a client creates a run, and none is forgotten.
LEMMA RunsStay ==
  ASSUME PlanTypeOK, [PlanNext]_allVars
  PROVE  SameRuns \/ \E r \in Runs : CreatePlannedRun(r)
<1>0. /\ run \in [Runs -> RunStatus]
      /\ \A r \in Active \cup Startable : r # "none"
  BY DEF PlanTypeOK, TypeOK, Active, Startable
<1>1. ASSUME run' = run PROVE SameRuns
  BY <1>1 DEF SameRuns
<1>2. ASSUME NEW r, NEW from, "none" \notin from, NEW to, to # "none", Project(r, from, to)
      PROVE  SameRuns
  BY <1>0, <1>2 DEF Project, SameRuns
<1>3. ASSUME NEW r \in Runs, CancelPlannedRun(r) PROVE SameRuns
  BY <1>0, <1>3 DEF CancelPlannedRun, CancelRun, SameRuns
<1>4. ASSUME NEW s \in Slots, RejectWorkspace(s) \/ Fail(s) \/ Complete(s) PROVE SameRuns
  <2>1. CASE RejectWorkspace(s)
    BY <1>1, <1>2, <2>1 DEF RejectWorkspace
  <2>2. CASE Fail(s) \/ Complete(s)
    BY <1>2, <2>2 DEF Fail, Complete
  <2> QED
    BY <1>4, <2>1, <2>2
<1>5. ASSUME FailLostRuns PROVE SameRuns
  BY <1>0, <1>5 DEF FailLostRuns, ExecutorLost, SameRuns
<1>6. ASSUME NEW s \in Slots, OtherStep(s) PROVE SameRuns
  <2>1. CASE \E r \in Runs : LeaseJob(s, r)
    BY <1>5, <2>1 DEF LeaseJob
  <2>2. CASE StartRun(s)
    BY <1>0, <2>2 DEF StartRun, SameRuns
  <2>3. CASE \/ StartConflict(s) \/ Heartbeat(s) \/ HeartbeatConflict(s) \/ ObserveCancel(s)
             \/ Abort(s) \/ FindCancelled(s) \/ FindFailure(s)
    BY <1>1, <2>3 DEF StartConflict, Heartbeat, HeartbeatConflict, ObserveCancel, Abort,
                      FindCancelled, FindFailure, rows
  <2> QED
    BY <1>4, <1>6, <2>1, <2>2, <2>3 DEF OtherStep
<1>7. ASSUME NEW s \in Slots, ReleaseSlot(s) PROVE SameRuns
  BY <1>1, <1>7 DEF ReleaseSlot, CompleteJob, FailJob, LoseOutcome, rows
<1>8. ASSUME NEW w \in Workers, CrashWorker(w) PROVE SameRuns
  BY <1>1, <1>8 DEF CrashWorker, Crash, rows
<1>9. ASSUME LeaseNothing \/ \E r \in Runs : LeaseLapses(r) PROVE SameRuns
  BY <1>1, <1>5, <1>9 DEF LeaseNothing, LeaseLapses
<1>10. ASSUME NEW s \in Slots, FailPlannedRun(s) \/ LosePlannedRun(s) PROVE SameRuns
  BY <1>4, <1>10 DEF FailPlannedRun, LosePlannedRun
<1>11. ASSUME UNCHANGED vars PROVE SameRuns
  BY <1>1, <1>11 DEF vars
<1>12. ASSUME NEW r \in Runs, ReadPlan(r) \/ LookUpKey(r) \/ RefuseRun(r) PROVE SameRuns
  BY <1>11, <1>12 DEF ReadPlan, LookUpKey, RefuseRun
<1>13. ASSUME NEW p \in Planners, NEW approved \in BOOLEAN, DecidePlan(p, approved) PROVE SameRuns
  BY <1>11, <1>13 DEF DecidePlan
<1>14. ASSUME NEW s \in Slots,
              persistPlan(s) \/ \E marks \in SUBSET Steps : persistPlanProgress(s, marks)
       PROVE  SameRuns
  BY <1>11, <1>14 DEF persistPlan, persistPlanProgress
<1>15. ASSUME UNCHANGED allVars PROVE SameRuns
  BY <1>1, <1>15 DEF allVars, vars
<1> HIDE DEF SameRuns
<1> QED
  BY <1>3, <1>6, <1>7, <1>8, <1>9, <1>10, <1>12, <1>13, <1>14, <1>15 DEF PlanNext

\* Only a user makes a plan approved, and a creation takes the approval.
LEMMA ConsentStep ==
  ASSUME PlanTypeOK, [PlanNext]_allVars, ~\E r \in Runs : CreatePlannedRun(r),
         NEW p \in Planners
  PROVE  \/ consents'[p] = consents[p] /\ (plan'[p] = "approved" => plan[p] = "approved")
         \/ consents'[p] = consents[p] + 1 /\ plan[p] # "approved"
<1> DEFINE Kept == consents'[p] = consents[p] /\ (plan'[p] = "approved" => plan[p] = "approved")
           Given == consents'[p] = consents[p] + 1 /\ plan[p] # "approved"
<1> USE DEF PlanTypeOK
<1>1. ASSUME UNCHANGED plan, UNCHANGED consents PROVE Kept
  BY <1>1
<1>2. ASSUME NEW q \in Planners, NEW approved \in BOOLEAN, DecidePlan(q, approved)
      PROVE  Kept \/ Given
  BY <1>2 DEF DecidePlan
<1>3. ASSUME NEW r, NEW status \in {"cancelled", "failed"}, Close(r, status), UNCHANGED consents
      PROVE  Kept
  BY <1>3 DEF Close
<1>4. ASSUME NEW s \in Slots, persistPlan(s) PROVE Kept
  BY <1>4 DEF persistPlan
<1>5. ASSUME NEW s \in Slots, NEW marks \in SUBSET Steps, persistPlanProgress(s, marks) PROVE Kept
  BY <1>5 DEF persistPlanProgress
<1>6. ASSUME NEW r \in Runs, CancelPlannedRun(r) PROVE Kept
  BY <1>3, <1>6 DEF CancelPlannedRun
<1>7. ASSUME NEW s \in Slots, FailPlannedRun(s) PROVE Kept
  BY <1>3, <1>7 DEF FailPlannedRun
<1>8. \/ UNCHANGED plan /\ UNCHANGED consents
      \/ \E r \in Runs : CancelPlannedRun(r)
      \/ \E q \in Planners, approved \in BOOLEAN : DecidePlan(q, approved)
      \/ \E s \in Slots : \/ FailPlannedRun(s) \/ persistPlan(s)
                          \/ \E marks \in SUBSET Steps : persistPlanProgress(s, marks)
  BY DEF PlanNext, ReadPlan, LookUpKey, RefuseRun, LosePlannedRun, ReleaseSlot, CrashWorker,
         plansTable, planVars, allVars
<1> HIDE DEF Kept, Given
<1>9. Kept \/ Given
  BY <1>1, <1>2, <1>4, <1>5, <1>6, <1>7, <1>8
<1> QED
  BY <1>9 DEF Kept, Given

LEMMA SpendStep ==
  ASSUME IsFiniteSet(Runs), SpendInv, [PlanNext]_allVars
  PROVE  SpendInv'
<1>0. PlanTypeOK /\ PlanTypeOK'
  BY PlanTypeStep DEF SpendInv
<1>1. ASSUME NEW p \in Planners
      PROVE  Cardinality(Created(p))' + (IF plan'[p] = "approved" THEN 1 ELSE 0) <= consents'[p]
  <2> DEFINE n == Cardinality(Created(p))
             ready == IF plan[p] = "approved" THEN 1 ELSE 0
  <2>1. IsFiniteSet(Created(p)) /\ n \in Nat
    BY FS_Subset, FS_CardinalityType DEF Created
  <2>2. n + ready <= consents[p] /\ consents[p] \in Nat
    BY <1>0 DEF SpendInv, PlanTypeOK
  <2>3. ASSUME SameRuns, ~\E r \in Runs : CreatePlannedRun(r)
        PROVE  Cardinality(Created(p))' + (IF plan'[p] = "approved" THEN 1 ELSE 0) <= consents'[p]
    <3>1. Created(p)' = Created(p)
      BY <2>3 DEF Created, SameRuns
    <3>2. Cardinality(Created(p))' = n
      BY <3>1
    <3>3. \/ consents'[p] = consents[p] /\ (plan'[p] = "approved" => plan[p] = "approved")
          \/ consents'[p] = consents[p] + 1 /\ plan[p] # "approved"
      BY <1>0, <2>3, ConsentStep
    <3> HIDE DEF n
    <3> QED
      BY ONLY <2>1, <2>2, <3>2, <3>3
  <2>4. ASSUME NEW r \in Runs, CreatePlannedRun(r)
        PROVE  Cardinality(Created(p))' + (IF plan'[p] = "approved" THEN 1 ELSE 0) <= consents'[p]
    <3>1. /\ run[r] = "none" /\ run' = [run EXCEPT ![r] = "queued"] /\ consents' = consents
          /\ run \in [Runs -> RunStatus]
      BY <1>0, <2>4 DEF CreatePlannedRun, CreateRun, PlanTypeOK, TypeOK
    <3>2. CASE PlanOf[r] = p
      <4>1. Created(p)' = Created(p) \cup {r} /\ r \notin Created(p)
        BY <3>1, <3>2 DEF Created
      <4>2. Cardinality(Created(p))' = n + 1
        BY <2>1, <4>1, FS_AddElement
      <4>3. plan[p] = "approved" /\ plan' = [plan EXCEPT ![p] = "executing"]
        BY <2>4, <3>2, ConstantsAssumption, PlanAssumption DEF CreatePlannedRun, Accepted
      <4>4. plan'[p] = "executing"
        BY <1>0, <4>3 DEF PlanTypeOK
      <4> HIDE DEF n
      <4> QED
        BY ONLY <2>1, <2>2, <3>1, <4>2, <4>3, <4>4
    <3>3. CASE PlanOf[r] # p
      <4>1. Created(p)' = Created(p)
        BY <3>1, <3>3 DEF Created
      <4>2. plan'[p] = plan[p]
        BY <1>0, <2>4, <3>3 DEF CreatePlannedRun, PlanTypeOK
      <4>3. Cardinality(Created(p))' = n
        BY <4>1
      <4> HIDE DEF n
      <4> QED
        BY ONLY <2>2, <3>1, <4>2, <4>3
    <3> QED
      BY <3>2, <3>3
  <2> QED
    BY <1>0, <2>3, <2>4, RunsStay
<1> QED
  BY <1>0, <1>1 DEF SpendInv

\* A plan is executed at most once for each approval, for any number of
\* requests, keys and workers.
THEOREM ConsentsCover ==
  ASSUME IsFiniteSet(Runs)
  PROVE  PlanSpec => []ApprovalsSpent
<1>1. PlanInit => SpendInv
  <2> SUFFICES ASSUME PlanInit PROVE SpendInv
    OBVIOUS
  <2>1. PlanTypeOK
    BY PlanTypeInit
  <2>2. \A p \in Planners : Created(p) = {} /\ plan[p] = "none" /\ consents[p] = 0
    BY DEF PlanInit, Init, Created
  <2> QED
    BY <2>1, <2>2, FS_EmptySet DEF SpendInv
<1>2. SpendInv /\ [PlanNext]_allVars => SpendInv'
  BY SpendStep
<1>3. SpendInv => ApprovalsSpent
  <2> SUFFICES ASSUME SpendInv, NEW p \in Planners
               PROVE  Cardinality(Created(p)) <= consents[p]
    BY DEF ApprovalsSpent, Created
  <2>1. Cardinality(Created(p)) \in Nat /\ consents[p] \in Nat
    BY FS_Subset, FS_CardinalityType DEF Created, SpendInv, PlanTypeOK
  <2> QED
    BY <2>1 DEF SpendInv
<1> QED
  BY <1>1, <1>2, <1>3, PTL DEF PlanSpec

-----------------------------------------------------------------------------
(* Progress of an execution goes to its own plan.                          *)

OwnInv ==
  /\ PlanTypeOK
  /\ \A s \in Slots : pc[s] # "idle" => at[s] # None
  /\ \A p \in Planners : executor[p] # None => PlanOf[executor[p]] = p /\ p \in Range(plans)
  /\ \A p \in Planners : plan[p] \in {"awaiting_approval", "approved"} => p \in Range(plans)
  /\ \A i, j \in 1..Len(plans) : plans[i] = plans[j] => i = j

LEMMA RangeMeans ==
  ASSUME NEW ps \in Seq(Planners), NEW p
  PROVE  p \in Range(ps) <=> \E i \in 1..Len(ps) : ps[i] = p
  BY DEF Range

\* The newest of the plans that r executes is its plan.
LEMMA OwnNewest ==
  ASSUME OwnInv, NEW r \in Runs, NEW q \in Planners, PlanOf[r] = q, executor[q] = r
  PROVE  Progressed(r) = {q}
<1> DEFINE own == {p \in Candidates(r) : executor[p] = r}
<1>1. plans \in Seq(Planners) /\ DOMAIN plans = 1..Len(plans) /\ Len(plans) \in Nat
  BY LenProperties DEF OwnInv, PlanTypeOK
<1>2. q \in Range(plans) /\ SessionOf[q] = SessionOf[r] /\ r # None
  BY ConstantsAssumption, PlanAssumption DEF OwnInv
<1>3. q \in own
  BY <1>2 DEF Candidates
<1>4. ASSUME NEW x \in own PROVE x = q
  <2>1. x \in Range(plans) /\ executor[x] = r
    BY DEF Candidates
  <2>2. x \in Planners
    BY <1>1, <2>1, RangeMeans, ElementOfSeq
  <2> QED
    BY <1>2, <2>1, <2>2 DEF OwnInv
<1>5. own = {q}
  BY <1>3, <1>4
<1>6. PICK i \in 1..Len(plans) : plans[i] = q
  BY <1>1, <1>2, RangeMeans
<1>7. {k \in DOMAIN plans : plans[k] \in {q}} = {i}
  BY <1>1, <1>6 DEF OwnInv
<1>8. Max({i}) = i
  BY DEF Max
<1> HIDE DEF own
<1>9. Progressed(r) = {plans[Max({k \in DOMAIN plans : plans[k] \in own})]}
  BY <1>3 DEF Progressed, own
<1> QED
  BY <1>5, <1>6, <1>7, <1>8, <1>9

\* A busy slot holds a run.
LEMMA HoldsStep ==
  ASSUME OwnInv, [PlanNext]_allVars, NEW s \in Slots, pc'[s] # "idle"
  PROVE  at'[s] # None
<1> DEFINE Kept == at' = at /\ \A t \in Slots : pc'[t] # "idle" => pc[t] # "idle"
           Goal == pc'[s] # "idle" => at'[s] # None
<1>0. /\ pc \in [Slots -> {"idle", "leased", "active", "check", "ack", "failing"}]
      /\ at \in [Slots -> Runs \cup {None}] /\ None \notin Runs
      /\ \A t \in Slots : pc[t] # "idle" => at[t] # None
  BY ConstantsAssumption DEF OwnInv, PlanTypeOK, TypeOK
<1>1. ASSUME Kept PROVE Goal
  BY <1>0, <1>1
<1>2. ASSUME UNCHANGED local PROVE Kept
  BY <1>2 DEF local
<1>3. ASSUME NEW t \in Slots, NEW from, from # "idle", NEW to, Goto(t, from, to), Stay
      PROVE  Kept
  BY <1>0, <1>3 DEF Goto, Stay
<1>4. ASSUME NEW r \in Runs,
             \/ ReadPlan(r) \/ LookUpKey(r) \/ RefuseRun(r)
             \/ CreatePlannedRun(r) \/ CancelPlannedRun(r) \/ LeaseLapses(r)
      PROVE  UNCHANGED local
  BY <1>4 DEF ReadPlan, LookUpKey, RefuseRun, CreatePlannedRun, CreateRun, CancelPlannedRun,
              CancelRun, LeaseLapses, vars, local
<1>5. ASSUME NEW p \in Planners, NEW approved \in BOOLEAN, DecidePlan(p, approved)
      PROVE  UNCHANGED local
  BY <1>5 DEF DecidePlan, vars, local
<1>6. ASSUME NEW t \in Slots, RejectWorkspace(t) \/ Fail(t) \/ Complete(t) PROVE Kept
  BY <1>3, <1>6 DEF RejectWorkspace, Fail, Complete
<1>7. ASSUME NEW t \in Slots,
             persistPlan(t) \/ \E marks \in SUBSET Steps : persistPlanProgress(t, marks)
      PROVE  UNCHANGED local
  BY <1>7 DEF persistPlan, persistPlanProgress, vars, local
<1>8. ASSUME NEW t \in Slots, ReleaseSlot(t) PROVE Goal
  <2>1. Release(t)
    BY <1>8 DEF ReleaseSlot, CompleteJob, FailJob, LoseOutcome
  <2> QED
    BY <1>0, <2>1 DEF Release
<1>9. ASSUME NEW t \in Slots, OtherStep(t) PROVE Goal
  <2>1. ASSUME NEW r \in Runs, LeaseJob(t, r) PROVE Goal
    BY <1>0, <2>1 DEF LeaseJob
  <2>2. CASE StartRun(t) \/ StartConflict(t) \/ HeartbeatConflict(t) \/ ObserveCancel(t)
             \/ FindCancelled(t) \/ FindFailure(t)
    <3>1. Kept
      BY <1>3, <2>2 DEF StartRun, StartConflict, HeartbeatConflict, ObserveCancel,
                        FindCancelled, FindFailure
    <3> QED
      BY <1>1, <3>1
  <2>3. CASE Heartbeat(t)
    <3>1. UNCHANGED local
      BY <2>3 DEF Heartbeat, local
    <3> QED
      BY <1>1, <1>2, <3>1
  <2>4. CASE Abort(t)
    <3>1. Kept
      BY <1>0, <2>4 DEF Abort, Stay
    <3> QED
      BY <1>1, <3>1
  <2>5. CASE Complete(t)
    BY <1>1, <1>6, <2>5
  <2> QED
    BY <1>9, <2>1, <2>2, <2>3, <2>4, <2>5 DEF OtherStep
<1>10. ASSUME NEW w \in Workers, CrashWorker(w) PROVE Goal
  BY <1>0, <1>10 DEF CrashWorker, Crash
<1>11. ASSUME LeaseNothing PROVE UNCHANGED local
  BY <1>11 DEF LeaseNothing, local
<1>12. ASSUME NEW t \in Slots, FailPlannedRun(t) \/ LosePlannedRun(t) PROVE Kept
  BY <1>6, <1>12 DEF FailPlannedRun, LosePlannedRun
<1>13. ASSUME UNCHANGED allVars PROVE UNCHANGED local
  BY <1>13 DEF allVars, vars, local
<1> HIDE DEF Kept, Goal
<1>14. Goal
  BY <1>1, <1>2, <1>4, <1>5, <1>7, <1>8, <1>9, <1>10, <1>11, <1>12, <1>13 DEF PlanNext
<1> QED
  BY <1>14 DEF Goal

LEMMA OwnStep == OwnInv /\ [PlanNext]_allVars => OwnInv'
<1> SUFFICES ASSUME OwnInv, [PlanNext]_allVars PROVE OwnInv'
  OBVIOUS
<1>0. PlanTypeOK /\ PlanTypeOK' /\ \A s \in Slots : pc'[s] # "idle" => at'[s] # None
  BY PlanTypeStep, HoldsStep DEF OwnInv
<1> DEFINE Waits(p) == plan[p] \in {"awaiting_approval", "approved"}
           Goal == /\ \A p \in Planners : executor'[p] # None =>
                        PlanOf[executor'[p]] = p /\ p \in Range(plans')
                   /\ \A p \in Planners : plan'[p] \in {"awaiting_approval", "approved"} =>
                        p \in Range(plans')
                   /\ \A i, j \in 1..Len(plans') : plans'[i] = plans'[j] => i = j
<1>1. ASSUME plans' = plans, executor' = executor,
             \A p \in Planners : plan'[p] \in {"awaiting_approval", "approved"} => Waits(p)
      PROVE  Goal
  BY <1>1 DEF OwnInv
<1>2. ASSUME NEW r \in Runs, CreatePlannedRun(r) PROVE Goal
  <2>1. CASE PlanOf[r] = None
    BY <1>1, <1>2, <2>1 DEF CreatePlannedRun
  <2>2. CASE PlanOf[r] # None
    <3>1. /\ PlanOf[r] \in Planners /\ plan[PlanOf[r]] = "approved" /\ plans' = plans
          /\ plan' = [plan EXCEPT ![PlanOf[r]] = "executing"]
          /\ executor' = [executor EXCEPT ![PlanOf[r]] = r]
      BY <1>2, <2>2, PlanAssumption DEF CreatePlannedRun, Accepted
    <3>2. PlanOf[r] \in Range(plans)
      BY <3>1 DEF OwnInv
    <3> QED
      BY <1>0, <3>1, <3>2 DEF OwnInv, PlanTypeOK
  <2> QED
    BY <2>1, <2>2
<1>3. ASSUME NEW s \in Slots, persistPlan(s) PROVE Goal
  <2>1. /\ at[s] \in Planners /\ executor' = executor
        /\ plan' = [plan EXCEPT ![at[s]] = "awaiting_approval"]
        /\ plans' = IF at[s] \in Range(plans) THEN plans ELSE Append(plans, at[s])
    BY <1>3 DEF persistPlan
  <2>2. plans \in Seq(Planners) /\ plans' \in Seq(Planners) /\ Len(plans) \in Nat
    BY <1>0, LenProperties DEF PlanTypeOK
  <2>3. CASE at[s] \in Range(plans)
    BY <1>0, <2>1, <2>3 DEF OwnInv, PlanTypeOK
  <2>4. CASE at[s] \notin Range(plans)
    <3>1. /\ Len(plans') = Len(plans) + 1 /\ plans'[Len(plans) + 1] = at[s]
          /\ \A i \in 1..Len(plans) : plans'[i] = plans[i]
      BY <2>1, <2>2, <2>4, AppendProperties
    <3>2. \A p \in Range(plans) \cup {at[s]} : p \in Range(plans')
      <4>1. ASSUME NEW p \in Range(plans) PROVE \E i \in 1..Len(plans') : plans'[i] = p
        <5>1. PICK i \in 1..Len(plans) : plans[i] = p
          BY <2>2, <4>1, RangeMeans
        <5> QED
          BY <2>2, <3>1, <5>1
      <4>2. \E i \in 1..Len(plans') : plans'[i] = at[s]
        BY <2>2, <3>1
      <4> QED
        BY <2>2, <4>1, <4>2, RangeMeans
    <3>3. \A i \in 1..Len(plans) : plans[i] # at[s]
      BY <2>2, <2>4, RangeMeans
    <3>4. \A i, j \in 1..Len(plans') : plans'[i] = plans'[j] => i = j
      <4>1. \A i, j \in 1..Len(plans) : plans[i] = plans[j] => i = j
        BY DEF OwnInv
      <4> QED
        BY ONLY <2>2, <3>1, <3>3, <4>1
    <3>5. \A p \in Planners : plan'[p] \in {"awaiting_approval", "approved"} =>
            p \in Range(plans) \cup {at[s]}
      BY <1>0, <2>1 DEF OwnInv, PlanTypeOK
    <3> QED
      BY <2>1, <3>2, <3>4, <3>5 DEF OwnInv
  <2> QED
    BY <2>3, <2>4
<1>4. ASSUME NEW q \in Planners, NEW approved \in BOOLEAN, DecidePlan(q, approved) PROVE Goal
  BY <1>0, <1>1, <1>4 DEF DecidePlan, PlanTypeOK
<1>5. ASSUME NEW r, NEW status \in {"cancelled", "failed"}, Close(r, status),
             UNCHANGED <<plans, executor>>
      PROVE  Goal
  BY <1>1, <1>5 DEF Close
<1>6. ASSUME NEW s \in Slots, NEW marks \in SUBSET Steps, persistPlanProgress(s, marks) PROVE Goal
  BY <1>1, <1>6 DEF persistPlanProgress
<1>7. ASSUME UNCHANGED <<plan, plans, executor>> PROVE Goal
  BY <1>1, <1>7
<1>8. ASSUME NEW r \in Runs, CancelPlannedRun(r) PROVE Goal
  BY <1>5, <1>8 DEF CancelPlannedRun
<1>9. ASSUME NEW s \in Slots, FailPlannedRun(s) PROVE Goal
  BY <1>5, <1>9 DEF FailPlannedRun
<1>10. \/ UNCHANGED <<plan, plans, executor>>
       \/ \E r \in Runs : CreatePlannedRun(r) \/ CancelPlannedRun(r)
       \/ \E q \in Planners, approved \in BOOLEAN : DecidePlan(q, approved)
       \/ \E s \in Slots : \/ FailPlannedRun(s) \/ persistPlan(s)
                           \/ \E marks \in SUBSET Steps : persistPlanProgress(s, marks)
  BY DEF PlanNext, ReadPlan, LookUpKey, RefuseRun, LosePlannedRun, ReleaseSlot, CrashWorker,
         plansTable, planVars, allVars
<1> HIDE DEF Goal
<1>11. Goal
  BY <1>2, <1>3, <1>4, <1>6, <1>7, <1>8, <1>9, <1>10
<1> QED
  BY <1>0, <1>11 DEF OwnInv, Goal

\* While a plan is a run's to execute, that run marks no other plan.
THEOREM ProgressIsOwn == PlanSpec => OwnProgress
<1> DEFINE Own == \A s \in Slots, p \in Planners :
                    /\ reported'[s] /\ ~reported[s]
                    /\ PlanOf[at[s]] \notin {None, p} /\ executor[PlanOf[at[s]]] = at[s]
                    => <<plan[p], completed[p]>>' = <<plan[p], completed[p]>>
<1>1. PlanInit => OwnInv
  <2> SUFFICES ASSUME PlanInit PROVE OwnInv
    OBVIOUS
  <2>1. PlanTypeOK
    BY PlanTypeInit
  <2> QED
    BY <2>1 DEF PlanInit, Init, OwnInv
<1>2. ASSUME OwnInv, [PlanNext]_allVars PROVE Own
  <2> SUFFICES ASSUME NEW s \in Slots, NEW p \in Planners, reported'[s], ~reported[s],
                      PlanOf[at[s]] \notin {None, p}, executor[PlanOf[at[s]]] = at[s]
               PROVE  plan'[p] = plan[p] /\ completed'[p] = completed[p]
    OBVIOUS
  <2>0. reported \in [Slots -> BOOLEAN]
    BY <1>2 DEF OwnInv, PlanTypeOK
  <2>1. persistPlan(s) \/ \E marks \in SUBSET Steps : persistPlanProgress(s, marks)
    <3>1. ASSUME NEW t \in Slots, Reports(t) PROVE t = s
      BY <2>0, <3>1 DEF Reports
    <3>2. ASSUME NEW t \in Slots, ReleaseSlot(t) PROVE FALSE
      BY <2>0, <3>2 DEF ReleaseSlot
    <3>3. ASSUME NEW w \in Workers, CrashWorker(w) PROVE FALSE
      BY <3>3, Zenon DEF CrashWorker
    <3>4. reported' # reported
      OBVIOUS
    <3>5. \/ \E t \in Slots : \/ persistPlan(t)
                              \/ \E marks \in SUBSET Steps : persistPlanProgress(t, marks)
                              \/ ReleaseSlot(t)
          \/ \E w \in Workers : CrashWorker(w)
      BY <1>2, <3>4 DEF PlanNext, ReadPlan, LookUpKey, RefuseRun, CreatePlannedRun,
         CancelPlannedRun, DecidePlan, FailPlannedRun, LosePlannedRun, planVars, allVars
    <3> QED
      BY <3>1, <3>2, <3>3, <3>5 DEF persistPlan, persistPlanProgress
  <2>2. at[s] \in Runs
    BY <1>2, <2>1, ConstantsAssumption
       DEF persistPlan, persistPlanProgress, Reports, OwnInv, PlanTypeOK, TypeOK
  <2>3. PlanOf[at[s]] \in Planners /\ PlanOf[at[s]] # p
    BY <2>2, PlanAssumption
  <2>4. CASE persistPlan(s)
    BY <2>3, <2>4, PlanAssumption, ConstantsAssumption DEF persistPlan
  <2>5. ASSUME NEW marks \in SUBSET Steps, persistPlanProgress(s, marks)
        PROVE  plan'[p] = plan[p] /\ completed'[p] = completed[p]
    <3>1. p \notin Progressed(at[s])
      BY <1>2, <2>2, <2>3, OwnNewest
    <3> QED
      BY <2>5, <3>1 DEF persistPlanProgress
  <2> QED
    BY <2>1, <2>4, <2>5
<1>3. OwnInv /\ [PlanNext]_allVars => [Own]_allVars
  BY <1>2
<1> QED
  BY <1>1, <1>3, OwnStep, PTL DEF PlanSpec, OwnProgress

=============================================================================

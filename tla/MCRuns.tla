-------------------------------- MODULE MCRuns --------------------------------
(***************************************************************************)
(* The instances of RunControl that its properties are checked on, in one  *)
(* sum: focus, chosen at the start, says which one a behaviour is of.      *)
(* They differ in what the execution asks for and in what is assumed of    *)
(* the environment:                                                        *)
(*   "approvals"  two dangerous calls, any lapse, decisions at any time;   *)
(*   "inputs"     a questionnaire and an elicitation, under the same;      *)
(*   "timely"     a call and a questionnaire, leases renewed in time,      *)
(*                decisions once the lease is free, no lost rejection.     *)
(***************************************************************************)
EXTENDS MCRunControl

VARIABLE focus

\* RunControl under the three assumptions about the environment.
Timely == INSTANCE RunControl
          WITH TimelyLeases <- TRUE, EarlyDecisions <- FALSE, LostRejections <- FALSE

\* What the executions of an instance do not ask for.
NoInputs    == \A s \in Slots : waiting'[s] = {}
NoApprovals == UNCHANGED approval
OneOfEach   == approval'[c2] = "none" /\ \A s \in Slots : m1 \notin waiting'[s]

RunsInit == focus \in {"approvals", "inputs", "timely"} /\ Init

RunsNext ==
  /\ UNCHANGED focus
  /\ \/ focus = "approvals" /\ Next /\ NoInputs
     \/ focus = "inputs" /\ Next /\ NoApprovals
     \/ focus = "timely" /\ Timely!Next /\ OneOfEach

all == <<focus, vars>>

Rest == UNCHANGED focus /\ IF focus = "inputs" THEN NoApprovals ELSE NoInputs
TimelyRest == UNCHANGED focus /\ OneOfEach

\* The fairness of RunControl, in each instance.
RunsSpec ==
  /\ RunsInit /\ [][RunsNext]_all
  /\ \A s \in Slots :
       /\ WF_all(focus # "timely" /\ Progress(s) /\ Rest)
       /\ WF_all(focus = "timely" /\ Timely!Progress(s) /\ TimelyRest)
  /\ \A r \in Runs :
       /\ WF_all(focus # "timely" /\ (\E s \in Slots : LeaseJob(s, r)) /\ Rest)
       /\ WF_all(focus = "timely" /\ (\E s \in Slots : Timely!LeaseJob(s, r)) /\ TimelyRest)
       /\ WF_all(focus # "timely" /\ LeaseLapses(r) /\ Rest)
       /\ WF_all(focus = "timely" /\ Timely!LeaseLapses(r) /\ TimelyRest)
  /\ WF_all(focus # "timely" /\ ExpireApprovals /\ Rest)
  /\ WF_all(focus = "timely" /\ Timely!ExpireApprovals /\ TimelyRest)
  /\ WF_all(focus # "timely" /\ LeaseNothing /\ Rest)
  /\ WF_all(focus = "timely" /\ Timely!LeaseNothing /\ TimelyRest)

------------------------------------------------------------------------------
(* Properties that hold under the three assumptions.                       *)

\* The lease is the exclusive fence that StartRun relies on, as long as it is
\* renewed in time and nobody decides for a run that an execution holds.
TimelyExclusion == focus = "timely" => ExclusiveExecution

\* No run stays in running for ever: its executor finishes, is replaced, or
\* is declared lost (LeaseJobs), whatever crashes.
TimelyRunningEnds == focus = "timely" => RunningEnds

\* A ready job is completed or given up after its last attempt.
TimelyJobsSettle == focus = "timely" => JobsSettle
=============================================================================

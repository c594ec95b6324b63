------------------------------- MODULE Delegation -------------------------------
(***************************************************************************)
(* The tool subagent: an agent hands tasks to other agents of the run, one,*)
(* several at a time, or a chain in which each is given the output of the  *)
(* one before.  Every agent counts in activeAgents while it runs, and      *)
(* WaitForIdle sleeps on a channel of one token until the count is zero.   *)
(*                                                                         *)
(* Agent 0 calls the tool.  An output is the number of its task.           *)
(***************************************************************************)
EXTENDS Naturals, FiniteSets

CONSTANTS
  MaxTasks, \* tasks of a parallel call: 8 in the code
  Width,    \* tasks that run at a time: 4 in the code
  Asked     \* numbers of tasks that a call asks for

ASSUME DelegationAssumption ==
  /\ {MaxTasks, Width} \subseteq Nat \ {0}
  /\ Asked \subseteq Nat \ {0}

VARIABLES
  mode,         \* single, parallel or chain
  tasks,        \* how many
  agent,        \* by agent, where it is in runAgent
  results,      \* by task, what the tool reports
  given,        \* by task, the output put in place of {previous}
  outcome,      \* of the tool: running, ok, error
  activeAgents,
  stateChanged, \* the token
  waiter        \* of WaitForIdle: away, asleep, woken, released

delegationVars == <<mode, tasks, agent, results, given, outcome, activeAgents,
                    stateChanged, waiter>>

Tasks == 1..tasks

DelegationInit ==
  /\ mode \in {"single", "parallel", "chain"}
  /\ tasks \in Asked
  /\ mode = "single" => tasks = 1
  /\ agent = [a \in 0..tasks |-> IF a = 0 THEN "running" ELSE "none"]
  /\ results = [t \in 1..tasks |-> "none"]
  /\ given = [t \in 1..tasks |-> 0]
  /\ outcome = "running"
  /\ activeAgents = 1 /\ stateChanged = TRUE
  /\ waiter = "away"

BatchOf(t) == (t - 1) \div Width
Turn(t) ==
  /\ mode = "parallel" => \A s \in Tasks : BatchOf(s) < BatchOf(t) => results[s] # "none"
  /\ mode = "chain"    => \A s \in 1..(t - 1) : results[s] = "ok"

Call(t) ==
  /\ outcome = "running"
  /\ ~(mode = "parallel" /\ tasks > MaxTasks)
  /\ agent[t] = "none" /\ Turn(t)
  /\ agent' = [agent EXCEPT ![t] = "called"]
  /\ given' = [given EXCEPT ![t] = IF mode = "chain" THEN t - 1 ELSE 0]
  /\ UNCHANGED <<mode, tasks, results, outcome, activeAgents, stateChanged, waiter>>

Report(t, how) == results' = [results EXCEPT ![t] = how]

\* No such agent, a directory outside the workspace, too deep, no prompt.
Refused(t) ==
  /\ agent[t] = "called"
  /\ agent' = [agent EXCEPT ![t] = "gone"]
  /\ Report(t, "error")
  /\ UNCHANGED <<mode, tasks, given, outcome, activeAgents, stateChanged, waiter>>

Enter(t) ==
  /\ agent[t] = "called"
  /\ agent' = [agent EXCEPT ![t] = "entered"]
  /\ activeAgents' = activeAgents + 1
  /\ UNCHANGED <<mode, tasks, results, given, outcome, stateChanged, waiter>>

\* A slip, for the check of the properties: the last agent leaves silently.
BadLeave(a) ==
  /\ agent[a] = "running"
  /\ a = 0 => outcome # "running"
  /\ agent' = [agent EXCEPT ![a] = "gone"]
  /\ activeAgents' = activeAgents - 1
  /\ \/ a = 0 /\ UNCHANGED results
     \/ a # 0 /\ \E how \in {"ok", "error"} : Report(a, how)
  /\ UNCHANGED <<mode, tasks, given, outcome, stateChanged, waiter>>

\* The agent ends, by itself or cancelled, and no longer counts.
Leave(a) ==
  /\ agent[a] = "running"
  /\ a = 0 => outcome # "running"
  /\ agent' = [agent EXCEPT ![a] = "left"]
  /\ activeAgents' = activeAgents - 1
  /\ UNCHANGED <<mode, tasks, results, given, outcome, stateChanged, waiter>>

\* The send does not block: a token that is still there will do.
signalStateChanged(a) ==
  /\ agent[a] \in {"entered", "left"}
  /\ stateChanged' = TRUE
  /\ IF agent[a] = "entered" THEN agent' = [agent EXCEPT ![a] = "running"] /\ UNCHANGED results
     ELSE /\ agent' = [agent EXCEPT ![a] = "gone"]
          /\ \/ a = 0 /\ UNCHANGED results
             \/ a # 0 /\ \E how \in {"ok", "error"} : Report(a, how)
  /\ UNCHANGED <<mode, tasks, given, outcome, activeAgents, waiter>>

\* A failed task is an error of the call unless tasks run in parallel.
Return ==
  /\ outcome = "running"
  /\ \/ /\ mode = "parallel" /\ tasks > MaxTasks
        /\ outcome' = "ok"
     \/ /\ \A t \in Tasks : results[t] # "none"
        /\ outcome' = IF mode # "parallel" /\ \E t \in Tasks : results[t] = "error"
                      THEN "error" ELSE "ok"
     \/ /\ mode = "chain" /\ \E t \in Tasks : results[t] = "error"
        /\ outcome' = "error"
  /\ UNCHANGED <<mode, tasks, agent, results, given, activeAgents, stateChanged, waiter>>

WaitForIdle ==
  /\ \/ waiter \in {"away", "woken"} /\ UNCHANGED stateChanged
        /\ waiter' = IF activeAgents = 0 THEN "released" ELSE "asleep"
     \/ waiter = "asleep" /\ stateChanged /\ waiter' = "woken" /\ stateChanged' = FALSE
  /\ UNCHANGED <<mode, tasks, agent, results, given, outcome, activeAgents>>

DelegationNext ==
  \/ \E t \in Tasks : Call(t) \/ Refused(t) \/ Enter(t)
  \/ \E a \in 0..tasks : Leave(a) \/ signalStateChanged(a)
  \/ Return
  \/ WaitForIdle

DelegationSpec == DelegationInit /\ [][DelegationNext]_delegationVars

-----------------------------------------------------------------------------
(* Properties.                                                             *)

\* An extension that waits for the agents to end is not left asleep: the last
\* agent's signal is there or on its way whenever nobody runs any more.  The
\* waiter is released only when no agent runs, none will, and every task that
\* was started has its result.
IdleSeen ==
  /\ waiter = "asleep" /\ activeAgents = 0 =>
       stateChanged \/ \E a \in 0..tasks : agent[a] = "left"
  /\ waiter = "released" =>
       /\ \A a \in 0..tasks : agent[a] \in {"none", "left", "gone"}
       /\ outcome # "running"
       /\ \A t \in Tasks : given[t] # 0 => results[given[t]] = "ok"
=============================================================================

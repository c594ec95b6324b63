-------------------------------- MODULE MCEvents --------------------------------
(***************************************************************************)
(* Small instances for TLC of the two ways an event takes from AppendRun-  *)
(* Event: the stream (EventPipeline) and the webhook (Outbox), with two    *)
(* publishers and two events.  They share no state but the inserted row: a *)
(* behaviour is one of the module that focus names, the other rests.       *)
(***************************************************************************)
EXTENDS Outbox, EventPipeline

CONSTANTS p1, p2

VARIABLE focus

EventsInit == focus \in {"webhook", "stream"} /\ Init /\ PipelineInit

EventsNext ==
  /\ UNCHANGED focus
  /\ \/ focus = "webhook" /\ Next /\ UNCHANGED pipeVars
     \/ focus = "stream" /\ PipelineNext /\ UNCHANGED vars

all == <<focus, vars, pipeVars>>

\* The fairness of each module, while it moves.
EventsSpec ==
  /\ EventsInit /\ [][EventsNext]_all
  /\ \A p \in Publishers :
       WF_all(focus = "webhook" /\ Publish(p) /\ UNCHANGED <<focus, pipeVars>>)
  /\ \A e \in Events :
       /\ WF_all(focus = "webhook" /\ LeaseLapses(e) /\ UNCHANGED <<focus, pipeVars>>)
       /\ WF_all(focus = "webhook" /\ RetryDue(e) /\ UNCHANGED <<focus, pipeVars>>)
  /\ WF_all(focus = "stream" /\ Streaming /\ UNCHANGED <<focus, vars>>)
=============================================================================

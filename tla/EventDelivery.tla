---------------------------- MODULE EventDelivery ----------------------------
(***************************************************************************)
(* What the event outbox promises a webhook consumer: an event may arrive  *)
(* more than once and in any order, each copy is a different numbered      *)
(* attempt of at most MaxAttempts, and an event is acknowledged only after *)
(* a copy of it arrived.                                                   *)
(***************************************************************************)
EXTENDS Naturals

CONSTANTS Events, MaxAttempts

VARIABLES accepted,     \* events recorded with the run change they report
          copies,       \* how often the consumer received an <<event, attempt>>
          acknowledged  \* events that will not be sent again on purpose

vars == <<accepted, copies, acknowledged>>

Init ==
  /\ accepted = {}
  /\ copies = [copy \in Events \X (1..MaxAttempts) |-> 0]
  /\ acknowledged = {}

Accept(e) ==
  /\ e \notin accepted
  /\ accepted' = accepted \cup {e}
  /\ UNCHANGED <<copies, acknowledged>>

Arrive(e, n) ==
  /\ e \in accepted
  /\ copies[<<e, n>>] = 0
  /\ copies' = [copies EXCEPT ![<<e, n>>] = 1]
  /\ UNCHANGED <<accepted, acknowledged>>

Acknowledge(e) ==
  /\ e \notin acknowledged
  /\ \E n \in 1..MaxAttempts : copies[<<e, n>>] # 0
  /\ acknowledged' = acknowledged \cup {e}
  /\ UNCHANGED <<accepted, copies>>

Next == \E e \in Events : \/ Accept(e) \/ Acknowledge(e)
                          \/ \E n \in 1..MaxAttempts : Arrive(e, n)

Spec == Init /\ [][Next]_vars
=============================================================================

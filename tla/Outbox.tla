-------------------------------- MODULE Outbox --------------------------------
(***************************************************************************)
(* The transactional outbox: recordEventTx and AppendRunEvent insert a row *)
(* of agent_outbox with every run event; the publisher loop of each worker *)
(* leases a batch of rows, posts them one after the other to the webhook   *)
(* and marks or releases each row.  A lease covers the whole batch, so it  *)
(* may lapse while later events of the batch still wait to be sent.        *)
(* Operators whose name starts with Bad are slips that the runs must catch *)
(* and that the specification does not use.                                *)
(***************************************************************************)
EXTENDS Naturals, FiniteSets

CONSTANTS
  Events,       \* agent_outbox.seq, the order of insertion
  Publishers,   \* worker ids; the lease owner is "<worker id>/outbox"
  Batch,        \* OutboxBatch
  MaxAttempts,  \* 20 in LeaseOutbox
  None          \* NULL

ASSUME OutboxAssumption ==
  /\ Events \subseteq Nat
  /\ None \notin Publishers
  /\ Batch \in Nat \ {0}
  /\ MaxAttempts \in Nat \ {0}

VARIABLES
  rows,       \* inserted rows
  published,  \* rows with published_at
  owner,      \* lease_owner
  lapsed,     \* lease_until is in the past
  due,        \* next_attempt_at is in the past
  attempts,   \* attempts
  batch,      \* what a publisher still has to do: its leased events, each
              \* with the attempt that leased it
  outcome,    \* result of the post of the first event of a batch
  received    \* how often the consumer got an <<event, attempt>> (history)

table == <<rows, published, owner, lapsed, due, attempts>>
vars  == <<rows, published, owner, lapsed, due, attempts, batch, outcome, received>>

Lease == [event : Events, attempt : 1..MaxAttempts]

TypeOK ==
  /\ rows \subseteq Events
  /\ published \subseteq Events
  /\ owner \in [Events -> Publishers \cup {None}]
  /\ lapsed \in [Events -> BOOLEAN]
  /\ due \in [Events -> BOOLEAN]
  /\ attempts \in [Events -> 0..MaxAttempts]
  /\ batch \in [Publishers -> SUBSET Lease]
  /\ outcome \in [Publishers -> {"unsent", "accepted", "error"}]
  /\ received \in [Events \X (1..MaxAttempts) -> Nat]

Init ==
  /\ rows = {}
  /\ published = {}
  /\ owner = [e \in Events |-> None]
  /\ lapsed = [e \in Events |-> FALSE]
  /\ due = [e \in Events |-> TRUE]
  /\ attempts = [e \in Events |-> 0]
  /\ batch = [p \in Publishers |-> {}]
  /\ outcome = [p \in Publishers |-> "unsent"]
  /\ received = [copy \in Events \X (1..MaxAttempts) |-> 0]

\* The row is inserted by the transaction that changes the run.
Record(e) ==
  /\ e \notin rows
  /\ rows' = rows \cup {e}
  /\ UNCHANGED <<published, owner, lapsed, due, attempts, batch, outcome, received>>

\* A slip, for the check of the properties: attempts are not bounded.
BadEligibleUncounted(e) ==
  e \in rows \ published /\ due[e] /\ (owner[e] = None \/ lapsed[e])
\* A slip, for the check of the properties: a lapsed lease is not taken over.
BadEligibleNeverLapsed(e) ==
  e \in rows \ published /\ attempts[e] < MaxAttempts /\ due[e] /\ owner[e] = None
Eligible(e) ==
  /\ e \in rows \ published
  /\ attempts[e] < MaxAttempts
  /\ due[e]
  /\ owner[e] = None \/ lapsed[e]

\* The rows of the first statement of LeaseOutbox: the first Batch eligible
\* ones in order, without those another transaction has locked.
Selected(locked) ==
  LET free == {e \in Events \ locked : Eligible(e)}
  IN {e \in free : Cardinality({f \in free : f < e}) < Batch}

\* A slip, for the check of the properties: the attempt is not counted.
BadTakeUncounted(p, chosen) ==
  /\ owner' = [e \in Events |-> IF e \in chosen THEN p ELSE owner[e]]
  /\ lapsed' = [e \in Events |-> e \notin chosen /\ lapsed[e]]
  /\ batch' = [batch EXCEPT ![p] =
                 {[event |-> e, attempt |-> attempts[e] + 1] : e \in chosen}]
  /\ UNCHANGED attempts
Take(p, chosen) ==
  /\ owner' = [e \in Events |-> IF e \in chosen THEN p ELSE owner[e]]
  /\ lapsed' = [e \in Events |-> e \notin chosen /\ lapsed[e]]
  /\ attempts' = [e \in Events |-> IF e \in chosen THEN attempts[e] + 1 ELSE attempts[e]]
  /\ batch' = [batch EXCEPT ![p] =
                 {[event |-> e, attempt |-> attempts[e] + 1] : e \in chosen}]

LeaseOutbox(p) ==
  /\ batch[p] = {}
  /\ \E locked \in SUBSET Events :
       /\ Selected(locked) # {}
       /\ Take(p, Selected(locked))
  /\ UNCHANGED <<rows, published, due, outcome, received>>

\* The loop over a batch takes its events in order.
First(p, l) == l \in batch[p] /\ \A m \in batch[p] : l.event <= m.event

\* One webhook request.  The consumer may have got the event although the
\* publisher sees an error: the response was lost, late, or not a 2xx.
Post(p, l) ==
  LET arrived == [received EXCEPT ![<<l.event, l.attempt>>] = @ + 1] IN
  /\ First(p, l) /\ outcome[p] = "unsent"
  /\ \/ /\ received' = arrived
        /\ outcome' = [outcome EXCEPT ![p] = "accepted"]
     \/ /\ received' \in {received, arrived}
        /\ outcome' = [outcome EXCEPT ![p] = "error"]
  /\ UNCHANGED <<table, batch>>

Done(p, l) ==
  /\ batch' = [batch EXCEPT ![p] = @ \ {l}]
  /\ outcome' = [outcome EXCEPT ![p] = "unsent"]

\* A slip, for the check of the properties: the lease's owner is not compared.
BadOwns(p, e) == e \notin published
Owns(p, e) == owner[e] = p /\ e \notin published

Unlease(e) ==
  /\ owner' = [owner EXCEPT ![e] = None]
  /\ lapsed' = [lapsed EXCEPT ![e] = FALSE]

MarkOutboxPublished(p, l) ==
  /\ First(p, l) /\ outcome[p] = "accepted"
  /\ IF Owns(p, l.event)
       THEN published' = published \cup {l.event} /\ Unlease(l.event)
       ELSE UNCHANGED <<published, owner, lapsed>>
  /\ Done(p, l)
  /\ UNCHANGED <<rows, due, attempts, received>>

FailOutbox(p, l) ==
  /\ First(p, l) /\ outcome[p] = "error"
  /\ IF Owns(p, l.event)
       THEN due' = [due EXCEPT ![l.event] = FALSE] /\ Unlease(l.event)
       ELSE UNCHANGED <<due, owner, lapsed>>
  /\ Done(p, l)
  /\ UNCHANGED <<rows, published, attempts, received>>

\* The statement of Mark or Fail itself fails: logged, and the loop goes on.
LoseMark(p, l) ==
  /\ First(p, l) /\ outcome[p] # "unsent"
  /\ Done(p, l)
  /\ UNCHANGED <<table, received>>

LeaseLapses(e) ==
  /\ owner[e] # None /\ ~lapsed[e]
  /\ lapsed' = [lapsed EXCEPT ![e] = TRUE]
  /\ UNCHANGED <<rows, published, owner, due, attempts, batch, outcome, received>>

RetryDue(e) ==
  /\ ~due[e]
  /\ due' = [due EXCEPT ![e] = TRUE]
  /\ UNCHANGED <<rows, published, owner, lapsed, attempts, batch, outcome, received>>

\* The worker process stops, with the rest of the batch still leased.
Crash(p) ==
  /\ batch[p] # {}
  /\ batch' = [batch EXCEPT ![p] = {}]
  /\ outcome' = [outcome EXCEPT ![p] = "unsent"]
  /\ UNCHANGED <<table, received>>

Publish(p) ==
  \/ LeaseOutbox(p)
  \/ \E l \in Lease : Post(p, l) \/ MarkOutboxPublished(p, l) \/ FailOutbox(p, l)

Next ==
  \/ \E e \in Events : Record(e) \/ LeaseLapses(e) \/ RetryDue(e)
  \/ \E p \in Publishers : \/ Publish(p) \/ Crash(p)
                           \/ \E l \in Lease : LoseMark(p, l)

Spec == Init /\ [][Next]_vars

\* Each publisher's loop goes on, and clocks pass leases and retry delays.
FairSpec ==
  /\ Spec
  /\ \A p \in Publishers : WF_vars(Publish(p))
  /\ \A e \in Events : WF_vars(LeaseLapses(e)) /\ WF_vars(RetryDue(e))

-----------------------------------------------------------------------------
(* Properties.                                                             *)

\* The outbox keeps what EventDelivery promises.
Delivery == INSTANCE EventDelivery
              WITH accepted <- rows, copies <- received, acknowledged <- published

\* Every step of the outbox is a step of EventDelivery: a copy that arrives
\* has an attempt number of its own, within the limit, also when a lease
\* lapsed in mid-batch and two publishers hold the same event.
ImplementsDelivery == Delivery!Spec

\* A publisher whose lease was taken over neither releases nor marks the
\* event: a live lease ends only by its owner's own step.
LiveLeaseKept ==
  [][\A e \in Events : owner[e] # None /\ ~lapsed[e] /\ owner'[e] # owner[e]
                        => batch'[owner[e]] # batch[owner[e]]]_vars

\* Every recorded event is acknowledged or has used every attempt: no lapse,
\* crash, conflict or lost answer leaves one behind.
EventsSettle ==
  \A e \in Events : e \in rows ~> e \in published \/ attempts[e] = MaxAttempts
=============================================================================

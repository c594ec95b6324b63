------------------------------ MODULE EventProofs ------------------------------
(***************************************************************************)
(* Events on their way out: the outbox implements EventDelivery for any    *)
(* events, publishers, batch size and attempt limit; the pipeline writes,  *)
(* and the stream reads, for any number of retries, deltas, other events   *)
(* and rows of a page.                                                     *)
(***************************************************************************)
EXTENDS Outbox, EventPipeline, Numbers, SequenceTheorems

-----------------------------------------------------------------------------
(* The outbox.                                                             *)

\* Attempt numbers are used once: a lease in hand is not newer than the row,
\* no two publishers hold the same attempt of an event, and only the event
\* whose post has an outcome may already have arrived under its number.
AttemptsUnique ==
  /\ \A p \in Publishers : \A l \in batch[p] : l.attempt <= attempts[l.event]
  /\ \A p \in Publishers : \A l, m \in batch[p] : l.event = m.event => l = m
  /\ \A p, q \in Publishers : \A l \in batch[p] : l \in batch[q] => p = q
  /\ \A e \in Events, n \in 1..MaxAttempts : received[<<e, n>>] # 0 => n <= attempts[e]

\* What has arrived, seen from a publisher: nothing before its post, and the
\* event it posted once the consumer accepted it.
PostsCounted ==
  \A p \in Publishers : \A l \in batch[p] :
    /\ received[<<l.event, l.attempt>>] # 0 => First(p, l) /\ outcome[p] # "unsent"
    /\ First(p, l) /\ outcome[p] = "accepted" => received[<<l.event, l.attempt>>] # 0

\* Only recorded events are leased, and an idle publisher has no outcome.
Recorded ==
  /\ \A p \in Publishers : \A l \in batch[p] : l.event \in rows
  /\ \A p \in Publishers : batch[p] = {} => outcome[p] = "unsent"
  /\ \A e \in Events : owner[e] # None => e \in rows

Inv == TypeOK /\ AttemptsUnique /\ PostsCounted /\ Recorded

LEMMA LeaseFields ==
  ASSUME NEW l \in Lease
  PROVE  l.event \in Events /\ l.attempt \in Nat /\ l.attempt \in 1..MaxAttempts
  BY OutboxAssumption DEF Lease

LEMMA InvInit == Init => Inv
  BY OutboxAssumption
     DEF Init, Inv, TypeOK, AttemptsUnique, PostsCounted, Recorded, Lease

\* Two first events of a batch are the same lease.
LEMMA FirstUnique ==
  ASSUME Inv, NEW p \in Publishers, NEW l \in Lease, NEW m \in Lease, First(p, l), First(p, m)
  PROVE  l = m
<1>1. l.event <= m.event /\ m.event <= l.event /\ l \in batch[p] /\ m \in batch[p]
  BY DEF First
<1>2. l.event \in Nat /\ m.event \in Nat
  BY OutboxAssumption DEF Lease
<1>3. l.event = m.event
  BY <1>1, <1>2
<1> QED
  BY <1>1, <1>3 DEF Inv, AttemptsUnique

\* The leases a publisher takes carry numbers above every number in use.
LEMMA LeaseStep ==
  ASSUME Inv, NEW p \in Publishers, LeaseOutbox(p)
  PROVE  Inv'
<1> USE OutboxAssumption DEF Inv, TypeOK, Lease
<1>1. PICK locked \in SUBSET Events : Take(p, Selected(locked))
  BY DEF LeaseOutbox
<1> DEFINE C == Selected(locked)
<1>2. \A e \in C : e \in Events /\ e \in rows /\ attempts[e] \in Nat /\ attempts[e] < MaxAttempts
  BY DEF Selected, Eligible
<1> HIDE DEF C
<1>3. batch' = [batch EXCEPT ![p] = {[event |-> e, attempt |-> attempts[e] + 1] : e \in C}]
  BY <1>1 DEF Take, C
<1>4. /\ batch'[p] = {[event |-> e, attempt |-> attempts[e] + 1] : e \in C}
      /\ \A q \in Publishers : q # p => batch'[q] = batch[q]
  BY <1>3
<1>5. attempts' = [e \in Events |-> IF e \in C THEN attempts[e] + 1 ELSE attempts[e]]
  BY <1>1 DEF Take, C
<1>6. /\ batch[p] = {} /\ UNCHANGED <<rows, published, due, outcome, received>>
      /\ outcome[p] = "unsent"
  BY DEF LeaseOutbox, Recorded
<1>7. \A l \in batch'[p] : /\ l \in Lease /\ l.event \in C /\ l.attempt = attempts[l.event] + 1
  BY <1>2, <1>4
<1>8. \A e \in Events : attempts'[e] \in 0..MaxAttempts /\ attempts[e] <= attempts'[e]
  BY <1>2, <1>5
<1>9. \A e \in Events : attempts[e] \in Nat /\ attempts'[e] \in Nat
  BY <1>8
<1>10. TypeOK'
  <2>1. batch' \in [Publishers -> SUBSET Lease]
    BY <1>3, <1>7, <1>4
  <2>2. attempts' \in [Events -> 0..MaxAttempts]
    BY <1>5, <1>8
  <2>3. owner' \in [Events -> Publishers \cup {None}] /\ lapsed' \in [Events -> BOOLEAN]
    BY <1>1 DEF Take
  <2> QED
    BY <1>6, <2>1, <2>2, <2>3
<1>11. AttemptsUnique'
  <2>1. ASSUME NEW q \in Publishers, NEW l \in batch'[q] PROVE l.attempt <= attempts'[l.event]
    <3>1. CASE q = p
      BY <1>2, <1>5, <1>7, <3>1
    <3>2. CASE q # p
      <4>1. l \in batch[q] /\ l \in Lease /\ l.attempt <= attempts[l.event]
        BY <1>4, <3>2 DEF AttemptsUnique
      <4>2. l.event \in Events /\ l.attempt \in Nat
        BY <4>1, LeaseFields
      <4>3. /\ attempts[l.event] \in Nat /\ attempts'[l.event] \in Nat
            /\ attempts[l.event] <= attempts'[l.event]
        BY <1>8, <1>9, <4>2
      <4> QED
        BY <4>1, <4>2, <4>3
    <3> QED
      BY <3>1, <3>2
  <2>2. ASSUME NEW q \in Publishers, NEW l \in batch'[q], NEW m \in batch'[q],
               l.event = m.event
        PROVE  l = m
    <3>1. CASE q = p
      BY <1>4, <2>2, <3>1
    <3>2. CASE q # p
      BY <1>4, <2>2, <3>2 DEF AttemptsUnique
    <3> QED
      BY <3>1, <3>2
  <2>3. ASSUME NEW q \in Publishers, q # p, NEW l \in batch[q] PROVE l \notin batch'[p]
    <3>1. l \in Lease /\ l.attempt <= attempts[l.event]
      BY <2>3 DEF AttemptsUnique
    <3>2. l.event \in Events /\ l.attempt \in Nat
      BY <3>1, LeaseFields
    <3> DEFINE n == l.attempt
               a == attempts[l.event]
    <3>3. n \in Nat /\ a \in Nat /\ n <= a
      BY <1>9, <3>1, <3>2
    <3> HIDE DEF n, a
    <3>4. n # a + 1
      BY <3>3
    <3>5. l \in batch'[p] => n = a + 1
      BY <1>7 DEF n, a
    <3> QED
      BY <3>4, <3>5
  <2>4. \A q, u \in Publishers : \A l \in batch'[q] : l \in batch'[u] => q = u
    BY <1>4, <2>3 DEF AttemptsUnique
  <2>5. \A e \in Events, n \in 1..MaxAttempts : received'[<<e, n>>] # 0 => n <= attempts'[e]
    BY <1>6, <1>8 DEF AttemptsUnique
  <2> QED
    BY <2>1, <2>2, <2>4, <2>5 DEF AttemptsUnique
<1>12. PostsCounted'
  <2> SUFFICES ASSUME NEW q \in Publishers, NEW l \in batch'[q]
      PROVE /\ received'[<<l.event, l.attempt>>] # 0 => First(q, l)' /\ outcome'[q] # "unsent"
            /\ First(q, l)' /\ outcome'[q] = "accepted" => received'[<<l.event, l.attempt>>] # 0
    BY DEF PostsCounted
  <2>1. CASE q = p
    <3>1. received[<<l.event, l.attempt>>] = 0
      <4>1. l \in Lease /\ l.event \in C /\ l.attempt = attempts[l.event] + 1
        BY <1>7, <2>1
      <4>2. attempts[l.event] \in Nat
        BY <1>2, <4>1
      <4>3. ~(l.attempt <= attempts[l.event])
        BY <4>1, <4>2
      <4> QED
        BY <4>1, <4>3 DEF AttemptsUnique
    <3> QED
      BY <1>6, <2>1, <3>1
  <2>2. CASE q # p
    <3>1. batch'[q] = batch[q] /\ (First(q, l)' <=> First(q, l))
      BY <1>4, <2>2 DEF First
    <3> QED
      BY <1>6, <3>1 DEF PostsCounted
  <2> QED
    BY <2>1, <2>2
<1>13. Recorded'
  <2>1. \A e \in Events : owner'[e] # None => e \in rows'
    BY <1>1, <1>2, <1>6 DEF Take, Recorded, C
  <2> QED
    BY <1>2, <1>4, <1>6, <1>7, <2>1 DEF Recorded
<1> QED
  BY <1>10, <1>11, <1>12, <1>13

\* A post uses the number of its lease, which no other lease carries.
LEMMA PostStep ==
  ASSUME Inv, NEW p \in Publishers, NEW l \in Lease, Post(p, l)
  PROVE  Inv'
<1> USE OutboxAssumption DEF Inv, TypeOK, Lease
<1>1. /\ l \in batch[p] /\ First(p, l) /\ outcome[p] = "unsent"
      /\ UNCHANGED <<rows, published, owner, lapsed, due, attempts, batch>>
  BY DEF Post, First, table
<1>2. /\ received' \in {received, [received EXCEPT ![<<l.event, l.attempt>>] = @ + 1]}
      /\ outcome' \in {[outcome EXCEPT ![p] = "accepted"], [outcome EXCEPT ![p] = "error"]}
      /\ outcome'[p] = "accepted" => received' = [received EXCEPT ![<<l.event, l.attempt>>] = @ + 1]
  BY DEF Post
<1>3. TypeOK'
  BY <1>1, <1>2
<1>4. l.attempt <= attempts[l.event]
  BY <1>1 DEF AttemptsUnique
<1>5. AttemptsUnique'
  <2>1. \A e \in Events, n \in 1..MaxAttempts : received'[<<e, n>>] # 0 => n <= attempts'[e]
    BY <1>1, <1>2, <1>4 DEF AttemptsUnique
  <2> QED
    BY <1>1, <2>1 DEF AttemptsUnique
<1>6. PostsCounted'
  <2> SUFFICES ASSUME NEW q \in Publishers, NEW m \in batch[q]
      PROVE /\ received'[<<m.event, m.attempt>>] # 0 => First(q, m) /\ outcome'[q] # "unsent"
            /\ First(q, m) /\ outcome'[q] = "accepted" => received'[<<m.event, m.attempt>>] # 0
    BY <1>1 DEF PostsCounted, First
  <2>1. m \in Lease
    OBVIOUS
  <2>2. CASE m = l
    <3>1. q = p
      BY <1>1, <2>2 DEF AttemptsUnique
    <3> QED
      BY <1>1, <1>2, <2>2, <3>1
  <2>3. CASE m # l
    <3>1. <<m.event, m.attempt>> # <<l.event, l.attempt>>
      BY <2>1, <2>3
    <3>2. received'[<<m.event, m.attempt>>] # 0 <=> received[<<m.event, m.attempt>>] # 0
      BY <1>2, <3>1
    <3>3. CASE q = p
      <4>1. ~First(p, m)
        BY <1>1, <2>1, <2>3, FirstUnique
      <4> QED
        BY <3>2, <3>3, <4>1 DEF PostsCounted
    <3>4. CASE q # p
      <4>1. outcome'[q] = outcome[q]
        BY <1>2, <3>4
      <4> QED
        BY <3>2, <4>1 DEF PostsCounted
    <3> QED
      BY <3>3, <3>4
  <2> QED
    BY <2>2, <2>3
<1>7. Recorded'
  BY <1>1, <1>2 DEF Recorded
<1> QED
  BY <1>3, <1>5, <1>6, <1>7

\* Dropping the first event of a batch leaves only leases not yet posted.
LEMMA DoneStep ==
  ASSUME Inv, NEW p \in Publishers, NEW l \in Lease, First(p, l), Done(p, l),
         UNCHANGED <<rows, attempts, received>>,
         published' \subseteq Events, due' \in [Events -> BOOLEAN],
         lapsed' \in [Events -> BOOLEAN], owner' \in [Events -> Publishers \cup {None}],
         \A e \in Events : owner'[e] # None => owner[e] # None
  PROVE  Inv'
<1> USE OutboxAssumption DEF Inv, TypeOK
<1>1. /\ batch'[p] = batch[p] \ {l} /\ outcome'[p] = "unsent"
      /\ \A q \in Publishers : q # p => batch'[q] = batch[q] /\ outcome'[q] = outcome[q]
      /\ \A q \in Publishers : batch'[q] \subseteq batch[q]
  BY DEF Done
<1>2. TypeOK'
  BY DEF Done
<1>3. AttemptsUnique'
  BY <1>1 DEF AttemptsUnique
<1>4. PostsCounted'
  <2> SUFFICES ASSUME NEW q \in Publishers, NEW m \in batch'[q]
      PROVE /\ received'[<<m.event, m.attempt>>] # 0 => First(q, m)' /\ outcome'[q] # "unsent"
            /\ First(q, m)' /\ outcome'[q] = "accepted" => received'[<<m.event, m.attempt>>] # 0
    BY DEF PostsCounted
  <2>1. CASE q = p
    <3>1. m \in batch[p] /\ m # l /\ m \in Lease
      BY <1>1, <2>1
    <3>2. ~First(p, m)
      BY <3>1, FirstUnique
    <3> QED
      BY <1>1, <2>1, <3>1, <3>2 DEF PostsCounted
  <2>2. CASE q # p
    <3>1. m \in batch[q] /\ (First(q, m)' <=> First(q, m)) /\ outcome'[q] = outcome[q]
      BY <1>1, <2>2 DEF First
    <3> QED
      BY <3>1 DEF PostsCounted
  <2> QED
    BY <2>1, <2>2
<1>5. Recorded'
  BY <1>1 DEF Recorded
<1> QED
  BY <1>2, <1>3, <1>4, <1>5

\* Inserting a row, and clocks, change nothing a publisher holds.
LEMMA RowStep ==
  ASSUME Inv, NEW e \in Events, Record(e) \/ LeaseLapses(e) \/ RetryDue(e)
  PROVE  Inv'
<1>1. /\ UNCHANGED <<published, owner, attempts, batch, outcome, received>>
      /\ rows \subseteq rows' /\ rows' \subseteq Events
      /\ lapsed' \in [Events -> BOOLEAN] /\ due' \in [Events -> BOOLEAN]
  BY DEF Record, LeaseLapses, RetryDue, Inv, TypeOK
<1>2. TypeOK'
  BY <1>1 DEF Inv, TypeOK
<1>3. AttemptsUnique' /\ PostsCounted'
  BY <1>1 DEF Inv, AttemptsUnique, PostsCounted, First
<1>4. Recorded'
  BY <1>1 DEF Inv, TypeOK, Lease, Recorded
<1> QED
  BY <1>2, <1>3, <1>4 DEF Inv

\* A crash empties a batch.
LEMMA CrashStep ==
  ASSUME Inv, NEW p \in Publishers, Crash(p)
  PROVE  Inv'
<1> USE DEF Inv, TypeOK
<1>1. /\ batch'[p] = {} /\ outcome'[p] = "unsent"
      /\ \A q \in Publishers : q # p => batch'[q] = batch[q] /\ outcome'[q] = outcome[q]
      /\ UNCHANGED <<rows, published, owner, lapsed, due, attempts, received>>
  BY DEF Crash, table
<1>2. TypeOK'
  BY DEF Crash, table
<1>3. AttemptsUnique'
  BY <1>1 DEF AttemptsUnique
<1>4. PostsCounted'
  BY <1>1 DEF PostsCounted, First
<1>5. Recorded'
  BY <1>1 DEF Recorded
<1> QED
  BY <1>2, <1>3, <1>4, <1>5

LEMMA InvStep == Inv /\ [Next]_vars => Inv'
<1> SUFFICES ASSUME Inv, [Next]_vars PROVE Inv'
  OBVIOUS
<1>1. CASE UNCHANGED vars
  BY <1>1 DEF vars, Inv, TypeOK, AttemptsUnique, PostsCounted, Recorded, First
<1>2. ASSUME NEW p \in Publishers, NEW l \in Lease,
             MarkOutboxPublished(p, l) \/ FailOutbox(p, l) \/ LoseMark(p, l)
      PROVE  Inv'
  <2>1. /\ First(p, l) /\ Done(p, l) /\ UNCHANGED <<rows, attempts, received>>
    BY <1>2 DEF MarkOutboxPublished, FailOutbox, LoseMark, table
  <2>2. l.event \in Events
    BY DEF Lease
  <2>3. /\ published' \subseteq Events /\ due' \in [Events -> BOOLEAN]
        /\ lapsed' \in [Events -> BOOLEAN] /\ owner' \in [Events -> Publishers \cup {None}]
        /\ \A e \in Events : owner'[e] # None => owner[e] # None
    BY ZenonT(60), <1>2, <2>2 DEF MarkOutboxPublished, FailOutbox, LoseMark, table, Unlease, Inv,
                                  TypeOK
  <2> QED
    BY <2>1, <2>3, DoneStep
<1>3. CASE Next
  BY <1>2, <1>3, LeaseStep, PostStep, RowStep, CrashStep DEF Next, Publish
<1> QED
  BY <1>1, <1>3

\* Every step of the outbox is a step of EventDelivery or leaves it alone.
LEMMA DeliveryStep == Inv /\ [Next]_vars => [Delivery!Next]_Delivery!vars
<1> SUFFICES ASSUME Inv, [Next]_vars PROVE [Delivery!Next]_Delivery!vars
  OBVIOUS
<1> USE DEF Delivery!vars
<1>1. CASE UNCHANGED vars
  BY <1>1 DEF vars
<1>2. ASSUME NEW e \in Events, Record(e) PROVE Delivery!Next
  BY <1>2 DEF Record, Delivery!Next, Delivery!Accept
<1>3. ASSUME NEW e \in Events, LeaseLapses(e) \/ RetryDue(e) PROVE UNCHANGED Delivery!vars
  BY <1>3 DEF LeaseLapses, RetryDue
<1>4. ASSUME NEW p \in Publishers, LeaseOutbox(p) \/ Crash(p) PROVE UNCHANGED Delivery!vars
  BY <1>4 DEF LeaseOutbox, Crash, table
<1>5. ASSUME NEW p \in Publishers, NEW l \in Lease, Post(p, l)
      PROVE  [Delivery!Next]_Delivery!vars
  <2>1. /\ l \in batch[p] /\ l.event \in Events /\ l.attempt \in 1..MaxAttempts
        /\ UNCHANGED <<rows, published>>
        /\ received' = received \/ received' = [received EXCEPT ![<<l.event, l.attempt>>] = @ + 1]
    BY <1>5 DEF Post, First, table, Lease
  <2>2. l.event \in rows /\ received[<<l.event, l.attempt>>] = 0
    BY <1>5, <2>1 DEF Post, Inv, Recorded, PostsCounted
  <2>3. CASE received' = [received EXCEPT ![<<l.event, l.attempt>>] = @ + 1]
    <3>1. Delivery!Arrive(l.event, l.attempt)
      BY <2>1, <2>2, <2>3 DEF Delivery!Arrive
    <3> QED
      BY <2>1, <3>1 DEF Delivery!Next
  <2> QED
    BY <2>1, <2>3
<1>6. ASSUME NEW p \in Publishers, NEW l \in Lease, MarkOutboxPublished(p, l)
      PROVE  [Delivery!Next]_Delivery!vars
  <2>1. /\ First(p, l) /\ l \in batch[p] /\ l.event \in Events /\ l.attempt \in 1..MaxAttempts
        /\ received[<<l.event, l.attempt>>] # 0
    BY <1>6 DEF MarkOutboxPublished, First, Inv, PostsCounted, Lease
  <2>2. CASE Owns(p, l.event)
    <3>1. Delivery!Acknowledge(l.event)
      BY <1>6, <2>1, <2>2 DEF MarkOutboxPublished, Owns, Delivery!Acknowledge
    <3> QED
      BY <2>1, <3>1 DEF Delivery!Next
  <2>3. CASE ~Owns(p, l.event)
    BY <1>6, <2>3 DEF MarkOutboxPublished
  <2> QED
    BY <2>2, <2>3
<1>7. ASSUME NEW p \in Publishers, NEW l \in Lease, FailOutbox(p, l) \/ LoseMark(p, l)
      PROVE  UNCHANGED Delivery!vars
  BY <1>7 DEF FailOutbox, LoseMark, table
<1> QED
  BY <1>1, <1>2, <1>3, <1>4, <1>5, <1>6, <1>7 DEF Next, Publish

\* The outbox keeps the promise of EventDelivery: at-least-once delivery with
\* numbered copies and acknowledgement only after arrival.
THEOREM OutboxDelivers == Spec => ImplementsDelivery
<1>1. Init => Delivery!Init
  BY DEF Init, Delivery!Init
<1> QED
  BY <1>1, InvInit, InvStep, DeliveryStep, PTL DEF Spec, ImplementsDelivery, Delivery!Spec

\* Rows, leases and batches have the declared shapes; no row is leased more
\* than MaxAttempts times.
THEOREM OutboxTypes == Spec => []TypeOK
<1>1. Inv => TypeOK
  BY DEF Inv
<1> QED
  BY <1>1, InvInit, InvStep, PTL DEF Spec

\* A live lease of an event ends only by a step of its owner.
THEOREM LiveLeases == Spec => LiveLeaseKept
<1>1. Inv /\ [Next]_vars =>
        [\A e \in Events : owner[e] # None /\ ~lapsed[e] /\ owner'[e] # owner[e]
                            => batch'[owner[e]] # batch[owner[e]]]_vars
  <2> SUFFICES ASSUME Inv, Next, NEW e \in Events,
                      owner[e] # None, ~lapsed[e], owner'[e] # owner[e]
               PROVE  batch'[owner[e]] # batch[owner[e]]
    OBVIOUS
  <2> USE DEF Inv, TypeOK
  <2>1. ASSUME NEW f \in Events, Record(f) \/ LeaseLapses(f) \/ RetryDue(f) PROVE FALSE
    BY <2>1 DEF Record, LeaseLapses, RetryDue
  <2>2. ASSUME NEW p \in Publishers, LeaseOutbox(p) PROVE FALSE
    <3>1. PICK locked \in SUBSET Events : Take(p, Selected(locked))
      BY <2>2 DEF LeaseOutbox
    <3>2. e \notin Selected(locked)
      BY DEF Selected, Eligible
    <3> QED
      BY <3>1, <3>2 DEF Take
  <2>3. ASSUME NEW p \in Publishers, NEW l \in Lease, Post(p, l) \/ LoseMark(p, l) PROVE FALSE
    BY <2>3 DEF Post, LoseMark, table
  <2>4. ASSUME NEW p \in Publishers, Crash(p) PROVE FALSE
    BY <2>4 DEF Crash, table
  <2>5. ASSUME NEW p \in Publishers, NEW l \in Lease,
               MarkOutboxPublished(p, l) \/ FailOutbox(p, l)
        PROVE  batch'[owner[e]] # batch[owner[e]]
    <3>1. l.event \in Events
      BY LeaseFields
    <3>2. owner[e] = p
      BY <2>5, <3>1 DEF MarkOutboxPublished, FailOutbox, Unlease, Owns
    <3>3. l \in batch[p] /\ l \notin batch'[p]
      BY <2>5 DEF MarkOutboxPublished, FailOutbox, First, Done
    <3> QED
      BY <3>2, <3>3
  <2> QED
    BY <2>1, <2>2, <2>3, <2>4, <2>5 DEF Next, Publish
<1> QED
  BY <1>1, InvInit, InvStep, PTL DEF Spec, LiveLeaseKept

-----------------------------------------------------------------------------
(* The event pipeline and its stream.                                      *)

Kinds == {"none", "update", "retry", "reset", "end", "completed", "accepted", "cancelled",
          "decided"}
Calls == [kind : Kinds, text : Seq(Nat), step : {"wanted", "emitted", "inserted"},
          n : Nat, seq : Nat]
Rows  == [by : Writers, kind : Kinds, text : Seq(Nat), n : Nat, seq : Nat]

Types ==
  /\ attempt \in Nat /\ partial \in Seq(Nat)
  /\ call \in [Writers -> Calls]
  /\ holder \in Emitters \cup {"none"} /\ sequence \in Nat /\ eventErr \in BOOLEAN
  /\ nextSeq \in Nat /\ log \in Seq(Rows)

\* Rows of the execution, so far.
Written == Cardinality(Own(log, Len(log)))

\* Whoever is between the mutex and the commit holds the mutex, has the next
\* number, and the pipeline is open.
Serial ==
  /\ \A g \in Emitters : call[g].step # "wanted" => holder = g
  /\ holder # "none" => /\ ~eventErr
                        /\ call[holder].n = sequence /\ sequence = Written + 1
  /\ holder = "none" /\ ~eventErr => sequence = Written

\* An inserted row that is not committed yet comes after the rows of the
\* execution that are.
Ahead ==
  /\ \A i \in Own(log, Len(log)) : log[i].seq <= nextSeq
  /\ \A g \in Emitters : call[g].step = "inserted" =>
       call[g].seq <= nextSeq /\ \A i \in Own(log, Len(log)) : log[i].seq < call[g].seq

PipelineInv == Types /\ Serial /\ Ahead /\ PersistedInOrder

-----------------------------------------------------------------------------
(* The log.                                                                *)

LEMMA OwnGrows ==
  ASSUME NEW s \in Seq(Rows), NEW row \in Rows, NEW i \in 0..Len(s)
  PROVE  Own(Append(s, row), i) = Own(s, i)
<1>1. \A j \in 1..i : Append(s, row)[j] = s[j]
  OBVIOUS
<1> QED
  BY <1>1 DEF Own

LEMMA OwnAppended ==
  ASSUME NEW s \in Seq(Rows), NEW row \in Rows
  PROVE  /\ Len(Append(s, row)) = Len(s) + 1
         /\ Append(s, row)[Len(s) + 1] = row
         /\ Own(Append(s, row), Len(s) + 1) =
              IF row.by = "api" THEN Own(s, Len(s)) ELSE Own(s, Len(s)) \cup {Len(s) + 1}
         /\ IsFiniteSet(Own(s, Len(s))) /\ Len(s) + 1 \notin Own(s, Len(s))
<1>1. Len(s) \in Nat
  OBVIOUS
<1>2. /\ Len(Append(s, row)) = Len(s) + 1
      /\ Append(s, row)[Len(s) + 1] = row
      /\ \A j \in 1..Len(s) : Append(s, row)[j] = s[j]
  OBVIOUS
<1>3. IsFiniteSet(1..Len(s)) /\ Own(s, Len(s)) \subseteq 1..Len(s)
  BY <1>1, FS_Interval DEF Own
<1>4. IsFiniteSet(Own(s, Len(s)))
  BY <1>3, FS_Subset
<1>5. 1..(Len(s) + 1) = (1..Len(s)) \cup {Len(s) + 1}
  BY <1>1
<1> QED
  BY <1>1, <1>2, <1>3, <1>4, <1>5 DEF Own

LEMMA WrittenType == ASSUME Types PROVE Written \in Nat
<1>1. Len(log) \in Nat
  BY DEF Types
<1>2. IsFiniteSet(1..Len(log)) /\ Own(log, Len(log)) \subseteq 1..Len(log)
  BY <1>1, FS_Interval DEF Own
<1>3. IsFiniteSet(Own(log, Len(log)))
  BY <1>2, FS_Subset
<1> QED
  BY <1>3, FS_CardinalityType DEF Written

\* The holder commits the next row of the execution.
LEMMA CommitOwn ==
  ASSUME PipelineInv, NEW g \in Emitters, call[g].step = "inserted", log' = Append(log, Row(g))
  PROVE  /\ PersistedInOrder' /\ Written' = Written + 1 /\ log' \in Seq(Rows)
         /\ \A i \in Own(log', Len(log')) : log'[i].seq <= nextSeq
<1> DEFINE row == Row(g)
<1>1. /\ log \in Seq(Rows) /\ Len(log) \in Nat /\ g \in Writers /\ g # "api"
      /\ call[g] \in Calls
  BY DEF PipelineInv, Types, Writers, Emitters
<1>2. row \in Rows /\ row.by = g /\ row.n = call[g].n /\ row.seq = call[g].seq
  BY <1>1 DEF Row, Rows, Calls
<1>3. /\ holder = g /\ row.n = Written + 1
      /\ row.seq <= nextSeq /\ \A i \in Own(log, Len(log)) : log[i].seq < row.seq
  BY <1>1, <1>2 DEF PipelineInv, Serial, Ahead, Emitters
<1> HIDE DEF row
<1>4. log' = Append(log, row) /\ log' \in Seq(Rows)
  BY <1>1, <1>2 DEF row
<1>5. /\ Len(log') = Len(log) + 1 /\ log'[Len(log) + 1] = row
      /\ Own(log', Len(log')) = Own(log, Len(log)) \cup {Len(log) + 1}
      /\ IsFiniteSet(Own(log, Len(log))) /\ Len(log) + 1 \notin Own(log, Len(log))
  BY ZenonT(60), <1>1, <1>2, <1>4, OwnAppended
<1>6. Written' = Written + 1
  <2>1. Cardinality(Own(log, Len(log)) \cup {Len(log) + 1}) = Cardinality(Own(log, Len(log))) + 1
    BY <1>5, FS_AddElement
  <2> QED
    BY <1>5, <2>1 DEF Written
<1>7. \A i \in 0..Len(log) : Own(log', i) = Own(log, i)
  BY <1>1, <1>2, <1>4, OwnGrows
<1>8. \A i \in 1..Len(log) : log'[i] = log[i]
  BY <1>1, <1>4
<1>9. \A i \in Own(log, Len(log)) : i \in 1..Len(log)
  BY DEF Own
<1>10. ASSUME NEW i \in Own(log', Len(log'))
       PROVE  /\ log'[i].n = Cardinality(Own(log', i))
              /\ \A j \in Own(log', i - 1) : log'[j].seq < log'[i].seq
              /\ log'[i].seq <= nextSeq
  <2>1. CASE i = Len(log) + 1
    <3>1. Own(log', i - 1) = Own(log, Len(log))
      BY <1>1, <1>7, <2>1
    <3>2. \A j \in Own(log, Len(log)) : log'[j] = log[j]
      BY <1>8, <1>9
    <3> QED
      BY <1>3, <1>5, <1>6, <2>1, <3>1, <3>2 DEF Written
  <2>2. CASE i \in Own(log, Len(log))
    <3>1. i \in 1..Len(log) /\ Own(log', i) = Own(log, i) /\ Own(log', i - 1) = Own(log, i - 1)
      BY <1>1, <1>7, <1>9, <2>2
    <3>2. \A j \in Own(log, i - 1) : log'[j] = log[j]
      BY <1>1, <1>8, <3>1 DEF Own
    <3>3. log'[i] = log[i] /\ log[i].seq <= nextSeq
      BY <1>8, <2>2, <3>1 DEF PipelineInv, Ahead
    <3> QED
      BY <2>2, <3>1, <3>2, <3>3 DEF PipelineInv, PersistedInOrder
  <2> QED
    BY <1>5, <2>1, <2>2
<1> QED
  BY <1>4, <1>6, <1>10 DEF PersistedInOrder

\* A row of the API is nothing to the rows of the execution.
LEMMA CommitApi ==
  ASSUME PipelineInv, log' = Append(log, Row("api"))
  PROVE  /\ PersistedInOrder' /\ Written' = Written /\ log' \in Seq(Rows)
         /\ Own(log', Len(log')) = Own(log, Len(log))
         /\ \A i \in Own(log, Len(log)) : log'[i] = log[i]
<1> DEFINE row == Row("api")
<1>1. log \in Seq(Rows) /\ Len(log) \in Nat /\ "api" \in Writers /\ call["api"] \in Calls
  BY DEF PipelineInv, Types, Writers, Emitters
<1>2. row \in Rows /\ row.by = "api"
  BY <1>1 DEF Row, Rows, Calls
<1> HIDE DEF row
<1>3. log' = Append(log, row) /\ log' \in Seq(Rows)
  BY <1>1, <1>2 DEF row
<1>4. Len(log') = Len(log) + 1 /\ Own(log', Len(log')) = Own(log, Len(log))
  <2>1. /\ Len(Append(log, row)) = Len(log) + 1
        /\ Own(Append(log, row), Len(log) + 1) = Own(log, Len(log))
    BY <1>1, <1>2, OwnAppended, Zenon
  <2> QED
    BY <1>3, <2>1, Zenon
<1>5. \A i \in 0..Len(log) : Own(log', i) = Own(log, i)
  BY <1>1, <1>2, <1>3, OwnGrows
<1>6. \A i \in 1..Len(log) : log'[i] = log[i]
  BY <1>1, <1>3
<1>7. ASSUME NEW i \in Own(log, Len(log))
      PROVE  /\ log'[i] = log[i] /\ log'[i].n = Cardinality(Own(log', i))
             /\ \A j \in Own(log', i - 1) : log'[j].seq < log'[i].seq
  <2>1. i \in 1..Len(log)
    BY DEF Own
  <2>2. Own(log', i) = Own(log, i) /\ Own(log', i - 1) = Own(log, i - 1)
    BY <1>1, <1>5, <2>1
  <2>3. \A j \in Own(log, i - 1) : log'[j] = log[j]
    BY <1>1, <1>6, <2>1 DEF Own
  <2> QED
    BY <1>6, <2>1, <2>2, <2>3 DEF PipelineInv, PersistedInOrder
<1> QED
  BY <1>3, <1>4, <1>7 DEF PersistedInOrder, Written

-----------------------------------------------------------------------------
(* The steps.                                                              *)

\* runAgent, pollControls and the API take up another event.
LEMMA EmitStep ==
  ASSUME PipelineInv, NEW w \in Writers, NEW kind \in Kinds, NEW text \in Seq(Nat),
         Emit(w, kind, text), attempt' \in Nat, partial' \in Seq(Nat),
         UNCHANGED <<holder, sequence, eventErr, nextSeq, log>>
  PROVE  PipelineInv'
<1>1. /\ call' = [call EXCEPT ![w] = Event(kind, text)] /\ Event(kind, text) \in Calls
      /\ call[w].step = "wanted" /\ call[w].n = 0 /\ call \in [Writers -> Calls]
  BY DEF Emit, Event, Calls, Free, NoEvent, PipelineInv, Types
<1>2. Types'
  BY <1>1 DEF PipelineInv, Types
<1>3. /\ \A g \in Writers \ {w} : call'[g] = call[g]
      /\ call'[w].step = "wanted" /\ call'[w].n = 0
  BY <1>1 DEF Event
<1>4. Written' = Written
  BY DEF Written
<1>5. Serial'
  BY <1>1, <1>3, <1>4 DEF PipelineInv, Serial, Writers, Types
<1>6. Ahead'
  BY <1>1, <1>3 DEF PipelineInv, Ahead, Writers
<1> QED
  BY <1>2, <1>5, <1>6 DEF PipelineInv, PersistedInOrder

LEMMA LoopStep ==
  ASSUME PipelineInv,
         \/ Delta \/ ProviderRetry \/ MessageReset \/ BackoffEnds \/ MessageEnd \/ RunCompleted
         \/ ControlAccepted \/ ApiRequest
  PROVE  PipelineInv'
<1>0. /\ attempt \in Nat /\ partial \in Seq(Nat) /\ <<>> \in Seq(Nat)
      /\ {"loop", "controls", "api"} \subseteq Writers
      /\ {"update", "retry", "reset", "end", "completed", "accepted", "cancelled", "decided"}
           \subseteq Kinds
  BY DEF PipelineInv, Types, Writers, Emitters, Kinds
<1>1. CASE Delta
  <2>1. <<attempt>> \in Seq(Nat) /\ partial' \in Seq(Nat)
    BY <1>0, <1>1 DEF Delta
  <2> QED
    BY <1>0, <1>1, <2>1, EmitStep DEF Delta, Loop
<1>2. CASE ProviderRetry
  BY <1>0, <1>2, EmitStep DEF ProviderRetry, Loop
<1>3. CASE MessageReset
  BY <1>0, <1>3, EmitStep DEF MessageReset, Loop
<1>4. CASE BackoffEnds
  <2>1. attempt' \in Nat /\ UNCHANGED <<partial, call, holder, sequence, eventErr, nextSeq, log>>
    BY <1>0, <1>4 DEF BackoffEnds, pipeline
  <2> QED
    BY <2>1 DEF PipelineInv, Types, Serial, Ahead, PersistedInOrder, Written
<1>5. CASE MessageEnd
  BY <1>0, <1>5, EmitStep DEF MessageEnd, Loop
<1>6. CASE RunCompleted
  BY <1>0, <1>6, EmitStep DEF RunCompleted, Loop
<1>7. CASE ControlAccepted
  BY <1>0, <1>7, EmitStep DEF ControlAccepted
<1>8. CASE ApiRequest
  BY <1>0, <1>8, EmitStep DEF ApiRequest
<1> QED
  BY <1>1, <1>2, <1>3, <1>4, <1>5, <1>6, <1>7, <1>8

\* The mutex and the number.
LEMMA LockStep ==
  ASSUME PipelineInv, NEW g \in Emitters, Lock(g) \/ Refuse(g)
  PROVE  PipelineInv'
<1>0. /\ g \in Writers /\ call \in [Writers -> Calls] /\ call[g] \in Calls /\ g # "none"
      /\ holder = "none" /\ sequence \in Nat /\ NoEvent \in Calls
      /\ \A h \in Emitters : call[h].step = "wanted"
      /\ Emitters \subseteq Writers
  BY SMTT(30) DEF PipelineInv, Types, Serial, Lock, Refuse, Writers, Emitters, Calls, Kinds,
                  NoEvent, Event
<1>1. Written' = Written
  BY DEF Lock, Refuse, Written
<1>2. CASE Lock(g)
  <2>1. /\ call' = [call EXCEPT ![g] = [kind |-> @.kind, text |-> @.text, step |-> "emitted",
                                        n |-> sequence + 1, seq |-> 0]]
        /\ holder' = g /\ sequence' = sequence + 1
        /\ UNCHANGED <<attempt, partial, eventErr, nextSeq, log>> /\ ~eventErr
    BY <1>2 DEF Lock, Step, engine
  <2>2. /\ \A h \in Writers \ {g} : call'[h] = call[h]
        /\ call'[g].step = "emitted" /\ call'[g].n = sequence + 1
        /\ call' \in [Writers -> Calls]
    BY <1>0, <2>1 DEF Calls
  <2>3. Types'
    BY <1>0, <2>1, <2>2 DEF PipelineInv, Types
  <2>4. Serial'
    BY <1>0, <1>1, <2>1, <2>2 DEF PipelineInv, Serial
  <2>5. Ahead'
    BY <1>0, <2>1, <2>2 DEF PipelineInv, Ahead
  <2> QED
    BY <2>1, <2>3, <2>4, <2>5 DEF PipelineInv, PersistedInOrder
<1>3. CASE Refuse(g)
  <2>1. /\ call' = [call EXCEPT ![g] = NoEvent]
        /\ UNCHANGED <<attempt, partial, holder, sequence, eventErr, nextSeq, log>> /\ eventErr
    BY <1>3 DEF Refuse, engine
  <2>2. \A h \in Emitters : call'[h].step = "wanted"
    BY <1>0, <2>1 DEF NoEvent, Event
  <2>3. Types'
    BY <1>0, <2>1 DEF PipelineInv, Types
  <2>4. Serial' /\ Ahead'
    BY <1>0, <2>1, <2>2 DEF PipelineInv, Serial, Ahead
  <2> QED
    BY <2>1, <2>3, <2>4 DEF PipelineInv, PersistedInOrder
<1> QED
  BY <1>2, <1>3

\* The seq, which is greater than all before it.
LEMMA InsertStep ==
  ASSUME PipelineInv, NEW w \in Writers, Insert(w)
  PROVE  PipelineInv'
<1>1. /\ call' = [call EXCEPT ![w] = [kind |-> @.kind, text |-> @.text, step |-> "inserted",
                                      n |-> call[w].n, seq |-> nextSeq + 1]]
      /\ call[w].step = IF w = "api" THEN "wanted" ELSE "emitted"
      /\ nextSeq' = nextSeq + 1
      /\ UNCHANGED <<attempt, partial, holder, sequence, eventErr, log>>
  BY DEF Insert, Step, engine
<1>2. /\ call \in [Writers -> Calls] /\ call[w] \in Calls /\ nextSeq \in Nat
      /\ Emitters \subseteq Writers /\ log \in Seq(Rows)
  BY DEF PipelineInv, Types, Writers
<1>3. /\ \A h \in Writers \ {w} : call'[h] = call[h]
      /\ call'[w].step = "inserted" /\ call'[w].n = call[w].n /\ call'[w].seq = nextSeq + 1
      /\ call' \in [Writers -> Calls]
  BY <1>1, <1>2 DEF Calls
<1>4. Types'
  BY <1>1, <1>2, <1>3 DEF PipelineInv, Types
<1>5. Written' = Written
  BY <1>1 DEF Written
<1>6. Serial'
  BY <1>1, <1>2, <1>3, <1>5 DEF PipelineInv, Serial, Types, Writers, Emitters
<1>7. Ahead'
  <2>1. \A i \in Own(log, Len(log)) : log[i].seq \in Nat
    <3>1. \A i \in Own(log, Len(log)) : i \in 1..Len(log)
      BY DEF Own
    <3>2. \A i \in 1..Len(log) : log[i] \in Rows
      BY <1>2
    <3> QED
      BY <3>1, <3>2 DEF Rows
  <2>2. \A h \in Writers : call[h].seq \in Nat
    BY <1>2 DEF Calls
  <2> QED
    BY <1>1, <1>2, <1>3, <2>1, <2>2 DEF PipelineInv, Ahead
<1> QED
  BY <1>1, <1>4, <1>6, <1>7 DEF PipelineInv, PersistedInOrder

\* The commit, and the failure on either side of it.
LEMMA CommitStep ==
  ASSUME PipelineInv, NEW g \in Emitters, CommitEvent(g) \/ failEventPipeline(g)
  PROVE  PipelineInv'
<1>1. /\ call' = [call EXCEPT ![g] = NoEvent] /\ holder' = "none"
      /\ UNCHANGED <<attempt, partial, sequence, nextSeq>>
      /\ \/ log' = log /\ eventErr'
         \/ call[g].step = "inserted" /\ log' = Append(log, Row(g)) /\ eventErr' \in BOOLEAN
  BY DEF CommitEvent, failEventPipeline, Release, Commit, engine, Emitters, PipelineInv, Types
<1>2. /\ g \in Writers /\ call \in [Writers -> Calls] /\ NoEvent \in Calls
      /\ Emitters \subseteq Writers /\ call[g].step # "wanted"
  BY DEF PipelineInv, Types, Writers, Calls, Kinds, NoEvent, Event, CommitEvent, failEventPipeline
<1>3. holder = g /\ g # "none" /\ sequence = Written + 1
  BY <1>2 DEF PipelineInv, Serial, Emitters
<1>4. \A h \in Emitters : call'[h].step = "wanted"
  BY <1>1, <1>2, <1>3 DEF PipelineInv, Serial, NoEvent, Event
<1>5. CASE log' = log /\ eventErr'
  <2>1. Types'
    BY <1>1, <1>2, <1>5 DEF PipelineInv, Types
  <2>2. Serial' /\ Ahead' /\ PersistedInOrder'
    BY <1>1, <1>4, <1>5 DEF PipelineInv, Serial, Ahead, PersistedInOrder
  <2> QED
    BY <2>1, <2>2 DEF PipelineInv
<1>6. CASE call[g].step = "inserted" /\ log' = Append(log, Row(g)) /\ eventErr' \in BOOLEAN
  <2>1. /\ PersistedInOrder' /\ Written' = Written + 1 /\ log' \in Seq(Rows)
        /\ \A i \in Own(log', Len(log')) : log'[i].seq <= nextSeq
    BY <1>6, CommitOwn
  <2>2. Types'
    BY <1>1, <1>2, <1>6, <2>1 DEF PipelineInv, Types
  <2>3. Serial' /\ Ahead'
    BY <1>1, <1>3, <1>4, <2>1 DEF Serial, Ahead
  <2> QED
    BY <2>1, <2>2, <2>3 DEF PipelineInv
<1> QED
  BY <1>1, <1>5, <1>6

LEMMA ApiCommitStep ==
  ASSUME PipelineInv, CommitEvent("api")
  PROVE  PipelineInv'
<1>1. /\ call' = [call EXCEPT !["api"] = NoEvent] /\ log' = Append(log, Row("api"))
      /\ UNCHANGED <<attempt, partial, holder, sequence, eventErr, nextSeq>>
  BY DEF CommitEvent, Release, Commit, engine
<1>2. /\ "api" \in Writers /\ call \in [Writers -> Calls] /\ NoEvent \in Calls
      /\ Emitters \subseteq Writers \ {"api"}
  BY DEF PipelineInv, Types, Writers, Calls, Kinds, NoEvent, Event, Emitters
<1>3. \A h \in Emitters : call'[h] = call[h]
  BY <1>1, <1>2
<1>4. /\ PersistedInOrder' /\ Written' = Written /\ log' \in Seq(Rows)
      /\ Own(log', Len(log')) = Own(log, Len(log))
      /\ \A i \in Own(log, Len(log)) : log'[i] = log[i]
  BY <1>1, CommitApi
<1>5. Types'
  BY <1>1, <1>2, <1>4 DEF PipelineInv, Types
<1>6. Serial'
  BY <1>1, <1>3, <1>4 DEF PipelineInv, Serial, Types
<1>7. Ahead'
  BY <1>1, <1>3, <1>4 DEF PipelineInv, Ahead
<1> QED
  BY <1>4, <1>5, <1>6, <1>7 DEF PipelineInv

LEMMA PipelineStarts == PipelineInit => PipelineInv
<1> SUFFICES ASSUME PipelineInit PROVE PipelineInv
  OBVIOUS
<1>1. <<>> \in Seq(Nat) /\ <<>> \in Seq(Rows) /\ NoEvent \in Calls
  BY DEF NoEvent, Event, Calls, Kinds
<1>2. Own(log, Len(log)) = {}
  BY DEF PipelineInit, Own
<1>3. Written = 0
  BY <1>2, FS_EmptySet DEF Written
<1>4. Types
  BY <1>1 DEF PipelineInit, Types
<1>5. Serial
  BY <1>3 DEF PipelineInit, Serial, Writers, NoEvent, Event
<1>6. Ahead
  BY <1>2 DEF PipelineInit, Ahead, Writers, NoEvent, Event
<1> QED
  BY <1>2, <1>4, <1>5, <1>6 DEF PipelineInv, PersistedInOrder

LEMMA PipelineSteps == PipelineInv /\ [PipelineNext]_pipeVars => PipelineInv'
<1> SUFFICES ASSUME PipelineInv, [PipelineNext]_pipeVars PROVE PipelineInv'
  OBVIOUS
<1>1. CASE UNCHANGED <<engine, pipeline>>
  BY <1>1 DEF engine, pipeline, PipelineInv, Types, Serial, Ahead, PersistedInOrder, Written
<1>2. CASE UNCHANGED pipeVars
  BY <1>1, <1>2 DEF pipeVars, engine, pipeline
<1>3. ASSUME NEW g \in Emitters, Emitting(g) PROVE PipelineInv'
  BY <1>3, LockStep, InsertStep, CommitStep DEF Emitting, Writers
<1>4. CASE Insert("api") \/ CommitEvent("api")
  BY <1>4, InsertStep, ApiCommitStep DEF Writers
<1>5. CASE SendEvents \/ PollStatus \/ EndStream \/ Reconnect
  BY <1>1, <1>5 DEF SendEvents, PollStatus, EndStream, Reconnect
<1> QED
  BY <1>2, <1>3, <1>4, <1>5, LoopStep DEF PipelineNext

\* emitMu does what its comment says: for any number of retries, deltas and
\* controls, and with the API writing beside them, the execution's rows have
\* its numbers in order and without a gap, and their seqs ascend with them.
THEOREM PersistedOrder == PipelineSpec => []PersistedInOrder
<1>1. PipelineInv => PersistedInOrder
  BY DEF PipelineInv
<1> QED
  BY <1>1, PipelineStarts, PipelineSteps, PTL DEF PipelineSpec

-----------------------------------------------------------------------------
(* The stream.                                                             *)

\* The reader's cursor is at a committed row, and no two rows have one seq,
\* those not committed yet included.
ReaderTypes ==
  /\ reader \in [on : BOOLEAN, terminal : BOOLEAN, after : Nat, got : Seq(Rows)]
  /\ terminal \in BOOLEAN

Inserted == {w \in Writers : call[w].step = "inserted"}

Distinct ==
  /\ \A i \in DOMAIN log : log[i].seq \in 1..nextSeq
  /\ \A i, j \in DOMAIN log : log[i].seq = log[j].seq => i = j
  /\ \A w \in Inserted : call[w].seq \in 1..nextSeq
  /\ \A w \in Inserted, i \in DOMAIN log : log[i].seq # call[w].seq
  /\ \A v, w \in Inserted : call[v].seq = call[w].seq => v = w

Cursor ==
  /\ reader.after = 0 \/ \E i \in DOMAIN log : log[i].seq = reader.after
  /\ \A k \in DOMAIN reader.got : reader.got[k].seq <= reader.after

StreamInv == PipelineInv /\ ReaderTypes /\ Distinct /\ Cursor /\ SkipsOnlyOvertaken

\* What a page holds: committed rows behind the cursor, by seq, and all of
\* them up to the last one it holds.
LEMMA Page ==
  ASSUME Types, Distinct, NEW after \in Nat
  PROVE  LET fetched == ListRunEvents(after) IN
         /\ fetched \in Seq(Rows)
         /\ \A k \in DOMAIN fetched :
              \E i \in DOMAIN log : log[i] = fetched[k] /\ log[i].seq > after
         /\ \A k, l \in DOMAIN fetched : k < l => fetched[k].seq < fetched[l].seq
         /\ \A i \in After(after), k \in DOMAIN fetched :
              log[i].seq <= fetched[k].seq => \E l \in 1..k : fetched[l] = log[i]
<1> DEFINE S    == After(after)
           K    == [i \in S |-> log[i].seq]
           C    == Cardinality(S)
           n    == IF C < Limit THEN C ELSE Limit
           Rank(i) == Cardinality(Lower(K, S, i))
           At(k) == CHOOSE i \in S : Cardinality(Before(after, i)) = k - 1
           fetched == ListRunEvents(after)
<1>1. S \subseteq 1..Len(log) /\ Len(log) \in Nat /\ DOMAIN log = 1..Len(log)
      /\ \A i \in DOMAIN log : log[i] \in Rows /\ log[i].seq \in Nat
  <2>1. log \in Seq(Rows) /\ \A r \in Rows : r.seq \in Nat
    BY DEF Types, Rows
  <2>2. DOMAIN log = 1..Len(log) /\ Len(log) \in Nat /\ \A i \in DOMAIN log : log[i] \in Rows
    BY <2>1
  <2>3. S \subseteq DOMAIN log
    BY DEF After
  <2> QED
    BY <2>1, <2>2, <2>3
<1>2. IsFiniteSet(S) /\ C \in Nat
  <2>1. IsFiniteSet(1..Len(log))
    BY <1>1, FS_Interval
  <2>2. IsFiniteSet(S)
    BY <1>1, <2>1, FS_Subset
  <2> QED
    BY <2>2, FS_CardinalityType
<1>3. K \in [S -> Nat] /\ \A i, j \in S : K[i] = K[j] => i = j
  BY <1>1 DEF Distinct
<1>4. \A i \in S : Before(after, i) = Lower(K, S, i)
  BY DEF Before, Lower
<1>5. fetched = [k \in 1..n |-> log[At(k)]]
  BY DEF ListRunEvents
<1>6. n \in Nat /\ n <= C /\ \A i \in S : Rank(i) \in Nat
  <2>1. \A i \in S : Rank(i) \in Nat
    BY <1>2, LowerFinite
  <2>2. Limit \in Nat
    BY PipelineAssumption
  <2> HIDE DEF C, Rank
  <2> QED
    BY <1>2, <2>1, <2>2
<1> HIDE DEF S, K, C, n
<1>7. ASSUME NEW k \in 1..n PROVE At(k) \in S /\ Rank(At(k)) = k - 1
  <2>1. k - 1 \in Nat /\ k - 1 < C
    BY <1>2, <1>6
  <2>2. \E i \in S : Cardinality(Lower(K, S, i)) = k - 1
    BY <1>2, <1>3, <2>1, RankTaken DEF C
  <2>3. \E i \in S : Cardinality(Before(after, i)) = k - 1
    BY <1>4, <2>2
  <2>4. At(k) \in S /\ Cardinality(Before(after, At(k))) = k - 1
    BY <2>3
  <2> QED
    BY <1>4, <2>4
<1> HIDE DEF At, Rank, fetched
<1>8. DOMAIN fetched = 1..n /\ \A k \in 1..n : fetched[k] = log[At(k)]
  BY <1>5
<1>9. \A k \in 1..n : log[At(k)] \in Rows /\ At(k) \in DOMAIN log /\ log[At(k)].seq > after
  BY <1>1, <1>7 DEF S, After
<1>10. fetched \in Seq(Rows)
  <2>1. fetched \in [1..n -> Rows]
    BY <1>5, <1>8, <1>9
  <2> QED
    BY <1>6, <2>1
<1>11. \A i, j \in S : K[i] < K[j] => Rank(i) < Rank(j)
  BY <1>2, <1>3, RankGrows DEF Rank
<1>12. \A i \in S : K[i] = log[i].seq
  BY DEF K
<1>13. ASSUME NEW i \in S, NEW j \in S, Rank(i) < Rank(j) PROVE log[i].seq < log[j].seq
  <2>1. log[i].seq \in Nat /\ log[j].seq \in Nat /\ Rank(i) \in Nat /\ Rank(j) \in Nat
    BY <1>1, <1>6
  <2>2. CASE log[j].seq < log[i].seq
    BY <1>11, <1>12, <1>13, <2>1, <2>2
  <2>3. CASE log[j].seq = log[i].seq
    BY <1>3, <1>12, <1>13, <2>1, <2>3
  <2> QED
    BY <2>1, <2>2, <2>3
<1>14. ASSUME NEW k \in 1..n, NEW l \in 1..n, k < l PROVE fetched[k].seq < fetched[l].seq
  <2>1. Rank(At(k)) < Rank(At(l))
    BY <1>6, <1>7, <1>14
  <2> QED
    BY <1>7, <1>8, <1>13, <2>1
<1>15. ASSUME NEW i \in S, NEW k \in 1..n, log[i].seq <= fetched[k].seq
       PROVE  \E l \in 1..k : fetched[l] = log[i]
  <2>1. At(k) \in S /\ Rank(At(k)) = k - 1 /\ Rank(i) \in Nat /\ log[i].seq \in Nat
        /\ log[At(k)].seq \in Nat /\ log[i].seq <= log[At(k)].seq
    BY <1>1, <1>6, <1>7, <1>8, <1>15
  <2>2. ~(Rank(At(k)) < Rank(i))
    BY <1>13, <2>1
  <2>3. Rank(i) + 1 \in 1..k /\ Rank(i) + 1 \in 1..n
    BY <1>6, <2>1, <2>2
  <2> DEFINE l == Rank(i) + 1
  <2>4. At(l) \in S /\ Rank(At(l)) = Rank(i)
    BY <1>7, <2>1, <2>3
  <2>5. At(l) = i
    <3>1. log[At(l)].seq \in Nat
      BY <1>1, <2>4
    <3>2. K[At(l)] = K[i]
      BY <1>11, <1>12, <2>1, <2>4, <3>1
    <3> QED
      BY <1>3, <2>4, <3>2
  <2> QED
    BY <1>8, <2>3, <2>5
<1> QED
  BY <1>8, <1>9, <1>10, <1>14, <1>15 DEF fetched, S

\* The writers take up, number and drop events: no seq is given.
LEMMA HandsMove ==
  ASSUME Distinct, UNCHANGED <<log, nextSeq>>,
         \A w \in Writers : call'[w].step = "inserted" => call'[w] = call[w]
  PROVE  Distinct'
<1>1. \A w \in Inserted' : w \in Inserted /\ call'[w].seq = call[w].seq
  BY DEF Inserted
<1> QED
  BY <1>1 DEF Distinct

\* The insertion takes the next seq.
LEMMA InsertDistinct ==
  ASSUME Types, Distinct, NEW w \in Writers, Insert(w)
  PROVE  Distinct'
<1>1. /\ call' = [call EXCEPT ![w] = [kind |-> @.kind, text |-> @.text, step |-> "inserted",
                                      n |-> call[w].n, seq |-> nextSeq + 1]]
      /\ call[w].step # "inserted"
      /\ nextSeq' = nextSeq + 1 /\ log' = log
  BY DEF Insert, Step
<1>2. call \in [Writers -> Calls] /\ nextSeq \in Nat
  BY DEF Types
<1>3. /\ call'[w].seq = nextSeq + 1 /\ call'[w].step = "inserted"
      /\ \A v \in Writers \ {w} : call'[v] = call[v]
  BY <1>1, <1>2
<1>4. w \notin Inserted /\ Inserted' = Inserted \cup {w}
  BY <1>1, <1>3 DEF Inserted
<1>5. Inserted \subseteq Writers
  BY DEF Inserted
<1>6. \A v \in Inserted : call'[v].seq = call[v].seq /\ call[v].seq \in 1..nextSeq
  BY <1>3, <1>4, <1>5 DEF Distinct
<1>7. \A i \in DOMAIN log : log'[i].seq = log[i].seq /\ log[i].seq \in 1..nextSeq
  BY <1>1 DEF Distinct
<1>8. /\ 1..nextSeq \subseteq 1..nextSeq' /\ nextSeq + 1 \notin 1..nextSeq
      /\ nextSeq + 1 \in 1..nextSeq'
  BY <1>1, <1>2
<1>9. \A i \in DOMAIN log' : log'[i].seq \in 1..nextSeq'
  BY <1>1, <1>7, <1>8
<1>10. \A i, j \in DOMAIN log' : log'[i].seq = log'[j].seq => i = j
  BY <1>1 DEF Distinct
<1>11. \A v \in Inserted' : call'[v].seq \in 1..nextSeq'
  BY <1>3, <1>4, <1>6, <1>8
<1>12. \A v \in Inserted', i \in DOMAIN log' : log'[i].seq # call'[v].seq
  BY <1>1, <1>3, <1>4, <1>6, <1>7, <1>8 DEF Distinct
<1>13. \A u, v \in Inserted' : call'[u].seq = call'[v].seq => u = v
  BY <1>3, <1>4, <1>6, <1>8 DEF Distinct
<1> QED
  BY <1>9, <1>10, <1>11, <1>12, <1>13 DEF Distinct

\* A commit behind the cursor is of a row that was overtaken: the row at the
\* cursor is there, and has another seq.
LEMMA CommitSkips ==
  ASSUME Types, ReaderTypes, Distinct, Cursor, SkipsOnlyOvertaken, NEW w \in Inserted,
         log' = Append(log, Row(w)), UNCHANGED <<nextSeq, reader>>,
         \A v \in Writers : call'[v].step = "inserted" => v # w /\ call'[v] = call[v]
  PROVE  Distinct' /\ Cursor' /\ SkipsOnlyOvertaken'
<1> DEFINE n == Len(log)
           s == call[w].seq
<1>1. n \in Nat /\ DOMAIN log = 1..n /\ DOMAIN log' = 1..(n + 1)
      /\ \A i \in DOMAIN log : log'[i] = log[i]
      /\ log'[n + 1] = Row(w)
  BY DEF Types
<1>2. log'[n + 1].seq = s
  BY <1>1 DEF Row
<1>3. w \in Writers /\ \A v \in Inserted' : v \in Inserted /\ v # w /\ call'[v].seq = call[v].seq
  BY DEF Inserted
<1>4. \A i \in DOMAIN log' : i \in DOMAIN log \/ i = n + 1
  BY <1>1
<1>5. /\ \A i \in DOMAIN log : log'[i].seq = log[i].seq /\ log[i].seq \in 1..nextSeq
      /\ \A i \in DOMAIN log : log[i].seq # s
      /\ s \in 1..nextSeq
  BY <1>1 DEF Distinct
<1> HIDE DEF n, s
<1>6. Distinct'
  <2>1. \A i \in DOMAIN log' : log'[i].seq \in 1..nextSeq'
    BY <1>2, <1>4, <1>5
  <2>2. \A i, j \in DOMAIN log' : log'[i].seq = log'[j].seq => i = j
    BY <1>2, <1>4, <1>5 DEF Distinct
  <2>3. \A v \in Inserted' : call'[v].seq \in 1..nextSeq'
    BY <1>3 DEF Distinct
  <2>4. \A v \in Inserted', i \in DOMAIN log' : log'[i].seq # call'[v].seq
    BY <1>2, <1>3, <1>4, <1>5 DEF Distinct, s
  <2>5. \A u, v \in Inserted' : call'[u].seq = call'[v].seq => u = v
    BY <1>3 DEF Distinct
  <2> QED
    BY <2>1, <2>2, <2>3, <2>4, <2>5 DEF Distinct
<1>7. Cursor'
  <2>1. DOMAIN log \subseteq DOMAIN log'
    BY <1>1
  <2>2. reader'.after = 0 \/ \E i \in DOMAIN log' : log'[i].seq = reader'.after
    BY <1>5, <2>1 DEF Cursor
  <2> QED
    BY <2>2 DEF Cursor
<1>8. SkipsOnlyOvertaken'
  <2>1. ASSUME NEW i \in DOMAIN log', log'[i].seq <= reader.after, log'[i] \notin ToSet(reader.got)
        PROVE  \E j \in 1..(i - 1) : log'[j].seq > log'[i].seq
    <3>1. CASE i \in DOMAIN log
      <4>1. log'[i] = log[i]
        BY <1>1, <3>1
      <4>2. PICK j \in 1..(i - 1) : log[j].seq > log[i].seq
        BY <2>1, <3>1, <4>1 DEF SkipsOnlyOvertaken
      <4>3. j \in DOMAIN log
        BY <1>1, <3>1
      <4> QED
        BY <1>1, <4>1, <4>2, <4>3
    <3>2. CASE i = n + 1
      <4>1. s <= reader.after /\ reader.after \in Nat /\ s \in Nat /\ s > 0
        BY <1>2, <1>5, <2>1, <3>2 DEF ReaderTypes
      <4>2. PICK j \in DOMAIN log : log[j].seq = reader.after
        BY <4>1 DEF Cursor
      <4>3. log[j].seq > s
        BY <1>5, <4>1, <4>2
      <4>4. j \in 1..(i - 1)
        BY <1>1, <3>2
      <4> QED
        BY <1>1, <1>2, <3>2, <4>2, <4>3, <4>4
    <3> QED
      BY <1>4, <3>1, <3>2
  <2>2. \A i, j \in DOMAIN reader'.got : i < j => reader'.got[i].seq < reader'.got[j].seq
    BY DEF SkipsOnlyOvertaken
  <2> QED
    BY <2>1, <2>2 DEF SkipsOnlyOvertaken
<1> QED
  BY <1>6, <1>7, <1>8

\* A page, or the part of it that arrives before the connection breaks, moves
\* the cursor over rows that the reader got.
LEMMA PageRead ==
  ASSUME StreamInv, NEW k \in 1..Len(ListRunEvents(reader.after)),
         reader' \in [on : BOOLEAN, terminal : BOOLEAN, after : Nat, got : Seq(Rows)],
         reader'.got = reader.got \o SubSeq(ListRunEvents(reader.after), 1, k),
         reader'.after = ListRunEvents(reader.after)[k].seq,
         UNCHANGED log
  PROVE  Cursor' /\ SkipsOnlyOvertaken'
<1> DEFINE fetched  == ListRunEvents(reader.after)
           after == reader.after
           got   == reader.got
           more  == SubSeq(fetched, 1, k)
<1>1. after \in Nat /\ got \in Seq(Rows) /\ Types /\ Distinct
  BY DEF StreamInv, PipelineInv, ReaderTypes
<1>2. /\ fetched \in Seq(Rows)
      /\ \A l \in DOMAIN fetched : \E i \in DOMAIN log : log[i] = fetched[l] /\ log[i].seq > after
      /\ \A l, m \in DOMAIN fetched : l < m => fetched[l].seq < fetched[m].seq
      /\ \A i \in After(after), m \in DOMAIN fetched :
           log[i].seq <= fetched[m].seq => \E l \in 1..m : fetched[l] = log[i]
  BY <1>1, Page
<1> HIDE DEF fetched
<1>3. DOMAIN fetched = 1..Len(fetched) /\ Len(fetched) \in Nat /\ k \in 1..Len(fetched) /\ k \in Nat
  BY <1>2 DEF fetched
<1>4. more \in Seq(Rows) /\ Len(more) = k /\ \A l \in 1..k : more[l] = fetched[l]
  BY <1>2, <1>3
<1>5. \A r \in Rows : r.seq \in Nat
  BY DEF Rows
<1>6. \A l \in 1..k : /\ fetched[l].seq \in Nat /\ fetched[l].seq <= fetched[k].seq
                      /\ fetched[l].seq > after
  <2> SUFFICES ASSUME NEW l \in 1..k
               PROVE  /\ fetched[l].seq \in Nat /\ fetched[l].seq <= fetched[k].seq
                      /\ fetched[l].seq > after
    OBVIOUS
  <2>1. /\ l \in DOMAIN fetched /\ k \in DOMAIN fetched
        /\ fetched[l].seq \in Nat /\ fetched[k].seq \in Nat
    BY <1>2, <1>3, <1>5
  <2>2. fetched[l].seq > after
    BY <1>2, <2>1
  <2>3. fetched[l].seq <= fetched[k].seq
    <3>1. l = k \/ l < k
      BY <1>3
    <3>2. l < k => fetched[l].seq < fetched[k].seq
      BY <1>2, <2>1
    <3> QED
      BY ONLY <2>1, <3>1, <3>2
  <2> QED
    BY <2>1, <2>2, <2>3
<1>7. /\ Len(got) \in Nat /\ DOMAIN got = 1..Len(got) /\ DOMAIN reader'.got = 1..(Len(got) + k)
      /\ \A m \in 1..Len(got) : reader'.got[m] = got[m]
      /\ \A l \in 1..k : reader'.got[Len(got) + l] = fetched[l]
  <2>1. reader'.got = got \o more
    BY DEF fetched
  <2> HIDE DEF more, got
  <2>2. /\ Len(got) \in Nat /\ DOMAIN got = 1..Len(got)
        /\ DOMAIN (got \o more) = 1..(Len(got) + k)
        /\ \A m \in 1..Len(got) : (got \o more)[m] = got[m]
        /\ \A l \in 1..k : (got \o more)[Len(got) + l] = more[l]
    <3>1. got \in Seq(Rows) /\ more \in Seq(Rows) /\ Len(more) = k
      BY <1>1, <1>4
    <3> QED
      BY ONLY <3>1
  <2> QED
    BY <1>4, <2>1, <2>2
<1>8. \A m \in DOMAIN reader'.got : m \in 1..Len(got) \/ \E l \in 1..k : m = Len(got) + l
  <2>1. ASSUME NEW m \in 1..(Len(got) + k), m \notin 1..Len(got) PROVE m - Len(got) \in 1..k
    BY <1>3, <1>7, <2>1
  <2>2. \A m \in 1..(Len(got) + k) : m \in Int /\ m = Len(got) + (m - Len(got))
    BY <1>7
  <2> QED
    BY <1>7, <2>1, <2>2
<1>9. \A m \in 1..Len(got) : got[m].seq \in Nat /\ got[m].seq <= after
  <2>1. \A m \in 1..Len(got) : got[m].seq <= after
    BY <1>7 DEF StreamInv, Cursor
  <2>2. \A m \in 1..Len(got) : got[m] \in Rows
    BY <1>1, <1>7
  <2> QED
    BY <1>5, <2>1, <2>2
<1>10. reader'.after = fetched[k].seq
  BY DEF fetched
<1>11. Cursor'
  <2>1. \E i \in DOMAIN log' : log'[i].seq = reader'.after
    BY <1>2, <1>3, <1>10
  <2>2. \A m \in DOMAIN reader'.got : reader'.got[m].seq <= reader'.after
    <3> SUFFICES ASSUME NEW m \in DOMAIN reader'.got PROVE reader'.got[m].seq <= reader'.after
      OBVIOUS
    <3>1. CASE m \in 1..Len(got)
      <4>1. reader'.got[m].seq <= after /\ reader'.got[m].seq \in Nat /\ after < fetched[k].seq
            /\ fetched[k].seq \in Nat
        BY <1>3, <1>6, <1>7, <1>9, <3>1
      <4> QED
        BY ONLY <1>1, <1>10, <4>1
    <3>2. ASSUME NEW l \in 1..k, m = Len(got) + l PROVE reader'.got[m].seq <= reader'.after
      BY <1>6, <1>7, <1>10, <3>2
    <3> QED
      BY <1>8, <3>1, <3>2
  <2> QED
    BY <2>1, <2>2 DEF Cursor
<1>12. \A i, j \in DOMAIN reader'.got : i < j => reader'.got[i].seq < reader'.got[j].seq
  <2> SUFFICES ASSUME NEW i \in DOMAIN reader'.got, NEW j \in DOMAIN reader'.got, i < j
               PROVE  reader'.got[i].seq < reader'.got[j].seq
    OBVIOUS
  <2>1. CASE i \in 1..Len(got) /\ j \in 1..Len(got)
    BY <1>7, <2>1 DEF StreamInv, SkipsOnlyOvertaken
  <2>2. ASSUME i \in 1..Len(got), NEW l \in 1..k, j = Len(got) + l
        PROVE  reader'.got[i].seq < reader'.got[j].seq
    <3>1. reader'.got[i].seq <= after /\ reader'.got[i].seq \in Nat
          /\ after < reader'.got[j].seq /\ reader'.got[j].seq \in Nat
      BY <1>6, <1>7, <1>9, <2>2
    <3> QED
      BY ONLY <1>1, <3>1
  <2>3. ASSUME NEW l \in 1..k, NEW m \in 1..k, i = Len(got) + l, j = Len(got) + m
        PROVE  reader'.got[i].seq < reader'.got[j].seq
    <3>1. l < m /\ l \in DOMAIN fetched /\ m \in DOMAIN fetched
      <4>1. l \in DOMAIN fetched /\ m \in DOMAIN fetched
        BY ONLY <1>3, l \in 1..k, m \in 1..k
      <4>2. Len(got) \in Nat /\ l \in Nat /\ m \in Nat
        BY <1>3, <1>7
      <4> QED
        BY ONLY <2>3, <4>1, <4>2, i < j
    <3> QED
      BY <1>2, <1>7, <2>3, <3>1
  <2>4. ASSUME NEW l \in 1..k, i = Len(got) + l, j \in 1..Len(got) PROVE FALSE
    <3>1. Len(got) \in Nat /\ l \in Nat /\ l >= 1 /\ j <= Len(got) /\ j \in Nat
          /\ i < j
      BY <1>3, <1>7, <2>4
    <3> QED
      BY ONLY <2>4, <3>1
  <2> QED
    BY <1>8, <2>1, <2>2, <2>3, <2>4
<1>13. ASSUME NEW i \in DOMAIN log, log[i].seq <= reader'.after,
              log[i] \notin ToSet(reader'.got)
       PROVE  \E j \in 1..(i - 1) : log[j].seq > log[i].seq
  <2>1. \A m \in DOMAIN reader'.got : reader'.got[m] # log[i]
    BY <1>13 DEF ToSet
  <2>2. CASE log[i].seq <= after
    <3>1. log[i] \notin ToSet(got)
      <4>1. \A m \in DOMAIN got : m \in DOMAIN reader'.got /\ reader'.got[m] = got[m]
        BY <1>3, <1>7
      <4> QED
        BY <2>1, <4>1 DEF ToSet
    <3> QED
      BY <2>2, <3>1 DEF StreamInv, SkipsOnlyOvertaken
  <2>3. CASE ~(log[i].seq <= after)
    <3>1. log[i].seq \in Nat
      <4>1. log[i] \in Rows
        BY <1>1 DEF Types
      <4> QED
        BY <1>5, <4>1
    <3>2. i \in After(after)
      BY <1>1, <2>3, <3>1 DEF After
    <3>3. PICK l \in 1..k : fetched[l] = log[i]
      <4>1. k \in DOMAIN fetched /\ log[i].seq <= fetched[k].seq
        BY ONLY <1>3, <1>10, <1>13
      <4> QED
        BY ONLY <1>2, <3>2, <4>1
    <3>4. Len(got) + l \in DOMAIN reader'.got
      <4>1. Len(got) \in Nat /\ k \in Nat /\ DOMAIN reader'.got = 1..(Len(got) + k)
        BY <1>3, <1>7
      <4> QED
        BY ONLY <4>1, l \in 1..k
    <3> QED
      BY ONLY <1>7, <2>1, <3>3, <3>4
  <2> QED
    BY <2>2, <2>3
<1>14. SkipsOnlyOvertaken'
  BY <1>12, <1>13 DEF SkipsOnlyOvertaken
<1> QED
  BY <1>11, <1>14

LEMMA StreamStarts == PipelineInit => StreamInv
<1> SUFFICES ASSUME PipelineInit PROVE StreamInv
  OBVIOUS
<1>1. <<>> \in Seq(Rows)
  OBVIOUS
<1>2. log = <<>> /\ DOMAIN log = {} /\ Inserted = {}
      /\ reader = [on |-> TRUE, terminal |-> FALSE, after |-> 0, got |-> <<>>] /\ terminal = FALSE
  BY DEF PipelineInit, Inserted, NoEvent, Event
<1>3. ReaderTypes /\ Distinct /\ Cursor /\ SkipsOnlyOvertaken
  BY <1>1, <1>2 DEF ReaderTypes, Distinct, Cursor, SkipsOnlyOvertaken
<1> QED
  BY <1>3, PipelineStarts DEF StreamInv

LEMMA StreamSteps == StreamInv /\ [PipelineNext]_pipeVars => StreamInv'
<1> SUFFICES ASSUME StreamInv, [PipelineNext]_pipeVars PROVE StreamInv'
  OBVIOUS
<1>1. PipelineInv' /\ Types /\ ReaderTypes /\ Distinct /\ Cursor /\ SkipsOnlyOvertaken
  BY PipelineSteps DEF StreamInv, PipelineInv
<1>2. ASSUME UNCHANGED <<log, nextSeq, reader, terminal>>,
             \A w \in Writers : call'[w].step = "inserted" => call'[w] = call[w]
      PROVE  StreamInv'
  <2>1. Distinct'
    BY <1>1, <1>2, HandsMove
  <2> QED
    BY <1>1, <1>2, <2>1 DEF StreamInv, ReaderTypes, Cursor, SkipsOnlyOvertaken
<1>3. call \in [Writers -> Calls] /\ "api" \in Writers /\ Emitters \subseteq Writers
  BY <1>1 DEF Types, Writers
<1>4. ASSUME NEW w \in Writers, NEW e, call' = [call EXCEPT ![w] = e], e.step # "inserted"
      PROVE  \A v \in Writers : call'[v].step = "inserted" => v # w /\ call'[v] = call[v]
  BY <1>3, <1>4
<1>5. ASSUME NEW w \in Writers, NEW kind, NEW text, Emit(w, kind, text),
             UNCHANGED <<log, nextSeq, reader, terminal>>
      PROVE  StreamInv'
  <2>1. call' = [call EXCEPT ![w] = Event(kind, text)] /\ Event(kind, text).step # "inserted"
    BY <1>5 DEF Emit, Event
  <2> QED
    BY <1>2, <1>4, <1>5, <2>1
<1>6. ASSUME NEW w \in Writers, Insert(w) PROVE StreamInv'
  <2>1. Distinct'
    BY <1>1, <1>6, InsertDistinct
  <2>2. UNCHANGED <<log, reader, terminal>>
    BY <1>6 DEF Insert
  <2> QED
    BY <1>1, <2>1, <2>2 DEF StreamInv, ReaderTypes, Cursor, SkipsOnlyOvertaken
<1>7. ASSUME NEW w \in Writers, call' = [call EXCEPT ![w] = NoEvent], reader' = reader,
             nextSeq' = nextSeq,
             \/ UNCHANGED <<log, terminal>>
             \/ call[w].step = "inserted" /\ Commit(w)
      PROVE  StreamInv'
  <2>1. NoEvent.step # "inserted"
    BY DEF NoEvent, Event
  <2>2. \A v \in Writers : call'[v].step = "inserted" => v # w /\ call'[v] = call[v]
    BY <1>4, <1>7, <2>1
  <2>3. CASE UNCHANGED <<log, terminal>>
    BY <1>2, <1>7, <2>2, <2>3
  <2>4. CASE call[w].step = "inserted" /\ Commit(w)
    <3>1. w \in Inserted /\ log' = Append(log, Row(w)) /\ terminal' \in BOOLEAN
      BY <1>1, <2>4 DEF Inserted, Commit, ReaderTypes
    <3>2. Distinct' /\ Cursor' /\ SkipsOnlyOvertaken'
      BY <1>1, <1>7, <2>2, <3>1, CommitSkips
    <3> QED
      BY <1>1, <1>7, <3>1, <3>2 DEF StreamInv, ReaderTypes
  <2> QED
    BY <1>7, <2>3, <2>4
<1>8. ASSUME UNCHANGED <<engine, pipeline>>, ReaderTypes', Cursor', SkipsOnlyOvertaken'
      PROVE  StreamInv'
  <2>1. UNCHANGED <<log, nextSeq, call>>
    BY <1>8 DEF pipeline
  <2>2. Distinct'
    BY <1>1, <2>1, HandsMove
  <2> QED
    BY <1>1, <1>8, <2>2 DEF StreamInv
<1>9. ASSUME NEW k \in 1..Len(ListRunEvents(reader.after)), NEW rest,
             rest \in [on : BOOLEAN, terminal : BOOLEAN],
             reader' = [on |-> rest.on, terminal |-> rest.terminal,
                        after |-> ListRunEvents(reader.after)[k].seq,
                        got |-> reader.got \o SubSeq(ListRunEvents(reader.after), 1, k)],
             UNCHANGED <<engine, pipeline>>
      PROVE  StreamInv'
  <2> DEFINE fetched == ListRunEvents(reader.after)
  <2>1. reader.after \in Nat /\ reader.got \in Seq(Rows)
    BY <1>1 DEF ReaderTypes
  <2>2. fetched \in Seq(Rows)
    BY <1>1, <2>1, Page
  <2> HIDE DEF fetched
  <2>3. k \in 1..Len(fetched)
    BY DEF fetched
  <2>4. SubSeq(fetched, 1, k) \in Seq(Rows) /\ fetched[k].seq \in Nat
    <3>1. fetched[k] \in Rows /\ SubSeq(fetched, 1, k) \in Seq(Rows)
      BY <2>2, <2>3
    <3> QED
      BY <3>1 DEF Rows
  <2>5. reader'.got \in Seq(Rows) /\ reader'.after \in Nat
        /\ reader'.got = reader.got \o SubSeq(fetched, 1, k) /\ reader'.after = fetched[k].seq
    BY <1>9, <2>1, <2>4 DEF fetched
  <2>6. reader' \in [on : BOOLEAN, terminal : BOOLEAN, after : Nat, got : Seq(Rows)]
    BY <1>9, <2>5
  <2>7. UNCHANGED <<log, terminal>>
    BY <1>9 DEF pipeline
  <2>8. Cursor' /\ SkipsOnlyOvertaken'
    BY <2>3, <2>5, <2>6, <2>7, PageRead DEF fetched
  <2>9. ReaderTypes'
    BY <1>1, <2>6, <2>7 DEF ReaderTypes
  <2> QED
    BY <1>8, <1>9, <2>8, <2>9
<1>10. ASSUME UNCHANGED <<engine, pipeline>>, NEW on \in BOOLEAN, NEW end \in BOOLEAN,
              reader' = [on |-> on, terminal |-> end, after |-> reader.after, got |-> reader.got]
       PROVE  StreamInv'
  <2>1. reader'.after = reader.after /\ reader'.got = reader.got /\ UNCHANGED <<log, terminal>>
    BY <1>10 DEF pipeline
  <2>2. ReaderTypes'
    BY <1>1, <1>10, <2>1 DEF ReaderTypes
  <2>3. Cursor' /\ SkipsOnlyOvertaken'
    BY <1>1, <2>1 DEF Cursor, SkipsOnlyOvertaken
  <2> QED
    BY <1>8, <1>10, <2>2, <2>3
<1>11. CASE \/ Delta \/ ProviderRetry \/ MessageReset \/ MessageEnd \/ RunCompleted
            \/ ControlAccepted \/ ApiRequest
  <2>1. "loop" \in Writers /\ "controls" \in Writers
    BY DEF Writers, Emitters
  <2> QED
    BY <1>3, <1>5, <1>11, <2>1
       DEF Delta, ProviderRetry, MessageReset, MessageEnd, RunCompleted, ControlAccepted,
           ApiRequest, Loop
<1>12. CASE BackoffEnds
  BY <1>2, <1>12 DEF BackoffEnds, pipeline
<1>13. ASSUME NEW g \in Emitters, Lock(g) \/ Refuse(g) PROVE StreamInv'
  <2>1. \E e : call' = [call EXCEPT ![g] = e] /\ e.step # "inserted"
    <3>1. CASE Lock(g)
      <4> DEFINE e == [kind |-> call[g].kind, text |-> call[g].text,
                       step |-> "emitted", n |-> sequence + 1, seq |-> 0]
      <4>1. call' = [call EXCEPT ![g] = e] /\ e.step # "inserted"
        BY <1>3, <3>1 DEF Lock, Step
      <4> HIDE DEF e
      <4> QED
        BY <4>1
    <3>2. CASE Refuse(g)
      <4>1. call' = [call EXCEPT ![g] = NoEvent] /\ NoEvent.step # "inserted"
        BY <3>2 DEF Refuse, NoEvent, Event
      <4> QED
        BY <4>1
    <3> QED
      BY <1>13, <3>1, <3>2
  <2>2. UNCHANGED <<log, nextSeq, reader, terminal>>
    BY <1>13 DEF Lock, Refuse
  <2> QED
    BY <1>2, <1>3, <1>4, <2>1, <2>2
<1>14. ASSUME NEW w \in Writers, CommitEvent(w) \/ (w \in Emitters /\ failEventPipeline(w))
       PROVE  StreamInv'
  BY <1>7, <1>14 DEF CommitEvent, failEventPipeline, Release
<1>15. CASE SendEvents
  <2> DEFINE fetched == ListRunEvents(reader.after)
  <2>1. fetched \in Seq(Rows)
    <3>1. reader.after \in Nat
      BY <1>1 DEF ReaderTypes
    <3> QED
      BY <1>1, <3>1, Page
  <2> HIDE DEF fetched
  <2>2. /\ fetched # <<>>
        /\ reader' = [reader EXCEPT !.got = @ \o fetched, !.after = Last(fetched).seq]
        /\ UNCHANGED <<engine, pipeline>>
    BY <1>15 DEF SendEvents, fetched
  <2>3. Len(fetched) \in 1..Len(fetched) /\ SubSeq(fetched, 1, Len(fetched)) = fetched
        /\ Last(fetched) = fetched[Len(fetched)]
    BY <2>1, <2>2 DEF Last
  <2>4. reader' = [on |-> reader.on, terminal |-> reader.terminal,
                   after |-> fetched[Len(fetched)].seq,
                   got |-> reader.got \o SubSeq(fetched, 1, Len(fetched))]
    BY <1>1, <2>2, <2>3 DEF ReaderTypes
  <2>5. [on |-> reader.on, terminal |-> reader.terminal] \in [on : BOOLEAN, terminal : BOOLEAN]
    BY <1>1 DEF ReaderTypes
  <2> QED
    BY <1>9, <2>2, <2>3, <2>4, <2>5 DEF fetched
<1>16. CASE Reconnect
  <2> DEFINE fetched == ListRunEvents(reader.after)
  <2>1. fetched \in Seq(Rows)
    <3>1. reader.after \in Nat
      BY <1>1 DEF ReaderTypes
    <3> QED
      BY <1>1, <3>1, Page
  <2>2. PICK k \in 0..Len(fetched) :
          /\ k > 0
          /\ reader' = [on |-> TRUE, terminal |-> terminal,
                        got |-> reader.got \o SubSeq(fetched, 1, k),
                        after |-> Last(SubSeq(fetched, 1, k)).seq]
    BY <1>16 DEF Reconnect
  <2>3. UNCHANGED <<engine, pipeline>>
    BY <1>16 DEF Reconnect
  <2> HIDE DEF fetched
  <2>4. k \in 1..Len(fetched) /\ Last(SubSeq(fetched, 1, k)) = fetched[k]
    <3>1. Len(fetched) \in Nat /\ k \in 1..Len(fetched)
      BY <2>1, <2>2
    <3>2. Len(SubSeq(fetched, 1, k)) = k /\ SubSeq(fetched, 1, k)[k] = fetched[k]
      BY <2>1, <3>1
    <3> QED
      BY <3>1, <3>2 DEF Last
  <2>5. [on |-> TRUE, terminal |-> terminal] \in [on : BOOLEAN, terminal : BOOLEAN]
    BY <1>1 DEF ReaderTypes
  <2>6. reader' = [on |-> TRUE, terminal |-> terminal, after |-> fetched[k].seq,
                   got |-> reader.got \o SubSeq(fetched, 1, k)]
    BY <2>2, <2>4
  <2> QED
    BY <1>9, <2>3, <2>4, <2>5, <2>6 DEF fetched
<1>17. CASE PollStatus \/ EndStream
  <2>1. reader.on \in BOOLEAN /\ reader.terminal \in BOOLEAN
    BY <1>1 DEF ReaderTypes
  <2>2. reader = [on |-> reader.on, terminal |-> reader.terminal, after |-> reader.after,
                  got |-> reader.got]
    BY <1>1 DEF ReaderTypes
  <2>3. CASE PollStatus
    BY <1>10, <2>1, <2>2, <2>3 DEF PollStatus
  <2>4. CASE EndStream
    BY <1>10, <2>1, <2>2, <2>4 DEF EndStream
  <2> QED
    BY <1>17, <2>3, <2>4
<1>18. CASE UNCHANGED pipeVars
  BY <1>2, <1>18 DEF pipeVars
<1> QED
  BY <1>3, <1>6, <1>11, <1>12, <1>13, <1>14, <1>15, <1>16, <1>17, <1>18
     DEF PipelineNext, Emitting

\* The stream of a run never sends a row twice or out of order, over any
\* number of connections that break in mid-page, and what it skips is only
\* what a slower transaction committed behind a row with a greater seq: for any
\* page size, retries and other writers (streamRunEvents, ListRunEvents).
THEOREM StreamSkips == PipelineSpec => []SkipsOnlyOvertaken
<1>1. StreamInv => SkipsOnlyOvertaken
  BY DEF StreamInv
<1> QED
  BY <1>1, StreamStarts, StreamSteps, PTL DEF PipelineSpec

-----------------------------------------------------------------------------
(* The follower.                                                           *)

\* What a follower's text is after another row.
Told(text, r) ==
  IF r.kind = "reset" THEN <<>> ELSE IF r.kind = "update" THEN text \o r.text ELSE text

\* f tells the text after every one of the first n rows of s.
Reads(s, n, f) ==
  /\ f = [i \in 0..n |-> f[i]]
  /\ f[0] = <<>> /\ \A i \in 1..n : f[i] = Told(f[i - 1], s[i])

LEMMA ReadsExist ==
  ASSUME NEW s, NEW L \in Nat
  PROVE  \E f : Reads(s, L, f)
<1> DEFINE Gaps == {n \in 0..L : \A f : ~Reads(s, n, f)}
<1>1. SUFFICES ASSUME Gaps # {} PROVE FALSE
  BY DEF Gaps
<1>2. PICK n \in Gaps : \A m \in Gaps : n <= m
  <2>1. Gaps \in SUBSET Nat
    OBVIOUS
  <2> HIDE DEF Gaps
  <2> QED
    BY <1>1, <2>1, LeastNat
<1>3. n \in 0..L /\ \A f : ~Reads(s, n, f)
  BY <1>2
<1>4. CASE n = 0
  <2> DEFINE f == [i \in 0..0 |-> <<>>]
  <2>1. f[0] = <<>> /\ f = [i \in 0..0 |-> f[i]]
    OBVIOUS
  <2>2. Reads(s, 0, f)
    BY <2>1 DEF Reads
  <2> HIDE DEF f
  <2> QED
    BY <1>3, <1>4, <2>2
<1>5. CASE n # 0
  <2>1. n - 1 \in 0..L /\ n - 1 \notin Gaps
    BY <1>2, <1>3, <1>5
  <2>2. PICK f : Reads(s, n - 1, f)
    BY <2>1
  <2> DEFINE g == [i \in 0..n |-> IF i = n THEN Told(f[n - 1], s[n]) ELSE f[i]]
  <2>3. n \in Nat /\ n > 0 /\ f[0] = <<>>
        /\ \A i \in 1..(n - 1) : f[i] = Told(f[i - 1], s[i])
    BY <1>3, <1>5, <2>2 DEF Reads
  <2>4. g = [i \in 0..n |-> g[i]] /\ g[0] = <<>>
    BY <2>3
  <2>5. ASSUME NEW i \in 1..n PROVE g[i] = Told(g[i - 1], s[i])
    <3>1. i \in 0..n /\ i - 1 \in 0..n /\ i - 1 # n
      BY <2>3
    <3>2. g[i - 1] = f[i - 1]
      BY <3>1
    <3>3. CASE i = n
      BY <3>1, <3>2, <3>3
    <3>4. CASE i # n
      <4>1. i \in 1..(n - 1)
        BY <2>3, <3>4
      <4>2. g[i] = f[i]
        BY <3>1, <3>4
      <4> QED
        BY <2>3, <3>2, <4>1, <4>2
    <3> QED
      BY <3>3, <3>4
  <2> HIDE DEF g
  <2>6. Reads(s, n, g)
    BY <2>4, <2>5 DEF Reads
  <2> QED
    BY <1>3, <2>6
<1> QED
  BY <1>4, <1>5

LEMMA ReadsAgree ==
  ASSUME NEW s, NEW u, NEW n \in Nat, NEW m \in Nat, n <= m, NEW f, NEW g,
         Reads(s, n, f), Reads(u, m, g),
         \A i \in 1..n : s[i] = u[i]
  PROVE  f[n] = g[n]
<1> DEFINE Gaps == {i \in 0..n : f[i] # g[i]}
<1>1. SUFFICES ASSUME Gaps # {} PROVE FALSE
  BY DEF Gaps
<1>2. PICK k \in Gaps : \A i \in Gaps : k <= i
  <2>1. Gaps \in SUBSET Nat
    OBVIOUS
  <2> HIDE DEF Gaps
  <2> QED
    BY <1>1, <2>1, LeastNat
<1>3. k \in 0..n /\ f[k] # g[k] /\ f[0] = <<>> /\ g[0] = <<>>
  BY <1>2 DEF Reads
<1>4. k \in 1..n /\ k \in 1..m /\ k - 1 \in 0..n
  BY <1>3
<1>5. k - 1 \notin Gaps
  BY <1>2, <1>4
<1>6. f[k - 1] = g[k - 1]
  BY <1>4, <1>5
<1> HIDE DEF Gaps
<1> QED
  BY <1>3, <1>4, <1>6 DEF Reads

LEMMA ShownReads ==
  ASSUME NEW s, Len(s) \in Nat
  PROVE  \E f : Reads(s, Len(s), f) /\ Shown(s) = f[Len(s)]
<1> DEFINE G(f) == [i \in 0..Len(s) |->
                      IF i = 0 \/ s[i].kind = "reset" THEN <<>>
                      ELSE IF s[i].kind = "update" THEN f[i - 1] \o s[i].text
                      ELSE f[i - 1]]
           text == CHOOSE f : f = G(f)
<1>1. Shown(s) = text[Len(s)]
  BY DEF Shown
<1>2. PICK h : Reads(s, Len(s), h)
  BY ReadsExist
<1>3. ASSUME NEW i \in 0..Len(s) PROVE h[i] = G(h)[i]
  <2>1. CASE i = 0
    BY <1>2, <2>1 DEF Reads
  <2>2. CASE i # 0
    <3>1. i \in 1..Len(s)
      BY <2>2
    <3>2. h[i] = Told(h[i - 1], s[i])
      BY <1>2, <3>1 DEF Reads
    <3> QED
      BY <2>2, <3>2 DEF Told
  <2> QED
    BY <2>1, <2>2
<1>4. h = [i \in 0..Len(s) |-> h[i]]
  BY <1>2 DEF Reads
<1>5. h = G(h)
  BY <1>3, <1>4
<1>6. text = G(text)
  <2> HIDE DEF G
  <2> QED
    BY <1>5
<1> HIDE DEF text
<1>7. Reads(s, Len(s), text)
  <2>1. text = [i \in 0..Len(s) |-> text[i]]
    BY <1>6
  <2>2. text[0] = <<>>
    BY <1>6
  <2>3. ASSUME NEW i \in 1..Len(s) PROVE text[i] = Told(text[i - 1], s[i])
    <3>1. i \in 0..Len(s) /\ i # 0
      OBVIOUS
    <3>2. text[i] = G(text)[i]
      BY <1>6
    <3> QED
      BY <3>1, <3>2 DEF Told
  <2> QED
    BY <2>1, <2>2, <2>3 DEF Reads
<1> QED
  BY <1>1, <1>7

LEMMA ShownEmpty == Shown(<<>>) = <<>>
<1>1. PICK f : Reads(<<>>, Len(<<>>), f) /\ Shown(<<>>) = f[Len(<<>>)]
  <2>1. Len(<<>>) \in Nat
    OBVIOUS
  <2> QED
    BY <2>1, ShownReads
<1> QED
  BY <1>1 DEF Reads

\* One more row changes the text as the row says.
LEMMA ShownGrows ==
  ASSUME NEW s \in Seq(Rows), NEW r \in Rows
  PROVE  Shown(Append(s, r)) = Told(Shown(s), r)
<1> DEFINE n == Len(s)
           u == Append(s, r)
<1>1. n \in Nat /\ Len(u) = n + 1 /\ Len(u) \in Nat /\ u[n + 1] = r
      /\ \A i \in 1..n : s[i] = u[i]
  OBVIOUS
<1>2. PICK f : Reads(s, n, f) /\ Shown(s) = f[n]
  BY <1>1, ShownReads
<1>3. PICK g : Reads(u, Len(u), g) /\ Shown(u) = g[Len(u)]
  <2> HIDE DEF u
  <2> QED
    BY <1>1, ShownReads
<1> HIDE DEF n, u
<1>4. Reads(u, n + 1, g) /\ Shown(u) = g[n + 1] /\ n + 1 \in Nat /\ n <= n + 1
  BY <1>1, <1>3
<1>5. f[n] = g[n]
  BY <1>1, <1>2, <1>4, ReadsAgree
<1>6. n + 1 \in 1..(n + 1) /\ (n + 1) - 1 = n
  BY <1>1
<1>7. g[n + 1] = Told(g[n], u[n + 1])
  BY <1>4, <1>6 DEF Reads
<1>8. Shown(u) = Told(Shown(s), r)
  BY <1>1, <1>2, <1>4, <1>5, <1>7
<1> QED
  BY <1>8 DEF u

\* While the pipeline is open, the rows tell the message that is streamed, but
\* for the event that the agent loop has in hand; nobody else's event is an
\* update, a reset or an end.
Busy(kind) == call["loop"] = NoEvent \/ call["loop"].kind = kind

Follows ==
  /\ phase \in {"streaming", "retrying", "backoff", "ending", "over"}
  /\ call["controls"].kind \in {"none", "accepted"}
  /\ call["api"].kind \in {"none", "cancelled", "decided"}
  /\ ~eventErr =>
       /\ phase = "streaming" =>
            \/ call["loop"] = NoEvent /\ partial = Shown(log)
            \/ call["loop"].kind = "update" /\ partial = Shown(log) \o call["loop"].text
       /\ phase = "retrying" => Busy("retry")
       /\ phase = "backoff"  =>
            /\ partial = <<>>
            /\ (call["loop"] = NoEvent /\ Shown(log) = <<>>) \/ call["loop"].kind = "reset"
       /\ phase = "ending"   =>
            Busy("end") /\ (call["loop"].text = <<>> \/ Shown(log) = call["loop"].text)
       /\ phase = "over"     => Busy("completed")

FollowInv == PipelineInv /\ Follows /\ FollowerAgrees

\* What the other writers commit is neither told nor an end.
LEMMA RowCommitted ==
  ASSUME FollowInv, NEW w \in Writers, call[w].step = "inserted", log' = Append(log, Row(w))
  PROVE  /\ Shown(log') = Told(Shown(log), Row(w))
         /\ FollowerAgrees'
<1>1. log \in Seq(Rows) /\ call[w] \in Calls
  BY DEF FollowInv, PipelineInv, Types
<1>2. Row(w) \in Rows /\ Row(w).kind = call[w].kind /\ Row(w).text = call[w].text
  BY <1>1 DEF Row, Calls, Rows
<1>3. Shown(log') = Told(Shown(log), Row(w))
  BY <1>1, <1>2, ShownGrows
<1> DEFINE n == Len(log)
<1>4. n \in Nat /\ DOMAIN log = 1..n /\ DOMAIN log' = 1..(n + 1) /\ log'[n + 1] = Row(w)
      /\ \A i \in 1..n : log'[i] = log[i]
  BY <1>1
<1>5. \A i \in 1..n : SubSeq(log', 1, i) = SubSeq(log, 1, i)
  <2> SUFFICES ASSUME NEW i \in 1..n PROVE SubSeq(log', 1, i) = SubSeq(log, 1, i)
    OBVIOUS
  <2>1. log \in Seq(Rows) /\ log' \in Seq(Rows) /\ i \in 1..Len(log) /\ i \in 1..Len(log')
    BY <1>1, <1>2, <1>4
  <2>2. SubSeq(log', 1, i) = [k \in 1..i |-> log'[k]] /\ SubSeq(log, 1, i) = [k \in 1..i |-> log[k]]
    BY <2>1
  <2>3. \A k \in 1..i : log'[k] = log[k]
    BY <1>4
  <2> QED
    BY <2>2, <2>3
<1>6. SubSeq(log', 1, n + 1) = log'
  <2>1. log' \in Seq(Rows) /\ Len(log') = n + 1
    BY <1>1, <1>2
  <2> QED
    BY <1>4, <2>1
<1> HIDE DEF n
<1>7. ASSUME call[w].kind = "end", call[w].text # <<>> PROVE Shown(log) = call[w].text
  <2>1. w = "loop"
    BY <1>7 DEF FollowInv, Follows, Writers, Emitters
  <2>2. ~eventErr
    BY <2>1 DEF FollowInv, PipelineInv, Serial, Emitters
  <2>3. call["loop"] # NoEvent
    BY <2>1 DEF NoEvent, Event
  <2>4. phase = "ending"
    BY <1>7, <2>1, <2>2, <2>3 DEF FollowInv, Follows, Busy
  <2> QED
    BY <1>7, <2>1, <2>2, <2>4 DEF FollowInv, Follows
<1>8. FollowerAgrees'
  <2> SUFFICES ASSUME NEW i \in DOMAIN log', log'[i].kind = "end", log'[i].text # <<>>
               PROVE  Shown(SubSeq(log', 1, i)) = log'[i].text
    BY DEF FollowerAgrees
  <2>1. CASE i \in 1..n
    <3>1. log'[i] = log[i] /\ SubSeq(log', 1, i) = SubSeq(log, 1, i) /\ i \in DOMAIN log
      BY <1>4, <1>5, <2>1
    <3> QED
      BY <3>1 DEF FollowInv, FollowerAgrees
  <2>2. CASE i = n + 1
    <3>1. Shown(log) = call[w].text /\ log'[i] = Row(w) /\ call[w].kind = "end"
      BY <1>2, <1>4, <1>7, <2>2
    <3>2. Shown(log') = Shown(log)
      BY <1>2, <1>3, <3>1 DEF Told
    <3> QED
      BY <1>2, <1>6, <2>2, <3>1, <3>2
  <2> QED
    BY <1>4, <2>1, <2>2
<1> QED
  BY <1>3, <1>8

\* An event that its writer numbers or inserts is still the same one.
LEMMA SameEvent ==
  ASSUME FollowInv, NEW w \in Writers, call[w] # NoEvent,
         UNCHANGED <<phase, partial, eventErr, log>>,
         \A v \in Writers \ {w} : call'[v] = call[v],
         call'[w].kind = call[w].kind, call'[w].text = call[w].text
  PROVE  Follows'
<1>1. {"loop", "controls", "api"} \subseteq Writers
  BY DEF Writers, Emitters
<1>2. /\ call'["loop"].kind = call["loop"].kind /\ call'["loop"].text = call["loop"].text
      /\ call'["controls"].kind = call["controls"].kind
      /\ call'["api"].kind = call["api"].kind
      /\ call["loop"] = NoEvent => call'["loop"] = NoEvent
  BY <1>1
<1> QED
  BY <1>2 DEF FollowInv, Follows, Busy

LEMMA FollowStarts == PipelineInit => FollowInv
<1> SUFFICES ASSUME PipelineInit PROVE FollowInv
  OBVIOUS
<1>1. Follows
  BY ShownEmpty DEF PipelineInit, Follows, Writers, Emitters, NoEvent, Event
<1>2. FollowerAgrees
  BY DEF PipelineInit, FollowerAgrees
<1> QED
  BY <1>1, <1>2, PipelineStarts DEF FollowInv

\* The agent loop takes up an event.
LEMMA LoopFollows ==
  ASSUME FollowInv,
         \/ Delta \/ ProviderRetry \/ MessageReset \/ BackoffEnds \/ MessageEnd \/ RunCompleted
  PROVE  Follows' /\ UNCHANGED log
<1>1. /\ call \in [Writers -> Calls] /\ partial \in Seq(Nat) /\ attempt \in Nat
      /\ "loop" \in Writers /\ "controls" \in Writers /\ "api" \in Writers
  BY DEF FollowInv, PipelineInv, Types, Writers, Emitters
<1>2. ASSUME NEW from, NEW to, NEW kind, NEW text, Loop(from, to, kind, text)
      PROVE  /\ phase = from /\ phase' = to /\ call["loop"] = NoEvent
             /\ call'["loop"].kind = kind /\ call'["loop"].text = text
             /\ call'["controls"] = call["controls"] /\ call'["api"] = call["api"]
             /\ UNCHANGED <<eventErr, log>>
  BY <1>1, <1>2 DEF Loop, Emit, Free, Event
<1>3. CASE Delta
  <2>1. partial' = Append(partial, attempt) /\ Loop("streaming", "streaming", "update", <<attempt>>)
    BY <1>3 DEF Delta
  <2>2. partial' = partial \o <<attempt>>
    BY <1>1, <2>1
  <2>3. NoEvent.kind # "update"
    BY DEF NoEvent, Event
  <2>4. /\ phase = "streaming" /\ phase' = "streaming" /\ call["loop"] = NoEvent
        /\ call'["loop"].kind = "update" /\ call'["loop"].text = <<attempt>>
        /\ call'["controls"] = call["controls"] /\ call'["api"] = call["api"]
        /\ log' = log /\ ~eventErr
    BY <1>2, <1>3, <2>1 DEF Delta
  <2>5. partial = Shown(log)
    BY <2>3, <2>4 DEF FollowInv, Follows
  <2>6. partial' = Shown(log') \o call'["loop"].text
    BY <2>2, <2>4, <2>5
  <2>7. /\ call'["controls"].kind \in {"none", "accepted"}
        /\ call'["api"].kind \in {"none", "cancelled", "decided"}
    BY <2>4 DEF FollowInv, Follows
  <2> QED
    BY <2>4, <2>6, <2>7 DEF Follows
<1>4. CASE ProviderRetry
  BY <1>2, <1>4 DEF ProviderRetry, FollowInv, Follows, Busy
<1>5. CASE MessageReset
  BY <1>2, <1>5 DEF MessageReset, FollowInv, Follows, Busy
<1>6. CASE BackoffEnds
  <2>1. NoEvent.kind # "reset"
    BY DEF NoEvent, Event
  <2> QED
    BY <1>6, <2>1 DEF BackoffEnds, Free, pipeline, FollowInv, Follows, Busy
<1>7. CASE MessageEnd
  <2>1. NoEvent.kind # "update"
    BY DEF NoEvent, Event
  <2>2. CASE Loop("streaming", "ending", "end", partial)
    BY <1>2, <2>1, <2>2 DEF FollowInv, Follows, Busy
  <2>3. CASE Loop("streaming", "ending", "end", <<>>)
    BY <1>2, <2>3 DEF FollowInv, Follows, Busy
  <2>4. CASE eventErr /\ Loop("backoff", "ending", "end", <<>>)
    BY <1>2, <2>4 DEF FollowInv, Follows, Busy
  <2> QED
    BY <1>7, <2>2, <2>3, <2>4 DEF MessageEnd
<1>8. CASE RunCompleted
  BY <1>2, <1>8 DEF RunCompleted, FollowInv, Follows, Busy
<1> QED
  BY <1>3, <1>4, <1>5, <1>6, <1>7, <1>8

\* A writer is done with its event, which is committed or not.
LEMMA ReleaseFollows ==
  ASSUME FollowInv, NEW w \in Writers, CommitEvent(w) \/ (w \in Emitters /\ failEventPipeline(w))
  PROVE  Follows' /\ FollowerAgrees'
<1>1. /\ call \in [Writers -> Calls] /\ partial \in Seq(Nat)
      /\ "loop" \in Writers /\ "controls" \in Writers /\ "api" \in Writers
  BY DEF FollowInv, PipelineInv, Types, Writers, Emitters
<1>2. /\ call'[w] = NoEvent /\ \A v \in Writers \ {w} : call'[v] = call[v]
      /\ UNCHANGED <<phase, partial>> /\ (~eventErr' => ~eventErr)
      /\ \/ log' = log /\ eventErr'
         \/ call[w].step = "inserted" /\ log' = Append(log, Row(w))
  BY <1>1 DEF CommitEvent, failEventPipeline, Release, Commit, engine
<1>3. NoEvent.kind = "none" /\ NoEvent.step = "wanted" /\ NoEvent.text = <<>>
  BY DEF NoEvent, Event
<1>4. /\ call'["controls"].kind \in {"none", "accepted"}
      /\ call'["api"].kind \in {"none", "cancelled", "decided"}
      /\ phase' \in {"streaming", "retrying", "backoff", "ending", "over"}
  BY <1>1, <1>2, <1>3 DEF FollowInv, Follows
<1>5. CASE log' = log /\ eventErr'
  BY <1>4, <1>5 DEF Follows, FollowInv, FollowerAgrees
<1>6. CASE call[w].step = "inserted" /\ log' = Append(log, Row(w))
  <2>1. Shown(log') = Told(Shown(log), Row(w)) /\ FollowerAgrees'
    BY <1>6, RowCommitted
  <2>2. CASE w = "loop" /\ ~eventErr'
    <3>1. ~eventErr /\ call["loop"] # NoEvent /\ call'["loop"] = NoEvent
      BY <1>2, <1>3, <1>6, <2>2
    <3>2. Row(w).kind = call["loop"].kind /\ Row(w).text = call["loop"].text
      BY <2>2 DEF Row
    <3> QED
      BY <1>2, <1>3, <1>4, <2>1, <2>2, <3>1, <3>2 DEF Follows, FollowInv, Busy, Told
  <2>3. CASE w # "loop"
    <3>1. call'["loop"] = call["loop"]
      BY <1>1, <1>2, <2>3
    <3>2. Row(w).kind \notin {"update", "reset"}
      BY <2>3 DEF Row, FollowInv, Follows, Writers, Emitters
    <3>3. Shown(log') = Shown(log)
      BY <2>1, <3>2 DEF Told
    <3>4. ~eventErr' => ~eventErr
      BY <1>2
    <3> QED
      BY <1>2, <1>4, <2>1, <3>1, <3>3, <3>4 DEF Follows, FollowInv, Busy
  <2>4. CASE eventErr'
    BY <1>4, <2>1, <2>4 DEF Follows
  <2> QED
    BY <2>2, <2>3, <2>4
<1> QED
  BY <1>2, <1>5, <1>6

LEMMA FollowSteps == FollowInv /\ [PipelineNext]_pipeVars => FollowInv'
<1> SUFFICES ASSUME FollowInv, [PipelineNext]_pipeVars PROVE FollowInv'
  OBVIOUS
<1>1. PipelineInv' /\ PipelineInv /\ Follows /\ FollowerAgrees
  BY PipelineSteps DEF FollowInv
<1>2. SUFFICES Follows' /\ FollowerAgrees'
  BY <1>1 DEF FollowInv
<1>3. ASSUME log' = log PROVE FollowerAgrees'
  BY <1>1, <1>3 DEF FollowerAgrees
<1>4. call \in [Writers -> Calls] /\ {"loop", "controls", "api"} \subseteq Writers
      /\ Emitters \subseteq Writers
  BY <1>1 DEF PipelineInv, Types, Writers, Emitters
<1>5. CASE Delta \/ ProviderRetry \/ MessageReset \/ BackoffEnds \/ MessageEnd \/ RunCompleted
  BY <1>3, <1>5, LoopFollows
<1>6. CASE ControlAccepted
  <2>1. /\ call'["controls"].kind = "accepted" /\ call'["loop"] = call["loop"]
        /\ call'["api"] = call["api"] /\ UNCHANGED <<phase, partial, eventErr, log>>
    BY <1>4, <1>6 DEF ControlAccepted, Emit, Event
  <2> QED
    BY <1>1, <1>3, <2>1 DEF Follows, Busy
<1>7. CASE ApiRequest
  <2>1. PICK kind \in {"cancelled", "decided"} : Emit("api", kind, <<>>)
    BY <1>7 DEF ApiRequest
  <2>2. /\ call'["api"].kind = kind /\ call'["loop"] = call["loop"]
        /\ call'["controls"] = call["controls"] /\ UNCHANGED <<phase, partial, eventErr, log>>
    BY <1>4, <1>7, <2>1 DEF ApiRequest, Emit, Event
  <2> QED
    BY <1>1, <1>3, <2>1, <2>2 DEF Follows, Busy
<1>8. ASSUME NEW w \in Writers, NEW step, NEW n, NEW seq, Step(w, step, n, seq), ~Free(w),
             UNCHANGED <<phase, partial, eventErr, log>>
      PROVE  Follows'
  <2>1. call'[w].kind = call[w].kind /\ call'[w].text = call[w].text
        /\ \A v \in Writers \ {w} : call'[v] = call[v]
    BY <1>4, <1>8 DEF Step
  <2> QED
    BY <1>8, <2>1, SameEvent DEF Free
<1>9. ASSUME NEW g \in Emitters, Lock(g) PROVE Follows' /\ FollowerAgrees'
  BY <1>3, <1>4, <1>8, <1>9 DEF Lock, engine
<1>10. ASSUME NEW g \in Emitters, Refuse(g) PROVE Follows' /\ FollowerAgrees'
  <2>1. /\ call'[g] = NoEvent /\ \A v \in Writers \ {g} : call'[v] = call[v]
        /\ NoEvent.kind = "none" /\ eventErr' /\ UNCHANGED <<phase, log>>
    BY <1>4, <1>10 DEF Refuse, NoEvent, Event, engine
  <2>2. call'["controls"].kind \in {"none", "accepted"}
        /\ call'["api"].kind \in {"none", "cancelled", "decided"}
    BY <1>1, <1>4, <2>1 DEF Follows
  <2> QED
    BY <1>1, <1>3, <2>1, <2>2 DEF Follows
<1>11. ASSUME NEW w \in Writers, Insert(w) PROVE Follows' /\ FollowerAgrees'
  BY <1>3, <1>8, <1>11 DEF Insert, engine
<1>12. CASE UNCHANGED <<engine, pipeline>>
  BY <1>1, <1>12 DEF engine, pipeline, Follows, FollowerAgrees, Busy
<1>13. CASE SendEvents \/ PollStatus \/ EndStream \/ Reconnect
  BY <1>12, <1>13 DEF SendEvents, PollStatus, EndStream, Reconnect
<1>14. CASE UNCHANGED pipeVars
  BY <1>12, <1>14 DEF pipeVars, engine, pipeline
<1> QED
  BY <1>1, <1>4, <1>5, <1>6, <1>7, <1>9, <1>10, <1>11, <1>13, <1>14, ReleaseFollows
     DEF PipelineNext, Emitting, FollowInv

\* Whatever a client has put together from the updates and resets of a stream
\* is the final message when that is told, unless it is an empty one: for any
\* number of retries that begin in mid-message, of deltas, of other writers and
\* of failures on either side of a commit (MessageReset, failEventPipeline).
THEOREM FollowerReads == PipelineSpec => []FollowerAgrees
<1>1. FollowInv => FollowerAgrees
  BY DEF FollowInv
<1> QED
  BY <1>1, FollowStarts, FollowSteps, PTL DEF PipelineSpec
=============================================================================

------------------------ MODULE AuditPipeline_proofs ------------------------
(***************************************************************************)
(* Proofs about AuditPipeline for every set of events and consumers, every *)
(* number of copies, receives and faults.                                  *)
(***************************************************************************)
EXTENDS AuditPipeline, TLAPS

Logged(e) == entries[e] > 0 \/ e \in failedWrites

(* An event is given up when its attempts are used up, not before.         *)
AttemptsLeft ==
    \A e \in Events : status[e] \in {"absent", "pending"} => attempts[e] < MaxAttempts

(* The relay acknowledges only what it published.                          *)
SentIsPublished == \A e \in Events : status[e] = "sent" => e \in Published

(* A message is deleted, or about to be, only after its event was handled. *)
HandledFirst ==
    /\ \A c \in Consumers :
          pc[c] = "delete" /\ EventOf(current[c]) \in Events => Logged(EventOf(current[c]))
    /\ \A m \in Messages :
          place[m] = "deleted" /\ EventOf(m) \in Events => Logged(EventOf(m))

(* A consumer has only what was sent.                                      *)
BatchWasSent == \A c \in Consumers : \A m \in batch[c] : place[m] # "unsent"

(* OnlyFailedWritesLose speaks of the end of the way of an event; these    *)
(* are the stations it passes.                                             *)
IInv ==
    TypeOK /\ AttemptsLeft /\ SentIsPublished /\ BatchWasSent /\ HandledFirst
-----------------------------------------------------------------------------
(* A message is a copy of an event, or the foreign one.                    *)
LEMMA MessageShape ==
    /\ \A m \in Messages :
          \/ EventOf(m) \in Events /\ \E n \in 1..MaxCopies : m = <<EventOf(m), n>>
          \/ m = <<Foreign, 1>> /\ EventOf(m) = Foreign
    /\ \A e \in Events, n \in 1..MaxCopies : <<e, n>> \in Messages /\ EventOf(<<e, n>>) = e
    /\ <<Foreign, 1>> \in Messages
BY DEF Messages, EventOf

(* The actions, one by one.                                                *)
LEMMA Cases ==
    ASSUME [Next]_vars
    PROVE  \/ OutboxStep
           \/ ForeignArrives
           \/ \E m \in Messages : Publish(m) \/ VisibilityEnds(m) \/ DeadLetter(m)
           \/ \E c \in Consumers, B \in SUBSET Messages : Receive(c, B)
           \/ \E c \in Consumers, m \in Messages : Record(c, m) \/ RecordFails(c, m) \/ Unparseable(c, m)
           \/ \E c \in Consumers : Delete(c) \/ DeleteFails(c) \/ Restart(c)
           \/ UNCHANGED vars
BY DEF Next, Queue, Consume, Handle, Failure

(* The pipeline starts empty.                                              *)
LEMMA InitInv == Init => IInv
<1> SUFFICES ASSUME Init PROVE IInv
    OBVIOUS
<1>1. TypeOK
    BY BoundsAssumption DEF Init, TypeOK, Places
<1>2. AttemptsLeft /\ SentIsPublished /\ BatchWasSent /\ HandledFirst
    BY BoundsAssumption DEF Init, AttemptsLeft, SentIsPublished, BatchWasSent, HandledFirst
<1>3. QED
    BY <1>1, <1>2 DEF IInv

(* What a batch of the relay does to the table keeps its types, and the    *)
(* attempts of an event within the limit.                                  *)
LEMMA OutboxKeeps ==
    ASSUME TypeOK, AttemptsLeft, SentIsPublished, OutboxStep
    PROVE  /\ status' \in [Events -> {"absent", "pending", "sent", "failed"}]
           /\ attempts' \in [Events -> 0..MaxAttempts]
           /\ AttemptsLeft'
           /\ \A e \in Events : status'[e] = "sent" => e \in Published
<1>1. CASE \E e \in Events : Outbox!Insert(e)
  <2>1. PICK e \in Events : Outbox!Insert(e)
      BY <1>1
  <2>2. status[e] = "absent" /\ status' = [status EXCEPT ![e] = "pending"] /\ attempts' = attempts
      BY <2>1 DEF Outbox!Insert
  <2>3. /\ status' \in [Events -> {"absent", "pending", "sent", "failed"}]
        /\ attempts' \in [Events -> 0..MaxAttempts]
      BY <2>2 DEF TypeOK
  <2>4. ASSUME NEW x \in Events
        PROVE  /\ status'[x] \in {"absent", "pending"} => attempts'[x] < MaxAttempts
               /\ status'[x] = "sent" => x \in Published
    <3>1. CASE x = e
        BY <2>2, <3>1, BoundsAssumption DEF TypeOK, AttemptsLeft
    <3>2. CASE x # e
        BY <2>2, <3>2 DEF TypeOK, AttemptsLeft, SentIsPublished
    <3>3. QED
        BY <3>1, <3>2
  <2>5. QED
      BY <2>3, <2>4 DEF AttemptsLeft
<1>2. CASE \E ok, ko \in SUBSET Events : Outbox!Settle(ok, ko)
  <2>1. PICK ok \in SUBSET Events, ko \in SUBSET Events : Outbox!Settle(ok, ko)
      BY <1>2
  <2>2. /\ \A e \in ok : e \in Published
        /\ \A e \in ko : status[e] = "pending"
        /\ attempts' = [e \in Events |-> IF e \in ko THEN attempts[e] + 1 ELSE attempts[e]]
        /\ status' = [e \in Events |-> IF e \in ok THEN "sent"
                                       ELSE IF e \in ko /\ attempts[e] + 1 >= MaxAttempts
                                            THEN "failed" ELSE status[e]]
      BY <2>1 DEF Outbox!Settle, Outbox!Pending
  <2>3. \A e \in ko : attempts[e] + 1 \in 0..MaxAttempts
      BY <2>2, BoundsAssumption DEF TypeOK, AttemptsLeft
  <2>4. attempts' \in [Events -> 0..MaxAttempts]
      BY <2>2, <2>3 DEF TypeOK
  <2>5. status' \in [Events -> {"absent", "pending", "sent", "failed"}]
    <3>1. \A e \in Events : (IF e \in ok THEN "sent"
                             ELSE IF e \in ko /\ attempts[e] + 1 >= MaxAttempts
                                  THEN "failed" ELSE status[e]) \in {"absent", "pending", "sent", "failed"}
        BY DEF TypeOK
    <3>2. QED
        BY <2>2, <3>1
  <2>6. AttemptsLeft'
    <3>1. SUFFICES ASSUME NEW e \in Events, status'[e] \in {"absent", "pending"}
                   PROVE  attempts'[e] < MaxAttempts
        BY DEF AttemptsLeft
    <3>2. status[e] \in {"absent", "pending"} /\ (e \in ko => attempts[e] + 1 < MaxAttempts)
        BY <2>2, <3>1, BoundsAssumption DEF TypeOK
    <3>3. QED
        BY <2>2, <3>2 DEF AttemptsLeft
  <2>7. \A e \in Events : status'[e] = "sent" => e \in Published
      BY <2>2 DEF SentIsPublished
  <2>8. QED
      BY <2>4, <2>5, <2>6, <2>7
<1>3. QED
    BY <1>1, <1>2 DEF OutboxStep

(* What the end of an iteration of the for loop does to the consumer.      *)
LEMMA ContinueKeeps ==
    ASSUME TypeOK, NEW c \in Consumers, NEW rest \in SUBSET Messages, Continue(c, rest)
    PROVE  /\ pc' \in [Consumers -> {"poll", "handle", "delete"}]
           /\ batch' \in [Consumers -> SUBSET Messages]
           /\ current' \in [Consumers -> Messages \cup {NoMessage}]
           /\ \A d \in Consumers :
                 /\ pc'[d] = "delete" <=> current'[d] # NoMessage
                 /\ current'[d] # NoMessage => current'[d] \in batch'[d]
                 /\ batch'[d] = {} <=> pc'[d] = "poll"
           /\ pc'[c] # "delete"
           /\ \A d \in Consumers \ {c} : pc'[d] = pc[d] /\ current'[d] = current[d]
BY DEF TypeOK, Continue

(* What taking a message does to the consumer.                             *)
LEMMA TakeKeeps ==
    ASSUME TypeOK, NEW c \in Consumers, NEW m \in Messages, Take(c, m)
    PROVE  /\ pc' \in [Consumers -> {"poll", "handle", "delete"}]
           /\ current' \in [Consumers -> Messages \cup {NoMessage}]
           /\ \A d \in Consumers :
                 /\ pc'[d] = "delete" <=> current'[d] # NoMessage
                 /\ current'[d] # NoMessage => current'[d] \in batch'[d]
                 /\ batch'[d] = {} <=> pc'[d] = "poll"
           /\ pc'[c] = "delete" /\ current'[c] = m
           /\ \A d \in Consumers \ {c} : pc'[d] = pc[d] /\ current'[d] = current[d]
           /\ UNCHANGED <<outboxVars, queueVars, batch>>
BY MessageAssumption DEF TypeOK, Take

(* What is published stays published.                                      *)
LEMMA PublishedGrows ==
    ASSUME TypeOK, \A m \in Messages : place[m] # "unsent" => place'[m] # "unsent"
    PROVE  Published \subseteq Published'
BY MessageShape DEF Published

(* Every step keeps the types and the limit of attempts.                   *)
LEMMA TypeStep ==
    TypeOK /\ AttemptsLeft /\ SentIsPublished /\ [Next]_vars => TypeOK' /\ AttemptsLeft'
<1> SUFFICES ASSUME TypeOK, AttemptsLeft, SentIsPublished, [Next]_vars
             PROVE  TypeOK' /\ AttemptsLeft'
    OBVIOUS
<1>1. CASE OutboxStep
    BY <1>1, OutboxKeeps DEF OutboxStep, TypeOK, queueVars, consumerVars
<1>2. ASSUME UNCHANGED outboxVars PROVE AttemptsLeft'
    BY <1>2 DEF AttemptsLeft, outboxVars
<1>3. CASE ForeignArrives
    BY <1>2, <1>3 DEF ForeignArrives, TypeOK, Places, outboxVars, consumerVars
<1>4. ASSUME NEW m \in Messages, Publish(m) \/ VisibilityEnds(m) \/ DeadLetter(m)
      PROVE  TypeOK' /\ AttemptsLeft'
    BY <1>2, <1>4 DEF Publish, VisibilityEnds, DeadLetter, TypeOK, Places, outboxVars, consumerVars
<1>5. ASSUME NEW c \in Consumers, NEW B \in SUBSET Messages, Receive(c, B)
      PROVE  TypeOK' /\ AttemptsLeft'
  <2>1. /\ pc[c] = "poll" /\ current[c] = NoMessage /\ batch[c] = {}
        /\ \A m \in B : received[m] < MaxReceives
      BY <1>5 DEF Receive, TypeOK
  <2>2. /\ place' \in [Messages -> Places] /\ received' \in [Messages -> 0..MaxReceives]
    <3>1. \A m \in Messages : (IF m \in B THEN "hidden" ELSE place[m]) \in Places
        BY DEF TypeOK, Places
    <3>2. \A m \in Messages : (IF m \in B THEN received[m] + 1 ELSE received[m]) \in 0..MaxReceives
        BY <2>1, BoundsAssumption DEF TypeOK
    <3>3. QED
        BY <1>5, <3>1, <3>2 DEF Receive
  <2>3. QED
      BY <1>2, <1>5, <2>1, <2>2 DEF Receive, TypeOK, outboxVars
<1>6. ASSUME NEW c \in Consumers, NEW m \in Messages,
             Record(c, m) \/ RecordFails(c, m) \/ Unparseable(c, m)
      PROVE  TypeOK' /\ AttemptsLeft'
  <2>1. Take(c, m)
      BY <1>6 DEF Record, RecordFails, Unparseable
  <2>2. entries' \in [Events -> Nat] /\ failedWrites' \subseteq Events /\ faults' \in 0..MaxFaults
      BY <1>6, BoundsAssumption DEF Record, RecordFails, Unparseable, Fault, TypeOK
  <2>3. QED
      BY <1>2, <2>1, <2>2, TakeKeeps DEF TypeOK, outboxVars, queueVars
<1>7. ASSUME NEW c \in Consumers, Delete(c) \/ DeleteFails(c) \/ Restart(c)
      PROVE  TypeOK' /\ AttemptsLeft'
  <2>1. PICK rest \in SUBSET Messages : Continue(c, rest)
    <3>1. batch[c] \ {current[c]} \in SUBSET Messages /\ {} \in SUBSET Messages
        BY DEF TypeOK
    <3>2. QED
        BY <1>7, <3>1 DEF Delete, DeleteFails, Restart
  <2>2. /\ UNCHANGED <<outboxVars, received, entries, failedWrites>>
        /\ place' \in [Messages -> Places] /\ faults' \in 0..MaxFaults
      BY <1>7, BoundsAssumption DEF Delete, DeleteFails, Restart, Fault, TypeOK, Places, queueVars
  <2>3. QED
      BY <1>2, <2>1, <2>2, ContinueKeeps DEF TypeOK, outboxVars
<1>8. CASE UNCHANGED vars
    BY <1>2, <1>8 DEF vars, TypeOK, outboxVars, queueVars, consumerVars
<1>9. QED
    BY <1>1, <1>3, <1>4, <1>5, <1>6, <1>7, <1>8, Cases

(* No step takes a message back out of the pipeline.                       *)
LEMMA NothingUnsent ==
    ASSUME TypeOK, [Next]_vars, NEW m \in Messages, place[m] # "unsent"
    PROVE  place'[m] # "unsent"
<1>1. ASSUME NEW c \in Consumers, Delete(c) PROVE place'[m] # "unsent"
    BY <1>1 DEF Delete, TypeOK
<1>2. ASSUME NEW c \in Consumers, NEW x \in Messages,
             Record(c, x) \/ RecordFails(c, x) \/ Unparseable(c, x)
      PROVE  place' = place
    BY <1>2, TakeKeeps DEF Record, RecordFails, Unparseable, queueVars
<1>3. ASSUME NEW x \in Messages, Publish(x) \/ VisibilityEnds(x) \/ DeadLetter(x)
      PROVE  place'[m] # "unsent"
    BY <1>3 DEF Publish, VisibilityEnds, DeadLetter, TypeOK
<1>4. ASSUME NEW c \in Consumers, NEW B \in SUBSET Messages, Receive(c, B)
      PROVE  place'[m] # "unsent"
    BY <1>4 DEF Receive
<1>5. CASE ForeignArrives
    BY <1>5 DEF ForeignArrives, TypeOK
<1>6. ASSUME OutboxStep \/ UNCHANGED vars \/ \E c \in Consumers : DeleteFails(c) \/ Restart(c)
      PROVE  place' = place
    BY <1>6 DEF OutboxStep, DeleteFails, Restart, queueVars, vars
<1>7. QED
    BY <1>1, <1>2, <1>3, <1>4, <1>5, <1>6, Cases

(* Every step keeps published what the relay acknowledged.                 *)
LEMMA SentStep ==
    TypeOK /\ AttemptsLeft /\ SentIsPublished /\ [Next]_vars => SentIsPublished'
<1> SUFFICES ASSUME TypeOK, AttemptsLeft, SentIsPublished, [Next]_vars PROVE SentIsPublished'
    OBVIOUS
<1>1. Published \subseteq Published'
    BY NothingUnsent, PublishedGrows
<1>2. CASE OutboxStep
    BY <1>1, <1>2, OutboxKeeps DEF SentIsPublished
<1>3. CASE status' = status
    BY <1>1, <1>3 DEF SentIsPublished
<1>4. OutboxStep \/ status' = status
    BY Cases DEF ForeignArrives, Publish, VisibilityEnds, DeadLetter, Receive, Record, RecordFails,
                 Unparseable, Take, Delete, DeleteFails, Restart, outboxVars, vars
<1>5. QED
    BY <1>2, <1>3, <1>4

(* Every step gives consumers only what was sent.                          *)
LEMMA BatchStep == TypeOK /\ BatchWasSent /\ [Next]_vars => BatchWasSent'
<1> SUFFICES ASSUME TypeOK, BatchWasSent, [Next]_vars PROVE BatchWasSent'
    OBVIOUS
<1>1. ASSUME \A d \in Consumers : batch'[d] \subseteq batch[d] PROVE BatchWasSent'
    BY <1>1, NothingUnsent DEF BatchWasSent, TypeOK
<1>2. ASSUME NEW c \in Consumers, NEW B \in SUBSET Messages, Receive(c, B) PROVE BatchWasSent'
  <2>1. /\ batch'[c] = B /\ \A m \in B : place'[m] = "hidden"
        /\ \A d \in Consumers \ {c} : batch'[d] = batch[d]
      BY <1>2 DEF Receive, TypeOK
  <2>2. QED
      BY <2>1, NothingUnsent DEF BatchWasSent, TypeOK
<1>3. ASSUME NEW c \in Consumers, Delete(c) \/ DeleteFails(c) \/ Restart(c) PROVE BatchWasSent'
    BY <1>1, <1>3 DEF Delete, DeleteFails, Restart, Continue, TypeOK
<1>4. CASE batch' = batch
    BY <1>1, <1>4
<1>5. \/ batch' = batch
      \/ \E c \in Consumers, B \in SUBSET Messages : Receive(c, B)
      \/ \E c \in Consumers : Delete(c) \/ DeleteFails(c) \/ Restart(c)
    BY Cases DEF OutboxStep, ForeignArrives, Publish, VisibilityEnds, DeadLetter, Record,
                 RecordFails, Unparseable, Take, consumerVars, vars
<1>6. QED
    BY <1>2, <1>3, <1>4, <1>5

(* Every step handles an event before its message is deleted.              *)
LEMMA HandledStep == TypeOK /\ HandledFirst /\ [Next]_vars => HandledFirst'
<1> SUFFICES ASSUME TypeOK, HandledFirst, [Next]_vars PROVE HandledFirst'
    OBVIOUS
<1>1. ASSUME UNCHANGED <<pc, current, entries, failedWrites>>,
             \A m \in Messages : place'[m] = "deleted" => place[m] = "deleted"
      PROVE  HandledFirst'
    BY <1>1 DEF HandledFirst, Logged
<1>2. CASE OutboxStep \/ ForeignArrives \/ UNCHANGED vars
    BY <1>1, <1>2 DEF OutboxStep, ForeignArrives, vars, queueVars, consumerVars, TypeOK
<1>3. ASSUME NEW m \in Messages, Publish(m) \/ VisibilityEnds(m) \/ DeadLetter(m)
      PROVE  HandledFirst'
    BY <1>1, <1>3 DEF Publish, VisibilityEnds, DeadLetter, consumerVars, TypeOK
<1>4. ASSUME NEW c \in Consumers, NEW B \in SUBSET Messages, Receive(c, B) PROVE HandledFirst'
  <2>1. /\ pc[c] = "poll" /\ pc'[c] # "delete"
        /\ \A d \in Consumers \ {c} : pc'[d] = pc[d]
        /\ UNCHANGED <<current, entries, failedWrites>>
        /\ \A m \in Messages : place'[m] = "deleted" => place[m] = "deleted"
      BY <1>4 DEF Receive, TypeOK
  <2>2. QED
      BY <2>1 DEF HandledFirst, Logged
<1>5. ASSUME NEW c \in Consumers, NEW m \in Messages,
             Record(c, m) \/ RecordFails(c, m) \/ Unparseable(c, m)
      PROVE  HandledFirst'
  <2>1. Take(c, m)
      BY <1>5 DEF Record, RecordFails, Unparseable
  <2>2. EventOf(m) \in Events => Logged(EventOf(m))'
      BY <1>5, ForeignAssumption DEF Record, RecordFails, Unparseable, Logged, TypeOK
  <2>3. \A e \in Events : Logged(e) => Logged(e)'
      BY <1>5 DEF Record, RecordFails, Unparseable, Logged, TypeOK
  <2>4. place' = place
      BY <2>1, TakeKeeps DEF queueVars
  <2>5. \A d \in Consumers : pc'[d] = "delete" =>
           \/ d = c /\ current'[d] = m
           \/ pc[d] = "delete" /\ current'[d] = current[d]
      BY <2>1, TakeKeeps
  <2>6. QED
      BY <2>2, <2>3, <2>4, <2>5 DEF HandledFirst
<1>6. ASSUME NEW c \in Consumers, Delete(c) \/ DeleteFails(c) \/ Restart(c)
      PROVE  HandledFirst'
  <2>1. PICK rest \in SUBSET Messages : Continue(c, rest)
    <3>1. batch[c] \ {current[c]} \in SUBSET Messages /\ {} \in SUBSET Messages
        BY DEF TypeOK
    <3>2. QED
        BY <1>6, <3>1 DEF Delete, DeleteFails, Restart
  <2>2. UNCHANGED <<entries, failedWrites>>
      BY <1>6 DEF Delete, DeleteFails, Restart
  <2>3. \A d \in Consumers : pc'[d] = "delete" => pc[d] = "delete" /\ current'[d] = current[d]
      BY <2>1, ContinueKeeps
  <2>4. ASSUME NEW m \in Messages, place'[m] = "deleted", EventOf(m) \in Events
        PROVE  Logged(EventOf(m))
    <3>1. CASE place[m] = "deleted"
        BY <2>4, <3>1 DEF HandledFirst
    <3>2. CASE place[m] # "deleted"
      <4>1. pc[c] = "delete" /\ current[c] = m
          BY <1>6, <2>4, <3>2 DEF Delete, DeleteFails, Restart, queueVars, TypeOK
      <4>2. QED
          BY <2>4, <4>1 DEF HandledFirst
    <3>3. QED
        BY <3>1, <3>2
  <2>5. QED
      BY <2>2, <2>3, <2>4 DEF HandledFirst, Logged
<1>7. QED
    BY <1>2, <1>3, <1>4, <1>5, <1>6, Cases
-----------------------------------------------------------------------------
(* The strengthened invariant holds in every reachable state.              *)
LEMMA Invariant == Spec => []IInv
<1>1. IInv /\ [Next]_vars => IInv'
    BY TypeStep, SentStep, BatchStep, HandledStep DEF IInv
<1>2. QED
    BY <1>1, InitInv, PTL DEF Spec

(* The queue, the consumers and the log are what SQS and the schema allow: *)
(* no message is received more often than the redrive policy permits.      *)
THEOREM TypeCorrect == Spec => []TypeOK
BY Invariant, PTL DEF IInv

(* An event the relay acknowledged is logged, or a copy of it is still in  *)
(* the queue or the dead-letter queue, or its insert failed.               *)
THEOREM LossNeedsAFailedWrite == Spec => []OnlyFailedWritesLose
<1>1. IInv => OnlyFailedWritesLose
  <2>1. SUFFICES ASSUME IInv, NEW e \in Events, status[e] = "sent"
                 PROVE  Logged(e) \/ Queued(e, {"visible", "hidden", "dead"})
      BY DEF OnlyFailedWritesLose, Logged
  <2>2. PICK n \in 1..MaxCopies : place[<<e, n>>] # "unsent"
      BY <2>1 DEF IInv, SentIsPublished, Published
  <2>3. PICK m \in Messages : m = <<e, n>> /\ EventOf(m) = e
      BY MessageShape
  <2>4. place[m] \in Places
      BY <2>1 DEF IInv, TypeOK
  <2>5. place[m] = "deleted" => Logged(e)
      BY <2>1, <2>3 DEF IInv, HandledFirst
  <2>6. place[m] # "deleted" => Queued(e, {"visible", "hidden", "dead"})
      BY <2>2, <2>3, <2>4 DEF Places, Queued
  <2>7. QED
      BY <2>5, <2>6
<1>2. QED
    BY <1>1, Invariant, PTL
-----------------------------------------------------------------------------
(* The pipeline and the contract of its outbox.                            *)

(* A message that is published adds its event to what is published.        *)
LEMMA PublishHandles ==
    ASSUME TypeOK, NEW m \in Messages, Publish(m)
    PROVE  Outbox!Next
<1>1. /\ EventOf(m) \in Events /\ status[EventOf(m)] # "absent"
      /\ place' = [place EXCEPT ![m] = "visible"] /\ UNCHANGED outboxVars
    BY DEF Publish
<1>2. PICK n \in 1..MaxCopies : m = <<EventOf(m), n>>
    BY <1>1, MessageShape, ForeignAssumption
<1>3. ASSUME NEW e \in Events, NEW k \in 1..MaxCopies
      PROVE  place'[<<e, k>>] # "unsent" <=> place[<<e, k>>] # "unsent" \/ <<e, k>> = m
    BY <1>1, MessageShape DEF TypeOK
<1>4. Published' = Published \cup {EventOf(m)}
    BY <1>1, <1>2, <1>3, MessageShape DEF Published
<1>5. Outbox!Handle(EventOf(m))
    BY <1>1, <1>4 DEF Outbox!Handle, outboxVars
<1>6. QED
    BY <1>1, <1>5 DEF Outbox!Next

(* Steps of the queue and the consumers publish nothing.                   *)
LEMMA PublishedStays ==
    ASSUME TypeOK, BatchWasSent, [Next]_vars, \A m \in Messages : ~Publish(m), ~OutboxStep
    PROVE  UNCHANGED Outbox!contractVars
<1>1. status' = status /\ attempts' = attempts
    BY Cases DEF ForeignArrives, VisibilityEnds, DeadLetter, Receive, Record, RecordFails,
                 Unparseable, Take, Delete, DeleteFails, Restart, outboxVars, vars
<1>2. ASSUME NEW m \in Messages, m # <<Foreign, 1>>, place[m] = "unsent"
      PROVE  place'[m] = "unsent"
  <2>1. ASSUME NEW c \in Consumers, Delete(c) PROVE place'[m] = "unsent"
    <3>1. pc[c] = "delete" /\ current[c] \in batch[c]
        BY <2>1 DEF Delete, TypeOK
    <3>2. current[c] # m
        BY <1>2, <3>1 DEF BatchWasSent
    <3>3. QED
        BY <1>2, <2>1, <3>2 DEF Delete, TypeOK
  <2>2. ASSUME NEW c \in Consumers, NEW B \in SUBSET Messages, Receive(c, B)
        PROVE  place'[m] = "unsent"
      BY <1>2, <2>2 DEF Receive
  <2>3. ASSUME NEW x \in Messages, VisibilityEnds(x) \/ DeadLetter(x) PROVE place'[m] = "unsent"
      BY <1>2, <2>3 DEF VisibilityEnds, DeadLetter, TypeOK
  <2>4. CASE ForeignArrives
      BY <1>2, <2>4 DEF ForeignArrives, TypeOK
  <2>5. CASE place' = place
      BY <1>2, <2>5
  <2>6. \/ place' = place \/ ForeignArrives
        \/ \E x \in Messages : VisibilityEnds(x) \/ DeadLetter(x)
        \/ \E c \in Consumers, B \in SUBSET Messages : Receive(c, B)
        \/ \E c \in Consumers : Delete(c)
      BY Cases DEF Record, RecordFails, Unparseable, Take, DeleteFails, Restart, queueVars, vars
  <2>7. QED
      BY <2>1, <2>2, <2>3, <2>4, <2>5, <2>6
<1>3. ASSUME NEW e \in Events, NEW k \in 1..MaxCopies
      PROVE  place'[<<e, k>>] = "unsent" <=> place[<<e, k>>] = "unsent"
  <2>1. PICK m \in Messages : m = <<e, k>> /\ m # <<Foreign, 1>>
      BY MessageShape, ForeignAssumption DEF EventOf
  <2>2. QED
      BY <1>2, <2>1, NothingUnsent
<1>4. Published' = Published
    BY <1>3 DEF Published
<1>5. QED
    BY <1>1, <1>4 DEF Outbox!contractVars

(* What the pipeline takes from the outbox, several publications of an     *)
(* event included, is what the contract of the outbox promises.            *)
THEOREM OutboxKeepsItsContract == Spec => Outbox!Spec
<1>1. ASSUME Init PROVE Outbox!Init
  <2>1. Published = {}
      BY <1>1, MessageShape DEF Init, Published
  <2>2. QED
      BY <1>1, <2>1 DEF Init, Outbox!Init
<1>2. ASSUME IInv, [Next]_vars PROVE [Outbox!Next]_(Outbox!contractVars)
  <2>1. ASSUME NEW m \in Messages, Publish(m) PROVE Outbox!Next
      BY <1>2, <2>1, PublishHandles DEF IInv
  <2>2. CASE OutboxStep
      BY <2>2 DEF OutboxStep, Outbox!Next
  <2>3. CASE ~OutboxStep /\ \A m \in Messages : ~Publish(m)
      BY <1>2, <2>3, PublishedStays DEF IInv
  <2>4. QED
      BY <2>1, <2>2, <2>3
<1>3. QED
    BY <1>1, <1>2, Invariant, PTL DEF Spec, Outbox!Spec
=============================================================================

---------------------------- MODULE AuditPipeline ----------------------------
(***************************************************************************)
(* From the outbox to the audit log: the relay publishes outbox_events to  *)
(* SNS, SNS copies them into the SQS audit queue, and AuditConsumer loops  *)
(* in the worker pods write audit_logs.                                    *)
(*                                                                         *)
(* The producing side is the contract of the outbox (OutboxContract): an   *)
(* event may be published several times, and is marked 'sent' only after   *)
(* it was published once. SQS is external and modelled as a standard queue:*)
(* unordered, a received message is hidden until it is deleted or its      *)
(* visibility timeout ends, a delete with an outdated receipt handle may   *)
(* or may not delete, and a message that was received MaxReceives times    *)
(* goes to the dead-letter queue instead of being received again.          *)
(***************************************************************************)
EXTENDS Naturals, FiniteSets

CONSTANTS
    Events,       \* outbox_events rows
    MaxAttempts,  \* publish attempts before the relay gives an event up
    Foreign,      \* stands for a message body that is not JSON
    MaxReceives,  \* maxReceiveCount of the redrive policy (5 in the code)
    MaxCopies,    \* bound: how often one event is published
    Consumers,    \* polling loops, one per worker pod
    NoMessage,
    BatchSize,    \* MaxNumberOfMessages (10 in the code)
    MaxFaults     \* bound: database errors, failed deletes, restarts

ASSUME ForeignAssumption == Foreign \notin Events
ASSUME BoundsAssumption ==
    /\ MaxAttempts \in Nat \ {0} /\ MaxCopies \in Nat \ {0}
    /\ MaxReceives \in Nat \ {0} /\ BatchSize \in Nat \ {0} /\ MaxFaults \in Nat

(* A message is the n-th copy of an event, or the one foreign message.     *)
Messages == (Events \X (1..MaxCopies)) \cup {<<Foreign, 1>>}
EventOf(m) == m[1]
ASSUME MessageAssumption == NoMessage \notin Messages

VARIABLES
    status, attempts,   \* outbox_events
    place,              \* where every message is
    received,           \* how often it was received
    pc, batch, current, \* of every consumer: poll(), its for loop, the message
    entries,            \* number of audit_logs rows of every event
    failedWrites,       \* history: events whose insert failed at least once
    faults

outboxVars == <<status, attempts>>
consumerVars == <<pc, batch, current>>
queueVars == <<place, received>>
vars == <<outboxVars, queueVars, consumerVars, entries, failedWrites, faults>>

Places == {"unsent", "visible", "hidden", "deleted", "dead"}

Published == {e \in Events : \E n \in 1..MaxCopies : place[<<e, n>>] # "unsent"}

Outbox == INSTANCE OutboxContract WITH
    Rows <- Events, handled <- Published, notified <- {}

Init ==
    /\ status = [e \in Events |-> "absent"]
    /\ attempts = [e \in Events |-> 0]
    /\ place = [m \in Messages |-> "unsent"]
    /\ received = [m \in Messages |-> 0]
    /\ pc = [c \in Consumers |-> "poll"]
    /\ batch = [c \in Consumers |-> {}]
    /\ current = [c \in Consumers |-> NoMessage]
    /\ entries = [e \in Events |-> 0]
    /\ failedWrites = {}
    /\ faults = 0

-----------------------------------------------------------------------------
(* The outbox and the queue.                                               *)

(* Events are inserted and batches of the relay commit, as promised.       *)
OutboxStep ==
    /\ UNCHANGED <<queueVars, consumerVars, entries, failedWrites, faults>>
    /\ \/ \E e \in Events : Outbox!Insert(e)
       \/ \E ok, ko \in SUBSET Events : Outbox!Settle(ok, ko) /\ ok \cup ko # {}

(* processRow of OutboxRelayService publishes an event (again).            *)
Publish(m) ==
    /\ EventOf(m) \in Events /\ status[EventOf(m)] # "absent"
    /\ place[m] = "unsent"
    /\ \A n \in 1..(m[2] - 1) : place[<<EventOf(m), n>>] # "unsent"
    /\ place' = [place EXCEPT ![m] = "visible"]
    /\ UNCHANGED <<outboxVars, received, consumerVars, entries, failedWrites, faults>>

(* A body the consumer cannot parse arrives from elsewhere.                *)
ForeignArrives ==
    /\ place[<<Foreign, 1>>] = "unsent"
    /\ place' = [place EXCEPT ![<<Foreign, 1>>] = "visible"]
    /\ UNCHANGED <<outboxVars, received, consumerVars, entries, failedWrites, faults>>

(* The visibility timeout (60 s) of a received message ends.               *)
VisibilityEnds(m) ==
    /\ place[m] = "hidden"
    /\ place' = [place EXCEPT ![m] = "visible"]
    /\ UNCHANGED <<outboxVars, received, consumerVars, entries, failedWrites, faults>>

(* A message that was received too often goes to the dead-letter queue.    *)
DeadLetter(m) ==
    /\ place[m] = "visible" /\ received[m] = MaxReceives
    /\ place' = [place EXCEPT ![m] = "dead"]
    /\ UNCHANGED <<outboxVars, received, consumerVars, entries, failedWrites, faults>>

-----------------------------------------------------------------------------
(* poll() and handleMessage().                                             *)

Fault == faults < MaxFaults /\ faults' = faults + 1

(* ReceiveMessage answers with a batch in no particular order, or with     *)
(* nothing when the long poll ends.                                        *)
Receive(c, B) ==
    /\ pc[c] = "poll"
    /\ Cardinality(B) <= BatchSize
    /\ \A m \in B : place[m] = "visible" /\ received[m] < MaxReceives
    /\ place' = [m \in Messages |-> IF m \in B THEN "hidden" ELSE place[m]]
    /\ received' = [m \in Messages |-> IF m \in B THEN received[m] + 1 ELSE received[m]]
    /\ batch' = [batch EXCEPT ![c] = B]
    /\ pc' = [pc EXCEPT ![c] = IF B = {} THEN "poll" ELSE "handle"]
    /\ UNCHANGED <<outboxVars, current, entries, failedWrites, faults>>

(* The for loop takes the next message and will delete it.                 *)
Take(c, m) ==
    /\ pc[c] = "handle" /\ m \in batch[c]
    /\ current' = [current EXCEPT ![c] = m]
    /\ pc' = [pc EXCEPT ![c] = "delete"]
    /\ UNCHANGED <<outboxVars, queueVars, batch>>

(* auditService.record inserts, ON CONFLICT (source_event_id) DO NOTHING.  *)
Record(c, m) ==
    /\ EventOf(m) \in Events
    /\ Take(c, m)
    /\ entries' = [entries EXCEPT ![EventOf(m)] = IF @ = 0 THEN 1 ELSE @]
    /\ UNCHANGED <<failedWrites, faults>>

(* The insert fails; record() logs the error and returns normally.         *)
RecordFails(c, m) ==
    /\ EventOf(m) \in Events
    /\ Fault
    /\ Take(c, m)
    /\ failedWrites' = failedWrites \cup {EventOf(m)}
    /\ UNCHANGED entries

(* JSON.parse throws: the message is discarded.                            *)
Unparseable(c, m) ==
    /\ EventOf(m) = Foreign
    /\ Take(c, m)
    /\ UNCHANGED <<entries, failedWrites, faults>>

(* The loop goes on with the messages of rest, or back to poll().          *)
Continue(c, rest) ==
    /\ batch' = [batch EXCEPT ![c] = rest]
    /\ current' = [current EXCEPT ![c] = NoMessage]
    /\ pc' = [pc EXCEPT ![c] = IF rest = {} THEN "poll" ELSE "handle"]

(* Mutant: one delete request for the whole batch.                         *)
DeleteBatch(c) ==
    /\ pc[c] = "delete"
    /\ place' = [m \in Messages |-> IF m \in batch[c] THEN "deleted" ELSE place[m]]
    /\ Continue(c, batch[c] \ {current[c]})
    /\ UNCHANGED <<outboxVars, received, entries, failedWrites, faults>>

(* deleteMessage succeeds. The message is gone, unless it was delivered    *)
(* again in the meantime and the receipt handle is outdated.               *)
Delete(c) ==
    /\ pc[c] = "delete"
    /\ \/ place' = [place EXCEPT ![current[c]] = "deleted"]
       \/ place[current[c]] = "visible" /\ UNCHANGED place
       \/ /\ \E d \in Consumers \ {c} : current[c] \in batch[d]
          /\ UNCHANGED place
    /\ Continue(c, batch[c] \ {current[c]})
    /\ UNCHANGED <<outboxVars, received, entries, failedWrites, faults>>

(* deleteMessage throws: caught for an event, but for an unparseable       *)
(* message it leaves the for loop; poll() backs off and drops the batch.   *)
DeleteFails(c) ==
    /\ Fault
    /\ pc[c] = "delete"
    /\ Continue(c, IF EventOf(current[c]) = Foreign THEN {} ELSE batch[c] \ {current[c]})
    /\ UNCHANGED <<outboxVars, queueVars, entries, failedWrites>>

(* The pod stops and is started again.                                     *)
Restart(c) ==
    /\ Fault
    /\ Continue(c, {})
    /\ UNCHANGED <<outboxVars, queueVars, entries, failedWrites>>

-----------------------------------------------------------------------------
Queue == ForeignArrives \/ \E m \in Messages : Publish(m) \/ VisibilityEnds(m) \/ DeadLetter(m)

Handle(c) == \E m \in Messages : Record(c, m) \/ RecordFails(c, m) \/ Unparseable(c, m)

Consume(c) ==
    \/ \E B \in SUBSET Messages : Receive(c, B)
    \/ Handle(c)
    \/ Delete(c)

Failure(c) == DeleteFails(c) \/ Restart(c)

Next == OutboxStep \/ Queue \/ \E c \in Consumers : Consume(c) \/ Failure(c)

Spec == Init /\ [][Next]_vars

(* The loop of a pod goes on, timeouts end, and a message that is visible  *)
(* again and again is received one day, or goes to the dead-letter queue.  *)
Fairness ==
    /\ \A c \in Consumers : WF_vars(Handle(c)) /\ WF_vars(Delete(c))
    /\ \A m \in Messages :
          /\ WF_vars(VisibilityEnds(m)) /\ WF_vars(DeadLetter(m))
          /\ SF_vars(\E c \in Consumers, B \in SUBSET Messages : m \in B /\ Receive(c, B))

FairSpec == Spec /\ Fairness
-----------------------------------------------------------------------------
(* Type correctness of the queue, the consumers and the log.               *)
TypeOK ==
    /\ status \in [Events -> {"absent", "pending", "sent", "failed"}]
    /\ attempts \in [Events -> 0..MaxAttempts]
    /\ place \in [Messages -> Places]
    /\ received \in [Messages -> 0..MaxReceives]
    /\ pc \in [Consumers -> {"poll", "handle", "delete"}]
    /\ batch \in [Consumers -> SUBSET Messages]
    /\ current \in [Consumers -> Messages \cup {NoMessage}]
    /\ \A c \in Consumers :
          /\ pc[c] = "delete" <=> current[c] # NoMessage
          /\ current[c] # NoMessage => current[c] \in batch[c]
          /\ batch[c] = {} <=> pc[c] = "poll"
    /\ entries \in [Events -> Nat]
    /\ failedWrites \subseteq Events
    /\ faults \in 0..MaxFaults

Queued(e, places) == \E n \in 1..MaxCopies : place[<<e, n>>] \in places

(* An event the relay marked 'sent' is logged, or still in the queue or    *)
(* the dead-letter queue, or its insert failed: redelivery, lost deletes   *)
(* and restarts lose nothing.                                              *)
OnlyFailedWritesLose ==
    \A e \in Events : status[e] = "sent" =>
        entries[e] > 0 \/ e \in failedWrites \/ Queued(e, {"visible", "hidden", "dead"})

(* A message goes to the dead-letter queue although nothing is wrong with  *)
(* it when handling it lasts too long too often; apart from that, and from *)
(* failed inserts, every event marked 'sent' is logged in the end.         *)
SentEventsAreLogged ==
    \A e \in Events : status[e] = "sent" ~>
        (entries[e] > 0 \/ e \in failedWrites \/ Queued(e, {"dead"}))

(* "Don't delete — SQS visibility timeout expires and message is           *)
(* redelivered": a message is deleted only once its event is logged. Not   *)
(* so: record() swallows the error the catch of handleMessage waits for.   *)
NoDeleteWithoutEntry ==
    \A m \in Messages :
        EventOf(m) \in Events /\ place[m] = "deleted" => entries[EventOf(m)] > 0
=============================================================================

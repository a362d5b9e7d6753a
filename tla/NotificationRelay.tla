-------------------------- MODULE NotificationRelay --------------------------
(***************************************************************************)
(* NotificationRelayService: the outbox relay whose processRow writes the  *)
(* in-app notification on a pool connection, outside the transaction of    *)
(* the relay, and whose post-commit task pushes it to the browsers and     *)
(* schedules an email.                                                     *)
(*                                                                         *)
(* Extends OutboxRelay: every action of the relay is refined by what the   *)
(* subclass does in it. processRow now takes two steps, because the pods   *)
(* see the in-app row before the row of the outbox is marked:              *)
(*   SendInApp     in_app_notifications has the new row (isNew[p])         *)
(*   ReturnTask    the email preference is read, the task is returned      *)
(* and the task takes two: Push, then ScheduleEmail.                       *)
(* User preferences are read when needed and may have any value then.      *)
(***************************************************************************)
EXTENDS OutboxRelay

CONSTANTS
    HashKeyed,   \* rows whose idempotency_key is not a UUID
    MaxErrors    \* bound: errors of the pool, the templates, Valkey

ASSUME KeysAssumption == HashKeyed \subseteq Rows /\ MaxErrors \in Nat

VARIABLES
    isNew,       \* of every pod: send() returned a new notification, not null
    inbox,       \* rows with a row in in_app_notifications (source_event_id)
    suppressed,  \* history: rows once found to be switched off by the user
    wantsEmail,  \* rows whose task was built with emailEnabled
    pushed,      \* how often the row was published to the user's channel
    emailing,    \* of every pod: tasks between the push and the email
    emails,      \* rows with a row in email_outbox ('notification-email:' key)
    errors

pushVars == <<pushed, emailing, emails>>
nVars == <<isNew, inbox, suppressed, wantsEmail, pushVars, errors>>
allVars == <<vars, nVars>>

NInit ==
    /\ Init
    /\ isNew = [p \in Pods |-> FALSE]
    /\ inbox = {} /\ suppressed = {} /\ wantsEmail = {} /\ emails = {}
    /\ pushed = [r \in Rows |-> 0]
    /\ emailing = [p \in Pods |-> {}]
    /\ errors = 0

Error == errors < MaxErrors /\ errors' = errors + 1

-----------------------------------------------------------------------------
(* processRow                                                              *)

(* The user switched the in-app channel off: processRow returns at once.   *)
Suppress(p, r) ==
    /\ ~isNew[p]
    /\ HandlerReturns(p, r, FALSE)
    /\ suppressed' = suppressed \cup {r}
    /\ UNCHANGED <<isNew, inbox, wantsEmail, pushVars, errors>>

(* send(): the insert into in_app_notifications is durable at once. It     *)
(* conflicts when an earlier attempt got as far as this.                   *)
SendInApp(p, r) ==
    /\ IsCurrent(p, r) /\ ~isNew[p]
    /\ r \notin HashKeyed
    /\ r \notin inbox
    /\ inbox' = inbox \cup {r}
    /\ isNew' = [isNew EXCEPT ![p] = TRUE]
    /\ UNCHANGED <<vars, suppressed, wantsEmail, pushVars, errors>>

(* ON CONFLICT DO NOTHING: send() returns null, there is no task.          *)
Deduplicated(p, r) ==
    /\ ~isNew[p]
    /\ r \in inbox
    /\ HandlerReturns(p, r, FALSE)
    /\ UNCHANGED nVars

(* Mutant: the push is sent by processRow itself, not by a task.           *)
ReturnTaskPushes(p, r) ==
    /\ isNew[p]
    /\ HandlerReturns(p, r, FALSE)
    /\ isNew' = [isNew EXCEPT ![p] = FALSE]
    /\ pushed' = [pushed EXCEPT ![r] = @ + 1]
    /\ UNCHANGED <<inbox, suppressed, wantsEmail, emailing, emails, errors>>

(* The email preference is read and processRow returns the task.           *)
ReturnTask(p, r) ==
    /\ isNew[p]
    /\ HandlerReturns(p, r, TRUE)
    /\ isNew' = [isNew EXCEPT ![p] = FALSE]
    /\ wantsEmail' \in {wantsEmail, wantsEmail \cup {r}}
    /\ UNCHANGED <<inbox, suppressed, pushVars, errors>>

(* A preference query, the template or the insert throws. The insert of a  *)
(* key that is not a UUID into the uuid column source_event_id always does.*)
ProcessRowThrows(p, r) ==
    /\ IF r \in HashKeyed /\ ~isNew[p] THEN UNCHANGED errors ELSE Error
    /\ HandlerThrows(p, r)
    /\ isNew' = [isNew EXCEPT ![p] = FALSE]
    /\ UNCHANGED <<inbox, suppressed, wantsEmail, pushVars>>

ProcessRow(p) == \E r \in Rows :
    Suppress(p, r) \/ SendInApp(p, r) \/ Deduplicated(p, r) \/ ReturnTask(p, r)
    \/ ProcessRowThrows(p, r)

-----------------------------------------------------------------------------
(* The post-commit task                                                    *)

(* notifyUser publishes to the channel of the recipient.                   *)
Push(p, r) ==
    /\ r \in running[p] \ emailing[p]
    /\ pushed' = [pushed EXCEPT ![r] = @ + 1]
    /\ IF r \in wantsEmail
       THEN emailing' = [emailing EXCEPT ![p] = @ \cup {r}] /\ UNCHANGED vars
       ELSE TaskRuns(p, r) /\ UNCHANGED emailing
    /\ UNCHANGED <<isNew, inbox, suppressed, wantsEmail, emails, errors>>

(* notifyUser throws: the task ends, the email is not scheduled either.    *)
PushFails(p, r) ==
    /\ Error
    /\ r \in running[p] \ emailing[p]
    /\ TaskRuns(p, r)
    /\ UNCHANGED <<isNew, inbox, suppressed, wantsEmail, pushVars>>

(* scheduleNotificationEmail; an unknown recipient gets no email.          *)
ScheduleEmail(p, r) ==
    /\ r \in emailing[p]
    /\ TaskRuns(p, r)
    /\ emailing' = [emailing EXCEPT ![p] = @ \ {r}]
    /\ emails' \in {emails, emails \cup {r}}
    /\ UNCHANGED <<isNew, inbox, suppressed, wantsEmail, pushed, errors>>

Task(p) == \E r \in Rows : Push(p, r) \/ PushFails(p, r) \/ ScheduleEmail(p, r)

-----------------------------------------------------------------------------
(* What the subclass inherits.                                             *)

Inherited(p) ==
    /\ Trigger(p) \/ Immediate(p) \/ FetchBatch(p) \/ Commit(p) \/ LoseSession(p)
    /\ UNCHANGED nVars

(* A run that ends early forgets the row it was at; a crash also the tasks.*)
Aborted(p) ==
    /\ BeginFails(p) \/ TxFails(p) \/ CommitUnknown(p) \/ Crash(p)
    /\ isNew' = [isNew EXCEPT ![p] = FALSE]
    /\ emailing' = [emailing EXCEPT ![p] = @ \cap running'[p]]
    /\ UNCHANGED <<inbox, suppressed, wantsEmail, pushed, emails, errors>>

NNext ==
    \/ Environment /\ UNCHANGED nVars
    \/ \E p \in Pods : ProcessRow(p) \/ Task(p) \/ Inherited(p) \/ Aborted(p)

NSpec == NInit /\ [][NNext]_allVars
-----------------------------------------------------------------------------
(* Type correctness of what the subclass adds, and of the relay.           *)
NTypeOK ==
    /\ TypeOK
    /\ isNew \in [Pods -> BOOLEAN]
    /\ \A p \in Pods : isNew[p] => pc[p] = "row"
    /\ inbox \subseteq Rows /\ suppressed \subseteq Rows
    /\ wantsEmail \subseteq Rows /\ emails \subseteq Rows
    /\ pushed \in [Rows -> Nat]
    /\ emailing \in [Pods -> SUBSET Rows]
    /\ \A p \in Pods : emailing[p] \subseteq running[p]
    /\ errors \in Nat

(* A row is marked 'sent' only with its notification in the inbox, or      *)
(* because the user had switched it off. The browser hears of it at most   *)
(* once, over all retries, pods and crashes, and only when it can be read  *)
(* from the inbox and will not be relayed again; an email only follows.    *)
InboxThenPush ==
    \A r \in Rows :
        /\ status[r] = "sent" => r \in inbox \cup suppressed
        /\ pushed[r] <= 1
        /\ pushed[r] > 0 => r \in inbox /\ status[r] = "sent"
        /\ r \in emails => pushed[r] = 1

(* "processRow() returns a PostCommitTask that runs AFTER the transaction  *)
(* commits": a notification in the inbox whose row is 'sent' had its task  *)
(* started, as long as no pod crashed. Not so: when the attempt that wrote *)
(* the inbox fails later, the retry is deduplicated and returns no task.   *)
SentIsAnnounced ==
    \A r \in Rows : faults = 0 /\ status[r] = "sent" /\ r \in inbox \ suppressed =>
        posted[r] > 0 \/ \E p \in Pods : r \in running[p]

(* "The same key flows through as sourceEventId": without errors no row is *)
(* given up. Not so for a key that is no UUID, as the convention           *)
(* sha256('assigned:' + assignmentId) produces.                            *)
KeyFlowsThrough == errors = 0 => \A r \in Rows : status[r] # "failed"
=============================================================================

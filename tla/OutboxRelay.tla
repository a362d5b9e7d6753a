---------------------------- MODULE OutboxRelay -----------------------------
(***************************************************************************)
(* AbstractOutboxRelay.relay(): the polling loop every outbox relay of the *)
(* worker inherits, run by several worker pods against one outbox table.   *)
(*                                                                         *)
(* A run of relay() in a pod goes through pc:                              *)
(*   idle -> begin    relay() called, isRelaying set, transaction not open *)
(*        -> row      the batch is locked, rows are handled one by one     *)
(*        -> commit   every row is marked, COMMIT is next                  *)
(*        -> idle     the finally block                                    *)
(* What the subclass does with a row (processRow) is seen here only by its *)
(* result: it returns, with or without a post-commit task, or it throws.   *)
(* The effects of processRow are outside the transaction.                  *)
(*                                                                         *)
(* A step is the code between two awaits whose interleaving other pods can *)
(* see. Marking a row only writes to the pod's own transaction, so it      *)
(* belongs to the step in which processRow ends; the failure of the mark   *)
(* is TxFails. Starting the post-commit tasks and the finally block belong *)
(* to the step that commits, since no await separates them.                *)
(***************************************************************************)
EXTENDS Naturals, FiniteSets

CONSTANTS
    Rows,         \* outbox rows; the number is the position in the fetch order
    Pods,         \* worker processes running this relay
    NoPod,        \* value of lock[r] when no session has the row locked
    MaxAttempts,  \* maxAttempts (5 in the code)
    BatchSize,    \* batchSize (50 in the code)
    MaxFaults     \* bound: crashes, lost sessions and failed transactions

ASSUME RowsAssumption == Rows \subseteq Nat
ASSUME PodsAssumption == NoPod \notin Pods
ASSUME BoundsAssumption ==
    MaxAttempts \in Nat \ {0} /\ BatchSize \in Nat \ {0} /\ MaxFaults \in Nat

VARIABLES
    \* the outbox table: committed columns, schedule and row locks
    status,          \* "absent" until the producer's transaction commits
    attempts,
    due,             \* rows whose scheduled_at is not in the future any more
    lock,            \* holder of the FOR UPDATE lock
    \* one relay object per pod
    pc,
    wakeOnComplete,
    immediate,       \* a setImmediate(() => this.relay()) is queued
    \* the transaction of the current run
    session,         \* "lost": the server ended it, the pod does not know yet
    work,            \* "none": not in the batch; "todo"; or how it was marked
    seen,            \* row.attempts as fetched
    tasks,           \* rows that pushed to postCommitTasks
    \* tasks started after a commit, still running
    running,
    \* history
    handled,         \* how often processRow returned normally for the row
    failures,        \* how often markFailed was committed for the row
    posted,          \* how often the post-commit task of the row ran
    faults

tableVars == <<status, attempts, due>>
txVars == <<work, seen, tasks>>
podVars == <<pc, wakeOnComplete, immediate>>
vars == <<status, attempts, due, lock, pc, wakeOnComplete, immediate, session,
          work, seen, tasks, running, handled, failures, posted, faults>>

Statuses == {"absent", "pending", "sent", "failed"}
Marks == {"none", "todo", "sent", "failed"}

Init ==
    /\ status = [r \in Rows |-> "absent"]
    /\ attempts = [r \in Rows |-> 0]
    /\ due = {}
    /\ lock = [r \in Rows |-> NoPod]
    /\ pc = [p \in Pods |-> "idle"]
    /\ wakeOnComplete = [p \in Pods |-> FALSE]
    /\ immediate = [p \in Pods |-> FALSE]
    /\ session = [p \in Pods |-> "none"]
    /\ work = [p \in Pods |-> [r \in Rows |-> "none"]]
    /\ seen = [p \in Pods |-> [r \in Rows |-> 0]]
    /\ tasks = [p \in Pods |-> {}]
    /\ running = [p \in Pods |-> {}]
    /\ handled = [r \in Rows |-> 0]
    /\ failures = [r \in Rows |-> 0]
    /\ posted = [r \in Rows |-> 0]
    /\ faults = 0

-----------------------------------------------------------------------------
(* The producers and the clock.                                            *)

(* The business transaction that wrote the row commits; until then the row *)
(* is invisible to the relay, even if its wake signal already arrived.     *)
Insert(r) ==
    /\ status[r] = "absent"
    /\ status' = [status EXCEPT ![r] = "pending"]
    /\ UNCHANGED <<attempts, due, lock, podVars, session, txVars, running,
                   handled, failures, posted, faults>>

(* scheduled_at of the row passes on the worker's clock.                   *)
BecomeDue(r) ==
    /\ status[r] # "absent" /\ r \notin due
    /\ due' = due \cup {r}
    /\ UNCHANGED <<status, attempts, lock, podVars, session, txVars, running,
                   handled, failures, posted, faults>>

-----------------------------------------------------------------------------
(* One run of relay().                                                     *)

(* The head of relay(): a call during a run is only remembered.            *)
Call(p) ==
    IF pc[p] = "idle"
    THEN /\ pc' = [pc EXCEPT ![p] = "begin"]
         /\ UNCHANGED wakeOnComplete
    ELSE /\ wakeOnComplete' = [wakeOnComplete EXCEPT ![p] = TRUE]
         /\ UNCHANGED pc

(* The 5 s cron tick, or a wake signal from a scheduler.                   *)
Trigger(p) ==
    /\ Call(p)
    /\ UNCHANGED <<tableVars, lock, immediate, session, txVars, running,
                   handled, failures, posted, faults>>

(* The call queued by the finally block of an earlier run.                 *)
Immediate(p) ==
    /\ immediate[p]
    /\ immediate' = [immediate EXCEPT ![p] = FALSE]
    /\ Call(p)
    /\ UNCHANGED <<tableVars, lock, session, txVars, running,
                   handled, failures, posted, faults>>

(* Mutant: the finally block forgets the remembered call.                  *)
FinallyForgetsWake(p) ==
    /\ pc' = [pc EXCEPT ![p] = "idle"]
    /\ wakeOnComplete' = [wakeOnComplete EXCEPT ![p] = FALSE]
    /\ UNCHANGED immediate

(* The finally block: isRelaying is reset, a remembered call is queued.    *)
Finally(p) ==
    /\ pc' = [pc EXCEPT ![p] = "idle"]
    /\ wakeOnComplete' = [wakeOnComplete EXCEPT ![p] = FALSE]
    /\ immediate' = [immediate EXCEPT ![p] = IF wakeOnComplete[p] THEN TRUE ELSE @]

(* Mutant: the SELECT takes no row locks and skips none.                   *)
EligibleIfLocked ==
    {r \in Rows : status[r] = "pending" /\ attempts[r] < MaxAttempts /\ r \in due}

(* Rows the SELECT ... FOR UPDATE SKIP LOCKED of fetchBatch can return.    *)
Eligible ==
    {r \in Rows : /\ status[r] = "pending"
                  /\ attempts[r] < MaxAttempts
                  /\ r \in due
                  /\ lock[r] = NoPod}

(* ORDER BY ... LIMIT batchSize over the eligible rows.                    *)
IsBatch(B) ==
    /\ B \subseteq Eligible
    /\ Cardinality(B) <= BatchSize
    /\ \A q \in Eligible \ B :
          Cardinality(B) = BatchSize /\ \A r \in B : r < q

FetchBatch(p) ==
    /\ pc[p] = "begin"
    /\ \E B \in SUBSET Eligible :
          /\ IsBatch(B)
          /\ work' = [work EXCEPT ![p] = [r \in Rows |-> IF r \in B THEN "todo" ELSE "none"]]
          /\ seen' = [seen EXCEPT ![p] = [r \in Rows |-> IF r \in B THEN attempts[r] ELSE 0]]
          /\ lock' = [r \in Rows |-> IF r \in B THEN p ELSE lock[r]]
          /\ pc' = [pc EXCEPT ![p] = IF B = {} THEN "commit" ELSE "row"]
    /\ session' = [session EXCEPT ![p] = "open"]
    /\ UNCHANGED <<tableVars, wakeOnComplete, immediate, tasks, running,
                   handled, failures, posted, faults>>

Todo(p) == {r \in Rows : work[p][r] = "todo"}

(* The row the for loop is at: the batch is walked in fetch order.         *)
IsCurrent(p, r) ==
    /\ pc[p] = "row"
    /\ r \in Todo(p)
    /\ \A q \in Todo(p) : r <= q

ReleaseLocks(p) == lock' = [r \in Rows |-> IF lock[r] = p THEN NoPod ELSE lock[r]]

(* Mutant: postCommitTasks outlives the run that filled it.                *)
EndTxKeepsTasks(p) ==
    /\ session' = [session EXCEPT ![p] = "none"]
    /\ work' = [work EXCEPT ![p] = [r \in Rows |-> "none"]]
    /\ seen' = [seen EXCEPT ![p] = [r \in Rows |-> 0]]
    /\ UNCHANGED tasks
    /\ ReleaseLocks(p)

(* Mutant: the transaction is left open, its row locks stay.               *)
EndTxKeepsLocks(p) ==
    /\ session' = [session EXCEPT ![p] = "none"]
    /\ work' = [work EXCEPT ![p] = [r \in Rows |-> "none"]]
    /\ seen' = [seen EXCEPT ![p] = [r \in Rows |-> 0]]
    /\ tasks' = [tasks EXCEPT ![p] = {}]
    /\ UNCHANGED lock

(* The transaction is over in the pod: nothing of it is left.              *)
EndTx(p) ==
    /\ session' = [session EXCEPT ![p] = "none"]
    /\ work' = [work EXCEPT ![p] = [r \in Rows |-> "none"]]
    /\ seen' = [seen EXCEPT ![p] = [r \in Rows |-> 0]]
    /\ tasks' = [tasks EXCEPT ![p] = {}]
    /\ ReleaseLocks(p)

(* markSent / markFailed in the transaction. On a lost session the mark    *)
(* throws out of the loop and the run ends without committing.             *)
MarkRow(p, r, mark, newTasks) ==
    IF session[p] = "open"
    THEN /\ work' = [work EXCEPT ![p][r] = mark]
         /\ tasks' = [tasks EXCEPT ![p] = newTasks]
         /\ pc' = [pc EXCEPT ![p] = IF Todo(p) = {r} THEN "commit" ELSE "row"]
         /\ UNCHANGED <<seen, session, lock, wakeOnComplete, immediate>>
    ELSE EndTx(p) /\ Finally(p)

(* processRow(row) returns normally; hasTask: it returned a PostCommitTask.*)
HandlerReturns(p, r, hasTask) ==
    /\ IsCurrent(p, r)
    /\ MarkRow(p, r, "sent", IF hasTask THEN tasks[p] \cup {r} ELSE tasks[p])
    /\ handled' = [handled EXCEPT ![r] = @ + 1]
    /\ UNCHANGED <<tableVars, running, failures, posted, faults>>

(* Mutant: the error of processRow is swallowed and the row marked sent.   *)
HandlerThrowsSwallowed(p, r) ==
    /\ IsCurrent(p, r)
    /\ MarkRow(p, r, "sent", tasks[p])
    /\ UNCHANGED <<tableVars, running, handled, failures, posted, faults>>

(* processRow(row) throws; its effect may have happened all the same.      *)
HandlerThrows(p, r) ==
    /\ IsCurrent(p, r)
    /\ MarkRow(p, r, "failed", tasks[p])
    /\ UNCHANGED <<tableVars, running, handled, failures, posted, faults>>

(* What COMMIT makes durable: newAttempts and newStatus come from the row  *)
(* as it was fetched.                                                      *)
ApplyMarks(p) ==
    /\ attempts' = [r \in Rows |-> IF work[p][r] = "failed" THEN seen[p][r] + 1
                                   ELSE attempts[r]]
    /\ status' = [r \in Rows |->
          CASE work[p][r] = "sent"   -> "sent"
            [] work[p][r] = "failed" -> IF seen[p][r] + 1 >= MaxAttempts
                                        THEN "failed" ELSE "pending"
            [] OTHER                 -> status[r]]
    /\ failures' = [r \in Rows |-> IF work[p][r] = "failed" THEN failures[r] + 1
                                   ELSE failures[r]]

(* COMMIT succeeds: the tasks are started and the run ends.                *)
Commit(p) ==
    /\ pc[p] = "commit" /\ session[p] = "open"
    /\ ApplyMarks(p)
    /\ running' = [running EXCEPT ![p] = @ \cup tasks[p]]
    /\ EndTx(p)
    /\ Finally(p)
    /\ UNCHANGED <<due, handled, posted, faults>>

(* A started task (fire and forget) does its work.                         *)
TaskRuns(p, r) ==
    /\ r \in running[p]
    /\ running' = [running EXCEPT ![p] = @ \ {r}]
    /\ posted' = [posted EXCEPT ![r] = @ + 1]
    /\ UNCHANGED <<tableVars, lock, podVars, session, txVars, handled, failures, faults>>

-----------------------------------------------------------------------------
(* Failures.                                                               *)

Fault ==
    /\ faults < MaxFaults
    /\ faults' = faults + 1

(* BEGIN or the SELECT fails: db.transaction rejects, finally runs.        *)
BeginFails(p) ==
    /\ Fault
    /\ pc[p] = "begin"
    /\ Finally(p)
    /\ UNCHANGED <<tableVars, lock, session, txVars, running, handled, failures, posted>>

(* The server ends the session: its locks and writes are gone at once, the *)
(* pod learns of it at its next statement.                                 *)
LoseSession(p) ==
    /\ Fault
    /\ session[p] = "open"
    /\ session' = [session EXCEPT ![p] = "lost"]
    /\ ReleaseLocks(p)
    /\ UNCHANGED <<tableVars, podVars, txVars, running, handled, failures, posted>>

(* A statement of the transaction fails (on a lost session, any statement).*)
(* PostgreSQL then rejects the markFailed of the catch block too, so the   *)
(* error leaves the callback and everything is rolled back.                *)
TxFails(p) ==
    /\ pc[p] \in {"row", "commit"}
    /\ IF session[p] = "lost" THEN UNCHANGED faults ELSE Fault
    /\ EndTx(p)
    /\ Finally(p)
    /\ UNCHANGED <<tableVars, running, handled, failures, posted>>

(* COMMIT is applied by the server but its answer is lost: db.transaction  *)
(* rejects, so the collected tasks are dropped with the run.               *)
CommitUnknown(p) ==
    /\ Fault
    /\ pc[p] = "commit" /\ session[p] = "open"
    /\ ApplyMarks(p)
    /\ EndTx(p)
    /\ Finally(p)
    /\ UNCHANGED <<due, running, handled, posted>>

(* The pod stops (crash, or shutdown that does not wait for the run) and   *)
(* is started again: its memory and its session are gone.                  *)
Crash(p) ==
    /\ Fault
    /\ pc' = [pc EXCEPT ![p] = "idle"]
    /\ wakeOnComplete' = [wakeOnComplete EXCEPT ![p] = FALSE]
    /\ immediate' = [immediate EXCEPT ![p] = FALSE]
    /\ running' = [running EXCEPT ![p] = {}]
    /\ EndTx(p)
    /\ UNCHANGED <<tableVars, handled, failures, posted>>

-----------------------------------------------------------------------------
Environment == \E r \in Rows : Insert(r) \/ BecomeDue(r)

Handle(p) == \E r \in Rows :
    HandlerThrows(p, r) \/ \E hasTask \in BOOLEAN : HandlerReturns(p, r, hasTask)

Relay(p) == Trigger(p) \/ Immediate(p) \/ FetchBatch(p) \/ Handle(p) \/ Commit(p)

RunTasks(p) == \E r \in Rows : TaskRuns(p, r)

Failure(p) ==
    BeginFails(p) \/ LoseSession(p) \/ TxFails(p) \/ CommitUnknown(p) \/ Crash(p)

Next == Environment \/ \E p \in Pods : Relay(p) \/ RunTasks(p) \/ Failure(p)

Spec == Init /\ [][Next]_vars

(* A run that was started goes on: every await of it ends.                 *)
RunProgress(p) ==
    FetchBatch(p) \/ Handle(p) \/ Commit(p) \/ (session[p] = "lost" /\ TxFails(p))

(* The event loop runs what is queued and runs progress. Nothing is assumed*)
(* of the cron here.                                                       *)
Fairness == \A p \in Pods : WF_vars(Immediate(p)) /\ WF_vars(RunProgress(p))

FairSpec == Spec /\ Fairness
-----------------------------------------------------------------------------
(* Type correctness of the table, the pods and their transactions.         *)
TypeOK ==
    /\ status \in [Rows -> Statuses]
    /\ attempts \in [Rows -> Nat]
    /\ due \subseteq Rows
    /\ lock \in [Rows -> Pods \cup {NoPod}]
    /\ pc \in [Pods -> {"idle", "begin", "row", "commit"}]
    /\ wakeOnComplete \in [Pods -> BOOLEAN]
    /\ immediate \in [Pods -> BOOLEAN]
    /\ session \in [Pods -> {"none", "open", "lost"}]
    /\ work \in [Pods -> [Rows -> Marks]]
    /\ seen \in [Pods -> [Rows -> Nat]]
    /\ tasks \in [Pods -> SUBSET Rows]
    /\ running \in [Pods -> SUBSET Rows]
    /\ handled \in [Rows -> Nat]
    /\ failures \in [Rows -> Nat]
    /\ posted \in [Rows -> Nat]
    /\ faults \in Nat

(* SKIP LOCKED makes a batch exclusive: while the session of a pod lives,  *)
(* every row of its batch is locked by it alone, still pending, and has    *)
(* the attempts the pod fetched, so newAttempts is never computed from a   *)
(* stale row.                                                              *)
BatchIsExclusive ==
    \A p \in Pods, r \in Rows :
        session[p] = "open" /\ work[p][r] # "none" =>
            /\ lock[r] = p
            /\ status[r] = "pending"
            /\ attempts[r] = seen[p][r]

(* Every committed failure is counted once (none overwritten by another    *)
(* pod, none counted twice), and a row is given up exactly when            *)
(* maxAttempts of them are committed.                                      *)
FailuresCounted ==
    \A r \in Rows :
        /\ attempts[r] = failures[r]
        /\ status[r] = "failed" <=> failures[r] = MaxAttempts

(* The relay repeats the work of a row only because of a fault: without    *)
(* one processRow succeeds once per row, and each fault costs at most one  *)
(* more success.                                                           *)
DuplicatesNeedFaults == \A r \in Rows : handled[r] <= 1 + faults

(* Post-commit tasks run AFTER the commit that made their row 'sent', and  *)
(* at most once over all pods, restarts and redeliveries.                  *)
PostCommitOnce ==
    /\ \A r \in Rows : posted[r] <= 1
    /\ \A p \in Pods : \A r \in running[p] :
          /\ posted[r] = 0
          /\ status[r] = "sent"
          /\ \A q \in Pods \ {p} : r \notin running[q]

(* The relay keeps the contract of the outbox.                             *)
Contract == INSTANCE OutboxContract WITH
    handled <- {r \in Rows : handled[r] > 0},
    notified <- {r \in Rows : posted[r] > 0}

ContractSpec == Contract!Spec

(* Every row some transaction committed is eventually sent or given up,    *)
(* when the cron of every pod fires again and again and clocks advance.    *)
CronFires ==
    /\ \A p \in Pods : WF_vars(Trigger(p))
    /\ \A r \in Rows : WF_vars(BecomeDue(r))

EveryRowSettles ==
    CronFires =>
        \A r \in Rows : status[r] = "pending" ~> status[r] \in {"sent", "failed"}

(* A call that arrives during a run is honoured by one more run, without   *)
(* waiting for the cron, unless a fault intervenes.                        *)
WakeHonoured ==
    \A p \in Pods : \A f \in 0..MaxFaults :
        (wakeOnComplete[p] /\ faults = f) ~> (pc[p] = "begin" \/ faults > f)
=============================================================================

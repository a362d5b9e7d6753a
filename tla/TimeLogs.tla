------------------------------ MODULE TimeLogs ------------------------------
(***************************************************************************)
(* The time logged on one work item, whose sum trg_sync_actual_hours puts  *)
(* into work_items.actual_hours, and who watches it: WorkItemsService with *)
(* TimeLogDrizzleRepository and WatcherDrizzleRepository. A statement on   *)
(* time_logs and the UPDATE its trigger makes are one transaction, at READ *)
(* COMMITTED: the trigger's sum is taken from what had been committed when *)
(* its UPDATE began, and its own row; the UPDATE then waits for the lock   *)
(* of the item's row, and does not take the sum again.                     *)
(*                                                                         *)
(* One user: whose log it is never changes, so that the checks of it leave *)
(* nothing to get wrong. The item is not deleted.                          *)
(***************************************************************************)
EXTENDS Naturals, FiniteSets, FiniteSetsExt

CONSTANTS
    Logs,       \* ids, a bound on the number of logs
    MaxHours,   \* of one log: 24
    Clients     \* requests that can be in flight at the same time

(* What is assumed of the constants.                                       *)
TimeLogsAssumption == MaxHours \in Nat \ {0} /\ IsFiniteSet(Logs)

VARIABLES
    log,          \* committed rows of time_logs
    actualHours,  \* committed, of the item
    lock,         \* the client that holds the item's row
    mixed,        \* history: clients whose transaction has overlapped another one
    inStep,       \* history: was actualHours set by a transaction that overlapped none?
    watching,     \* is the user in work_item_watchers?
    autoWatch,    \* is there an INSERT into it that no request waits for?
    unwatched,    \* history: the user has unwatched, and not asked to watch or logged time since
    request       \* of every client: step, log, its row to be, and the sum it took

hours == <<log, actualHours, lock, mixed, inStep>>
watch == <<watching, autoWatch, unwatched>>
vars == <<hours, watch, request>>

NoClient == "none"
None == [hours |-> 0, deleted |-> FALSE]
Idle == [step |-> "idle"]

Rows == [hours : 1..MaxHours, deleted : BOOLEAN]
Most == MaxHours * Cardinality(Logs)
ByHand == Most + 1    \* stands for whatever is entered by hand
Requests ==
    {Idle} \cup [step : {"find", "statement"}, log : Logs, hours : 0..MaxHours]
    \cup [step : {"sync", "commit"}, log : Logs, row : Rows, sum : 0..Most]
    \cup [step : {"edit", "watch", "unwatch"}]

TypeOK ==
    /\ log \in [Logs -> Rows \cup {None}] /\ actualHours \in 0..ByHand
    /\ lock \in Clients \cup {NoClient} /\ mixed \subseteq Clients /\ inStep \in BOOLEAN
    /\ watching \in BOOLEAN /\ autoWatch \in BOOLEAN /\ unwatched \in BOOLEAN
    /\ request \in [Clients -> Requests]

Init ==
    /\ log = [l \in Logs |-> None] /\ actualHours = 0
    /\ lock = NoClient /\ mixed = {} /\ inStep = TRUE
    /\ watching = FALSE /\ autoWatch = FALSE /\ unwatched = FALSE
    /\ request = [c \in Clients |-> Idle]

-----------------------------------------------------------------------------
At(c, step) == request[c].step = step
GoTo(c, r) == request' = [request EXCEPT ![c] = r]
Return(c) == GoTo(c, Idle)
Begin(c, r) == request[c] = Idle /\ GoTo(c, r)

Open(c) == At(c, "sync") \/ At(c, "commit")
Found(l) == log[l] # None /\ ~log[l].deleted
Sum(rows) ==
    MapThenSumSet(LAMBDA l : rows[l].hours, {l \in Logs : rows[l] # None /\ ~rows[l].deleted})

-----------------------------------------------------------------------------
(* Requests: logTime, updateTimeLog with hours, and deleteTimeLog, which   *)
(* is written as an update to 0 hours.                                     *)

LogTime(c, l, h) ==
    /\ log[l] = None
    /\ \A d \in Clients : At(d, "statement") \/ Open(d) => request[d].log # l
    /\ Begin(c, [step |-> "statement", log |-> l, hours |-> h])
    /\ unwatched' = FALSE
    /\ UNCHANGED <<hours, watching, autoWatch>>

UpdateTimeLog(c, l, h) ==
    /\ Begin(c, [step |-> "find", log |-> l, hours |-> h])
    /\ UNCHANGED <<hours, watch>>

FindTimeLog(c) ==
    /\ At(c, "find")
    /\ GoTo(c, IF Found(request[c].log) THEN [request[c] EXCEPT !.step = "statement"] ELSE Idle)
    /\ UNCHANGED <<hours, watch>>

(* The row a statement writes; an UPDATE by id, of a deleted row too.      *)
RowOf(r) ==
    IF r.hours = 0 THEN [log[r.log] EXCEPT !.deleted = TRUE] ELSE [log[r.log] EXCEPT !.hours = r.hours]

Ready(c) ==
    /\ At(c, "statement")
    /\ \A d \in Clients : Open(d) => request[d].log # request[c].log

(* The statement, and the sum its trigger takes.                           *)
TakeSum(c) ==
    LET r == request[c]
    IN  /\ GoTo(c, [step |-> "sync", log |-> r.log, row |-> RowOf(r),
                    sum |-> Sum([log EXCEPT ![r.log] = RowOf(r)])])
        /\ mixed' = LET others == {d \in Clients : Open(d)}
                    IN  IF others = {} THEN mixed ELSE mixed \cup others \cup {c}
        /\ UNCHANGED <<log, actualHours, lock, inStep, watch>>

(* Mutant: the trigger does not fire when only deleted_at is written.      *)
StatementOnHours(c) ==
    /\ Ready(c)
    /\ IF request[c].hours = 0
       THEN /\ log' = [log EXCEPT ![request[c].log] = RowOf(request[c])]
            /\ Return(c)
            /\ UNCHANGED <<actualHours, lock, mixed, inStep, watch>>
       ELSE TakeSum(c)

(* AFTER INSERT OR UPDATE OF hours, deleted_at.                            *)
Statement(c) == Ready(c) /\ TakeSum(c)

(* UPDATE work_items, once nobody else has written its row.                *)
SyncActualHours(c) ==
    /\ At(c, "sync") /\ lock = NoClient
    /\ lock' = c
    /\ GoTo(c, [request[c] EXCEPT !.step = "commit"])
    /\ UNCHANGED <<log, actualHours, mixed, inStep, watch>>

(* After a new log its user is made to watch, which is not waited for.     *)
Commit(c) ==
    /\ At(c, "commit")
    /\ log' = [log EXCEPT ![request[c].log] = request[c].row]
    /\ actualHours' = request[c].sum
    /\ lock' = NoClient
    /\ inStep' = (c \notin mixed) /\ mixed' = mixed \ {c}
    /\ autoWatch' = (autoWatch \/ log[request[c].log] = None)
    /\ Return(c)
    /\ UNCHANGED <<watching, unwatched>>

(* The connection is lost: nothing of the transaction is left.             *)
RollBack(c) ==
    /\ Open(c)
    /\ lock' = IF lock = c THEN NoClient ELSE lock
    /\ mixed' = mixed \ {c}
    /\ Return(c)
    /\ UNCHANGED <<log, actualHours, inStep, watch>>

(* updateWorkItem with actualHours, which is "manual entry": any number.   *)
EditHours(c) == Begin(c, [step |-> "edit"]) /\ UNCHANGED <<hours, watch>>

WriteHours(c) ==
    /\ At(c, "edit") /\ lock = NoClient
    /\ actualHours' = ByHand
    /\ inStep' = FALSE
    /\ Return(c)
    /\ UNCHANGED <<log, lock, mixed, watch>>

-----------------------------------------------------------------------------
(* Watchers.                                                               *)

AutoWatch ==
    /\ autoWatch
    /\ autoWatch' = FALSE
    /\ watching' \in {watching, TRUE}     \* it may fail, which is logged
    /\ UNCHANGED <<hours, unwatched, request>>

Watch(c) == Begin(c, [step |-> "watch"]) /\ UNCHANGED <<hours, watch>>
Unwatch(c) == Begin(c, [step |-> "unwatch"]) /\ UNCHANGED <<hours, watch>>

WriteWatch(c) ==
    /\ At(c, "watch") \/ At(c, "unwatch")
    /\ watching' = At(c, "watch")
    /\ unwatched' = At(c, "unwatch")
    /\ Return(c)
    /\ UNCHANGED <<hours, autoWatch>>

-----------------------------------------------------------------------------
Next ==
    \/ AutoWatch
    \/ \E c \in Clients :
          \/ \E l \in Logs :
                \/ \E h \in 1..MaxHours : LogTime(c, l, h)
                \/ \E h \in 0..MaxHours : UpdateTimeLog(c, l, h)
          \/ FindTimeLog(c) \/ Statement(c) \/ SyncActualHours(c) \/ Commit(c) \/ RollBack(c)
          \/ EditHours(c) \/ WriteHours(c) \/ Watch(c) \/ Unwatch(c) \/ WriteWatch(c)

Spec == Init /\ [][Next]_vars

-----------------------------------------------------------------------------
(* "keeps work_items.actual_hours up-to-date from time_logs": after a      *)
(* transaction that overlapped no other, and until somebody enters hours   *)
(* by hand, it is the sum of the logs that are not deleted; whatever was   *)
(* wrong before.                                                           *)
HoursFollowLogs == inStep => actualHours = Sum(log)

(* Refuted. It is while nobody ever enters hours by hand: two who log time *)
(* at once each add up without the log of the other.                       *)
HoursAlwaysFollowLogs ==
    [][\A c \in Clients : Commit(c) => actualHours' = Sum(log')]_vars

(* Refuted. Who has unwatched is not made to watch by what came before.    *)
UnwatchHolds == unwatched => ~watching
=============================================================================

------------------------------ MODULE WorkItems ------------------------------
(***************************************************************************)
(* The work items of one project (WorkItemsService, ProjectsService), used *)
(* by several clients at once. A request reads and checks with statements  *)
(* of their own and writes at the end; only that last step, the item with  *)
(* its activity entries, is a transaction:                                 *)
(*   create   getProject, resolveStatusId -> getProject, 'archived' check  *)
(*            -> incrementCounter -> insert item                           *)
(*   update   getWorkItem -> assertTransitionAllowed -> update + activity  *)
(*   delete   getWorkItem -> set deleted_at                                *)
(*   project  getProject and its checks -> update or set deleted_at        *)
(* An item is seen by its number (the 7 of PROJ-7), its status and the     *)
(* activity entries about its status. An update with the status the item   *)
(* has stands for one of any other field.                                  *)
(***************************************************************************)
EXTENDS Naturals, FiniteSets, Sequences

CONSTANTS
    Items,
    StatusIds,   \* workflow statuses that can exist
    AnyStatus,   \* from_status_id = NULL
    Transitions, \* bound: the transitions that may be defined
    Clients,     \* requests that can be in flight at the same time
    MaxNumber,   \* bound: item numbers handed out
    MaxEntries   \* bound: activity entries of an item

ASSUME AnyAssumption == AnyStatus \notin StatusIds
ASSUME TransitionsAssumption ==
    Transitions \subseteq (StatusIds \cup {AnyStatus}) \X StatusIds
ASSUME BoundsAssumption == MaxNumber \in Nat /\ MaxEntries \in Nat

VARIABLES
    archived, projectDeleted,   \* status and deleted_at of the project
    statuses, transitions,      \* its workflow: rows that exist
    lastNumber,                 \* project_counters.last_item_number
    number, status, deleted,    \* of every item; number 0: not created
    activity,                   \* its status entries, oldest first
    request

projectVars == <<archived, projectDeleted>>
workflowVars == <<statuses, transitions>>
itemVars == <<number, status, deleted, activity>>
vars == <<projectVars, workflowVars, lastNumber, itemVars, request>>

Exists(i) == number[i] > 0 /\ i \notin deleted

Idle == [step |-> "idle"]
Numbering(step, n, s) == [step |-> step, number |-> n, to |-> s]
Moving(step, i, s, t) == [step |-> step, item |-> i, from |-> s, to |-> t]
Deleting(i) == [step |-> "softDelete", item |-> i]
OnProject(step) == [step |-> step]

Requests ==
    {Idle} \cup {OnProject(p) : p \in {"archive", "restore", "deleteProject"}}
    \cup [step : {"checkArchived", "increment", "insert"}, number : 0..MaxNumber, to : StatusIds]
    \cup [step : {"checkTransition", "update"}, item : Items, from : StatusIds, to : StatusIds]
    \cup [step : {"softDelete"}, item : Items]

Init ==
    /\ archived = FALSE /\ projectDeleted = FALSE
    /\ statuses = StatusIds
    /\ transitions = {}
    /\ lastNumber = 0
    /\ number = [i \in Items |-> 0]
    /\ status \in [Items -> StatusIds]
    /\ deleted = {}
    /\ activity = [i \in Items |-> <<>>]
    /\ request = [c \in Clients |-> Idle]

-----------------------------------------------------------------------------
(* A request is at a step, and goes on or returns.                         *)
At(c, step) == request[c].step = step
GoTo(c, q) == request' = [request EXCEPT ![c] = q]
Begin(c, q) ==
    /\ request[c] = Idle
    /\ GoTo(c, q)
    /\ UNCHANGED <<projectVars, workflowVars, lastNumber, itemVars>>
Return(c) == GoTo(c, Idle)

-----------------------------------------------------------------------------
(* createWorkItem                                                          *)

CreateWorkItem(c, s) ==
    /\ ~projectDeleted
    /\ s \in statuses
    /\ Begin(c, Numbering("checkArchived", 0, s))

GenerateItemKey(c) ==
    /\ At(c, "checkArchived")
    /\ IF projectDeleted \/ archived
       THEN Return(c)
       ELSE GoTo(c, Numbering("increment", 0, request[c].to))
    /\ UNCHANGED <<projectVars, workflowVars, lastNumber, itemVars>>

(* Mutant: the number is read from the items, there is no counter row.     *)
IncrementCounterCounts(c) ==
    /\ At(c, "increment")
    /\ lastNumber < MaxNumber
    /\ lastNumber' = Cardinality({i \in Items : number[i] > 0}) + 1
    /\ GoTo(c, Numbering("insert", lastNumber', request[c].to))
    /\ UNCHANGED <<projectVars, workflowVars, itemVars>>

IncrementCounter(c) ==
    /\ At(c, "increment")
    /\ lastNumber < MaxNumber
    /\ lastNumber' = lastNumber + 1
    /\ GoTo(c, Numbering("insert", lastNumber', request[c].to))
    /\ UNCHANGED <<projectVars, workflowVars, itemVars>>

InsertItem(c, i) ==
    /\ At(c, "insert")
    /\ number[i] = 0
    /\ number' = [number EXCEPT ![i] = request[c].number]
    /\ status' = [status EXCEPT ![i] = request[c].to]
    /\ Return(c)
    /\ UNCHANGED <<projectVars, workflowVars, lastNumber, deleted, activity>>

-----------------------------------------------------------------------------
(* updateWorkItem, moveWorkItem, deleteWorkItem                            *)

(* Any status id is taken; a change of status is checked, others are not.  *)
UpdateWorkItem(c, i, s) ==
    /\ Exists(i)
    /\ Begin(c, Moving(IF s = status[i] THEN "update" ELSE "checkTransition", i, status[i], s))

(* Without any transition the workflow is open.                            *)
CanTransition(s, t) ==
    transitions = {} \/ <<s, t>> \in transitions \/ <<AnyStatus, t>> \in transitions

(* Mutant: the two statuses are swapped in the call.                       *)
AssertTransitionBack(c) ==
    /\ At(c, "checkTransition")
    /\ IF CanTransition(request[c].to, request[c].from)
       THEN GoTo(c, Moving("update", request[c].item, request[c].from, request[c].to))
       ELSE Return(c)
    /\ UNCHANGED <<projectVars, workflowVars, lastNumber, itemVars>>

AssertTransitionAllowed(c) ==
    /\ At(c, "checkTransition")
    /\ IF CanTransition(request[c].from, request[c].to)
       THEN GoTo(c, Moving("update", request[c].item, request[c].from, request[c].to))
       ELSE Return(c)
    /\ UNCHANGED <<projectVars, workflowVars, lastNumber, itemVars>>

(* diffWorkItem against the row read by getWorkItem.                       *)
Entries(q) == IF q.from = q.to THEN <<>> ELSE <<[old |-> q.from, new |-> q.to]>>

(* Mutant: the entries are written after the transaction, and may be lost. *)
WriteUpdateSplit(c) ==
    /\ At(c, "update")
    /\ LET q == request[c] IN
          /\ Len(activity[q.item]) < MaxEntries
          /\ status' = [status EXCEPT ![q.item] = q.to]
          /\ activity' \in {activity, [activity EXCEPT ![q.item] = @ \o Entries(q)]}
    /\ Return(c)
    /\ UNCHANGED <<projectVars, workflowVars, lastNumber, number, deleted>>

(* One transaction; the row is updated by id, deleted or not.              *)
WriteUpdate(c) ==
    /\ At(c, "update")
    /\ LET q == request[c] IN
          /\ Len(activity[q.item]) < MaxEntries
          /\ status' = [status EXCEPT ![q.item] = q.to]
          /\ activity' = [activity EXCEPT ![q.item] = @ \o Entries(q)]
    /\ Return(c)
    /\ UNCHANGED <<projectVars, workflowVars, lastNumber, number, deleted>>

DeleteWorkItem(c, i) == Exists(i) /\ Begin(c, Deleting(i))

SoftDelete(c) ==
    /\ At(c, "softDelete")
    /\ deleted' = deleted \cup {request[c].item}
    /\ Return(c)
    /\ UNCHANGED <<projectVars, workflowVars, lastNumber, number, status, activity>>

-----------------------------------------------------------------------------
(* updateProject (archive, restore) and deleteProject.                     *)

ArchiveProject(c) == ~projectDeleted /\ ~archived /\ Begin(c, OnProject("archive"))
RestoreProject(c) == ~projectDeleted /\ Begin(c, OnProject("restore"))
DeleteProject(c) == ~projectDeleted /\ Begin(c, OnProject("deleteProject"))

UpdateProject(c) ==
    /\ \/ At(c, "archive") /\ archived' = TRUE
       \/ At(c, "restore") /\ archived' = FALSE
    /\ Return(c)
    /\ UNCHANGED <<projectDeleted, workflowVars, lastNumber, itemVars>>

SoftDeleteProject(c) ==
    /\ At(c, "deleteProject")
    /\ projectDeleted' = TRUE
    /\ Return(c)
    /\ UNCHANGED <<archived, workflowVars, lastNumber, itemVars>>

(* createTransition, deleteTransition, createStatus, deleteStatus: whether *)
(* anything still uses the row is not looked at, so the checks before the  *)
(* one write add nothing. They too are requests of a client.               *)
EditWorkflow(c) ==
    /\ request[c] = Idle /\ ~projectDeleted
    /\ \/ \E p \in Transitions :
             transitions' \in {transitions \cup {p}, transitions \ {p}} \ {transitions}
       \/ UNCHANGED transitions
    /\ \/ \E s \in StatusIds :
             statuses' \in {statuses \cup {s}, statuses \ {s}} \ {statuses}
       \/ UNCHANGED statuses
    /\ statuses' = statuses <=> transitions' # transitions
    /\ UNCHANGED <<projectVars, lastNumber, itemVars, request>>

(* A statement fails or the API process stops: the rest is not done.       *)
Abort(c) ==
    /\ request[c] # Idle
    /\ Return(c)
    /\ UNCHANGED <<projectVars, workflowVars, lastNumber, itemVars>>

-----------------------------------------------------------------------------
Create(c) ==
    \/ \E s \in StatusIds : CreateWorkItem(c, s)
    \/ GenerateItemKey(c) \/ IncrementCounter(c)
    \/ \E i \in Items : InsertItem(c, i)

Edit(c) ==
    \/ \E i \in Items, s \in StatusIds : UpdateWorkItem(c, i, s)
    \/ \E i \in Items : DeleteWorkItem(c, i)
    \/ AssertTransitionAllowed(c) \/ WriteUpdate(c) \/ SoftDelete(c)

Project(c) ==
    \/ ArchiveProject(c) \/ RestoreProject(c) \/ DeleteProject(c)
    \/ UpdateProject(c) \/ SoftDeleteProject(c) \/ EditWorkflow(c)

Next == \E c \in Clients : Create(c) \/ Edit(c) \/ Project(c) \/ Abort(c)

Spec == Init /\ [][Next]_vars
-----------------------------------------------------------------------------
(* Type correctness; a number in use was handed out.                       *)
TypeOK ==
    /\ archived \in BOOLEAN /\ projectDeleted \in BOOLEAN
    /\ statuses \subseteq StatusIds /\ transitions \subseteq Transitions
    /\ lastNumber \in 0..MaxNumber
    /\ number \in [Items -> 0..lastNumber]
    /\ status \in [Items -> StatusIds]
    /\ deleted \subseteq Items
    /\ activity \in [Items -> Seq([old : StatusIds, new : StatusIds])]
    /\ request \in [Clients -> Requests]
    /\ \A c \in Clients : At(c, "insert") => request[c].number \in 1..lastNumber

(* The numbers of items and those on their way to an item are all          *)
(* different, so that no insert ever fails on uq_wi_item_key.              *)
Inserting == {c \in Clients : At(c, "insert")}
KeysUnique ==
    /\ \A i, j \in Items : number[i] = number[j] /\ number[i] > 0 => i = j
    /\ \A c, d \in Inserting : request[c].number = request[d].number => c = d
    /\ \A c \in Inserting, i \in Items : request[c].number # number[i]

(* "This status transition is not permitted": a status only changes along  *)
(* the transitions of the project. Not so for concurrent requests.         *)
StatusFollowsTransitions ==
    [][\A i \in Items : number[i] > 0 /\ status'[i] # status[i] =>
          CanTransition(status[i], status'[i])]_vars

(* "diffing the persisted row": the entries of an item follow on from each *)
(* other and end with the status it has. Not so for concurrent requests.   *)
LogReplays ==
    \A i \in Items :
        LET log == activity[i] IN
        /\ \A n \in 1..(Len(log) - 1) : log[n].new = log[n + 1].old
        /\ Len(log) > 0 => log[Len(log)].new = status[i]

(* "becomes read-only": the items of an archived project stay as they are. *)
(* Not so: updates and deletions of items do not look at the project.      *)
ArchivedIsReadOnly == [][archived => UNCHANGED itemVars]_vars
=============================================================================

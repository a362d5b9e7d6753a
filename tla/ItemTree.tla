------------------------------ MODULE ItemTree ------------------------------
(***************************************************************************)
(* Work items and their parents: WorkItemsService creates, moves and       *)
(* deletes them. parent_id has no foreign key, so that only the service's  *)
(* checks, each a read of its own before the write, keep the tree in       *)
(* order. Statuses, keys and the history are the matter of WorkItems; an   *)
(* item never leaves its project and never changes its type.               *)
(***************************************************************************)
EXTENDS FiniteSets

CONSTANTS
    Items,      \* ids of work items, a bound on their number
    Projects,
    Clients     \* requests that can be in flight at the same time

VARIABLES
    item,       \* rows of work_items
    moved,      \* history: items whose parent a PATCH has set
    request     \* of every client: the step it is before, and what it carries

vars == <<item, moved, request>>

NoItem == "none"   \* parent_id = NULL

(* What is assumed of the constants.                                       *)
ItemTreeAssumption == NoItem \notin Items

None == [type |-> "none", project |-> "none", parent |-> NoItem, deleted |-> FALSE]
Idle == [step |-> "idle"]
Types == {"story", "task"}

Rows == [type : Types, project : Projects, parent : Items \cup {NoItem}, deleted : BOOLEAN]
Requests ==
    {Idle} \cup [step : {"type"}, parent : Items] \cup [step : {"delete"}, item : Items]
    \cup [step : {"parent", "insert"}, type : Types, project : Projects, parent : Items \cup {NoItem}]
    \cup [step : {"move"}, item : Items, parent : Items \cup {NoItem}]

TypeOK ==
    /\ item \in [Items -> Rows \cup {None}] /\ moved \subseteq Items
    /\ request \in [Clients -> Requests]

Init ==
    /\ item = [i \in Items |-> None] /\ moved = {}
    /\ request = [c \in Clients |-> Idle]

-----------------------------------------------------------------------------
At(c, step) == request[c].step = step
GoTo(c, r) == request' = [request EXCEPT ![c] = r]
Return(c) == GoTo(c, Idle)
Begin(c, r) == request[c] = Idle /\ GoTo(c, r) /\ UNCHANGED <<item, moved>>

(* getWorkItem.                                                            *)
Found(i) == item[i] # None /\ ~item[i].deleted

CreateTask(c, parent) == Begin(c, [step |-> "type", parent |-> parent])

(* "A task cannot be created under another task".                          *)
GetParent(c) ==
    /\ At(c, "type")
    /\ LET p == request[c].parent
       IN  GoTo(c, IF Found(p) /\ item[p].type # "task"
                   THEN [step |-> "parent", type |-> "task", project |-> item[p].project, parent |-> p]
                   ELSE Idle)
    /\ UNCHANGED <<item, moved>>

CreateWorkItem(c, type, project, parent) ==
    Begin(c, [step |-> IF parent = NoItem THEN "insert" ELSE "parent",
              type |-> type, project |-> project, parent |-> parent])

(* Mutant: the parent is only looked up.                                   *)
FindParent(c) ==
    /\ At(c, "parent")
    /\ LET r == request[c]
       IN  GoTo(c, IF Found(r.parent) THEN [r EXCEPT !.step = "insert"] ELSE Idle)
    /\ UNCHANGED <<item, moved>>

(* "parentId must belong to the same project".                             *)
CheckParent(c) ==
    /\ At(c, "parent")
    /\ LET r == request[c]
       IN  GoTo(c, IF Found(r.parent) /\ item[r.parent].project = r.project
                   THEN [r EXCEPT !.step = "insert"] ELSE Idle)
    /\ UNCHANGED <<item, moved>>

InsertWorkItem(c) ==
    /\ At(c, "insert")
    /\ \E i \in Items :
          /\ item[i] = None
          /\ item' = [item EXCEPT ![i] = [type |-> request[c].type, project |-> request[c].project,
                                          parent |-> request[c].parent, deleted |-> FALSE]]
    /\ Return(c)
    /\ UNCHANGED moved

(* updateWorkItem with a parentId, of which nothing is looked at.          *)
UpdateParent(c, i, parent) ==
    Found(i) /\ Begin(c, [step |-> "move", item |-> i, parent |-> parent])

WriteParent(c) ==
    /\ At(c, "move")
    /\ item' = [item EXCEPT ![request[c].item].parent = request[c].parent]
    /\ moved' = moved \cup {request[c].item}
    /\ Return(c)

DeleteWorkItem(c, i) == Found(i) /\ Begin(c, [step |-> "delete", item |-> i])

(* Tasks under it stay.                                                    *)
SoftDelete(c) ==
    /\ At(c, "delete")
    /\ item' = [item EXCEPT ![request[c].item].deleted = TRUE]
    /\ Return(c)
    /\ UNCHANGED moved

-----------------------------------------------------------------------------
Next ==
    \E c \in Clients :
       \/ \E i \in Items :
             \/ CreateTask(c, i) \/ DeleteWorkItem(c, i)
             \/ \E parent \in Items \cup {NoItem} : UpdateParent(c, i, parent)
       \/ \E type \in Types, project \in Projects, parent \in Items \cup {NoItem} :
             CreateWorkItem(c, type, project, parent)
       \/ GetParent(c) \/ CheckParent(c) \/ InsertWorkItem(c) \/ WriteParent(c) \/ SoftDelete(c)

Spec == Init /\ [][Next]_vars

-----------------------------------------------------------------------------
Parent(i) == item[i].parent

(* Whoever creates and deletes at the same time: an item that no PATCH has *)
(* moved is under one of its own project, which is not under it in turn.   *)
CreatedInPlace ==
    \A i \in Items \ moved :
        Parent(i) # NoItem =>
            /\ item[Parent(i)].project = item[i].project
            /\ Parent(i) \notin moved => Parent(Parent(i)) # i

(* Refuted. A parent is of the item's project and no item its own ancestor.*)
TreePerProject ==
    \A i \in Items :
        Parent(i) # NoItem =>
            Parent(i) # i /\ item[Parent(i)].project = item[i].project /\ Parent(Parent(i)) # i

(* Refuted. No task is under another task.                                 *)
TasksUnderItems ==
    \A i \in Items : item[i].type = "task" /\ Parent(i) # NoItem => item[Parent(i)].type # "task"

(* Refuted. The parent of an item that is there is there.                  *)
NoOrphans == \A i \in Items : Found(i) /\ Parent(i) # NoItem => Found(Parent(i))
=============================================================================

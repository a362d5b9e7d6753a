------------------------------ MODULE Removals ------------------------------
(***************************************************************************)
(* Rows that are looked up and then written, while another request removes *)
(* them: members of a team or of a project and teams of a project, where a *)
(* removed row stays with another status; labels and releases, where it is *)
(* deleted. One row of each kind; "team" is a member of a team as well as  *)
(* a team of a project, which are the same but for their tables. A lookup  *)
(* and its write are two statements without a transaction; the lookup of   *)
(* the team or project before them changes nothing and is left out.        *)
(***************************************************************************)
EXTENDS FiniteSets

CONSTANT Clients   \* requests that can be in flight at the same time

VARIABLES
    row,       \* of every kind: its status, "none" if there is no row
    tagged,    \* has the item a row in work_item_labels?
    alone,     \* history: rosters of which no two requests were in flight at the same time
    failed,    \* history: rosters of which an INSERT violated the unique index
    request    \* of every client: what it is about to do with which kind

vars == <<row, tagged, alone, failed, request>>

Rosters == {"team", "project member"}
Kinds == Rosters \cup {"label", "release"}
Idle == [do |-> "idle", kind |-> "none"]

TypeOK ==
    /\ row \in [Kinds -> {"none", "active", "removed", "released"}]
    /\ tagged \in BOOLEAN /\ alone \subseteq Rosters /\ failed \subseteq Rosters
    /\ request \in [Clients -> {Idle} \cup
          [do : {"add", "insert", "remove", "delete", "restore", "update", "tag", "untag", "ship"}, kind : Kinds]]

Init ==
    /\ row = [k \in Kinds |-> IF k \in Rosters THEN "none" ELSE "active"]
    /\ tagged = FALSE /\ alone = Rosters /\ failed = {}
    /\ request = [c \in Clients |-> Idle]

-----------------------------------------------------------------------------
At(c, do) == request[c].do = do
Kind(c) == request[c].kind
GoTo(c, do) == request' = [request EXCEPT ![c].do = do]
Return(c) == request' = [request EXCEPT ![c] = Idle]
Set(c, status) == row' = [row EXCEPT ![Kind(c)] = status]

Begin(c, do, k) ==
    /\ request[c] = Idle
    /\ request' = [request EXCEPT ![c] = [do |-> do, kind |-> k]]
    /\ alone' = IF \E d \in Clients : Kind(d) = k THEN alone \ {k} ELSE alone
    /\ UNCHANGED <<row, tagged, failed>>

(* findMember, findLink: a row that is not active is not found. A label or *)
(* a release that is there is found.                                       *)
Find(k) == row[k] = "active"

(* addTeamMember, addProjectMember, linkTeam.                              *)
Add(c, k) == k \in Rosters /\ Begin(c, "add", k)

FindBeforeAdd(c) ==
    /\ At(c, "add")
    /\ IF Find(Kind(c)) THEN Return(c) ELSE GoTo(c, "insert")
    /\ UNCHANGED <<row, tagged, alone, failed>>

(* Mutant: a row that is there is made active again.                       *)
InsertOrRestore(c) ==
    /\ At(c, "insert")
    /\ Set(c, "active")
    /\ Return(c)
    /\ UNCHANGED <<tagged, alone, failed>>

(* The unique index is on the pair, whatever the status.                   *)
Insert(c) ==
    /\ At(c, "insert")
    /\ IF row[Kind(c)] = "none" THEN Set(c, "active") /\ UNCHANGED failed
       ELSE failed' = failed \cup {Kind(c)} /\ UNCHANGED row
    /\ Return(c)
    /\ UNCHANGED <<tagged, alone>>

(* removeTeamMember, removeProjectMember, unlinkTeam, deleteLabel; and     *)
(* deleteRelease, which refuses what has been released.                    *)
Remove(c, k) == Begin(c, "remove", k)

FindBeforeRemove(c) ==
    /\ At(c, "remove")
    /\ IF Find(Kind(c)) THEN GoTo(c, "delete") ELSE Return(c)
    /\ UNCHANGED <<row, tagged, alone, failed>>

Delete(c) ==
    /\ At(c, "delete")
    /\ Set(c, "removed")
    /\ Return(c)
    /\ UNCHANGED <<tagged, alone, failed>>

(* updateProjectMember, by an id that is found in whatever status, with a  *)
(* status or without.                                                      *)
Restore(c) == row["project member"] # "none" /\ Begin(c, "restore", "project member")

UpdateMember(c) ==
    /\ At(c, "restore")
    /\ \E status \in {"active", "removed"} : Set(c, status)
    /\ Return(c)
    /\ UNCHANGED <<tagged, alone, failed>>

(* addLabelToWorkItem; the row refers to the label without a foreign key.  *)
AddLabel(c) == Begin(c, "tag", "label")

AssertLabelBelongsToProject(c) ==
    /\ At(c, "tag") /\ Kind(c) = "label"
    /\ IF Find("label") THEN GoTo(c, "update") ELSE Return(c)
    /\ UNCHANGED <<row, tagged, alone, failed>>

Tag(c) ==
    /\ At(c, "update") /\ Kind(c) = "label"
    /\ tagged' = TRUE
    /\ Return(c)
    /\ UNCHANGED <<row, alone, failed>>

(* removeLabelFromWorkItem, of a label that is there or not.               *)
RemoveLabel(c) == Begin(c, "untag", "label")

Untag(c) ==
    /\ At(c, "untag")
    /\ tagged' = FALSE
    /\ Return(c)
    /\ UNCHANGED <<row, alone, failed>>

ShipRelease(c) == Begin(c, "ship", "release")

GetRelease(c) ==
    /\ At(c, "ship")
    /\ IF Find("release") THEN GoTo(c, "update") ELSE Return(c)
    /\ UNCHANGED <<row, tagged, alone, failed>>

(* UPDATE ... WHERE id: none is there any more if it was deleted.          *)
Release(c) ==
    /\ At(c, "update") /\ Kind(c) = "release"
    /\ IF row["release"] = "removed" THEN UNCHANGED row ELSE Set(c, "released")
    /\ Return(c)
    /\ UNCHANGED <<tagged, alone, failed>>

-----------------------------------------------------------------------------
Next ==
    \E c \in Clients :
       \/ \E k \in Kinds : Add(c, k) \/ Remove(c, k)
       \/ FindBeforeAdd(c) \/ Insert(c) \/ FindBeforeRemove(c) \/ Delete(c)
       \/ Restore(c) \/ UpdateMember(c)
       \/ AddLabel(c) \/ AssertLabelBelongsToProject(c) \/ Tag(c)
       \/ RemoveLabel(c) \/ Untag(c)
       \/ ShipRelease(c) \/ GetRelease(c) \/ Release(c)

Spec == Init /\ [][Next]_vars

-----------------------------------------------------------------------------
Restored(k) == \E c \in Clients : At(c, "restore") /\ Kind(c) = k /\ request'[c] = Idle
StaysRemoved == \A k \in Kinds : row[k] = "removed" /\ row'[k] # "removed" => Restored(k)

(* Who was removed is not brought back by a request that had looked before *)
(* the removal: only an update of a project's member that says so does.    *)
RemovalHolds == [][StaysRemoved]_vars

(* Refuted. Who is not on a roster can be put on it, while nobody else     *)
(* changes it: a removed row is not found, but keeps its place in the      *)
(* unique index.                                                           *)
RemovedCanReturn == \A k \in failed : k \notin alone

(* Refuted. A label that an item has is there: deleting it leaves them.    *)
LabelsExist == tagged => row["label"] = "active"

(* Refuted. "Released versions cannot be deleted": one that ships while it *)
(* is being deleted is.                                                    *)
ReleasedStay == [][row["release"] = "released" => row'["release"] = "released"]_vars
=============================================================================

---------------------------- MODULE Attachments -----------------------------
(***************************************************************************)
(* The attachments of one work item: rows in PostgreSQL, objects in S3     *)
(* (WorkItemsService, StorageService), and the cleanup job that the worker *)
(* pods run under a cron lock (CleanupCronService).                        *)
(*   presign   count -> insert a pending row, hand out a URL               *)
(*   upload    by the client, straight to S3, while the URL is valid       *)
(*   confirm   find -> HEAD -> update by id -> activity                    *)
(*   delete    find -> update by id -> DELETE of the object, activity      *)
(*   cleanup   delete the rows -> DELETE of their objects                  *)
(* Time is the age of an attachment: the URL is valid for 5 minutes, the   *)
(* job takes what is older than 24 hours, and an upload begun in time has  *)
(* ended before that. A failed DELETE is logged and forgotten.             *)
(***************************************************************************)
EXTENDS CronLock

CONSTANTS
    Ids,             \* attachments: a bound on their number
    Clients,         \* requests that can be in flight at the same time
    MaxPerWorkItem   \* ATTACHMENT_MAX_PER_WORK_ITEM

ASSUME LimitAssumption == MaxPerWorkItem \in Nat

VARIABLES
    row,       \* status of the row of every attachment
    deleted,   \* rows with a deleted_at
    age,       \* "new": the URL is valid; "old": more than 24 hours
    object,    \* the object of every attachment: none, as declared, or another size
    activity,  \* the entries of the activity log
    job,       \* of every pod: where its cleanup is, and the objects it is to delete
    lost,      \* history: objects whose DELETE failed or was never sent
    request    \* of every client: the step it is before, and what it read

rows == <<row, deleted, age>>
store == <<object, lost>>
cleanup == <<lockVars, job>>
vars == <<rows, store, activity, cleanup, request>>

Idle == [step |-> "idle"]
Requests ==
    {Idle}
    \cup [step : {"create", "head", "confirm", "softDelete", "reject", "uploaded"}, id : Ids]
    \cup [step : {"clean"}, id : Ids, todo : SUBSET {"object", "activity"}]

NoJob == [step |-> "none"]
Jobs == {NoJob} \cup [step : {"purge"}] \cup [step : {"delete"}, objects : SUBSET Ids]

HasRow(i) == row[i] \in {"pending", "completed"}

TypeOK ==
    /\ LockTypeOK
    /\ row \in [Ids -> {"absent", "pending", "completed", "purged"}]
    /\ deleted \subseteq {i \in Ids : HasRow(i)}
    /\ age \in [Ids -> {"new", "day", "old"}]
    /\ object \in [Ids -> {"none", "declared", "other"}]
    /\ activity \subseteq Ids \X {"uploaded", "deleted"}
    /\ job \in [Pods -> Jobs]
    /\ \A p \in Pods : p \in running <=> job[p] # NoJob
    /\ request \in [Clients -> Requests]

Init ==
    /\ LockInit
    /\ row = [i \in Ids |-> "absent"]
    /\ deleted = {}
    /\ age = [i \in Ids |-> "new"]
    /\ object = [i \in Ids |-> "none"]
    /\ activity = {}
    /\ job = [p \in Pods |-> NoJob]
    /\ lost = {}
    /\ request = [c \in Clients |-> Idle]

-----------------------------------------------------------------------------
(* Requests.                                                               *)
At(c, step) == request[c].step = step
GoTo(c, r) == request' = [request EXCEPT ![c] = r]
Return(c) == GoTo(c, Idle)
Visible(i) == HasRow(i) /\ i \notin deleted   \* as findById sees it
Completed == {i \in Ids : row[i] = "completed" /\ i \notin deleted}
Unused(i) == row[i] = "absent" /\ \A c \in Clients : At(c, "create") => request[c].id # i

(* presignAttachment: the limit counts completed attachments.              *)
Presign(c, i) ==
    /\ request[c] = Idle /\ Unused(i)
    /\ Cardinality(Completed) < MaxPerWorkItem
    /\ GoTo(c, [step |-> "create", id |-> i])
    /\ UNCHANGED <<rows, store, activity, cleanup>>

(* The insert. The signature that follows is computed here and may fail,   *)
(* like the way to the client: then nobody uploads.                        *)
Create(c) ==
    /\ At(c, "create")
    /\ row' = [row EXCEPT ![request[c].id] = "pending"]
    /\ age' = [age EXCEPT ![request[c].id] = "new"]
    /\ Return(c)
    /\ UNCHANGED <<deleted, store, activity, cleanup>>

(* PUT to S3, as often as the client likes.                                *)
Upload(i, size) ==
    /\ age[i] # "old"
    /\ row[i] # "absent"
    /\ object' = [object EXCEPT ![i] = size]
    /\ UNCHANGED <<rows, lost, activity, cleanup, request>>

(* confirmAttachment: findById and the check of its status.                *)
Confirm(c, i) ==
    /\ request[c] = Idle
    /\ Visible(i) /\ row[i] = "pending"
    /\ GoTo(c, [step |-> "head", id |-> i])
    /\ UNCHANGED <<rows, store, activity, cleanup>>

(* headObject: nothing there, or another size, ends the request.           *)
Head(c) ==
    /\ At(c, "head")
    /\ GoTo(c, CASE object[request[c].id] = "none" -> Idle
                 [] object[request[c].id] = "other" -> [step |-> "reject", id |-> request[c].id]
                 [] object[request[c].id] = "declared" -> [step |-> "confirm", id |-> request[c].id])
    /\ UNCHANGED <<rows, store, activity, cleanup>>

(* "Mark as deleted so it can be cleaned up."                              *)
Reject(c) ==
    /\ At(c, "reject")
    /\ deleted' = deleted \cup {i \in {request[c].id} : HasRow(i)}
    /\ Return(c)
    /\ UNCHANGED <<row, age, store, activity, cleanup>>

(* confirm: by id, whatever has become of the row.                         *)
ConfirmRow(c) ==
    /\ At(c, "confirm")
    /\ row' = [row EXCEPT ![request[c].id] = IF @ = "purged" THEN @ ELSE "completed"]
    /\ GoTo(c, [step |-> "uploaded", id |-> request[c].id])
    /\ UNCHANGED <<deleted, age, store, activity, cleanup>>

(* The entry that is not waited for.                                       *)
LogUploaded(c) ==
    /\ At(c, "uploaded")
    /\ activity' = activity \cup {<<request[c].id, "uploaded">>}
    /\ Return(c)
    /\ UNCHANGED <<rows, store, cleanup>>

(* deleteAttachment: findById, any status.                                 *)
DeleteAttachment(c, i) ==
    /\ request[c] = Idle
    /\ Visible(i)
    /\ GoTo(c, [step |-> "softDelete", id |-> i])
    /\ UNCHANGED <<rows, store, activity, cleanup>>

(* Mutant: the object is deleted first.                                    *)
ObjectFirst(c) ==
    /\ At(c, "softDelete")
    /\ object' = [object EXCEPT ![request[c].id] = "none"]
    /\ GoTo(c, [step |-> "reject", id |-> request[c].id])
    /\ UNCHANGED <<rows, lost, activity, cleanup>>

SoftDelete(c) ==
    /\ At(c, "softDelete")
    /\ deleted' = deleted \cup {i \in {request[c].id} : HasRow(i)}
    /\ GoTo(c, [step |-> "clean", id |-> request[c].id, todo |-> {"object", "activity"}])
    /\ UNCHANGED <<row, age, store, activity, cleanup>>

(* The two promises that are not waited for, in either order.              *)
Done(c, task) ==
    /\ At(c, "clean") /\ task \in request[c].todo
    /\ IF request[c].todo = {task} THEN Return(c)
       ELSE GoTo(c, [request[c] EXCEPT !.todo = @ \ {task}])

DeleteObject(c) ==
    /\ Done(c, "object")
    /\ \/ object' = [object EXCEPT ![request[c].id] = "none"] /\ UNCHANGED lost
       \/ lost' = lost \cup {request[c].id} /\ UNCHANGED object
    /\ UNCHANGED <<rows, activity, cleanup>>

LogDeleted(c) ==
    /\ Done(c, "activity")
    /\ activity' = activity \cup {<<request[c].id, "deleted">>}
    /\ UNCHANGED <<rows, store, cleanup>>

(* A statement fails or the process stops.                                 *)
Abort(c) ==
    /\ request[c] # Idle
    /\ lost' = lost \cup {i \in Ids : At(c, "clean") /\ request[c].id = i /\ "object" \in request[c].todo}
    /\ Return(c)
    /\ UNCHANGED <<rows, object, activity, cleanup>>

-----------------------------------------------------------------------------
(* Time and the cleanup job.                                               *)

Age(i) ==
    /\ row[i] # "absent" /\ age[i] # "old"
    /\ age' = [age EXCEPT ![i] = IF @ = "new" THEN "day" ELSE "old"]
    /\ UNCHANGED <<row, deleted, store, activity, cleanup, request>>

Work(p, j) == job' = [job EXCEPT ![p] = j]

StartCleanup(p) ==
    /\ Acquire(p)
    /\ Work(p, [step |-> "purge"])
    /\ UNCHANGED <<rows, store, activity, request>>

Stale == {i \in Ids : row[i] = "pending" /\ age[i] = "old" /\ i \notin deleted}

Take(p, taken) ==
    /\ job[p].step = "purge"
    /\ row' = [i \in Ids |-> IF i \in taken THEN "purged" ELSE row[i]]
    /\ Work(p, [step |-> "delete", objects |-> taken])
    /\ UNCHANGED <<deleted, age, store, activity, lockVars, request>>

(* Mutant: the condition on created_at is missing.                         *)
PurgeEarly(p) == Take(p, {i \in Ids : row[i] = "pending" /\ i \notin deleted})

(* DELETE ... RETURNING: the fourth statement of the job.                  *)
Purge(p) == Take(p, Stale)

(* One of the DELETEs that Promise.allSettled waits for.                   *)
PurgeObject(p, i) ==
    /\ job[p].step = "delete" /\ i \in job[p].objects
    /\ Work(p, [job[p] EXCEPT !.objects = @ \ {i}])
    /\ \/ object' = [object EXCEPT ![i] = "none"] /\ UNCHANGED lost
       \/ lost' = lost \cup {i} /\ UNCHANGED object
    /\ UNCHANGED <<rows, activity, lockVars, request>>

EndCleanup(p) ==
    /\ job[p] = [step |-> "delete", objects |-> {}]
    /\ Release(p) \/ ReleaseFails(p)
    /\ Work(p, NoJob)
    /\ UNCHANGED <<rows, store, activity, request>>

(* One of the four statements fails: the finally block still releases.     *)
CleanupThrows(p) ==
    /\ job[p].step = "purge" /\ Throw(p)
    /\ Work(p, NoJob)
    /\ UNCHANGED <<rows, store, activity, request>>

CrashCleanup(p) ==
    /\ Crash(p)
    /\ lost' = lost \cup IF job[p].step = "delete" THEN job[p].objects ELSE {}
    /\ Work(p, NoJob)
    /\ UNCHANGED <<rows, object, activity, request>>

ExpireLock ==
    Expire /\ UNCHANGED <<rows, store, activity, job, request>>

-----------------------------------------------------------------------------
ClientStep ==
    \E c \in Clients :
        \/ \E i \in Ids : Presign(c, i) \/ Confirm(c, i) \/ DeleteAttachment(c, i)
        \/ Create(c) \/ Head(c) \/ Reject(c) \/ ConfirmRow(c) \/ LogUploaded(c)
        \/ SoftDelete(c) \/ DeleteObject(c) \/ LogDeleted(c) \/ Abort(c)

JobStep ==
    \E p \in Pods :
        \/ StartCleanup(p) \/ Purge(p) \/ EndCleanup(p)
        \/ \E i \in Ids : PurgeObject(p, i)

Next ==
    \/ ClientStep
    \/ JobStep
    \/ \E i \in Ids : Age(i) \/ \E size \in {"declared", "other"} : Upload(i, size)
    \/ \E p \in Pods : CleanupThrows(p) \/ CrashCleanup(p)
    \/ ExpireLock

Spec == Init /\ [][Next]_vars

(* Time passes, a job that has begun goes on, the cron ticks every day.    *)
Fairness ==
    /\ \A i \in Ids : WF_vars(Age(i))
    /\ WF_vars(JobStep)
    /\ WF_vars(ExpireLock)

FairSpec == Spec /\ Fairness

-----------------------------------------------------------------------------
(* A completed attachment that is not deleted has its object: HEAD came    *)
(* before the update, and every DELETE comes after the row went away,      *)
(* whatever the other requests and the job do in between.                  *)
CompletedHasObject ==
    \A i \in Ids : row[i] = "completed" /\ i \notin deleted => object[i] # "none"

(* "Abandoned uploads don't accumulate": the object of a row that the job  *)
(* has taken is gone, or its DELETE is under way, or failed; no client     *)
(* puts it back.                                                           *)
PurgedLeaveNothing ==
    \A i \in Ids : row[i] = "purged" /\ object[i] # "none" =>
        i \in lost \/ \E p \in Pods : job[p].step = "delete" /\ i \in job[p].objects

(* An attachment does not stay pending for ever: it is confirmed or        *)
(* deleted by the client, or taken by the job of some pod, also after      *)
(* another pod has crashed with the lock or failed to release it.          *)
NothingStaysPending == \A i \in Ids : Visible(i) /\ row[i] = "pending" ~> ~(Visible(i) /\ row[i] = "pending")

(* Refuted. "Mark as deleted so it can be cleaned up": nothing ever cleans *)
(* up the object of an attachment of another size than declared.           *)
DeletedAreCleanedUp ==
    \A i \in Ids : i \in deleted /\ object[i] # "none" =>
        i \in lost \/ \E c \in Clients : At(c, "clean") /\ request[c].id = i

(* Refuted. "Work item already has the maximum of ... attachments": the    *)
(* limit counts completed ones when a URL is handed out, so that more can  *)
(* be pending, and then be confirmed.                                      *)
LimitHolds == Cardinality(Completed) <= MaxPerWorkItem
=============================================================================

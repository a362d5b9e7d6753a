------------------------- MODULE Attachments_proofs -------------------------
(***************************************************************************)
(* Proofs about Attachments and the lock of its cleanup job, for every     *)
(* number of attachments, clients, pods and failures.                      *)
(***************************************************************************)
EXTENDS Attachments, FiniteSetTheorems, TLAPS

-----------------------------------------------------------------------------
(* The lock.                                                               *)

(* The key is of at most one pod, and whoever runs the job owns the key,   *)
(* until a key expired under its owner.                                    *)
KeyHeld ==
    /\ \A p, q \in owner : p = q
    /\ ~lock => owner = {}
    /\ ~outlived => running \subseteq owner

LockStep ==
    \/ \E p \in Pods : Acquire(p) \/ Release(p) \/ ReleaseFails(p) \/ Throw(p) \/ Crash(p)
    \/ Expire
    \/ UNCHANGED lockVars

(* No step of any job that uses the lock breaks its types or takes the key *)
(* from its owner.                                                         *)
LEMMA LockStepKeeps ==
    ASSUME LockTypeOK, LockStep
    PROVE  LockTypeOK' /\ (KeyHeld => KeyHeld')
<1>1. ASSUME NEW p \in Pods, Acquire(p) PROVE LockTypeOK' /\ (KeyHeld => KeyHeld')
    BY <1>1 DEF LockTypeOK, KeyHeld, Acquire
<1>2. ASSUME NEW p \in Pods, Release(p) PROVE LockTypeOK' /\ (KeyHeld => KeyHeld')
    BY <1>2 DEF LockTypeOK, KeyHeld, Release
<1>3. ASSUME NEW p \in Pods, ReleaseFails(p) \/ Throw(p) \/ Crash(p)
      PROVE  LockTypeOK' /\ (KeyHeld => KeyHeld')
  <2>1. crashes' \in 0..MaxCrashes
      BY <1>3, PodsAssumption DEF LockTypeOK, ReleaseFails, Throw, Crash
  <2>2. QED
      BY <1>3, <2>1 DEF LockTypeOK, KeyHeld, ReleaseFails, Throw, Crash
<1>4. CASE Expire
    BY <1>4 DEF LockTypeOK, KeyHeld, Expire
<1>5. CASE UNCHANGED lockVars
    BY <1>5 DEF LockTypeOK, KeyHeld, lockVars
<1>6. QED
    BY <1>1, <1>2, <1>3, <1>4, <1>5 DEF LockStep

(* One owner at most means one pod at most in the job.                     *)
LEMMA HeldIsExclusive ==
    ASSUME KeyHeld PROVE JobExclusive
<1>1. SUFFICES ASSUME ~outlived PROVE Cardinality(running) <= 1
    BY DEF JobExclusive
<1>2. CASE running = {}
    BY <1>2, FS_EmptySet
<1>3. CASE running # {}
  <2>1. PICK p : p \in running
      BY <1>3
  <2>2. running = {p}
      BY <1>1, <2>1 DEF KeyHeld
  <2>3. QED
      BY <2>2, FS_Singleton
<1>4. QED
    BY <1>2, <1>3

(* Every step of the attachments leaves the lock alone or is one of its.   *)
LEMMA NextLocks == [Next]_vars => LockStep
BY DEF Next, ClientStep, JobStep, LockStep, vars, cleanup, lockVars,
       Presign, Confirm, DeleteAttachment, Create, Head, Reject, ConfirmRow, LogUploaded,
       SoftDelete, DeleteObject, LogDeleted, Abort, Age, Upload, StartCleanup, Purge, Take,
       PurgeObject, EndCleanup, CleanupThrows, CrashCleanup, ExpireLock

(* "cron lock held by another pod - skipping this tick": one pod runs the  *)
(* cleanup, until a job outlives its key, whichever pods crash.            *)
THEOREM CleanupIsExclusive == Spec => []JobExclusive
<1>1. Init => LockTypeOK /\ KeyHeld
  <2>1. Init => lock \in BOOLEAN /\ outlived \in BOOLEAN
      BY Zenon DEF Init, LockInit
  <2>2. QED
      BY <2>1, PodsAssumption DEF Init, LockInit, LockTypeOK, KeyHeld
<1>2. LockTypeOK /\ KeyHeld /\ [Next]_vars => (LockTypeOK /\ KeyHeld)'
    BY NextLocks, LockStepKeeps
<1>3. LockTypeOK /\ KeyHeld => JobExclusive
    BY HeldIsExclusive
<1>4. QED
    BY <1>1, <1>2, <1>3, PTL DEF Spec
-----------------------------------------------------------------------------
(* Types.                                                                  *)

(* A request that is under way has a step, an attachment and, at its end,  *)
(* promises left to settle.                                                *)
LEMMA RequestShape ==
    ASSUME NEW r \in Requests
    PROVE  /\ r.step # "idle" => r # Idle
           /\ r # Idle => r.step # "idle" /\ r.id \in Ids
           /\ r.step \in {"idle", "create", "head", "confirm", "softDelete", "reject", "uploaded", "clean"}
           /\ r.step = "clean" => /\ r.todo \in SUBSET {"object", "activity"}
                                  /\ r = [step |-> "clean", id |-> r.id, todo |-> r.todo]
BY DEF Requests, Idle

(* A pod without the job has no objects to delete, one with it has some.   *)
LEMMA JobShape ==
    ASSUME NEW j \in Jobs
    PROVE  /\ j.step = "none" <=> j = NoJob
           /\ j.step \in {"none", "purge", "delete"}
           /\ j.step = "delete" => /\ j.objects \in SUBSET Ids
                                   /\ j = [step |-> "delete", objects |-> j.objects]
BY DEF Jobs, NoJob

(* What a step may write into a request, and what one step of a client     *)
(* does to the requests of the others.                                     *)
LEMMA GoToType ==
    ASSUME request \in [Clients -> Requests], NEW c \in Clients, NEW r \in Requests, GoTo(c, r)
    PROVE  /\ request' \in [Clients -> Requests]
           /\ request'[c] = r
           /\ \A d \in Clients \ {c} : request'[d] = request[d]
BY DEF GoTo

(* The requests the steps build are requests.                              *)
LEMMA RequestTypes ==
    /\ Idle \in Requests
    /\ \A i \in Ids : \A s \in {"create", "head", "confirm", "softDelete", "reject", "uploaded"} :
          [step |-> s, id |-> i] \in Requests
    /\ \A i \in Ids : \A t \in SUBSET {"object", "activity"} :
          [step |-> "clean", id |-> i, todo |-> t] \in Requests
BY DEF Requests

(* The same for the jobs.                                                  *)
LEMMA JobTypes ==
    /\ NoJob \in Jobs
    /\ [step |-> "purge"] \in Jobs
    /\ \A S \in SUBSET Ids : [step |-> "delete", objects |-> S] \in Jobs
BY DEF Jobs

(* A promise of deleteAttachment settles: the request goes on with the     *)
(* other one, or has ended.                                                *)
LEMMA DoneEffect ==
    ASSUME request \in [Clients -> Requests], NEW c \in Clients, NEW task \in {"object", "activity"},
           Done(c, task)
    PROVE  /\ request' \in [Clients -> Requests]
           /\ \A d \in Clients \ {c} : request'[d] = request[d]
           /\ request'[c] = Idle \/ (request'[c].step = "clean" /\ request'[c].id = request[c].id)
<1>1. /\ At(c, "clean") /\ request[c] \in Requests
      /\ \/ Return(c)
         \/ GoTo(c, [request[c] EXCEPT !.todo = @ \ {task}])
    BY DEF Done
<1>2. [request[c] EXCEPT !.todo = @ \ {task}]
        = [step |-> "clean", id |-> request[c].id, todo |-> request[c].todo \ {task}]
  <2>1. request[c] = [step |-> "clean", id |-> request[c].id, todo |-> request[c].todo]
      BY <1>1, RequestShape DEF At
  <2>2. ASSUME NEW i, NEW t, NEW r, r = [step |-> "clean", id |-> i, todo |-> t]
        PROVE  [r EXCEPT !.todo = @ \ {task}] = [step |-> "clean", id |-> i, todo |-> t \ {task}]
      BY <2>2
  <2>3. QED
      BY <2>1, <2>2
<1>3. [request[c] EXCEPT !.todo = @ \ {task}] \in Requests
  <2>1. request[c].id \in Ids /\ request[c].todo \ {task} \in SUBSET {"object", "activity"}
      BY <1>1, RequestShape DEF At
  <2>2. QED
      BY <1>2, <2>1, RequestTypes
<1>4. CASE Return(c)
    BY <1>4, GoToType, RequestTypes DEF Return
<1>5. CASE GoTo(c, [request[c] EXCEPT !.todo = @ \ {task}])
    BY <1>2, <1>3, <1>5, GoToType
<1>6. QED
    BY <1>1, <1>4, <1>5
(* The steps that only read, or only write the request and the activity    *)
(* log or the deletion marks, keep the types.                              *)
LEMMA RequestTypeStep ==
    ASSUME TypeOK, NEW c \in Clients,
           \/ \E i \in Ids : Presign(c, i) \/ Confirm(c, i) \/ DeleteAttachment(c, i)
           \/ Create(c) \/ Head(c) \/ Reject(c) \/ ConfirmRow(c) \/ LogUploaded(c)
           \/ SoftDelete(c) \/ DeleteObject(c) \/ LogDeleted(c) \/ Abort(c)
    PROVE  request' \in [Clients -> Requests]
<1>0. request \in [Clients -> Requests]
    BY DEF TypeOK
<1>1. ASSUME NEW i \in Ids, Presign(c, i) \/ Confirm(c, i) \/ DeleteAttachment(c, i)
      PROVE  request' \in [Clients -> Requests]
    BY <1>0, <1>1, GoToType, RequestTypes DEF Presign, Confirm, DeleteAttachment
<1>2. CASE Create(c) \/ Reject(c) \/ LogUploaded(c) \/ Abort(c)
    BY <1>0, <1>2, GoToType, RequestTypes DEF Create, Reject, LogUploaded, Abort, Return
<1>3. CASE Head(c)
  <2>1. request[c].id \in Ids
      BY <1>0, <1>3, RequestShape DEF Head, At, Idle
  <2>2. object[request[c].id] \in {"none", "declared", "other"}
      BY <2>1 DEF TypeOK
  <2>3. PICK r \in {Idle, [step |-> "reject", id |-> request[c].id],
                    [step |-> "confirm", id |-> request[c].id]} : GoTo(c, r)
      BY <1>3, <2>2 DEF Head
  <2>4. QED
      BY <1>0, <2>1, <2>3, GoToType, RequestTypes
<1>4. CASE ConfirmRow(c)
  <2>1. request[c].id \in Ids
      BY <1>0, <1>4, RequestShape DEF ConfirmRow, At, Idle
  <2>2. QED
      BY <1>0, <1>4, <2>1, GoToType, RequestTypes DEF ConfirmRow
<1>5. CASE SoftDelete(c)
  <2>1. request[c].id \in Ids
      BY <1>0, <1>5, RequestShape DEF SoftDelete, At, Idle
  <2>2. QED
      BY <1>0, <1>5, <2>1, GoToType, RequestTypes DEF SoftDelete
<1>6. CASE DeleteObject(c) \/ LogDeleted(c)
    BY <1>0, <1>6, DoneEffect DEF DeleteObject, LogDeleted
<1>7. QED
    BY <1>1, <1>2, <1>3, <1>4, <1>5, <1>6

(* Every step keeps the types.                                             *)
LEMMA TypeStep == TypeOK /\ [Next]_vars => TypeOK'
<1> SUFFICES ASSUME TypeOK, [Next]_vars PROVE TypeOK'
    OBVIOUS
<1> USE DEF HasRow
<1>0. LockTypeOK'
    BY NextLocks, LockStepKeeps DEF TypeOK
<1>1. ASSUME NEW c \in Clients,
             \/ \E i \in Ids : Presign(c, i) \/ Confirm(c, i) \/ DeleteAttachment(c, i)
             \/ Head(c)
      PROVE TypeOK'
    BY <1>0, <1>1, RequestTypeStep
       DEF TypeOK, Presign, Confirm, DeleteAttachment, Head, rows, store, cleanup, lockVars
<1>2. ASSUME NEW c \in Clients, Create(c) \/ ConfirmRow(c) PROVE TypeOK'
  <2>1. request[c].id \in Ids
      BY <1>2, RequestShape DEF TypeOK, Create, ConfirmRow, At, Idle
  <2>2. row' \in [Ids -> {"absent", "pending", "completed", "purged"}] /\ age' \in [Ids -> {"new", "day", "old"}]
      BY <1>2, <2>1 DEF TypeOK, Create, ConfirmRow
  <2>3. \A i \in Ids : row[i] \in {"pending", "completed"} => row'[i] \in {"pending", "completed"}
      BY <1>2, <2>1 DEF TypeOK, Create, ConfirmRow
  <2>4. QED
      BY <1>0, <1>2, <2>2, <2>3, RequestTypeStep
         DEF TypeOK, Create, ConfirmRow, store, cleanup, lockVars
<1>3. ASSUME NEW c \in Clients, Reject(c) \/ SoftDelete(c) PROVE TypeOK'
  <2>1. request[c].id \in Ids
      BY <1>3, RequestShape DEF TypeOK, Reject, SoftDelete, At, Idle
  <2>2. QED
      BY <1>0, <1>3, <2>1, RequestTypeStep DEF TypeOK, Reject, SoftDelete, store, cleanup, lockVars
<1>4. ASSUME NEW c \in Clients, LogUploaded(c) \/ LogDeleted(c) \/ DeleteObject(c) \/ Abort(c)
      PROVE  TypeOK'
  <2>1. request[c].id \in Ids
      BY <1>4, RequestShape DEF TypeOK, LogUploaded, LogDeleted, DeleteObject, Abort, Done, At, Idle
  <2>2. object' \in [Ids -> {"none", "declared", "other"}] /\ activity' \subseteq Ids \X {"uploaded", "deleted"}
      BY <1>4, <2>1 DEF TypeOK, LogUploaded, LogDeleted, DeleteObject, Abort, store
  <2>3. QED
      BY <1>0, <1>4, <2>2, RequestTypeStep
         DEF TypeOK, LogUploaded, LogDeleted, DeleteObject, Abort, rows, cleanup, lockVars
<1>5. ASSUME NEW i \in Ids, Age(i) \/ \E size \in {"declared", "other"} : Upload(i, size)
      PROVE  TypeOK'
    BY <1>0, <1>5 DEF TypeOK, Age, Upload, rows, store, cleanup, lockVars
<1>6. ASSUME NEW p \in Pods, StartCleanup(p) PROVE TypeOK'
  <2>1. [step |-> "purge"] # NoJob
      BY DEF NoJob
  <2>2. QED
      BY <1>0, <1>6, <2>1, JobTypes DEF TypeOK, StartCleanup, Acquire, Work, rows, store
<1>7. ASSUME NEW p \in Pods, Purge(p) PROVE TypeOK'
  <2>1. Stale \in SUBSET Ids /\ [step |-> "delete", objects |-> Stale] # NoJob
      BY DEF Stale, NoJob
  <2>2. job[p] # NoJob
      BY <1>7 DEF Purge, Take, NoJob
  <2>3. \A i \in deleted : i \notin Stale
      BY DEF Stale
  <2>4. QED
      BY <1>0, <1>7, <2>1, <2>2, <2>3, JobTypes DEF TypeOK, Purge, Take, Work, store, lockVars
<1>8. ASSUME NEW p \in Pods, NEW i \in Ids, PurgeObject(p, i) PROVE TypeOK'
  <2>1. /\ job[p] = [step |-> "delete", objects |-> job[p].objects]
        /\ job[p].objects \in SUBSET Ids
      BY <1>8, JobShape DEF TypeOK, PurgeObject
  <2>2. PICK S \in SUBSET Ids : job' = [job EXCEPT ![p] = [step |-> "delete", objects |-> S]]
    <3>1. ASSUME NEW t, NEW j, j = [step |-> "delete", objects |-> t]
          PROVE  [j EXCEPT !.objects = @ \ {i}] = [step |-> "delete", objects |-> t \ {i}]
        BY <3>1
    <3>2. job' = [job EXCEPT ![p] = [step |-> "delete", objects |-> job[p].objects \ {i}]]
        BY <1>8, <2>1, <3>1 DEF PurgeObject, Work
    <3>3. QED
        BY <2>1, <3>2
  <2>3. [step |-> "delete", objects |-> S] # NoJob /\ job[p] # NoJob
      BY <2>1 DEF NoJob
  <2>4. object' \in [Ids -> {"none", "declared", "other"}]
      BY <1>8 DEF TypeOK, PurgeObject
  <2>5. QED
      BY <1>0, <1>8, <2>2, <2>3, <2>4, JobTypes DEF TypeOK, PurgeObject, rows, lockVars
<1>9. ASSUME NEW p \in Pods, EndCleanup(p) \/ CleanupThrows(p) \/ CrashCleanup(p) PROVE TypeOK'
  <2>1. job' = [job EXCEPT ![p] = NoJob] /\ running' = running \ {p}
      BY <1>9 DEF EndCleanup, CleanupThrows, CrashCleanup, Work, Release, ReleaseFails, Throw, Crash
  <2>2. UNCHANGED <<rows, object, activity, request>>
      BY <1>9 DEF EndCleanup, CleanupThrows, CrashCleanup, store
  <2>3. QED
      BY <1>0, <2>1, <2>2, JobTypes DEF TypeOK, rows
<1>10. CASE ExpireLock
    BY <1>0, <1>10 DEF TypeOK, ExpireLock, Expire, rows, store
<1>11. CASE UNCHANGED vars
    BY <1>0, <1>11 DEF TypeOK, vars, rows, store, cleanup, lockVars
<1>12. QED
    BY <1>1, <1>2, <1>3, <1>4, <1>5, <1>6, <1>7, <1>8, <1>9, <1>10, <1>11
       DEF Next, ClientStep, JobStep

(* TypeOK is an invariant: only pods in the job have one to do, and only   *)
(* rows that are there carry a deletion mark.                              *)
THEOREM TypeCorrect == Spec => []TypeOK
<1>1. Init => TypeOK
  <2>1. Init => lock \in BOOLEAN /\ outlived \in BOOLEAN
      BY Zenon DEF Init, LockInit
  <2>2. QED
      BY <2>1, PodsAssumption, RequestTypes, JobTypes
         DEF Init, LockInit, LockTypeOK, TypeOK, HasRow
<1>2. QED
    BY <1>1, TypeStep, PTL DEF Spec
-----------------------------------------------------------------------------
(* Rows and objects.                                                       *)

(* The row is deleted, or was taken by the job: no step undoes that.       *)
Gone(i) == i \in deleted \/ row[i] = "purged"

(* The row of a request that creates it is not there yet and no other      *)
(* request's; of every other request it is.                                *)
RowsOfRequests ==
    \A c \in Clients :
        /\ At(c, "create") =>
              /\ row[request[c].id] = "absent"
              /\ \A d \in Clients : At(d, "create") /\ request[d].id = request[c].id => c = d
        /\ request[c] # Idle /\ ~At(c, "create") => row[request[c].id] # "absent"

(* A request that is to confirm has seen the object, which only goes when  *)
(* the row is gone; one that deletes the object has marked the row.        *)
ObjectsOfRequests ==
    \A c \in Clients :
        /\ At(c, "confirm") => object[request[c].id] # "none" \/ Gone(request[c].id)
        /\ At(c, "clean") => Gone(request[c].id)

(* The job only deletes the objects of rows it has taken, and takes rows   *)
(* so old that nobody can upload any more.                                 *)
ObjectsOfJobs ==
    /\ \A i \in Ids : row[i] = "purged" => age[i] = "old"
    /\ \A p \in Pods : job[p].step = "delete" => \A i \in job[p].objects : row[i] = "purged"

(* Neither property is inductive: ConfirmRow does not look at the object,  *)
(* nor DeleteObject and PurgeObject at the row.                            *)
IInv ==
    /\ TypeOK
    /\ RowsOfRequests
    /\ ObjectsOfRequests
    /\ ObjectsOfJobs
    /\ CompletedHasObject
    /\ PurgedLeaveNothing

(* The steps of a client, and the attachment a request is about.           *)
ClientAction(c) ==
    \/ \E i \in Ids : Presign(c, i) \/ Confirm(c, i) \/ DeleteAttachment(c, i)
    \/ Create(c) \/ Head(c) \/ Reject(c) \/ ConfirmRow(c) \/ LogUploaded(c)
    \/ SoftDelete(c) \/ DeleteObject(c) \/ LogDeleted(c) \/ Abort(c)

(* A request in flight names an attachment.                                *)
LEMMA RequestId ==
    ASSUME TypeOK, NEW c \in Clients, request[c] # Idle
    PROVE  request[c].id \in Ids /\ request[c].step # "idle"
BY RequestShape DEF TypeOK

(* Which steps write rows and objects at all.                              *)
LEMMA Writers ==
    ASSUME [Next]_vars
    PROVE  /\ \/ UNCHANGED <<row, deleted>>
              \/ \E c \in Clients : Create(c) \/ ConfirmRow(c) \/ Reject(c) \/ SoftDelete(c)
              \/ \E p \in Pods : Purge(p)
           /\ \/ UNCHANGED object
              \/ \E i \in Ids, size \in {"declared", "other"} : Upload(i, size)
              \/ \E c \in Clients : DeleteObject(c)
              \/ \E p \in Pods, i \in Ids : PurgeObject(p, i)
           /\ \/ UNCHANGED request
              \/ \E c \in Clients : ClientAction(c)
BY DEF Next, ClientStep, JobStep, ClientAction, vars, rows, store,
       Presign, Confirm, DeleteAttachment, Create, Head, Reject, ConfirmRow, LogUploaded,
       SoftDelete, DeleteObject, LogDeleted, Abort, Age, Upload, StartCleanup, Purge, Take,
       PurgeObject, EndCleanup, CleanupThrows, CrashCleanup, ExpireLock

(* A row that is there does not vanish, and one that is gone stays gone.   *)
LEMMA RowsStay ==
    ASSUME TypeOK, RowsOfRequests, [Next]_vars, NEW i \in Ids
    PROVE  /\ row[i] # "absent" => row'[i] # "absent"
           /\ Gone(i) => Gone(i)'
<1>1. ASSUME NEW c \in Clients, Create(c)
      PROVE  (row[i] # "absent" => row'[i] # "absent") /\ (Gone(i) => Gone(i)')
    BY <1>1 DEF Create, TypeOK, RowsOfRequests, Gone
<1>2. ASSUME NEW c \in Clients, ConfirmRow(c)
      PROVE  (row[i] # "absent" => row'[i] # "absent") /\ (Gone(i) => Gone(i)')
    BY <1>2 DEF ConfirmRow, TypeOK, Gone
<1>3. ASSUME NEW c \in Clients, Reject(c) \/ SoftDelete(c)
      PROVE  (row[i] # "absent" => row'[i] # "absent") /\ (Gone(i) => Gone(i)')
    BY <1>3 DEF Reject, SoftDelete, Gone
<1>4. ASSUME NEW p \in Pods, Purge(p)
      PROVE  (row[i] # "absent" => row'[i] # "absent") /\ (Gone(i) => Gone(i)')
    BY <1>4 DEF Purge, Take, Gone
<1>5. QED
    BY <1>1, <1>2, <1>3, <1>4, Writers DEF Gone

(* An object goes only when its row is gone.                               *)
LEMMA ObjectsStay ==
    ASSUME TypeOK, ObjectsOfRequests, ObjectsOfJobs, [Next]_vars, NEW i \in Ids
    PROVE  object[i] # "none" => object'[i] # "none" \/ Gone(i)
<1>1. ASSUME NEW j \in Ids, NEW size \in {"declared", "other"}, Upload(j, size)
      PROVE  object[i] # "none" => object'[i] # "none"
    BY <1>1 DEF Upload, TypeOK
<1>2. ASSUME NEW c \in Clients, DeleteObject(c)
      PROVE  object[i] # "none" => object'[i] # "none" \/ Gone(i)
    BY <1>2 DEF DeleteObject, Done, TypeOK, ObjectsOfRequests
<1>3. ASSUME NEW p \in Pods, NEW j \in Ids, PurgeObject(p, j)
      PROVE  object[i] # "none" => object'[i] # "none" \/ Gone(i)
    BY <1>3 DEF PurgeObject, TypeOK, ObjectsOfJobs, Gone
<1>4. QED
    BY <1>1, <1>2, <1>3, Writers

(* What a step of a client makes of its request.                           *)
LEMMA ClientEffect ==
    ASSUME TypeOK, NEW c \in Clients, ClientAction(c)
    PROVE  /\ \A d \in Clients \ {c} : request'[d] = request[d]
           /\ \/ request'[c] = Idle
              \/ request'[c] # Idle /\ request'[c].id = request[c].id /\ request[c] # Idle
                    /\ ~At(c, "create") /\ request'[c].step # "create"
              \/ \E i \in Ids : Presign(c, i) /\ request'[c] = [step |-> "create", id |-> i]
              \/ \E i \in Ids : (Confirm(c, i) \/ DeleteAttachment(c, i))
                    /\ request'[c].step \in {"head", "softDelete"} /\ request'[c].id = i
<1>0. request \in [Clients -> Requests]
    BY DEF TypeOK
<1>1. ASSUME NEW i \in Ids, Presign(c, i)
      PROVE  request'[c] = [step |-> "create", id |-> i] /\ \A d \in Clients \ {c} : request'[d] = request[d]
    BY <1>0, <1>1 DEF Presign, GoTo
<1>2. ASSUME NEW i \in Ids, Confirm(c, i) \/ DeleteAttachment(c, i)
      PROVE  /\ request'[c].step \in {"head", "softDelete"} /\ request'[c].id = i
             /\ \A d \in Clients \ {c} : request'[d] = request[d]
    BY <1>0, <1>2 DEF Confirm, DeleteAttachment, GoTo
<1>3. CASE Create(c) \/ Reject(c) \/ LogUploaded(c) \/ Abort(c)
    BY <1>0, <1>3 DEF Create, Reject, LogUploaded, Abort, Return, GoTo
<1>4. CASE Head(c)
  <2>1. object[request[c].id] \in {"none", "declared", "other"} /\ request[c] # Idle
      BY <1>4, RequestShape DEF TypeOK, Head, At, Idle
  <2>2. PICK r \in {Idle, [step |-> "reject", id |-> request[c].id],
                    [step |-> "confirm", id |-> request[c].id]} : GoTo(c, r)
      BY <1>4, <2>1 DEF Head
  <2>3. request'[c] = r /\ \A d \in Clients \ {c} : request'[d] = request[d]
      BY <1>0, <2>2 DEF GoTo
  <2>4. QED
      BY <1>4, <2>1, <2>3 DEF Head, At, Idle
<1>5. CASE ConfirmRow(c) \/ SoftDelete(c)
    BY <1>0, <1>5 DEF ConfirmRow, SoftDelete, At, GoTo, Idle
<1>6. CASE DeleteObject(c) \/ LogDeleted(c)
  <2>1. At(c, "clean") /\ \E task \in {"object", "activity"} : Done(c, task)
      BY <1>6 DEF DeleteObject, LogDeleted, Done
  <2>2. QED
      BY <1>0, <2>1, DoneEffect DEF At, Idle
<1>7. QED
    BY <1>1, <1>2, <1>3, <1>4, <1>5, <1>6 DEF ClientAction

(* The row of a request is there when it should be.                        *)
LEMMA RowsOfRequestsStep ==
    ASSUME TypeOK, RowsOfRequests, [Next]_vars
    PROVE  RowsOfRequests'
<1>0. TypeOK'
    BY TypeStep
<1>1. ASSUME UNCHANGED request PROVE RowsOfRequests'
  <2>1. UNCHANGED row \/ \E p \in Pods : Purge(p)
      BY <1>1, Writers, RequestId DEF Create, ConfirmRow, Reject, SoftDelete, Return, GoTo, TypeOK, At, Idle
  <2>2. \A i \in Ids : row[i] = "absent" <=> row'[i] = "absent"
      BY <2>1 DEF Purge, Take, Stale
  <2>3. \A c \in Clients : request[c] # Idle => request[c].id \in Ids
      BY RequestId
  <2>4. \A c \in Clients : At(c, "create") => request[c] # Idle
      BY DEF At, Idle
  <2>5. QED
      BY <1>1, <2>2, <2>3, <2>4 DEF RowsOfRequests, At
<1>2. ASSUME NEW c \in Clients, ClientAction(c) PROVE RowsOfRequests'
  <2>0. /\ \A d \in Clients : request[d] # Idle => request[d].id \in Ids
        /\ \A d \in Clients : At(d, "create") => request[d] # Idle
        /\ \A d \in Clients \ {c} : request'[d] = request[d]
      BY <1>2, RequestId, ClientEffect DEF At, Idle
  <2>1. ASSUME NEW i \in Ids, Presign(c, i) PROVE RowsOfRequests'
    <3>1. /\ request'[c] = [step |-> "create", id |-> i] /\ UNCHANGED row
          /\ row[i] = "absent" /\ \A d \in Clients : At(d, "create") => request[d].id # i
        BY <2>1 DEF Presign, GoTo, Unused, rows, TypeOK
    <3>2. QED
        BY <2>0, <3>1 DEF RowsOfRequests, At
  <2>2. ASSUME NEW i \in Ids, Confirm(c, i) \/ DeleteAttachment(c, i) PROVE RowsOfRequests'
    <3>1. /\ request'[c].step \in {"head", "softDelete"} /\ request'[c].id = i
          /\ UNCHANGED row /\ row[i] # "absent"
        BY <2>2 DEF Confirm, DeleteAttachment, GoTo, Visible, HasRow, rows, TypeOK
    <3>2. QED
        BY <2>0, <3>1 DEF RowsOfRequests, At
  <2>3. CASE Create(c)
    <3>1. /\ At(c, "create") /\ request'[c] = Idle
          /\ request[c].id \in Ids
          /\ row' = [row EXCEPT ![request[c].id] = "pending"]
        BY <2>0, <2>3 DEF Create, Return, GoTo, TypeOK
    <3>2. \A i \in Ids : row'[i] = IF i = request[c].id THEN "pending" ELSE row[i]
        BY <3>1 DEF TypeOK
    <3>3. QED
        BY <2>0, <3>1, <3>2 DEF RowsOfRequests, At, Idle
  <2>4. ASSUME \/ request'[c] = Idle
               \/ request'[c] # Idle /\ request'[c].id = request[c].id /\ request[c] # Idle
                     /\ ~At(c, "create") /\ request'[c].step # "create",
               ~Create(c)
        PROVE  RowsOfRequests'
    <3>1. ASSUME NEW i \in Ids PROVE row[i] = "absent" => row'[i] = "absent"
      <4>1. CASE UNCHANGED row
          BY <4>1
      <4>2. CASE ConfirmRow(c)
        <5>1. row[request[c].id] # "absent" /\ request[c].id \in Ids
            BY <2>0, <4>2 DEF ConfirmRow, RowsOfRequests, At, Idle
        <5>2. QED
            BY <4>2, <5>1 DEF ConfirmRow, TypeOK
      <4>3. UNCHANGED row \/ ConfirmRow(c)
        <5>1. \/ \E j \in Ids : Presign(c, j) \/ Confirm(c, j) \/ DeleteAttachment(c, j)
              \/ Head(c) \/ Reject(c) \/ LogUploaded(c)
              \/ SoftDelete(c) \/ DeleteObject(c) \/ LogDeleted(c) \/ Abort(c) \/ ConfirmRow(c)
            BY <1>2, <2>4 DEF ClientAction
        <5>2. QED
            BY <5>1 DEF Presign, Confirm, DeleteAttachment, Head, Reject, LogUploaded,
                        SoftDelete, DeleteObject, LogDeleted, Abort, rows
      <4>4. QED
          BY <4>1, <4>2, <4>3
    <3>2. \A i \in Ids : row[i] # "absent" => row'[i] # "absent"
        BY RowsStay
    <3>3. QED
        BY <2>0, <2>4, <3>1, <3>2 DEF RowsOfRequests, At, Idle
  <2>5. QED
      BY <1>2, <2>1, <2>2, <2>3, <2>4, ClientEffect
<1>3. QED
    BY <1>1, <1>2, Writers

(* What a request has seen of its object, or done to its row, holds on.    *)
LEMMA ObjectsOfRequestsStep ==
    ASSUME TypeOK, RowsOfRequests, ObjectsOfRequests, ObjectsOfJobs, [Next]_vars
    PROVE  ObjectsOfRequests'
<1>1. ASSUME NEW d \in Clients, request'[d] = request[d]
      PROVE  /\ At(d, "confirm")' => (object[request[d].id] # "none" \/ Gone(request[d].id))'
             /\ At(d, "clean")' => Gone(request[d].id)'
  <2>1. At(d, "confirm") \/ At(d, "clean") => request[d].id \in Ids
      BY RequestId DEF At, Idle
  <2>2. QED
      BY <1>1, <2>1, RowsStay, ObjectsStay DEF ObjectsOfRequests, At, Gone
<1>2. ASSUME NEW c \in Clients, ClientAction(c)
      PROVE  /\ At(c, "confirm")' => (object[request[c].id] # "none" \/ Gone(request[c].id))'
             /\ At(c, "clean")' => Gone(request[c].id)'
  <2>1. CASE Head(c)
    <3>1. request[c].id \in Ids
        BY <2>1, RequestId DEF Head, At, Idle
    <3>2. object[request[c].id] \in {"none", "declared", "other"}
        BY <3>1 DEF TypeOK
    <3>3. \/ request'[c] \in {Idle, [step |-> "reject", id |-> request[c].id]}
          \/ /\ request'[c] = [step |-> "confirm", id |-> request[c].id]
             /\ object[request[c].id] # "none" /\ UNCHANGED object
        BY <2>1, <3>2 DEF Head, GoTo, store, TypeOK
    <3>4. QED
        BY <3>3 DEF At, Idle
  <2>2. CASE SoftDelete(c)
    <3>1. request[c].id \in Ids /\ row[request[c].id] # "absent"
        BY <2>2, RequestId DEF SoftDelete, At, Idle, RowsOfRequests
    <3>2. row[request[c].id] = "purged" \/ HasRow(request[c].id)
        BY <3>1 DEF TypeOK, HasRow
    <3>3. Gone(request[c].id)'
          /\ request'[c] = [step |-> "clean", id |-> request[c].id, todo |-> {"object", "activity"}]
      <4>1. /\ request'[c] = [step |-> "clean", id |-> request[c].id, todo |-> {"object", "activity"}]
            /\ UNCHANGED row
            /\ deleted' = deleted \cup {i \in {request[c].id} : HasRow(i)}
          BY <2>2 DEF SoftDelete, GoTo, TypeOK
      <4>2. QED
          BY <3>2, <4>1 DEF Gone
    <3>4. QED
        BY <3>3 DEF At
  <2>3. CASE DeleteObject(c) \/ LogDeleted(c)
    <3>1. At(c, "clean") /\ \E task \in {"object", "activity"} : Done(c, task)
        BY <2>3 DEF DeleteObject, LogDeleted, Done
    <3>2. request[c].id \in Ids /\ Gone(request[c].id)
        BY <3>1, RequestId DEF At, Idle, ObjectsOfRequests
    <3>3. request'[c] = Idle \/ (request'[c].step = "clean" /\ request'[c].id = request[c].id)
        BY <3>1, DoneEffect DEF TypeOK
    <3>4. QED
        BY <3>2, <3>3, RowsStay DEF At, Idle
  <2>4. CASE \/ \E i \in Ids : Presign(c, i) \/ Confirm(c, i) \/ DeleteAttachment(c, i)
             \/ Create(c) \/ Reject(c) \/ ConfirmRow(c) \/ LogUploaded(c) \/ Abort(c)
    <3>1. request'[c].step \in {"idle", "create", "head", "softDelete", "uploaded"}
        BY <2>4 DEF Presign, Confirm, DeleteAttachment, Create, Reject, ConfirmRow, LogUploaded,
                    Abort, Return, GoTo, TypeOK, Idle
    <3>2. QED
        BY <3>1 DEF At
  <2>5. QED
      BY <1>2, <2>1, <2>2, <2>3, <2>4 DEF ClientAction
<1>3. QED
    BY <1>1, <1>2, Writers, ClientEffect DEF ObjectsOfRequests

(* Which steps change the age of an attachment and the work of a job.      *)
LEMMA JobWriters ==
    ASSUME [Next]_vars
    PROVE  /\ \/ UNCHANGED age
              \/ \E c \in Clients : Create(c)
              \/ \E i \in Ids : Age(i)
           /\ \/ UNCHANGED job
              \/ \E p \in Pods : Purge(p)
              \/ \E p \in Pods, i \in Ids : PurgeObject(p, i)
              \/ \E p \in Pods : StartCleanup(p) \/ EndCleanup(p) \/ CleanupThrows(p) \/ CrashCleanup(p)
<1>1. \/ UNCHANGED age
      \/ \E c \in Clients : Create(c)
      \/ \E i \in Ids : Age(i)
    BY DEF Next, ClientStep, JobStep, vars, rows,
           Presign, Confirm, DeleteAttachment, Head, Reject, ConfirmRow, LogUploaded,
           SoftDelete, DeleteObject, LogDeleted, Abort, Upload, StartCleanup, Purge, Take,
           PurgeObject, EndCleanup, CleanupThrows, CrashCleanup, ExpireLock
<1>2. \/ UNCHANGED job
      \/ \E p \in Pods : Purge(p)
      \/ \E p \in Pods, i \in Ids : PurgeObject(p, i)
      \/ \E p \in Pods : StartCleanup(p) \/ EndCleanup(p) \/ CleanupThrows(p) \/ CrashCleanup(p)
    BY DEF Next, ClientStep, JobStep, vars, cleanup,
           Presign, Confirm, DeleteAttachment, Create, Head, Reject, ConfirmRow, LogUploaded,
           SoftDelete, DeleteObject, LogDeleted, Abort, Age, Upload, ExpireLock
<1>3. QED
    BY <1>1, <1>2

(* What PurgeObject leaves the job to do.                                  *)
LEMMA PurgeObjectEffect ==
    ASSUME TypeOK, NEW p \in Pods, NEW i \in Ids, PurgeObject(p, i)
    PROVE  /\ job'[p].step = "delete" /\ job'[p].objects = job[p].objects \ {i}
           /\ \A q \in Pods \ {p} : job'[q] = job[q]
<1>1. job[p] = [step |-> "delete", objects |-> job[p].objects]
    BY JobShape DEF TypeOK, PurgeObject
<1>2. ASSUME NEW t, NEW j, j = [step |-> "delete", objects |-> t]
      PROVE  [j EXCEPT !.objects = @ \ {i}] = [step |-> "delete", objects |-> t \ {i}]
    BY <1>2
<1>3. job' = [job EXCEPT ![p] = [step |-> "delete", objects |-> job[p].objects \ {i}]]
    BY <1>1, <1>2 DEF PurgeObject, Work
<1>4. QED
    BY <1>3 DEF TypeOK

(* What the job deletes objects of stays purged, and too old to upload.    *)
LEMMA ObjectsOfJobsStep ==
    ASSUME TypeOK, RowsOfRequests, ObjectsOfJobs, [Next]_vars
    PROVE  ObjectsOfJobs'
<1>1. ASSUME NEW i \in Ids, row[i] = "purged" PROVE row'[i] = "purged"
  <2>1. ASSUME NEW c \in Clients, Create(c) PROVE row'[i] = "purged"
      BY <1>1, <2>1 DEF Create, TypeOK, RowsOfRequests
  <2>2. ASSUME NEW c \in Clients, ConfirmRow(c) PROVE row'[i] = "purged"
      BY <1>1, <2>2 DEF ConfirmRow, TypeOK
  <2>3. QED
      BY <1>1, <2>1, <2>2, Writers DEF Reject, SoftDelete, Purge, Take
<1>2. ASSUME NEW i \in Ids, row'[i] = "purged" PROVE age'[i] = "old"
  <2>1. row[i] = "purged" \/ i \in Stale
    <3>1. ASSUME NEW c \in Clients, Create(c) \/ ConfirmRow(c) PROVE row[i] = "purged"
        BY <1>2, <3>1 DEF Create, ConfirmRow, TypeOK
    <3>2. QED
        BY <1>2, <3>1, Writers DEF Reject, SoftDelete, Purge, Take
  <2>2. age[i] = "old" /\ row[i] # "absent"
      BY <2>1 DEF Stale, ObjectsOfJobs
  <2>3. ASSUME NEW c \in Clients, Create(c) PROVE age'[i] = "old"
      BY <2>2, <2>3 DEF Create, TypeOK, RowsOfRequests
  <2>4. ASSUME NEW j \in Ids, Age(j) PROVE age'[i] = "old"
      BY <2>2, <2>4 DEF Age, TypeOK
  <2>5. QED
      BY <2>2, <2>3, <2>4, JobWriters
<1>3. ASSUME NEW p \in Pods, job'[p].step = "delete", NEW i \in job'[p].objects
      PROVE  row'[i] = "purged"
  <2>1. CASE job'[p] = job[p]
      BY <1>1, <1>3, <2>1, JobShape DEF TypeOK, ObjectsOfJobs
  <2>2. ASSUME NEW q \in Pods, Purge(q) PROVE row'[i] = "purged"
    <3>1. /\ row' = [j \in Ids |-> IF j \in Stale THEN "purged" ELSE row[j]]
          /\ job' = [job EXCEPT ![q] = [step |-> "delete", objects |-> Stale]]
        BY <2>2 DEF Purge, Take, Work
    <3>2. CASE p = q
        BY <1>3, <3>1, <3>2 DEF TypeOK, Stale
    <3>3. CASE p # q
        BY <2>1, <3>1, <3>3 DEF TypeOK
    <3>4. QED
        BY <3>2, <3>3
  <2>3. ASSUME NEW q \in Pods, NEW j \in Ids, PurgeObject(q, j) PROVE row'[i] = "purged"
    <3>1. CASE p = q
      <4>1. job[p].step = "delete" /\ i \in job[p].objects
          BY <1>3, <2>3, <3>1, PurgeObjectEffect DEF PurgeObject
      <4>2. i \in Ids
          BY <4>1, JobShape DEF TypeOK
      <4>3. QED
          BY <1>1, <4>1, <4>2 DEF ObjectsOfJobs
    <3>2. QED
        BY <2>1, <2>3, <3>1, PurgeObjectEffect
  <2>4. ASSUME NEW q \in Pods, StartCleanup(q) \/ EndCleanup(q) \/ CleanupThrows(q) \/ CrashCleanup(q)
        PROVE  job'[p] = job[p]
    <3>1. job'[q] \in {NoJob, [step |-> "purge"]} /\ \A r \in Pods \ {q} : job'[r] = job[r]
        BY <2>4 DEF StartCleanup, EndCleanup, CleanupThrows, CrashCleanup, Work, TypeOK
    <3>2. p # q
        BY <1>3, <3>1 DEF NoJob
    <3>3. QED
        BY <3>1, <3>2
  <2>5. QED
      BY <2>1, <2>2, <2>3, <2>4, JobWriters
<1>4. QED
    BY <1>2, <1>3 DEF ObjectsOfJobs

(* A completed row has its object: only ConfirmRow completes, and objects  *)
(* only go when the row is gone.                                           *)
LEMMA CompletedStep ==
    ASSUME TypeOK, RowsOfRequests, ObjectsOfRequests, ObjectsOfJobs, CompletedHasObject, [Next]_vars
    PROVE  CompletedHasObject'
<1>1. SUFFICES ASSUME NEW i \in Ids, row'[i] = "completed", i \notin deleted' PROVE object'[i] # "none"
    BY DEF CompletedHasObject
<1>2. ~Gone(i)
    BY <1>1, RowsStay DEF Gone
<1>3. object[i] # "none"
  <2>1. ASSUME NEW c \in Clients, ConfirmRow(c), i = request[c].id PROVE object[i] # "none"
      BY <1>2, <2>1 DEF ConfirmRow, ObjectsOfRequests
  <2>2. CASE row[i] = "completed"
      BY <1>2, <2>2 DEF CompletedHasObject, Gone
  <2>3. row[i] = "completed" \/ \E c \in Clients : ConfirmRow(c) /\ i = request[c].id
      BY <1>1, Writers DEF Create, ConfirmRow, Reject, SoftDelete, Purge, Take, TypeOK
  <2>4. QED
      BY <2>1, <2>2, <2>3
<1>4. QED
    BY <1>2, <1>3, ObjectsStay

(* A purged row leaves no object behind that is not to be deleted or lost. *)
LEMMA PurgedStep ==
    ASSUME TypeOK, RowsOfRequests, ObjectsOfRequests, ObjectsOfJobs, PurgedLeaveNothing, [Next]_vars
    PROVE  PurgedLeaveNothing'
<1> DEFINE Pending(i) == \E p \in Pods : job[p].step = "delete" /\ i \in job[p].objects
<1>1. SUFFICES ASSUME NEW i \in Ids, row'[i] = "purged", object'[i] # "none", i \notin lost'
               PROVE  Pending(i)'
    BY DEF PurgedLeaveNothing
<1>2. i \notin lost
    BY <1>1 DEF Next, ClientStep, JobStep, vars, store, Presign, Confirm, DeleteAttachment, Create,
           Head, Reject, ConfirmRow, LogUploaded, SoftDelete, DeleteObject, LogDeleted, Abort, Age,
           Upload, StartCleanup, Purge, Take, PurgeObject, EndCleanup, CleanupThrows, CrashCleanup,
           ExpireLock
<1>3. ASSUME NEW q \in Pods, Purge(q) PROVE Pending(i)'
  <2>1. /\ row' = [j \in Ids |-> IF j \in Stale THEN "purged" ELSE row[j]]
        /\ job'[q] = [step |-> "delete", objects |-> Stale] /\ \A r \in Pods \ {q} : job'[r] = job[r]
        /\ job[q].step = "purge" /\ UNCHANGED object
      BY <1>3 DEF Purge, Take, Work, TypeOK, store
  <2>2. CASE i \in Stale
      BY <2>1, <2>2
  <2>3. CASE i \notin Stale
    <3>1. Pending(i)
        BY <1>1, <1>2, <2>1, <2>3 DEF PurgedLeaveNothing
    <3>2. QED
        BY <2>1, <3>1
  <2>4. QED
      BY <2>2, <2>3
<1>4. ASSUME ~\E q \in Pods : Purge(q) PROVE row[i] = "purged" /\ object[i] # "none"
  <2>1. row[i] = "purged"
      BY <1>1, <1>4, Writers DEF Create, ConfirmRow, Reject, SoftDelete, TypeOK
  <2>2. object[i] # "none"
    <3>1. age[i] = "old"
        BY <2>1 DEF ObjectsOfJobs
    <3>2. QED
        BY <1>1, <3>1, Writers DEF Upload, DeleteObject, PurgeObject, TypeOK
  <2>3. QED
      BY <2>1, <2>2
<1>5. ASSUME Pending(i), ~\E q \in Pods : Purge(q) PROVE Pending(i)'
  <2>1. PICK p \in Pods : job[p].step = "delete" /\ i \in job[p].objects
      BY <1>5
  <2>2. ASSUME NEW q \in Pods, NEW j \in Ids, PurgeObject(q, j) PROVE Pending(i)'
    <3>1. CASE p = q
      <4>1. i # j
          BY <1>1, <2>2 DEF PurgeObject, TypeOK
      <4>2. QED
          BY <2>1, <2>2, <3>1, <4>1, PurgeObjectEffect
    <3>2. QED
        BY <2>1, <2>2, <3>1, PurgeObjectEffect
  <2>3. ASSUME NEW q \in Pods, StartCleanup(q) \/ EndCleanup(q) \/ CleanupThrows(q) \/ CrashCleanup(q)
        PROVE  Pending(i)'
    <3>1. \A r \in Pods \ {q} : job'[r] = job[r]
        BY <2>3 DEF StartCleanup, EndCleanup, CleanupThrows, CrashCleanup, Work, TypeOK
    <3>2. p # q
        BY <1>1, <2>1, <2>3 DEF StartCleanup, Acquire, EndCleanup, CleanupThrows, CrashCleanup, TypeOK, NoJob
    <3>3. QED
        BY <2>1, <3>1, <3>2
  <2>4. QED
      BY <1>5, <2>1, <2>2, <2>3, JobWriters
<1>6. QED
    BY <1>2, <1>3, <1>4, <1>5 DEF PurgedLeaveNothing

(* All parts of the invariant hold in every reachable state.               *)
LEMMA Inductive == Spec => []IInv
<1>1. Init => IInv
  <2>1. Init => TypeOK
    <3>1. Init => lock \in BOOLEAN /\ outlived \in BOOLEAN
        BY Zenon DEF Init, LockInit
    <3>2. QED
        BY <3>1, PodsAssumption, RequestTypes, JobTypes DEF Init, LockInit, LockTypeOK, TypeOK, HasRow
  <2>2. QED
      BY <2>1 DEF Init, IInv, RowsOfRequests, ObjectsOfRequests, ObjectsOfJobs, CompletedHasObject,
                  PurgedLeaveNothing, At, Idle, NoJob
<1>2. IInv /\ [Next]_vars => IInv'
    BY TypeStep, RowsOfRequestsStep, ObjectsOfRequestsStep, ObjectsOfJobsStep, CompletedStep, PurgedStep
       DEF IInv
<1>3. QED
    BY <1>1, <1>2, PTL DEF Spec

(* A completed attachment that is not deleted has its object, whatever     *)
(* other requests and the cleanup job do between the HEAD and the update.  *)
THEOREM CompletedHaveObjects == Spec => []CompletedHasObject
<1>1. IInv => CompletedHasObject
    BY DEF IInv
<1>2. QED
    BY <1>1, Inductive, PTL

(* "Abandoned uploads don't accumulate": what the job has purged has no    *)
(* object, except one that is still to be deleted or whose DELETE failed.  *)
THEOREM PurgedAreCleaned == Spec => []PurgedLeaveNothing
<1>1. IInv => PurgedLeaveNothing
    BY DEF IInv
<1>2. QED
    BY <1>1, Inductive, PTL

=============================================================================

------------------------------- MODULE Sprints -------------------------------
(***************************************************************************)
(* The sprints of one project (PlanningService), used by several clients   *)
(* at once. Every method reads, decides and writes with separate           *)
(* statements and no transaction, so a request is a sequence of steps and  *)
(* may be cut off between any two of them:                                 *)
(*   start     getSprint -> findActive -> update status                    *)
(*   delete    getSprint -> delete                                         *)
(*   complete  getSprint (and target) -> read the statuses of category     *)
(*             'done' -> move the unfinished items -> update status        *)
(* Work items are seen by their iterationId and by whether their status is *)
(* of category 'done'; both are changed by updateWorkItem, unchecked.      *)
(***************************************************************************)
EXTENDS Naturals, FiniteSets

CONSTANTS
    Sprints,
    Items,
    Clients,    \* requests that can be in flight at the same time
    Backlog     \* iterationId = null

ASSUME BacklogAssumption == Backlog \notin Sprints
ASSUME ClientsAssumption == IsFiniteSet(Clients)

VARIABLES
    status,     \* of every sprint
    iteration,  \* of every item
    done,       \* items in a status of category 'done'
    hasDone,    \* the project has such a status (all may be deleted)
    request     \* of every client: the step it is before, and its arguments

vars == <<status, iteration, done, hasDone, request>>

Statuses == {"absent", "planned", "active", "completed", "deleted"}
Exists(s) == status[s] \notin {"absent", "deleted"}
Known == {s \in Sprints : status[s] # "absent"}
Active == {s \in Sprints : status[s] = "active"}

Steps == {"findActive", "activate", "remove", "readDone", "moveItems", "finish"}
Idle == [step |-> "idle"]
Request(step, s, t) == [step |-> step, sprint |-> s, target |-> t]
Requests ==
    {Idle} \cup [step : Steps, sprint : Known, target : Known \cup {Backlog}]

Init ==
    /\ status = [s \in Sprints |-> "absent"]
    /\ iteration = [i \in Items |-> Backlog]
    /\ done = {}
    /\ hasDone \in BOOLEAN
    /\ request = [c \in Clients |-> Idle]

-----------------------------------------------------------------------------
(* The parts of a request.                                                 *)

(* The first step: a check, after which the request is before step.        *)
Begin(c, step, s, t) ==
    /\ request[c] = Idle
    /\ request' = [request EXCEPT ![c] = Request(step, s, t)]
    /\ UNCHANGED <<status, iteration, done, hasDone>>

At(c, step) == request[c].step = step

GoTo(c, step) ==
    request' = [request EXCEPT ![c] = Request(step, @.sprint, @.target)]

Return(c) == request' = [request EXCEPT ![c] = Idle]

(* sprintRepo.update(id, {status}) and delete(id): by id alone, whatever   *)
(* the status is by now; without the row nothing is written.               *)
SetStatus(s, new) == status' = [status EXCEPT ![s] = IF Exists(s) THEN new ELSE @]

CreateSprint(s) ==
    /\ status[s] = "absent"
    /\ status' = [status EXCEPT ![s] = "planned"]
    /\ UNCHANGED <<iteration, done, hasDone, request>>

-----------------------------------------------------------------------------
(* Mutant: startSprint does not look at the status of the sprint.          *)
StartAny(c, s) == Exists(s) /\ Begin(c, "findActive", s, Backlog)

StartSprint(c, s) == status[s] = "planned" /\ Begin(c, "findActive", s, Backlog)

(* Mutant: another active sprint is no conflict.                           *)
FindActiveAny(c) ==
    /\ At(c, "findActive") /\ GoTo(c, "activate")
    /\ UNCHANGED <<status, iteration, done, hasDone>>

(* ConflictException when another sprint is active.                        *)
FindActive(c) ==
    /\ At(c, "findActive")
    /\ IF Active = {} THEN GoTo(c, "activate") ELSE Return(c)
    /\ UNCHANGED <<status, iteration, done, hasDone>>

Activate(c) ==
    /\ At(c, "activate")
    /\ SetStatus(request[c].sprint, "active")
    /\ Return(c)
    /\ UNCHANGED <<iteration, done, hasDone>>

DeleteSprint(c, s) == status[s] = "planned" /\ Begin(c, "remove", s, Backlog)

Remove(c) ==
    /\ At(c, "remove")
    /\ SetStatus(request[c].sprint, "deleted")
    /\ Return(c)
    /\ UNCHANGED <<iteration, done, hasDone>>

(* The target, if there is one, is a sprint of the project in any status,  *)
(* the completed sprint itself included.                                   *)
CompleteSprint(c, s, t) ==
    /\ status[s] = "active"
    /\ t \in {x \in Sprints : Exists(x)} \cup {Backlog}
    /\ Begin(c, "readDone", s, t)

(* Without a 'done' status nothing is moved.                               *)
ReadDone(c) ==
    /\ At(c, "readDone")
    /\ GoTo(c, IF hasDone THEN "moveItems" ELSE "finish")
    /\ UNCHANGED <<status, iteration, done, hasDone>>

MoveItems(c) ==
    /\ At(c, "moveItems")
    /\ iteration' = [i \in Items |->
          IF iteration[i] = request[c].sprint /\ i \notin done
          THEN request[c].target ELSE iteration[i]]
    /\ GoTo(c, "finish")
    /\ UNCHANGED <<status, done, hasDone>>

Finish(c) ==
    /\ At(c, "finish")
    /\ SetStatus(request[c].sprint, "completed")
    /\ Return(c)
    /\ UNCHANGED <<iteration, done, hasDone>>

(* A statement fails or the API process stops: the rest is not done.       *)
Abort(c) ==
    /\ request[c] # Idle
    /\ Return(c)
    /\ UNCHANGED <<status, iteration, done, hasDone>>

-----------------------------------------------------------------------------
(* updateWorkItem: the item is put into a sprint or the backlog. The id is *)
(* not looked up: the sprint may be deleted by now.                        *)
AssignItem(i, s) ==
    /\ s \in Known \cup {Backlog}
    /\ iteration' = [iteration EXCEPT ![i] = s]
    /\ UNCHANGED <<status, done, hasDone, request>>

(* updateWorkItem: the item enters or leaves a status of category 'done'.  *)
MoveOnBoard(i) ==
    /\ done' = IF i \in done THEN done \ {i} ELSE done \cup {i}
    /\ hasDone
    /\ UNCHANGED <<status, iteration, hasDone, request>>

-----------------------------------------------------------------------------
Planning(c) ==
    \/ \E s \in Sprints : StartSprint(c, s) \/ DeleteSprint(c, s)
    \/ \E s \in Sprints, t \in Sprints \cup {Backlog} : CompleteSprint(c, s, t)
    \/ FindActive(c) \/ Activate(c) \/ Remove(c)
    \/ ReadDone(c) \/ MoveItems(c) \/ Finish(c) \/ Abort(c)

Board == \E i \in Items :
    MoveOnBoard(i) \/ \E s \in Sprints \cup {Backlog} : AssignItem(i, s)

Next == Board \/ (\E s \in Sprints : CreateSprint(s)) \/ \E c \in Clients : Planning(c)

Spec == Init /\ [][Next]_vars
-----------------------------------------------------------------------------
(* Type correctness; requests and items name sprints created before.       *)
TypeOK ==
    /\ status \in [Sprints -> Statuses]
    /\ iteration \in [Items -> Sprints \cup {Backlog}]
    /\ done \subseteq Items
    /\ hasDone \in BOOLEAN
    /\ request \in [Clients -> Requests]
    /\ \A i \in Items : iteration[i] \in Known \cup {Backlog}

(* The check of startSprint is worth one sprint per concurrent request: as *)
(* many sprints can be active at once as requests can be in flight, and    *)
(* no more; one, if requests come one after the other.                     *)
ActiveBounded == Cardinality(Active) <= Cardinality(Clients)

(* Why: whoever has passed the check counts as if its sprint was active.   *)
Activating == {c \in Clients : request[c].step = "activate"}
ActiveOrActivating ==
    /\ IsFiniteSet(Active)
    /\ Cardinality(Active) + Cardinality(Activating) <= Cardinality(Clients)

(* The steps a sprint goes through.                                        *)
Flow == {<<"absent", "planned">>, <<"planned", "active">>, <<"active", "completed">>,
         <<"planned", "deleted">>}

(* What a stale check can do: a sprint that was started meanwhile, and may *)
(* be completed by now, is started or deleted all the same.                *)
Strays == {<<"completed", "active">>, <<"active", "deleted">>, <<"completed", "deleted">>}

(* "Sprint is not in planned state", "Only planned sprints can be deleted",*)
(* "Only active sprints can be completed": not so for concurrent requests. *)
StatusFollowsFlow ==
    [][\A s \in Sprints : status'[s] # status[s] => <<status[s], status'[s]>> \in Flow]_vars

(* "Another sprint is already active for this project": at most one is.    *)
(* Not so for two concurrent requests.                                     *)
OneActiveSprint == Cardinality(Active) <= 1

(* "Complete a sprint (active -> completed); moves unfinished items": none *)
(* is left when the request ends. Not so without a 'done' status, nor with *)
(* the sprint itself as the target.                                        *)
UnfinishedItemsMoved ==
    [][\A c \in Clients : Finish(c) =>
          \A i \in Items : iteration[i] = request[c].sprint => i \in done]_vars
=============================================================================

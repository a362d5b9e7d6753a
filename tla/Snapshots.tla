----------------------------- MODULE Snapshots ------------------------------
(***************************************************************************)
(* The daily snapshots of sprints: at midnight every worker pod tries to   *)
(* take the lock, and the one that has it reads, for each active sprint,   *)
(* the figures of its items and writes them into the row of that day       *)
(* (SnapshotCronService, ReportingService); the velocity report takes the  *)
(* latest row of a completed sprint.                                       *)
(* The four figures come from one statement: they are one number here, the *)
(* version of the sprint's items that was read.                            *)
(***************************************************************************)
EXTENDS CronLock

CONSTANTS
    Sprints,
    MaxDay,      \* bound on days
    MaxVersion   \* bound on the changes to the items of a sprint

(* What is assumed of the constants.                                       *)
DaysAssumption == MaxDay \in Nat \ {0} /\ MaxVersion \in Nat \ {0}

VARIABLES
    today,
    tried,       \* of every pod: the last day it tried to take the lock
    version,     \* of the items of every sprint, 0 before the sprint is active
    final,       \* the version when the sprint was completed, 0 until then
    snapshot,    \* sprint_daily_snapshots: the version of every sprint and day, 0 for none
    job          \* of every pod: where its job is, and what it read

work == <<version, final>>
vars == <<lockVars, today, tried, work, snapshot, job>>

Days == 1..MaxDay
Active == {s \in Sprints : version[s] # 0 /\ final[s] = 0}
NoJob == [step |-> "none"]
Jobs ==
    {NoJob} \cup [step : {"list"}]
    \cup [step : {"next"}, day : Days,
          listed : SUBSET Sprints, todo : SUBSET Sprints, failed : SUBSET Sprints]
    \cup [step : {"upsert"}, day : Days,
          listed : SUBSET Sprints, todo : SUBSET Sprints, failed : SUBSET Sprints,
          sprint : Sprints, read : 1..MaxVersion]

TypeOK ==
    /\ LockTypeOK
    /\ today \in Days /\ tried \in [Pods -> 0..MaxDay]
    /\ version \in [Sprints -> 0..MaxVersion] /\ final \in [Sprints -> 0..MaxVersion]
    /\ snapshot \in [Sprints \X Days -> 0..MaxVersion]
    /\ job \in [Pods -> Jobs] /\ \A p \in Pods : p \in running <=> job[p] # NoJob

Init ==
    /\ LockInit
    /\ today = 1
    /\ tried = [p \in Pods |-> 0]
    /\ version \in [Sprints -> {0, 1}]
    /\ final = [s \in Sprints |-> 0]
    /\ snapshot = [k \in Sprints \X Days |-> 0]
    /\ job = [p \in Pods |-> NoJob]

-----------------------------------------------------------------------------
(* What goes on besides.                                                   *)

NextDay ==
    /\ today < MaxDay
    /\ today' = today + 1
    /\ UNCHANGED <<lockVars, tried, work, snapshot, job>>

StartSprint(s) ==
    /\ version[s] = 0
    /\ version' = [version EXCEPT ![s] = 1]
    /\ UNCHANGED <<lockVars, today, tried, final, snapshot, job>>

ChangeItems(s) ==
    /\ version[s] # 0 /\ version[s] < MaxVersion
    /\ version' = [version EXCEPT ![s] = @ + 1]
    /\ UNCHANGED <<lockVars, today, tried, final, snapshot, job>>

CompleteSprint(s) ==
    /\ s \in Active
    /\ final' = [final EXCEPT ![s] = version[s]]
    /\ UNCHANGED <<lockVars, today, tried, version, snapshot, job>>

-----------------------------------------------------------------------------
(* The job.                                                                *)

(* Once a day; a pod that finds the lock held skips the day.               *)
Tick(p) ==
    /\ tried[p] < today /\ job[p] = NoJob
    /\ tried' = [tried EXCEPT ![p] = today]
    /\ \/ Acquire(p) /\ job' = [job EXCEPT ![p] = [step |-> "list"]]
       \/ lock /\ UNCHANGED <<lockVars, job>>
    /\ UNCHANGED <<today, work, snapshot>>

Work(p, j) == job' = [job EXCEPT ![p] = j]

ListActive(p) ==
    /\ job[p].step = "list"
    /\ Work(p, [step |-> "next", day |-> today, listed |-> Active, todo |-> Active, failed |-> {}])
    /\ UNCHANGED <<lockVars, today, tried, work, snapshot>>

Aggregate(p, s) ==
    /\ job[p].step = "next" /\ s \in job[p].todo
    /\ Work(p, [step |-> "upsert", day |-> job[p].day, listed |-> job[p].listed,
                todo |-> job[p].todo \ {s}, failed |-> job[p].failed,
                sprint |-> s, read |-> version[s]])
    /\ UNCHANGED <<lockVars, today, tried, work, snapshot>>

(* On to the sprints that are left of the list.                            *)
Continue(p, todo, failed) ==
    Work(p, [step |-> "next", day |-> job[p].day, listed |-> job[p].listed,
             todo |-> todo, failed |-> failed])

(* The row of the sprint and the day is inserted or overwritten.           *)
UpsertSnapshot(p) ==
    /\ job[p].step = "upsert"
    /\ snapshot' = [snapshot EXCEPT ![<<job[p].sprint, job[p].day>>] = job[p].read]
    /\ Continue(p, job[p].todo, job[p].failed)
    /\ UNCHANGED <<lockVars, today, tried, work>>

Fail(p, todo) ==
    /\ job[p].step = "upsert" /\ crashes < MaxCrashes
    /\ crashes' = crashes + 1
    /\ Continue(p, todo, job[p].failed \cup {job[p].sprint})
    /\ UNCHANGED <<lock, running, owner, outlived, today, tried, work, snapshot>>

(* Mutant: the loop is inside the try.                                     *)
GiveUp(p) == Fail(p, {})

(* One of the two statements throws: "Failed to take sprint snapshot", and *)
(* on to the next sprint.                                                  *)
SkipSprint(p) == Fail(p, job[p].todo)

FinishJob(p) ==
    /\ job[p].step = "next" /\ job[p].todo = {}
    /\ Release(p) \/ ReleaseFails(p)
    /\ Work(p, NoJob)
    /\ UNCHANGED <<today, tried, work, snapshot>>

(* The list of sprints cannot be read: the finally block still releases.   *)
ListThrows(p) ==
    /\ job[p].step = "list" /\ Throw(p)
    /\ Work(p, NoJob)
    /\ UNCHANGED <<today, tried, work, snapshot>>

CrashJob(p) ==
    /\ Crash(p)
    /\ Work(p, NoJob)
    /\ UNCHANGED <<today, tried, work, snapshot>>

ExpireJobLock ==
    Expire /\ UNCHANGED <<today, tried, work, snapshot, job>>

Next ==
    \/ NextDay \/ ExpireJobLock
    \/ \E s \in Sprints : StartSprint(s) \/ ChangeItems(s) \/ CompleteSprint(s)
    \/ \E p \in Pods :
          \/ Tick(p) \/ ListActive(p) \/ UpsertSnapshot(p) \/ SkipSprint(p)
          \/ FinishJob(p) \/ ListThrows(p) \/ CrashJob(p)
          \/ \E s \in Sprints : Aggregate(p, s)

Spec == Init /\ [][Next]_vars

-----------------------------------------------------------------------------
(* The velocity of a sprint: its latest snapshot, 0 when it has none.      *)
Velocity(s) ==
    LET taken == {d \in Days : snapshot[<<s, d>>] # 0}
    IN IF taken = {} THEN 0
       ELSE snapshot[<<s, CHOOSE d \in taken : \A e \in taken : e <= d>>]

(* A job that reaches its end has a snapshot of its day for every sprint   *)
(* that was active when it read the list, completed meanwhile or not, but  *)
(* those that failed: one that fails keeps none of the others from being   *)
(* taken. A sprint that is started after the list was read has none.       *)
FinishedJobsCover ==
    \A p \in Pods : job[p].step = "next" /\ job[p].todo = {} =>
        \A s \in job[p].listed :
            snapshot[<<s, job[p].day>>] # 0 \/ s \in job[p].failed

(* Refuted. "burndown charts always have today's data point": a pod that   *)
(* crashes, or a query that fails, leaves the day without one; the other   *)
(* pods have skipped it.                                                   *)
EveryDayHasItsPoint ==
    \A s \in Active : \A d \in 1..(today - 1) :
        (\A p \in Pods : job[p] = NoJob /\ tried[p] >= d) => snapshot[<<s, d>>] # 0

(* Refuted. "the final snapshot for every sprint": what is done between    *)
(* midnight and the completion of a sprint is in no snapshot.              *)
VelocityIsFinal ==
    (\A p \in Pods : job[p] = NoJob) =>
        \A s \in Sprints \ Active : Velocity(s) # 0 => Velocity(s) = final[s]
=============================================================================

------------------------------ MODULE Seeding -------------------------------
(***************************************************************************)
(* The projects of one key: created by requests, in one transaction        *)
(* (ProjectsService.createProject), and by the seed, which a deployment    *)
(* may run each time (SEED_ON_DEPLOY) while the application is in use and  *)
(* which commits every statement on its own.                               *)
(*   seed      fixtures -> project -> counter -> lead -> workflow, status  *)
(*             by status -> items, one by one -> counter                   *)
(*   create    findByKey -> transaction                                    *)
(*   an item   increment of the counter -> insert                          *)
(* A fixture is a row of the seed that is looked at alone: tenant,         *)
(* workspace, users, memberships, roles, subscription, SSO connection.     *)
(***************************************************************************)
EXTENDS Integers, FiniteSets, Sequences, SequencesExt

CONSTANTS
    Ids,         \* projects: a bound on their number
    SeedId,      \* the one with the fixed UUID
    Clients,
    SeedItems,   \* number of items the seed has for the project
    MaxNumber,   \* bound on item numbers, those of the seed among them
    MaxRuns      \* bound on runs of the seed

(* What is assumed of the constants.                                       *)
SeedAssumption ==
    /\ IsFiniteSet(Ids) /\ SeedId \in Ids
    /\ MaxNumber \in Nat /\ SeedItems \in 1..MaxNumber /\ MaxRuns \in Nat

(* Rows inserted unless they are there, but for the roles, whose           *)
(* permissions are written each time.                                      *)
Fixtures == <<"rows", "roles">>

(* The categories of the four default statuses, by position.               *)
Workflow == <<"to_do", "in_progress", "done", "done">>
Positions == DOMAIN Workflow

VARIABLES
    fixture,    \* of every fixture: absent, as the seed has it, or changed since
    project,    \* of every project: absent, live or deleted
    counter,    \* lastItemNumber, NoCounter without a row
    lead,       \* projects with a member
    statuses,   \* how many statuses every project has of each position
    items,      \* item numbers taken in every project
    seeder,     \* where the seed is
    runs,       \* runs of the seed so far
    quiet,      \* history: "run": this run is the only writer so far;
                \*   "since": nobody else has written since such a run began, and it ended
    refused,    \* history: an item was refused because its number was taken
    request     \* of every client: the step it is before, and what it read

rows == <<project, counter, lead, statuses, items>>
database == <<fixture, rows>>
history == <<quiet, refused>>
seed == <<seeder, runs>>
vars == <<database, seed, history, request>>

NoCounter == -1
Idle == [step |-> "idle"]
Requests ==
    {Idle} \cup [step : {"create"}, id : Ids] \cup [step : {"insert"}, id : Ids, number : 1..MaxNumber]
Seeders ==
    {Idle}
    \cup [step : {"fixture", "status", "item"}, id : Ids, next : 1..(MaxNumber + 4)]
    \cup [step : {"project", "counter", "lead", "workflow", "items", "setCounter"}, id : Ids]

TypeOK ==
    /\ fixture \in [ToSet(Fixtures) -> {"absent", "seeded", "changed"}]
    /\ project \in [Ids -> {"absent", "live", "deleted"}]
    /\ counter \in [Ids -> {NoCounter} \cup 0..MaxNumber]
    /\ lead \subseteq Ids
    /\ statuses \in [Ids -> [Positions -> 0..MaxRuns + 1]]
    /\ items \in [Ids -> SUBSET (1..MaxNumber)]
    /\ seeder \in Seeders /\ runs \in 0..MaxRuns
    /\ quiet \in {"no", "run", "since"} /\ refused \in BOOLEAN
    /\ request \in [Clients -> Requests]

None == [p \in Positions |-> 0]

Init ==
    /\ fixture = [f \in ToSet(Fixtures) |-> "absent"]
    /\ project = [i \in Ids |-> "absent"]
    /\ counter = [i \in Ids |-> NoCounter]
    /\ lead = {}
    /\ statuses = [i \in Ids |-> None]
    /\ items = [i \in Ids |-> {}]
    /\ seeder = Idle /\ runs = 0
    /\ quiet = "no" /\ refused = FALSE
    /\ request = [c \in Clients |-> Idle]

-----------------------------------------------------------------------------
(* Requests.                                                               *)
At(c, step) == request[c].step = step
GoTo(c, r) == request' = [request EXCEPT ![c] = r]
Touch == quiet' = "no" /\ UNCHANGED refused
Live == {i \in Ids : project[i] = "live"}
Taken == {i \in Ids : project[i] # "absent"}

(* The unique index on the key leaves deleted projects out.                *)
KeyIsFree == Live = {}

CreateProject(c, i) ==
    /\ request[c] = Idle
    /\ i \notin Taken \cup {SeedId} /\ \A d \in Clients : At(d, "create") => request[d].id # i
    /\ KeyIsFree
    /\ GoTo(c, [step |-> "create", id |-> i])
    /\ UNCHANGED <<database, seed, history>>

(* "in ONE transaction": project, counter, owner and statuses.             *)
CommitProject(c) ==
    LET i == request[c].id
    IN /\ At(c, "create") /\ KeyIsFree
       /\ project' = [project EXCEPT ![i] = "live"]
       /\ counter' = [counter EXCEPT ![i] = 0]
       /\ lead' = lead \cup {i}
       /\ statuses' = [statuses EXCEPT ![i] = [p \in Positions |-> 1]]
       /\ GoTo(c, Idle) /\ Touch
       /\ UNCHANGED <<fixture, items, seed>>

(* The index refuses the key, a statement fails or the process stops.      *)
Abort(c) ==
    /\ request[c] # Idle
    /\ GoTo(c, Idle)
    /\ UNCHANGED <<database, seed, history>>

DeleteProject(i) ==
    /\ i \in Live
    /\ project' = [project EXCEPT ![i] = "deleted"]
    /\ Touch
    /\ UNCHANGED <<fixture, counter, lead, statuses, items, seed, request>>

(* createWorkItem: the number is taken first.                              *)
TakeNumber(c, i) ==
    /\ request[c] = Idle
    /\ i \in Live /\ counter[i] \in 0..(MaxNumber - 1)
    /\ counter' = [counter EXCEPT ![i] = @ + 1]
    /\ GoTo(c, [step |-> "insert", id |-> i, number |-> counter[i] + 1])
    /\ Touch
    /\ UNCHANGED <<fixture, project, lead, statuses, items, seed>>

InsertItem(c) ==
    LET r == request[c]
    IN /\ At(c, "insert")
       /\ items' = [items EXCEPT ![r.id] = @ \cup {r.number}]
       /\ refused' = (refused \/ r.number \in items[r.id])
       /\ quiet' = "no"
       /\ GoTo(c, Idle)
       /\ UNCHANGED <<fixture, project, counter, lead, statuses, seed>>

(* Users change what was seeded: a password, a role, a membership.         *)
Change(f) ==
    /\ fixture[f] = "seeded"
    /\ fixture' = [fixture EXCEPT ![f] = "changed"]
    /\ Touch
    /\ UNCHANGED <<rows, seed, request>>

-----------------------------------------------------------------------------
(* The seed.                                                               *)
SeedAt(step) == seeder.step = step
SeedGoTo(step, i) == seeder' = [step |-> step, id |-> i]
SeedLoop(step, i, n) == seeder' = [step |-> step, id |-> i, next |-> n]

StartSeed ==
    /\ seeder = Idle /\ runs < MaxRuns
    /\ SeedLoop("fixture", SeedId, 1)
    /\ runs' = runs + 1
    /\ quiet' = IF quiet = "no" THEN "run" ELSE quiet
    /\ UNCHANGED <<database, refused, request>>

(* onConflictDoNothing, and for the roles onConflictDoUpdate.              *)
SeedFixture ==
    /\ SeedAt("fixture")
    /\ LET f == Fixtures[seeder.next]
       IN fixture' = [fixture EXCEPT ![f] = IF @ = "absent" \/ f = "roles" THEN "seeded" ELSE @]
    /\ IF seeder.next = Len(Fixtures) THEN SeedGoTo("project", SeedId)
       ELSE SeedLoop("fixture", SeedId, seeder.next + 1)
    /\ UNCHANGED <<rows, runs, history, request>>

(* The insert does nothing when the id or the key is taken; then the steps *)
(* that follow are for a row with the key, deleted ones included.          *)
SeedProject ==
    /\ SeedAt("project")
    /\ IF project[SeedId] = "absent" /\ KeyIsFree
       THEN project' = [project EXCEPT ![SeedId] = "live"] /\ SeedGoTo("counter", SeedId)
       ELSE UNCHANGED project /\ \E i \in Taken : SeedGoTo("counter", i)
    /\ UNCHANGED <<fixture, counter, lead, statuses, items, runs, history, request>>

SeedCounter ==
    /\ SeedAt("counter")
    /\ counter' = [counter EXCEPT ![seeder.id] = IF @ = NoCounter THEN 0 ELSE @]
    /\ SeedGoTo("lead", seeder.id)
    /\ UNCHANGED <<fixture, project, lead, statuses, items, runs, history, request>>

SeedLead ==
    /\ SeedAt("lead")
    /\ lead' = lead \cup {seeder.id}
    /\ SeedGoTo("workflow", seeder.id)
    /\ UNCHANGED <<fixture, project, counter, statuses, items, runs, history, request>>

(* Mutant: the statuses are inserted without a look; no index refuses them.*)
SeedWorkflowAgain ==
    /\ SeedAt("workflow")
    /\ SeedLoop("status", seeder.id, 1)
    /\ UNCHANGED <<database, runs, history, request>>

(* "only if none exist yet for this project".                              *)
SeedWorkflow ==
    /\ SeedAt("workflow")
    /\ IF statuses[seeder.id] = None THEN SeedLoop("status", seeder.id, 1)
       ELSE SeedGoTo("items", SeedId)
    /\ UNCHANGED <<database, runs, history, request>>

SeedStatus ==
    /\ SeedAt("status")
    /\ statuses' = [statuses EXCEPT ![seeder.id][seeder.next] = @ + 1]
    /\ IF seeder.next = Len(Workflow) THEN SeedGoTo("items", SeedId)
       ELSE SeedLoop("status", seeder.id, seeder.next + 1)
    /\ UNCHANGED <<fixture, project, counter, lead, items, runs, history, request>>

Categories(i) == {Workflow[p] : p \in {p \in Positions : statuses[i][p] > 0}}

EndSeed ==
    /\ seeder' = Idle
    /\ quiet' = IF quiet = "run" THEN "since" ELSE quiet
    /\ UNCHANGED refused

(* Items are for the project with the fixed id, if it has a status of      *)
(* every category.                                                         *)
SeedItemsOf ==
    /\ SeedAt("items")
    /\ IF Categories(SeedId) = {"to_do", "in_progress", "done"}
       THEN SeedLoop("item", SeedId, 1) /\ UNCHANGED history
       ELSE EndSeed
    /\ UNCHANGED <<database, runs, request>>

SeedItem ==
    /\ SeedAt("item")
    /\ items' = [items EXCEPT ![SeedId] = @ \cup {seeder.next}]
    /\ IF seeder.next = SeedItems THEN SeedGoTo("setCounter", SeedId)
       ELSE SeedLoop("item", SeedId, seeder.next + 1)
    /\ UNCHANGED <<fixture, project, counter, lead, statuses, runs, history, request>>

(* The counter is set, not raised.                                         *)
SeedSetCounter ==
    /\ SeedAt("setCounter")
    /\ counter' = [counter EXCEPT ![SeedId] = IF @ = NoCounter THEN @ ELSE SeedItems]
    /\ EndSeed
    /\ UNCHANGED <<fixture, project, lead, statuses, items, runs, request>>

(* A statement fails, or the job is stopped.                               *)
StopSeed ==
    /\ seeder # Idle
    /\ seeder' = Idle
    /\ quiet' = IF quiet = "run" THEN "no" ELSE quiet
    /\ UNCHANGED <<database, runs, refused, request>>

SeedStep ==
    \/ SeedFixture \/ SeedProject \/ SeedCounter \/ SeedLead \/ SeedWorkflow
    \/ SeedStatus \/ SeedItemsOf \/ SeedItem \/ SeedSetCounter

Next ==
    \/ StartSeed \/ SeedStep \/ StopSeed
    \/ \E f \in ToSet(Fixtures) : Change(f)
    \/ \E i \in Ids : DeleteProject(i)
    \/ \E c \in Clients :
          \/ CommitProject(c) \/ InsertItem(c) \/ Abort(c)
          \/ \E i \in Ids : CreateProject(c, i) \/ TakeNumber(c, i)

Spec == Init /\ [][Next]_vars

-----------------------------------------------------------------------------
NothingNew ==
    quiet = "since" /\ SeedStep /\ Cardinality(Taken) = 1 => UNCHANGED database

(* "Idempotent - safe to run multiple times": after a run that reached its *)
(* end a further one writes nothing new, unless somebody else has written  *)
(* in between, or several projects have had the key: the row to go on with *)
(* is then any of them.                                                    *)
ReseedChangesNothing == [][NothingNew]_vars

(* Refuted. A seeded project has its workflow when the seed is at rest: a  *)
(* run that is stopped leaves one that later runs do not complete.         *)
SeededAreComplete ==
    quiet = "since" => \A i \in Live : \A p \in Positions : statuses[i][p] = 1

(* Refuted. "Safe to call multiple times": an item of a project that is in *)
(* use is refused while the seed has inserted its items and not yet set    *)
(* the counter, and after it has set the counter back.                     *)
NumbersStayFree == ~refused

(* Refuted. "all inserts use onConflictDoNothing": the permissions of a    *)
(* role that were changed are written over.                                *)
ChangesStay == [][SeedStep => \A f \in ToSet(Fixtures) : fixture[f] = "changed" => fixture'[f] = "changed"]_vars
=============================================================================

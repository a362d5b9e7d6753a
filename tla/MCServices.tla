----------------------------- MODULE MCServices -----------------------------
(***************************************************************************)
(* The modules that are about one service each, checked in one run: the    *)
(* initial state says which of them it is, and the variables of the others *)
(* have no value. A variable that several of them have by the same name is *)
(* declared once.                                                          *)
(***************************************************************************)
EXTENDS Naturals, FiniteSets, TLC

CONSTANTS
    Clients, Pods, MaxCrashes,
    Ids, Roles, Sessions, TTL, MaxWait,                     \* AccessRoles
    Callers, Limit, MaxFailures,                            \* HttpPipeline
    Mails, MaxAttempts, Retries, Threshold, Cooldown, Dedups, \* EmailDelivery
    NotificationTypes, Wildcard,                            \* NotificationPreferences
    Items, Ranks, Projects, Logs, MaxHours,                 \* Reordering, ItemTree, TimeLogs
    Sprints, MaxDay, MaxVersion,                            \* Snapshots
    SeedId, Writers, SeedItems, MaxNumber, MaxRuns          \* Seeding

VARIABLES
    on,
    assignment, token, since,
    half, bucket, passed, cache, storing, handled, overlapped, failures,
    batch, written, call, circuit, late, inbox,
    rows, asked,
    rank, deleted, agreed, aborted,
    item, moved,
    tagged, alone, failed,
    log, actualHours, mixed, inStep, watching, autoWatch, unwatched,
    running, owner, outlived, today, version, final, snapshot, job,
    fixture, project, counter, lead, statuses, items, seeder, runs, quiet, refused,
    request, row, lock, crashes, tried

Table == INSTANCE Routes

Access == INSTANCE AccessRoles
Http == INSTANCE HttpPipeline
    WITH Served <- {r \in Table!Routes : r.name \in {"POST work-items/:id/time-logs", "GET healthz"}}
Email == INSTANCE EmailDelivery
Preferences == INSTANCE NotificationPreferences WITH Types <- NotificationTypes
Order == INSTANCE Reordering
Tree == INSTANCE ItemTree
Removal == INSTANCE Removals
Time == INSTANCE TimeLogs
Snapshot == INSTANCE Snapshots
Seed == INSTANCE Seeding WITH Clients <- Writers

ASSUME ServicesAssumption ==
    /\ Access!AccessAssumption /\ Http!PipelineAssumption /\ Email!DeliveryAssumption
    /\ Preferences!WildcardAssumption /\ Order!ReorderingAssumption /\ Tree!ItemTreeAssumption
    /\ Time!TimeLogsAssumption /\ Snapshot!DaysAssumption /\ Seed!SeedAssumption

Unused == "unused"

OthersUnused ==
    /\ IF on = "access" THEN TRUE ELSE
          /\ assignment = Unused /\ token = Unused /\ since = Unused
    /\ IF on = "http" THEN TRUE ELSE
          /\ half = Unused /\ bucket = Unused /\ passed = Unused
          /\ cache = Unused /\ storing = Unused /\ handled = Unused
          /\ overlapped = Unused /\ failures = Unused
    /\ IF on = "email" THEN TRUE ELSE
          /\ batch = Unused /\ written = Unused /\ call = Unused
          /\ circuit = Unused /\ late = Unused /\ inbox = Unused
    /\ IF on = "preferences" THEN TRUE ELSE
          /\ rows = Unused /\ asked = Unused
    /\ IF on = "order" THEN TRUE ELSE
          /\ rank = Unused /\ deleted = Unused /\ agreed = Unused
          /\ aborted = Unused
    /\ IF on = "tree" THEN TRUE ELSE
          /\ item = Unused /\ moved = Unused
    /\ IF on = "removal" THEN TRUE ELSE
          /\ tagged = Unused /\ alone = Unused /\ failed = Unused
    /\ IF on = "time" THEN TRUE ELSE
          /\ log = Unused /\ actualHours = Unused /\ mixed = Unused
          /\ inStep = Unused /\ watching = Unused /\ autoWatch = Unused
          /\ unwatched = Unused
    /\ IF on = "snapshot" THEN TRUE ELSE
          /\ running = Unused /\ owner = Unused /\ outlived = Unused
          /\ today = Unused /\ version = Unused /\ final = Unused
          /\ snapshot = Unused /\ job = Unused
    /\ IF on = "seed" THEN TRUE ELSE
          /\ fixture = Unused /\ project = Unused /\ counter = Unused
          /\ lead = Unused /\ statuses = Unused /\ items = Unused
          /\ seeder = Unused /\ runs = Unused /\ quiet = Unused
          /\ refused = Unused
    /\ IF on \in {"access", "http", "order", "tree", "removal", "time", "seed"} THEN TRUE ELSE request = Unused
    /\ IF on \in {"email", "removal"} THEN TRUE ELSE row = Unused
    /\ IF on \in {"order", "time", "snapshot"} THEN TRUE ELSE lock = Unused
    /\ IF on \in {"email", "snapshot"} THEN TRUE ELSE crashes = Unused
    /\ IF on \in {"email", "snapshot"} THEN TRUE ELSE tried = Unused

OthersUnchanged ==
    /\ IF on = "access" THEN TRUE ELSE UNCHANGED <<assignment, token, since>>
    /\ IF on = "http" THEN TRUE ELSE UNCHANGED <<half, bucket, passed, cache, storing, handled, overlapped, failures>>
    /\ IF on = "email" THEN TRUE ELSE UNCHANGED <<batch, written, call, circuit, late, inbox>>
    /\ IF on = "preferences" THEN TRUE ELSE UNCHANGED <<rows, asked>>
    /\ IF on = "order" THEN TRUE ELSE UNCHANGED <<rank, deleted, agreed, aborted>>
    /\ IF on = "tree" THEN TRUE ELSE UNCHANGED <<item, moved>>
    /\ IF on = "removal" THEN TRUE ELSE UNCHANGED <<tagged, alone, failed>>
    /\ IF on = "time" THEN TRUE ELSE UNCHANGED <<log, actualHours, mixed, inStep, watching, autoWatch, unwatched>>
    /\ IF on = "snapshot" THEN TRUE ELSE UNCHANGED <<running, owner, outlived, today, version, final, snapshot, job>>
    /\ IF on = "seed" THEN TRUE ELSE UNCHANGED <<fixture, project, counter, lead, statuses, items, seeder, runs, quiet, refused>>
    /\ IF on \in {"access", "http", "order", "tree", "removal", "time", "seed"} THEN TRUE ELSE UNCHANGED request
    /\ IF on \in {"email", "removal"} THEN TRUE ELSE UNCHANGED row
    /\ IF on \in {"order", "time", "snapshot"} THEN TRUE ELSE UNCHANGED lock
    /\ IF on \in {"email", "snapshot"} THEN TRUE ELSE UNCHANGED crashes
    /\ IF on \in {"email", "snapshot"} THEN TRUE ELSE UNCHANGED tried

Init ==
    /\ on \in {"access", "http", "email", "preferences", "order",
               "tree", "removal", "time", "snapshot", "seed"}
    /\ \/ on = "access" /\ Access!Init
       \/ on = "http" /\ Http!Init
       \/ on = "email" /\ Email!Init
       \/ on = "preferences" /\ Preferences!Init
       \/ on = "order" /\ Order!Init
       \/ on = "tree" /\ Tree!Init
       \/ on = "removal" /\ Removal!Init
       \/ on = "time" /\ Time!Init
       \/ on = "snapshot" /\ Snapshot!Init
       \/ on = "seed" /\ Seed!Init
    /\ OthersUnused

Next ==
    /\ \/ on = "access" /\ Access!Next
       \/ on = "http" /\ Http!Next
       \/ on = "email" /\ Email!Next
       \/ on = "preferences" /\ Preferences!Next
       \/ on = "order" /\ Order!Next
       \/ on = "tree" /\ Tree!Next
       \/ on = "removal" /\ Removal!Next
       \/ on = "time" /\ Time!Next
       \/ on = "snapshot" /\ Snapshot!Next
       \/ on = "seed" /\ Seed!Next
    /\ OthersUnchanged
    /\ UNCHANGED on

vars ==
    <<on, assignment, token, since, half, bucket, passed, cache, storing,
      handled, overlapped, failures, batch, written, call, circuit, late,
      inbox, rows, asked, rank, deleted, agreed, aborted, item, moved, tagged,
      alone, failed, log, actualHours, mixed, inStep, watching, autoWatch, unwatched,
      running, owner, outlived, today, version, final, snapshot, job, fixture,
      project, counter, lead, statuses, items, seeder, runs, quiet, refused,
      request, row, lock, crashes, tried>>

Spec == Init /\ [][Next]_vars

Symmetry ==
    Permutations(Clients) \cup Permutations(Pods) \cup Permutations(Logs) \cup Permutations(Sprints)

-----------------------------------------------------------------------------
(* The properties of the modules, under their names there.                 *)

TypeOK ==
    /\ on = "access" => Access!TypeOK
    /\ on = "http" => Http!TypeOK
    /\ on = "email" => Email!TypeOK
    /\ on = "preferences" => Preferences!TypeOK
    /\ on = "order" => Order!TypeOK
    /\ on = "tree" => Tree!TypeOK
    /\ on = "removal" => Removal!TypeOK
    /\ on = "time" => Time!TypeOK
    /\ on = "snapshot" => Snapshot!TypeOK
    /\ on = "seed" => Seed!TypeOK
AccessIsRecent == on = "access" => Access!AccessIsRecent
AtMostTwiceTheLimit == on = "http" => Http!AtMostTwiceTheLimit
RetriesAreSafe == on = "http" => Http!RetriesAreSafe
MailedOnce == on = "email" => Email!MailedOnce
EmailKeepsContract ==
    /\ on = "email" => Email!ContractInit
    /\ [][on = "email" => Email!ContractStep]_vars
ExplicitChoiceHolds == on = "preferences" => Preferences!ExplicitChoiceHolds
ReorderIsSerial == on = "order" => Order!ReorderIsSerial
CreatedInPlace == on = "tree" => Tree!CreatedInPlace
HoursFollowLogs == on = "time" => Time!HoursFollowLogs
RemovalHolds == [][on = "removal" => Removal!StaysRemoved]_vars
FinishedJobsCover == on = "snapshot" => Snapshot!FinishedJobsCover
ReseedChangesNothing == [][on = "seed" => Seed!NothingNew]_vars

-----------------------------------------------------------------------------
(* Refuted: what the sources or their comments suggest of these services,  *)
(* and does not hold. Services.cfg names them, one at a time.              *)

AssignedOnce == on = "access" => Access!AssignedOnce
SlidingWindow == on = "http" => Http!SlidingWindow
OverlappingRetriesAreSafe == on = "http" => Http!OverlappingRetriesAreSafe
FailedWasTried == on = "email" => Email!FailedWasTried
OneMailAnyProvider == on = "email" => Email!OneMailAnyProvider
EmailFollowsPreference == on = "preferences" => Preferences!EmailFollowsPreference
ReordersSucceed == on = "order" => Order!ReordersSucceed
TreePerProject == on = "tree" => Tree!TreePerProject
TasksUnderItems == on = "tree" => Tree!TasksUnderItems
NoOrphans == on = "tree" => Tree!NoOrphans
RemovedCanReturn == on = "removal" => Removal!RemovedCanReturn
LabelsExist == on = "removal" => Removal!LabelsExist
UnwatchHolds == on = "time" => Time!UnwatchHolds
EveryDayHasItsPoint == on = "snapshot" => Snapshot!EveryDayHasItsPoint
VelocityIsFinal == on = "snapshot" => Snapshot!VelocityIsFinal
SeededAreComplete == on = "seed" => Seed!SeededAreComplete
NumbersStayFree == on = "seed" => Seed!NumbersStayFree
=============================================================================

SPECIFICATION Spec
CONSTANTS
    Clients = {c1, c2}
    Pods = {p1, p2}
    MaxCrashes = 1
    Ids = {i0, i1}
    Roles = {"workspace_admin", "project_member"}
    Sessions = {s1}
    TTL = 2
    MaxWait = 1
    Callers = {u1, u2}
    Limit = 1
    MaxFailures = 1
    Mails = {m1, m2}
    MaxAttempts = 2
    Retries = 1
    Threshold = 2
    Cooldown = 1
    Dedups = TRUE
    NotificationTypes = {t1, t2}
    Wildcard = Wildcard
    Items = {w1, w2}
    Ranks = {1, 2}
    Projects = {j1, j2}
    Logs = {l1, l2}
    MaxHours = 2
    Sprints = {k1, k2}
    MaxDay = 2
    MaxVersion = 2
    SeedId = i0
    Writers = {c3}
    SeedItems = 1
    MaxNumber = 2
    MaxRuns = 2
SYMMETRY Symmetry
CHECK_DEADLOCK FALSE
INVARIANTS
    AccessIsRecent
    AtMostTwiceTheLimit
    RetriesAreSafe
    MailedOnce
    ExplicitChoiceHolds
    ReorderIsSerial
    CreatedInPlace
    HoursFollowLogs
    FinishedJobsCover
PROPERTIES
    RemovalHolds
    ReseedChangesNothing
    EmailKeepsContract

\* Refuted: each of these has a counterexample when it is the only INVARIANT
\* and SYMMETRY is removed (OneMailAnyProvider with Dedups = FALSE).
\*   AssignedOnce
\*   SlidingWindow
\*   OverlappingRetriesAreSafe
\*   FailedWasTried
\*   OneMailAnyProvider
\*   EmailFollowsPreference
\*   ReordersSucceed
\*   TreePerProject
\*   TasksUnderItems
\*   NoOrphans
\*   RemovedCanReturn
\*   LabelsExist
\*   UnwatchHolds
\*   EveryDayHasItsPoint
\*   VelocityIsFinal
\*   SeededAreComplete
\*   NumbersStayFree
\* The same as PROPERTY, with their own module, its constants from above and
\* its specification Spec: TokensCarryAllRoles of AccessRoles,
\* OnlyGivenChannelsChange and ResetEnablesBoth of NotificationPreferences,
\* HoursAlwaysFollowLogs of TimeLogs, ReleasedStay of Removals, ChangesStay of
\* Seeding.

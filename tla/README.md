# TLA+ specifications of rally-api

rally-api is the backend of a project-tracking product: a NestJS monorepo with
two processes, an HTTP **API** and a background **worker**, over PostgreSQL
(drizzle), Valkey (locks, pub/sub, denylist, idempotency keys), SNS/SQS (events)
and S3 (attachments). This directory holds TLA+ models of its stateful parts, TLC
configurations that check them on small instances, and TLAPS proofs of the
properties that matter most, for instances of every size.

    tlc -config OutboxRelay.cfg MCOutboxRelay     model-check one configuration
    tlapm OutboxRelay_proofs.tla                  check the proofs of one module

`PROJECT.json` lists components, runs, hazards and theorems, and maps
every definition to the lines it models. Line numbers below are of the same commit.

Contents: [1 The system](#1-the-system) ·
[2 How the code is modelled](#2-how-the-code-is-modelled) ·
[3 Modules](#3-modules-and-their-correspondence-to-the-code) ·
[4 Runs](#4-runs) · [5 Fairness](#5-fairness) · [6 Proofs](#6-proofs) ·
[7 Findings](#7-where-code-and-comments-disagree) ·
[8 Not modelled](#8-what-is-not-modelled) · [9 Plan](#9-plan)

## 1 The system

```
             HTTP                                     SSE
  clients ---------> API pods <------------------- browser tabs
                      |  ^  \                          ^
         transactions |  |   \ SUBSCRIBE               | pushes
                      v  |    v                        |
                 PostgreSQL   Valkey <---- PUBLISH ----+---- worker pods
              (tables, outbox    (locks, pub/sub,      |     (3 outbox relays,
               tables)            denylist, keys)      |      audit consumer, crons)
                      ^                                |        |        ^
                      +---- SELECT ... FOR UPDATE SKIP LOCKED --+        |
                                                 SNS ---> SQS audit queue+
```

A business transaction writes its rows and, with them, rows of an outbox table.
Worker pods relay those: events to SNS, emails to SES, notifications to the in-app
inbox and from there over Valkey to the browsers. The audit consumer reads the SQS
queue behind SNS and writes the audit log.

### Components

| component | state | operations | hard about it | what makes it correct |
|---|---|---|---|---|
| **Outbox relay loop** `platform/src/outbox/abstract-outbox-relay.ts` | outbox rows (status, attempts, scheduled_at), row locks; per pod isRelaying, wakeOnComplete, the open transaction, post-commit tasks | cron tick, wake, relay(): fetch, processRow, markSent/markFailed, commit, tasks | several pods; effects outside the transaction; lost sessions, unknown commit results, crashes; wakes during a run | batches exclusive, failures counted once, nothing acknowledged unhandled, tasks once and after their commit, every row settles, no wake forgotten |
| **Notification relay** `apps/worker/src/notifications` | in_app_notifications, preferences, email_outbox on top of the relay | processRow (in-app insert on a pool connection), push and email task | the insert is durable although the outbox transaction rolls back; retries deduplicate | inbox holds what is 'sent'; at most one push, and only after it |
| **Notification preferences** `modules/notifications` | one row per user and type, '*' as wildcard | upsert, reset, isEnabled | partial updates against defaults | what the user set explicitly decides |
| **Notification streams** `notification-sse.controller.ts`, `notification-pubsub.service.ts` | map channel -> handlers, subscriber connection, per stream cursor | stream(): replay, subscribe, live pushes, disconnect | awaits between the check of the map and SUBSCRIBE; disconnects meanwhile; replay against live | subscription in step with the map; pushes reach live streams |
| **Audit pipeline** `apps/worker/src/consumers`, `modules/audit` | SQS messages, audit_logs | publish, receive, record, delete | at-least-once on both sides, redelivery, dead letters, failed inserts | only a failed insert loses an event; what was sent is logged in the end |
| **Planning** `modules/planning` | sprints (status), items (iteration) | create, start, delete, complete | check and write are separate statements without a transaction | one active sprint, statuses follow the flow unless overtaken, unfinished items move on |
| **Work items** `modules/work-items` | items (number, status, deleted), activity log | create, update, move, delete | counters, checks against stale rows, requests cut off | unique keys, transitions respected, log replays, archived is read-only |
| **Order and tree of work items** | rank, parent_id (no foreign key) | reorder, update, createTask, delete | row locks taken in the order of a body; parents checked by a read before the write | a reorder happens whole or not at all; what was created under a parent is in its place |
| **Time logs and watchers** | time_logs, actual_hours (a trigger), work_item_watchers | log, edit, delete, watch, unwatch | the trigger sums before it has the item's row; a watch nobody waits for | actual_hours is the sum of the logs |
| **Attachments** work-items + `platform/src/storage` | attachment rows (pending, completed, deleted), S3 objects | presign, upload, confirm, delete; cleanup job | cleanup races confirm; two stores | a completed attachment has an object; nothing stays pending |
| **Projects and workflows** `modules/projects`, `modules/workflow` | project status, counters, workflow statuses and transitions, members, teams, labels | create, archive, restore, delete, edit workflow, rosters | changes of a project while its items change; rows that stay when removed | see work items; who was removed stays removed |
| **Sessions and authentication** `modules/identity`, `platform/src/auth` | auth_sessions (family, revoked, expiry), reset tokens, password, denylist in Valkey | login, SSO login, refresh, logout, switch tenant, change/forgot/reset password | checks before the transaction that writes; Valkey and Postgres in one Promise.all | one live session per family, resets end sessions, tokens are used once |
| **Accounts** `modules/identity`, `modules/tenancy`, `modules/access` | users, SSO identities, tenants, domains, keycards, members, roles | signup, ssoLogin, login | a dozen statements of their own; two ways to one address; a domain that opens meanwhile | who joins is no admin; who has an account can log in |
| **Tenancy** `modules/tenancy` | workspaces, members, invitations, teams | invite, accept, cancel, add/update/remove member | status of an invitation read outside the transaction; sole-admin rule | an invitation makes members once; who redeems is a member; who was suspended stays out |
| **Access** `modules/access`, `platform/src/auth` | assignments; the permissions in a token | assign, revoke, ensureDefaultRole, mint, PermissionGuard | permissions are read once and carried for the life of a token | a token allows what was in force at most one lifetime ago |
| **Rate limit, idempotency** `platform/src/http`, `rate-limit` | Valkey keys | guard, interceptor | fixed windows; Valkey failing; a retry while the first request is handled | at most twice the limit in any window; one effect per key |
| **Email relay** `apps/worker/src/email`, `platform/src/email`, `resilience` | email_outbox, breaker state | schedule, send, mark | mails sent inside the transaction; a timeout leaves the request behind | one mail per event where the provider knows the key; 'sent' was accepted |
| **Releases** `modules/releases` | releases (status) | create, update, ship, delete | check and write are two statements | a released one stays |
| **Reporting** `modules/reporting` + snapshot cron | one snapshot per sprint and day | nightly upsert, velocity | one sprint fails, a pod crashes, sprints start and end meanwhile | a job that ends has covered every sprint of its list |
| **Cron jobs and lock** `apps/worker/src/cron`, `valkey.service.ts` | a Valkey key with a time to live | acquireLock, job, releaseLock | a job that outlives its lock; unconditional DEL | one pod runs the job |
| **Seeds** `src/db/seeds` | demo tenant, project, workflow, items, roles | seed on each deployment | every statement commits alone, beside requests | a second run changes nothing |
| **Comments, settings; database access, configuration, errors, contracts** | single rows, or none | | | |

Interactions modelled: every relay subclass inherits the loop (`NotificationRelay`
EXTENDS `OutboxRelay`); the audit pipeline composes the outbox contract with SQS and
the consumers; the work-item model holds the project and its workflow next to the
items; streams meet the relay in `pushed` and the inbox; `Attachments` and `Snapshots` run
their jobs under the lock of `CronLock`; `AccessRoles` and `HttpPipeline` ask `Routes`
what the decorators of a controller demand.

## 2 How the code is modelled

- **A step** is what other processes see as one: a committed transaction, a single
  autocommitted statement, a Valkey command, or in a process the code from one `await`
  to the next. A request that runs several statements is a record in `request` (or a
  program counter `pc`) with the step it is before and what it has read so far.
- **Failures** are actions: `Abort` ends a request between two steps (a statement
  fails, the process stops); the relay, the stream and the audit model name theirs.
- **Data** is abstract: ids are model values, an email or a notification is its id, a
  password its version. Wording, payloads and HTTP shapes are left out.
- **History variables** (marked `history:` in the modules) only record what happened;
  no guard reads one. Counters that could grow for ever (`faults`, `errors`,
  notifications, passwords, activity entries) have a bound that is a CONSTANT.
- **Mutants**: definitions whose comment begins with `Mutant:` are plausible bugs. They
  occur in no specification; with one in the place of the definition it varies, TLC
  finds the property violated, which shows that the property depends on that line.
- **Deadlock** is checked in the models of the relay, the notification relay, the
  audit pipeline, the sprints and the attachments. `CHECK_DEADLOCK FALSE` stands in
  the configurations of `NotificationStream`, `WorkItems`, `AuthSessions`,
  `Workspaces`, `Provisioning` and `Services`, whose bounds let the system really
  stop: all connections were made, all item numbers, session or invitation ids are
  used up, every address has its account, or the last day is over. Locks that
  requests wait for in a circle are part of the model of `Reordering`, where
  PostgreSQL breaks the circle.

## 3 Modules and their correspondence to the code

### OutboxContract, OutboxRelay

`OutboxRelay` is `AbstractOutboxRelay.relay()` run by a set of pods against one table.
`Call` is the head of `relay()` (isRelaying / wakeOnComplete), `Trigger` the cron tick or
a wake, `FetchBatch` the `SELECT ... FOR UPDATE SKIP LOCKED` (an earliest batch of
unlocked, due rows under maxAttempts), `HandlerReturns` and `HandlerThrows` the two ways
out of `processRow` with the mark that follows, `Commit` the end of the transaction with
the post-commit tasks and the finally block, `Immediate` the `setImmediate` of a
remembered wake. Failures: `BeginFails`, `LoseSession` (the server drops the session and
its locks; the pod learns of it at its next statement), `TxFails`, `CommitUnknown`
(applied, but the answer is lost), `Crash`. `handled` counts effects outside the
transaction. OutboxRelayService (SNS) is the instance whose processRow returns no task.

`OutboxContract` is what the relay promises, without pods, locks or sessions: *Insert,
Handle, Settle, Notify*. `OutboxRelay!ContractSpec` is the refinement, with `handled` and
`notified` mapped to the rows whose counters are positive. The e-mail relay, which has a
model of its own because of what happens between it and the provider, keeps the same
contract (`EmailKeepsContract`): there a row is handled when the provider takes the mail.

### NotificationRelay

EXTENDS `OutboxRelay` with `NotificationRelayService`: each inherited action is conjoined
with what the subclass does. processRow becomes two steps, because its insert runs on a
pool connection and is durable before the outbox row is marked: `SendInApp`, then
`ReturnTask`; or `Suppress` (switched off), `Deduplicated` (ON CONFLICT DO NOTHING), or
`ProcessRowThrows`. The task is `Push`, then `ScheduleEmail`; a failed push ends it.

### NotificationPreferences

`upsert` (partial body, defaults for a new row), `reset`, `isEnabled` with the wildcard,
and the relay's order of questions (in-app first, the email only for what was inserted).
One action per statement: the statements are single upserts.

### NotificationStream

The streams of one user on one API process: `Connect`, `QueryMissed`, `Replay` (with the
head of `subscribe()` up to the await of SUBSCRIBE), `ReceiveAck` (the continuation after
it), `ReceiveMessage`, `Disconnect` with `Leave` (the unsubscribe function), and the
external Valkey connection as two queues (`commands`, `wire`; `Execute`, `CommandFails`).
`ReceiveAck` runs the continuation at once; in ioredis a message of the same chunk of
data may be emitted before it, and the joining stream then does not get it. That is why
`owed`, which the delivery property is about, only counts pushes sent when no command was
under way. Heartbeats, and reconnects of the subscriber connection, are left out.

### AuditPipeline

The publishing side is an INSTANCE of `OutboxContract` (`OutboxStep`, `Publish`), SQS is an
external queue (`Receive`, `VisibilityEnds`, `DeadLetter` with the redrive policy of
`scripts/localstack/init.sh`), and the consumer is `Receive` -> `Record`, `RecordFails` or
`Unparseable` -> `Delete`, with lost deletes and restarts.

### Sprints

`PlanningService` for one project: `StartSprint, FindActive, Activate`; `DeleteSprint,
Remove`; `CompleteSprint, ReadDone, MoveItems, Finish`, one step per statement since the
service opens no transaction. `AssignItem` and `MoveOnBoard` are what updateWorkItem does
to the two columns the sprints depend on.

### WorkItems

Create: `CreateWorkItem` (checks), `GenerateItemKey` (archived check), `IncrementCounter`,
`InsertItem`. Update and move: `UpdateWorkItem`, `AssertTransitionAllowed`, `WriteUpdate`
(item and activity, one transaction). Delete, archive, restore, delete of the project, and
`EditWorkflow` for the rows of statuses and transitions.

### AuthSessions

The sessions of one user. `Verify` and `Login` are both kinds of login; `FindSession`,
`RevokeFamily` and `Rotate` are `refresh`; `UseAccessToken` is the JWT guard in front of
logout, logoutAll and switchTenant, whose two promises (`Deny`; `Logout` or
`SwitchTenant`) settle in either order; `VerifyCurrent`/`ChangePassword`, `ForgotPassword`,
`FindToken`/`ResetPassword` are the password operations; `Expire`, `ExpireToken` and
`Purge` are time and the cleanup job. A session row stands for its refresh token and for
the access token issued with it. The expiry of access tokens is not modelled (a token may
be used as long as its row exists), so what holds here holds with any JWT_ACCESS_EXPIRY.
`users.status` is not modelled: no code changes it after creation, and the user-level
denylist of the guard is written by nothing.

### Workspaces

`TenancyService` for one workspace and one invited address: `AddMember`, `EnrollMember`
-> `InsertMember` (refused by the unique index if there is a row); `UpdateMember`,
`RemoveMember` -> `WriteMember`; `InviteMember` -> `Rotate` -> `CommitInvite`;
`CancelInvitation` -> `Cancel`; `AcceptInvitation` (the checks) -> `FindMember` ->
`Accept` (the transaction, which inserts or not by what `findMember` saw);
`ExpireInvitations` is the third statement of the cleanup job, `PassExpiry` is time. The
transaction of `inviteMember` is two steps: `Rotate` locks the rows it cancels, and who
wants to write one waits (`IsLocked`); nobody sees the cancellation before
`CommitInvite`. All other transactions and statements are one step. Any user may hold
the token. Roles are left out: the only check on them compares a uuid with `'admin'`.

### Provisioning

How accounts come about: `Signup` -> `FindAutoJoinTarget` -> `IsDomainClaimed`, the
transaction that provisions a tenant, then user, keycard, member, role and session, each
a statement of its own; `ssoLogin` with its second look for the identity, `login` with
the choice of a tenant. Any request can be cut off before any of them.

### Attachments, CronLock

`Attachments` follows a row and its object: presign, the client's upload, confirm (find,
HEAD, update by id), delete, and the job that deletes old pending rows first and their
objects after. `CronLock` is SET NX PX and the unconditional DEL; the key may expire at any
time, which `outlived` remembers when it happened under a running job.

### One service each: AccessRoles, HttpPipeline, EmailDelivery, Reordering, ItemTree, TimeLogs, Removals, Snapshots, Seeding, NotificationPreferences

| module | the code's steps |
|---|---|
| `AccessRoles` | `AssignRole` (look) -> `CreateAssignment`; `RevokeRole` -> `DeleteAssignment`; `Mint` -> `GetUserRoleAndPermissions` -> `SignAccessToken`; time in ticks |
| `HttpPipeline` | `Arrives` -> `PassGuard` (the counter) -> `GetCached` -> `Handle` -> `Store`, which nobody waits for; Valkey may fail at each, and the guard then lets the request pass |
| `EmailDelivery` | `Schedule`, the batch of the relay, breaker -> retry -> timeout -> provider; a request that timed out may still arrive (`ReceiveLate`). `Contract` is its `OutboxContract` |
| `Reordering` | getWorkItem of every item, UPDATE after UPDATE with the locks of their rows, commit, the abort of a deadlock, lost connections |
| `ItemTree` | `CreateTask` -> `GetParent` -> `CheckParent` -> `InsertWorkItem`; `UpdateParent` -> `WriteParent`; deletion |
| `TimeLogs` | a statement on time_logs takes its trigger's sum, waits for the item's row, commits; hours by hand; watchers |
| `Removals` | find -> write for members, teams, labels and releases; a removed row stays in the unique index |
| `Snapshots` | the nightly job sprint by sprint, under `CronLock`, while sprints start, change and end; velocity |
| `Seeding` | the seed statement by statement, beside createProject and the item counter |
| `NotificationPreferences` | see above |

`Routes` is a table: for each controller what its decorators ask for (permission, tier of
the rate limit, idempotency). It has no behaviour of its own.

`MCServices` puts these modules into one run: the initial state says which one it is about
(`on`), the variables of the others are unused, and a variable that several have by the same
name is declared once. Its next-state relation is the disjunction of theirs, and its
properties are theirs under the same names.

### *_proofs

Theorems and lemmas, one module per component; `Services_proofs` has those of the services
of `MCServices`, `Tenancy_proofs` those of `Workspaces`, `AuthSessions` and `Provisioning`
(section 6).

### MC*

Symmetry sets, and the transitions that may be defined in the work-item instances.
`MCAuthSessions` and `MCProvisioning` instantiate their modules under names that no other
module has (`Devices` for clients, `authRequest` and `joinRequest` for requests, ...), so
that one module can extend them both and prove things of each.
`MCSprints` adds a history variable, `overtaken`: the clients whose sprint has been written by
another request since they looked at it. `StraysAreOvertaken` holds however requests overlap: only
those clients write a status out of the flow, and only in the ways of `Strays`.
`MCWorkItems` and `MCWorkspaces` add `overlapped`: two requests have been in flight at once. Their
`Sequential*` properties say what the code keeps as long as requests come one after the other, cut
off wherever they may be; in the same state space the other properties speak of overlapping requests.

## 4 Runs

| run | configuration | what it shows |
|---|---|---|
| relay_safety | `OutboxRelay.cfg`: 2 pods, 2 rows, 2 attempts, 2 faults | repeated work is paid for by faults, tasks once and after their commit; the relay implements `OutboxContract` |
| relay_live | `OutboxRelayLive.cfg`: 2 pods, 1 row, 2 attempts, 2 faults, fair | every committed row is sent or given up, if the cron fires; a wake during a run is honoured by one more run, cron or not |
| notification_relay | `NotificationRelay.cfg`: 2 pods, 2 rows, 1 fault, 1 error | `InboxThenPush`: 'sent' means in the inbox or switched off; pushed at most once, after it |
| stream | `NotificationStream.cfg`: 2 tabs, 2 connections each, 2 notifications, 1 fault | subscription in step with the map; pushes to live streams arrive |
| audit | `AuditPipeline.cfg`: 1 event and a foreign message, 2 consumers, redelivery, 2 faults, fair | only a failed insert loses an event; every sent one is logged, failed or dead-lettered |
| sprints | `Sprints.cfg`: 3 sprints, 1 item, 2 clients | no more sprints are active than requests can be in flight; a status leaves the flow only through a request that was overtaken, and is then started again or deleted |
| work_items | `WorkItems.cfg`: 2 items, 2 statuses, 2 clients | numbers never collide; while requests do not overlap, the log replays, transitions are respected and an archived project gets no items |
| sessions | `AuthSessions.cfg`: 2 sessions, 2 tokens, 2 passwords, 1 client, Valkey may fail | one live session per family, none after reuse; resets end earlier logins |
| workspaces | `Workspaces.cfg`: 2 users, 3 invitations, 2 clients | who redeems has a keycard and a row; redeemed once while requests do not overlap |
| attachments | `Attachments.cfg`: 1 attachment, 2 clients, 2 pods, 1 failure, fair | a completed attachment has its object, a purged one leaves none, one pod runs the job until it outlives its key, nothing stays pending |
| accounts | `Provisioning.cfg`: 2 addresses of one domain (one a platform admin), 3 tenants, 2 clients, 1 cut | admins are founders or platform admins; while nothing is cut off, whoever has an account can log in |
| services | `Services.cfg`: 2 clients or pods, 2 of every thing, 1 failure | the ten modules of `MCServices`; one property each, two of `HttpPipeline` and of `EmailDelivery` |

`services` is where the smaller services are checked, one property or two each:
`AccessIsRecent`, `AtMostTwiceTheLimit` and `RetriesAreSafe`, `MailedOnce` and
`EmailKeepsContract`, `ExplicitChoiceHolds`, `ReorderIsSerial`, `CreatedInPlace`, `HoursFollowLogs`,
`FinishedJobsCover`, `RemovalHolds`, `ReseedChangesNothing`.

Properties that TLC refutes are there to reproduce what section 7 says. They are not part of
the runs. Where a configuration lists several, one is active and the others are comments, to
be made active in its place; a configuration of a run lists them as comments only.

| configuration | property | counterexample |
|---|---|---|
| `NotificationRelayRefuted.cfg` | `SentIsAnnounced` | an error after the insert makes the retry silent |
| | `KeyFlowsThrough` | a key by the documented sha256 convention does not fit the uuid column |
| `NotificationStreamRefuted.cfg` | `SubscribeSucceeds`, `SharedSubscription`, `ClosedStreamsLeaveNothing`, `NothingMissedOnReconnect` | what happens between the awaits of `subscribe`: an error, a shared refusal, a leak, a gap |
| `AuditPipeline.cfg` | `NoDeleteWithoutEntry` | a failed insert is swallowed and the message deleted |
| `Sprints.cfg` | `OneActiveSprint`, `StatusFollowsFlow` | two clients make two sprints active, or write a status over a newer one |
| | `UnfinishedItemsMoved` | completion without a 'done' status moves nothing |
| `WorkItemsRefuted.cfg` | `LogReplays`, `StatusFollowsTransitions` | diffs and checks against stale rows |
| | `ArchivedIsReadOnly` | edits in archived projects |
| `AuthSessionsRefuted.cfg` | `ResetEndsSessions`, `MethodPreserved`, `OnlyRememberedAreLong` (1 client) | what tenant switch and rotation carry over |
| | `ResetEndsLogins`, `TokensUsedOnce`, `OneLivePerFamily` (2 clients) | requests under way outlast a reset; a reset token is used twice; two refreshes rotate one session |
| `Workspaces.cfg` | `RedeemedOnce` | one invitation is redeemed by two users at once |
| | `MembersHaveKeycards` | addMember makes a member without a keycard |
| | `RedeemingActivates` | a removed member redeems an invitation and is still removed |
| `Attachments.cfg` | `DeletedAreCleanedUp` | the object of a refused confirmation is never deleted |
| | `LimitHolds` | the limit counts what is completed when a URL is handed out |
| `Provisioning.cfg` | `CutOffCanLogin`, `TenantsHaveMembers` | a signup that is cut off, or overtaken, leaves an account without a keycard, a tenant without members |
| | `LoginPicksMostRecent`, `PlatformAdminsAreElevated` | NULL sorts first; elevation looks for any role |
| `Services.cfg` | `AssignedOnce`, `TokensCarryAllRoles` | NULL scopes are distinct in the index; a token carries one role |
| | `SlidingWindow`, `OverlappingRetriesAreSafe` | two windows meet; both requests miss the cache |
| | `FailedWasTried`, `OneMailAnyProvider` | an open circuit uses up the attempts; SES has no key |
| | `OnlyGivenChannelsChange`, `ResetEnablesBoth`, `EmailFollowsPreference` | a partial update sets both channels; a reset falls back to '*'; the email is not asked for when in-app is off |
| | `ReordersSucceed` | two bodies in another order deadlock |
| | `TreePerProject`, `TasksUnderItems`, `NoOrphans` | parents of an update are not looked at; tasks stay when their parent is deleted |
| | `RemovedCanReturn`, `LabelsExist`, `ReleasedStay` | a removed row blocks the index; a label is deleted while items have it; a release ships while it is deleted |
| | `HoursAlwaysFollowLogs`, `UnwatchHolds` | two sums at once; an automatic watch arrives after the unwatch |
| | `EveryDayHasItsPoint`, `VelocityIsFinal` | a crash leaves the day out; what was done since midnight is not counted |
| | `SeededAreComplete`, `NumbersStayFree`, `ChangesStay` | a stopped seed leaves half a workflow, takes numbers, writes roles over |

**Why the bounds are enough.** Two actors show every pairwise interleaving, which is all
the properties speak of: they relate two pods, two requests, two tabs, or one and the
table. Two rows in batches of two make a batch with a first and a last row; two attempts
make a first and a final failure. Liveness needs one row only: rows do not wait for each
other except for a place in a batch, and a row that lost its turn is due again. Three
sprints leave one that is neither starting nor completing while two clients are at work;
three invitations let one be rotated by each of two clients. Two
sessions make a family of an original and a rotated one, and two logins with a reset
between them. Two copies of an event come from redelivery (`VisibilityEnds`) even with
`MaxCopies = 1`. Two faults let the second one meet the recovery from the first. One
attachment is enough, since the limit apart attachments do not meet, and two pods run the
job. Two addresses and three tenants let one address be joined, provisioned and federated
while the other claims the domain. In `services` two items are locked in either order, two
logs are summed at once, two halves of a window meet the next two, and two days are a day
before and the last one; the seed has one writer beside it and two runs after each other. The
properties that are proved (section 6) do not depend on bounds at all.

Sets of pods, tabs, consumers, clients, items and ids are declared symmetric, in runs
without liveness properties only. Rows of the outbox and notifications are ordered and
never symmetric.

`sessions` has one client. It is no test of concurrency: it shows that the properties
survive requests that are cut off between any two steps, in any order, with Valkey
failing or not; `AuthSessionsRefuted.cfg` shows what two clients do to them.

## 5 Fairness

Liveness is only claimed where the scheduling of the code justifies it.

- `Fairness` (relay): weak fairness of `Immediate` (the event loop runs what
  `setImmediate` queued) and of `RunProgress` (every await of a run ends: the handler
  returns or throws, the transaction commits or fails). This is all `WakeHonoured` needs.
- `CronFires` (relay): weak fairness of `Trigger` (the cron of a pod fires every 5 s) and
  of `BecomeDue` (clocks advance). It is a premise of `EveryRowSettles` and not part of
  the specification, so that wakes are shown to be honoured without help of the cron. No
  fairness of `Insert`, nor of any fault.
- `Fairness` (audit): weak fairness of handling and deleting (the for loop goes on), of
  the visibility timeout and of the dead-letter queue; strong fairness of receiving a
  given message, because a message is hidden and visible by turns and SQS promises to
  deliver it, or to move it to the dead-letter queue, in the end.

- `Fairness` (attachments): weak fairness of `Age` (time passes), of the next step of a
  job (a pod starts when the key is free on one of its daily ticks, its awaits end) and of
  the expiry of the key (PX). No fairness of what clients do, nor of any failure.

The other models have no fairness: a request may stop anywhere, which is what their
properties are about, and no counterexample in section 7 is a temporal one.

## 6 Proofs

All proofs are for every value of the constants, under the assumptions named in the
modules (`RowsAssumption`, `PodsAssumption`, `BoundsAssumption`, `ClientsAssumption`, ...):
numbers are natural, a bound on days, versions or seeded items is at least one, the numbers
of seeded items are within the bound on item numbers, the "nobody" value is nobody, and sets
that are counted are finite (the clients of `Sprints`, `Workspaces` and `AuthSessions`, the
pods of `CronLock`, the logs of `TimeLogs`, the ids of `Seeding`). The modules that an MC
module instantiates state theirs as definitions, which `ServicesAssumption`,
`AuthAssumption` and `AccountsAssumption` assume. TLC evaluates all of them in the runs.

Three theorems about `AuthSessions` have one more hypothesis: `OneDevice`, one request at a
time. It is what the run `sessions` assumes; with two, TLC refutes the properties.

Proved properties that are in no run any more, the proof being the stronger check: the
type invariants (each with a theorem, but that of `Provisioning`), `BatchIsExclusive`,
`FailuresCounted`, `ActiveOrActivating`, `PendingBounded`, `SuspensionHolds`, `UsesBounded`
and `SessionsOnlyEnd`. They can be added to the configuration of their module to see them
model-checked.

**OutboxRelay_proofs.** `BatchIsExclusive` is not inductive: when `FetchBatch` takes a row
because it is unlocked, nothing says that no live batch has it. `LocksOwned` (a lock
belongs to a live session with the row in its batch) and `TxShape` (what a transaction
holds at each pc) close the gap; `IInv` conjoins all the parts. Each is proved by one
lemma with a step per action, and the ends of a run share lemmas (`EndTxEffect`,
`RunEnds`, `MarkStep`, `FetchStep`, `CommitStep`).

- `TypeCorrect`, `ExclusiveBatches`.
- `FailuresAreCounted`: from `Batches`, since newAttempts is computed from the row as
  fetched and exclusiveness says that this is the row as it is.
- `PostCommitTasksRunOnce`: a row leaves 'pending' once (`SentIsFinal`), so its task is
  started once; `PostedSent` keeps that across runs.
- `RepeatsArePaidByFaults`: `HandledPaid` keeps an account per row. What has been handled,
  the pods that have lost their session and will handle the row all the same, and the one
  success the row may still await, are at most one more than the faults; `Balance` lists
  the ways in which a step may move these numbers.
- `RelayImplementsContract`: `BatchExists` and the invariants above map every step to a
  step of `OutboxContract` or to a stutter; a commit maps to `Settle(ok, ko)`.
- `NotificationRelayIsARelay`: an action of the subclass is an action of the loop or
  invisible to it, so that all of the above holds of the notification relay too.
  `PushedOnceFromTheInbox` follows notifications from the insert to the push on top of it.

**NotificationStream_proofs.** `SubscriptionInStep`: `InStep` speaks of the last command
sent, and every step that sends one changes the map in the same step, so it is inductive
with the types. `PushesAreDelivered` adds that a live stream is registered
(`LiveIsRegistered`) and that whoever is owed a push is too (`OwedAreRegistered`); the
wire only loses its head (`WireTail`), which is delivered to all handlers.

**AuditPipeline_proofs.** `OnlyFailedWritesLose` speaks of the end of the way of an event.
Its invariant has the stations: what is 'sent' was published (`SentIsPublished`), what a
consumer has was sent (`BatchWasSent`), and what is deleted, or about to be, was logged or
its insert failed (`HandledFirst`). That an event has one entry is the unique index on it
and nothing else, so no property says so. `OutboxKeepsItsContract`: seen through the outbox
alone, a `Publish` is a `Handle` of the contract and no step of the queue is visible.

**Attachments_proofs.** `CleanupIsExclusive`: until a job outlives its key, whoever runs
the job owns the key and only one pod does (`KeyHeld`); the lemmas are about any
job under `CronLock`. Neither
`CompletedHasObject` nor `PurgedLeaveNothing` is inductive: `ConfirmRow` does not look at
the object, nor `DeleteObject` and `PurgeObject` at the row. `ObjectsOfRequests` says what
a request has seen remains so or the row is gone, `RowsOfRequests` that one request
creates a row, `ObjectsOfJobs` that a job deletes objects only of rows it has taken, which
are so old that nobody can upload any more.

**Sprints_proofs.** `ActiveBounded` is not inductive, since `Activate` adds an active
sprint without looking. `ActiveOrActivating` counts the requests past the check with the
active sprints: `FindActive` only lets a request pass while no sprint is active, and
`Activate` turns one of the counted requests into one of the counted sprints. So
`ActiveCounted`, then `ActiveIsBounded`; with one client it is at most one active sprint.
`OnlyOvertakenRequestsStray` (`StraysAreOvertaken`) is about the instance with its history.
`ChecksHold`: what a request has checked is still so (`Fits`) until it is overtaken; `ChecksStep`
goes through the steps that could end that. For the overtaken, `CompletingWasActive` says that
the sprint of a completing request was active when the request began, and `ForwardStep` that no
step writes 'planned' again; so it cannot have become planned meanwhile, and an overtaken write
goes forward too. `WritesStep` puts the two together.

**Tenancy_proofs.** *Workspaces.* `TypeOK` says that what a transaction is about to cancel is still
pending. It is not inductive: two transactions with a row in common would break it.
`LocksDisjoint` says there are none, since `Rotate` waits while another one has locked a
pending row; `InvitationsStep` lists what a step may do to an invitation, `LockedStay`
that no step changes a locked one but its owner's. `RedeemersJoin` needs `ExistingStay`:
what `findMember` saw is still there when the transaction begins, because rows of members
are never deleted (`MembersStay`); so a user without a row is inserted or the transaction
refused. `PendingIsBounded` counts, with the pending invitations, the transactions that
found nothing to cancel (`PendingOrAdding`): a rotation that finds nothing starts from no
pending invitation at all, and one that finds something replaces it (the bound alone is not
inductive, since `CommitInvite` adds without looking). `SuspensionIsFinal` goes through the
actions that write a member: an insert only touches users without a row.
`RedeemedOneAtATime` is about the instance with its history: until two requests overlap,
`OneRequest` says that what the only request has checked is still so.

*AuthSessions.* `SessionsTypeCorrect` holds for any number of devices, with two parts
beside the types: a request is for a session that was created (`RequestedExist`) and a
family is led by one (`FamiliesAreLed`). The other three add what is known while nobody
else is at work: what is to be rotated is live (`RotatedAreLive`), who is about to log in
has shown a password of after the last reset (`LoginsAreCurrent`), and a family has one
live session (`OneLive`, the property in a form the provers can use: two live sessions of
a family are the same). `AuthRows` lists what a step does to the rows; the
properties are then proved from that list and not action by action.

Two theorems need no `OneDevice`. `ResetsAreBounded`: a reset token is used at most once for
each request that can be in flight. `UsesBounded` is not inductive, since the write looks at
nothing; `UsesCounted` counts the requests that have found the token and not yet written with
the uses so far, and a request only finds a token that was never used. `SessionsNeverRevive`:
a session that has ended, by whatever step, stays so.

*Provisioning.* `VisitEffect` lists the effects a step of a request can have; `VisitStep`
proves the list complete, once for both theorems, which hold for any number of requests.
`FoundersAreAdmins`: whoever is about to become an admin has founded the tenant or is a
platform admin (`AdminsToBe`), and a founded tenant is there, so that nobody founds it
again. `AccountsAreUsable`: one signup has created the user of an account (`OneSignup`), a
keycard comes before the member and the role (`KeycardFirst`), and unless something was cut
off whoever has an account or an identity has a keycard with a role, or a request under
way that brings one (`Served`).

**WorkItems_proofs.** `NumbersNeverCollide`: `KeysUnique` relates items to numbers on their
way; that all of them were handed out (part of `TypeOK`) makes the next number new.
`LogsReplay` and `RequestsObeyTheProject` are about requests that come one after the other:
`Fits` says that what the request has read is what the tables say, `LogReplays` that the
entries of an item follow on from each other and end with its status. Appending an entry
keeps that by a lemma on sequences.

**Services_proofs.** Which service is on never changes, so a step of the composition is a
step of that service, or stutters. For each the invariant says what a request, job or
transaction under way knows (`OrderInvariant`, `TreeInvariant`, ... state that it holds):

| theorem | what its invariant adds |
|---|---|
| `ReordersAreAtomic` | a transaction has locked exactly the rows it has written, and their agreed ranks are those it would put back (`Holds`, `Progress`) |
| `CreatedItemsAreInPlace` | the parent an insert has checked is still a row of the project (`Carried`): rows are marked, not deleted, and projects stay; parents of unmoved items exist |
| `JobsCoverTheirDay` | every sprint of its list is to be done, has its point or has failed (`JobCovers`) |
| `OnePodTakesSnapshots` | the key has one owner, and until a job outlives it whoever runs the job owns it (`SnapshotKeyHeld`) |
| `HoursInStep` | open transactions know of each other, and one that has overlapped no other has the sum of the logs with its own; the sum itself is used as a function of the logs only |
| `ChoicesHold` | what was asked for is in the row; `BodyOverBase` is what an upsert computes |
| `RemovedStayRemoved` | four actions write a row, of which one may write a removed one |
| `EventsAreMailedOnce` | what is 'sent', committed or not, is in the inbox |
| `EmailRelayKeepsContract` | what the relay is at work on is pending and has attempts left, also in the open transaction, and a request nobody waits for is of a row that exists (`RelayFits`). Then a delivery, in time or late, is a `Handle`, a commit is a `Settle` of what it has written, and all else is not seen |
| `StaleAccessIsBounded` | the age of the role a mint has read is at most the time it has waited, that of a token at most its own age and one mint |
| `TwoWindowsMeet` | in the first half of a window the half before belongs to another one, in the second both are within the count |
| `RetriesRunTheHandlerOnce` | of requests with one key that never overlapped one is under way; before its handler none has run, after it the response is in the cache or being stored (`Alone`) |
| `ReseedingIsIdempotent` | how far the only writer has come (`Begun`, `Underway`) and what it has left behind when it ended (`Seeded`) |

`ServicesAreTyped` says that all ten keep to their types. That is more than it sounds, since
the types have the bounds in them, and most of them are not inductive:

| service | what its types need |
|---|---|
| `HttpPipeline` | in a half window no more pass than were counted or let through by a failure; a key of a request is for a route that has keys (`HttpTypes`) |
| `TimeLogs` | what is logged adds up to no more than all logs at their longest (`SumIsBounded`); a log that is deleted was there when its request looked (`TimeTypes`) |
| `EmailDelivery` | `RelayFits`, for the attempts, and the bounds of the breaker (`CircuitTypes`) |
| `Reordering` | what a request has still to do is an end of a body (`BodyTypes`) |
| `Removals` | only members and teams are added (`RemovalTypes`) |
| `Seeding` | a run inserts a status of a position at most once, so that before it comes to a position there are no more than runs (`StatusesCounted`) |

`SumIsBounded` is about a fold, whose definition is a recursive function on sets: it exists
and is bounded on sets of every size because there is no least size at which it is not
(`LeastOf`), which needs no principle of induction.

*Only model-checked*:

- liveness (`EveryRowSettles`, `WakeHonoured`, `SentEventsAreLogged`,
  `NothingStaysPending`), which is out of the prover's reach;
- the type of `recent` in `Provisioning`: the order of keycards is a filtered sequence, and
  what a filter returns is an induction over data. `TypeOK` of the module holds in the
  instance of `Provisioning.cfg`, whose run does not list it; the invariants have the types
  their proofs need.

Every safety property that a run checks is a theorem.

## 7 Where code and comments disagree

Met while modelling. TLC shows a counterexample of each; the configurations and the
properties are in the second table of section 4. Each is a statement of a comment, an error
message or a document that the code does not keep.

- *Notification relay*: a failure after the in-app insert makes the retry a deduplicated
  no-op, without push or email; a key by the documented convention is no uuid.
- *Preferences*: a partial update of a missing row sets both channels; a reset falls back to
  '*'; email is not asked for when in-app is off.
- *Streams*: a stream may throw, leak its handler, share a subscription that was refused, or
  miss what comes between replay and subscription.
- *Audit*: `AuditService.record` swallows the error its caller waits for.
- *Sprints*: two active sprints; statuses written by id after a stale check; completion
  without a status of category 'done' moves nothing.
- *Work items*: stale diffs in the activity log; transitions checked against stale rows;
  items of archived projects are edited.
- *Sessions*: overlapping refreshes leave two live sessions; requests under way outlast a
  reset, and switchTenant revives a session; a reset token can be used twice at once; the
  auth method and the short lifetime are lost by switch and rotation.
- *Members and invitations*: two requests at once redeem one invitation for two users
  (`tenancy.service.ts:503`: "would otherwise let the same invitation be redeemed twice");
  `addMember` creates a member without the keycard that lines 508-511 call the fix for
  "ghost members"; a removed or suspended member uses up an invitation without becoming
  active; the sole-admin check of line 353 compares the uuid `roleId` with `'admin'` and
  never applies (nothing to model: the check is a constant).
- *Accounts*: a signup cut off after the user leaves an account that can neither log in nor
  sign up again; a second signup that is overtaken leaves a tenant without members;
  `auth.service.ts:106` says "pick the most-recently-active tenant", but `last_active_at`
  is NULL until the first login and NULL sorts first; line 585 says "Auto-elevate platform
  admins to workspace_admin on every SSO login", and does nothing for one that has a role;
  `identity.ts:84` says "One user may have at most one identity per provider", of which
  there is no index.
- *Roles*: two `assignRole` at once store one role twice (the scope is NULL, which a unique
  index takes for distinct), and one revocation takes one of them; a token carries the
  permissions of one role, not of all.
- *Rate limit*: `valkey.service.ts:47` and `rate-limit.guard.ts:15` speak of a sliding
  window, the counter is of a fixed one; requests that overlap with one idempotency key are
  both handled.
- *Emails*: `email.service.ts:47-48` leaves recovery to the next runs of the relay; while the
  circuit is open those runs use up the attempts of a row that was never tried. The comment
  of `email-relay.service.ts:117-119` holds for Resend; SES has no key.
- *Work items*: `createTask` refuses a task as parent, `createWorkItem` and `updateWorkItem`
  do not, so that there are tasks under tasks, parents of other projects and cycles; tasks
  keep a parent that was deleted. Two reorders in another order of items deadlock and one
  fails.
- *Time logs*: `0012_time_logs_watchers_fts.sql:7` says the trigger "keeps
  work_items.actual_hours up-to-date"; two logs at once leave one out until the next log,
  and hours entered by hand stay. A user who unwatches can be made to watch by a time log of
  before.
- *Rosters*: a removed member or an unlinked team cannot be added again, since the lookup
  wants 'active' and the unique index does not; a label is deleted while items have it; a
  release that ships while it is deleted is gone ("Released versions cannot be deleted").
- *Attachments*: `work-items.service.ts:633` says "Mark as deleted so it can be cleaned up",
  and nothing does; the maximum number is checked against completed ones when a URL is
  handed out, so more can be confirmed.
- *Snapshots*: `snapshot.cron.ts:5` says "burndown charts always have today's data point", not
  after a crash, since the other pods have skipped the day; velocity takes "the final
  snapshot", which is of the midnight before the completion.
- *Seeds*: `seed.ts:374` says "Safe to call multiple times"; a seed that was stopped leaves
  a workflow that no later run completes, its items take numbers the counter has not given
  out, and the permissions of roles are written over.

## 8 What is not modelled

- *Row-level security*: the database role bypasses it at this commit (see
  `tenant-rls.service.ts`), and its policies are SQL.
- *PostgreSQL*: a transaction is atomic and at READ COMMITTED, with the locks its
  statements take where requests meet on them (`OutboxRelay`, `Workspaces`, `Reordering`,
  `TimeLogs`). Deadlock detection is modelled in `Reordering`, where the code can run into it.
- *Comments; settings, names and logos of tenants, workspaces, teams, labels and releases*:
  single statements on one row, of which the last one wins; their routes are in `Routes`.
- *Reports and lists*: reads. Of the reports only the velocity is modelled, since it reads
  what the nightly job wrote.
- *The bulkhead*: a relay sends one mail at a time and never fills its five places.
- *Wording, templates, HTTP filters, pagination, tracing, configuration, contracts*: no state.
- *Migrations*: generated SQL; their indexes, checks and the one trigger are in the models
  that need them.
- *Entra ID, SES, Resend, SNS, S3*: external; seen through their results.
- The 24 hours a response is kept for its idempotency key, and the denylist of users, which
  nothing writes.

## 9 Plan

Done, in this order: OutboxContract and OutboxRelay (everything asynchronous rests on
them), NotificationRelay and preferences, AuditPipeline, Sprints, WorkItems,
NotificationStream, AuthSessions, Workspaces, with the proofs of five of them; then
Attachments with CronLock, Provisioning, and the services of `MCServices`; then the
theorems of the other modules. What is left of the code is listed in section 8.

Next theorems, none of which a run needs:

| module | theorem | the argument it needs |
|---|---|---|
| `AuthSessions` | a bound on live sessions of a family with several devices | the rotations that overlapped, counted in the way of `UsesCounted` |
| `Reordering` | a deadlock is always broken | liveness, or the absence of a circle after an abort |

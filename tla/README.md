# A verification model of the Workspaces backend

TLA+ modules for the backend of TDEI Workspaces (`src/api`, a FastAPI service
over two PostgreSQL databases), TLC configurations that check them on small
instances, and TLAPS proofs that the central properties hold for every number
of users, tasks, locks, tokens and overlapping requests.

Paths below are relative to the repository. TLC: `tlc -config X.cfg M`, with
`M` the module of the tables below; proofs: `tlapm M.tla`.

## The system

The service is one asyncio process. Every request runs as a coroutine with a
database session of its own (`api/core/database.py`): statements are awaited
one by one, the transaction runs at PostgreSQL's default READ COMMITTED, no
SELECT is `FOR UPDATE`, and a session closed before its commit rolls back.
State that outlives a request is in the databases, or in module globals that
every coroutine shares.

| Component | State | Operations | What makes it correct |
|---|---|---|---|
| Task workflow (`api/src/tasking/tasks`) | tasks (status, last mapper), locks, changesets, feedback, audit events | lock, unlock, force-unlock, extend, reset, submit, submit changeset | one active lock per task and per user; tasks move along the transition table, by the lock's holder; nobody reviews their own mapping; the audit trail tells what happened |
| Project lifecycle (`api/src/tasking/projects`) | status, `deleted_at`, AOI, `review_required` | create, patch, AOI upload and delete, save tasks, activate, close, reset, soft delete | closed means complete and unlocked; reset forgets all mapping; deleted stays deleted; a draft's tasks fit its AOI |
| Project roles (same repository) | `tasking_project_roles`, `users` | create with assignments, POST, PUT, PATCH, DELETE of a role; provisioning of users from TDEI | a project keeps a lead; only managers change roles; rows only for members |
| Permission cache and token bridge (`api/core/security.py`) | `_user_info_cache` (one hour, 1000 users), `oauth_access_tokens` | validate a token, evict a user, mirror and revoke tokens; assign and remove workspace roles (`api/src/users`) | a role change takes effect; a cached token works at OSM |
| Workspaces and jobs (`api/src/workspaces`) | workspaces, jobs, quest and imagery settings; role rows in the other database | create (also from a file), update, delete; settings | both databases agree; a requested import is sent |
| OSM proxy (`api/main.py`) | none | resolve the workspace of a request, authorise it, forward it | no request reaches a workspace its caller has no access to |
| Teams (`api/src/teams`) | teams, memberships | CRUD, join, add, remove | a membership once |
| Audit queries, OSM queries, JSON schemas | none, or a document fetched once | read | - |

They interact through the databases and the cache: every handler starts from
the `UserInfo` that `validate_token` returns, up to an hour old; a task handler
reads the project's status and the caller's role row; roles and users reach the
task workflow only through rows; workspace creation and deletion write role
rows and evict cache entries.

### What is hard here

- A handler's SELECTs, its decision and its writes are separate awaits: what it
  read may no longer hold when it writes. Most writes are `UPDATE .. WHERE id`,
  which check nothing again. Partial unique indexes, primary and foreign keys are
  the only guards that hold at the time of the write.
- Several invariants are of the whole history of a task: who mapped it last,
  whether its feedback is still there, whether the trail tells where it stands.
- A project reset and a deletion are several statements, each with a snapshot of
  its own, so that they can miss what others commit between them; and the trail
  is ordered by when transactions began, not by when they committed.
- A result read before an await is stored in a process-wide cache after it.
- Provisioning commits in the middle of a request that can still fail.
- Writes to two databases, a message bus and a cache are not one transaction.

`PROJECT.json` lists each hazard at its line, with the properties that cover it.

## Modules

| Module | Models | Checked by |
|---|---|---|
| `TaskBoard` | abstract: what the tasking service promises, every operation one step on a board of tasks | implemented by `TaskWorkflow` |
| `TaskWorkflow` | tasks, locks and submissions of an activated project, its close, reset and soft delete | `MCTaskWorkflow`, `MCTaskWorkflowOverlap` |
| `TaskWorkflowAudit` | `TaskWorkflow` with the audit trail in the order in which it is served | `MCTaskWorkflow` |
| `TaskWorkflow_proofs` | proofs for any interleaving | tlapm |
| `TaskWorkflow_serial_proofs` | proofs for one request at a time (extends the former) | tlapm |
| `TaskWorkflowOverlap` | `TaskWorkflow` with a history variable, `raced`: how far the promises of requests in sequence reach when they overlap | `MCTaskWorkflowOverlap` |
| `TaskWorkflowSetup` | `TaskWorkflow` seen as the part of `ProjectSetup` that it is | `MCTaskWorkflowOverlap` |
| `TaskWorkflow_board_proofs` | `TaskWorkflow` implements `TaskBoard`, and does until the first overtaken write if requests overlap; it keeps to `ProjectSetup` (extends the former) | tlapm |
| `ProjectSetup` | a project from draft to open: settings, AOI, task save and its keys, activation, soft delete | `MCProjectSetup` |
| `ProjectSetup_proofs` | proofs for any interleaving | tlapm |
| `LockLease` | `expires_at` of a task's locks, and a clock | `MCLockLease` |
| `LockLease_proofs` | proofs for any interleaving | tlapm |
| `Roster` | abstract: what the role endpoints promise, every operation one step of somebody who may take it | implemented by `ProjectRoles` |
| `ProjectRoles` | creation of a project as far as roles go, the role endpoints, provisioning | directly |
| `ProjectRolesOverlap` | `ProjectRoles` with a history variable, `overtaken`: the requests during which the leads have changed | `MCProjectRoles` |
| `ProjectRoles_proofs` | proofs of both kinds | tlapm |
| `UserInfoCache` | `validate_token`, the cache, the token bridge, role changes and evictions | directly |
| `UserInfoCache_proofs` | proofs for any interleaving | tlapm |
| `OsmProxy` | operators: the gate of the OSM proxy | through `Workspaces` |
| `Workspaces` | one workspace from creation to deletion across both databases and the cache; every request validates first, and applies the gate of `OsmProxy` to what it holds | `MCWorkspaces` |
| `Workspaces_proofs` | proofs for any interleaving | tlapm |

How they divide the system: `ProjectRoles` follows a project's rows from its
creation, `ProjectSetup` its way to activation, `TaskWorkflow` and `LockLease`
what is done in it afterwards. Each names the others' steps it needs in one
action (`RoleChange` in `TaskWorkflow`; `AllocateWorkers`, `Close`, `Reset` in
`ProjectSetup`). That the latter are what `TaskWorkflow` does to a project,
its late commits included, is `KeepsTheSetup` of `TaskWorkflowSetup`. `UserInfoCache` follows one user's tokens,
`Workspaces` one workspace and its users' permissions; it composes the cache,
the two databases and the proxy's gate.

The definitions `Mut...` are the bugs each property is tried against: put in the
place of the definition that follows them they break it.

### How requests become steps

In `TaskWorkflow`, `ProjectSetup`, `LockLease` and `ProjectRoles` a request is,
as a rule, two steps of a *slot* `s`, a coroutine of the event loop. `X(s, ..)` is everything up to the last read: its
guards are the handler's checks, and what the handler has decided goes into
`req[s]`. `XCommit(s)` is the run of writes and the COMMIT, in terms of
`req[s]` and of the rows as they are *now*. `Abort(s)` is everything that ends a
request before its COMMIT: an exception, a client that goes away, a process
that dies, a deadlock PostgreSQL breaks. With two slots any request can commit
between another's reads and its writes; with one, requests run one after
another.

- A handler that writes rows by the ids it has read writes them in one step: row
  locks are held until COMMIT, so nobody overwrites a row half way, and nobody
  reads it. Where a constraint is checked at the write the commit step checks it:
  `LockInsertable`, `Addable`, the foreign keys of feedback and changesets.
- A handler whose statements pick their rows by a `WHERE` does not: a statement
  locks only the rows it sees, and the next has a newer snapshot. Its statements
  are steps. A project reset is `ResetLocks`, `ResetTasks` and `ResetCommit`, and
  keeps the rows its two UPDATEs have picked in `req[s].locks` and `req[s].tasks`;
  a soft delete is `SoftDeleteRows`, which ends with the UPDATE that flags the
  audit rows, and `SoftDeleteCommit`. Until the COMMIT whoever would write a
  picked row waits (`LockWritable`, `TaskWritable`), and so does whoever would
  write, or refer to, a row that is being deleted (`NoDeletion`). An INSERT of a
  lock does not wait for the reset's UPDATE of its task's status, which is how a
  lock comes to survive a reset. A statement that waits takes, in PostgreSQL, the
  rows of the snapshot it began with and looks at them again as they are by then; the model
  takes the snapshot after the wait. A row inserted during the wait is then
  picked where the code misses it, which is as if it had been inserted
  just after: the two commits commute.
- An AOI upload likewise takes three steps: its DELETE of the tasks and its UPDATE
  of the project are statements of their own, and a save can commit between them.
  `Wiping` is the row locks of the DELETE.
- A submission reads in two steps, `Submit` (the task) and `SubmitHolds` (the
  lock): the lock protects the task only from the moment it is known to be
  active, and the task may have been remapped, reset and locked again by then.
- The other reads are one step although each has its own snapshot. A mixture of
  snapshots lets a request decide on rows that were never true together, which
  the model does not show; what it shows is the decision being old. Of what holds
  for any overlap nothing rests on what a request has read (constraints at the
  write and the shape of what is written are enough), and of what holds until a
  decision is overtaken, `StillSo` looks at all of the rows again, together.
- `_provision_users_from_tdei` commits on its own, so a request that needs it
  takes a third step.
- An error response changes nothing and has no step, except the ones that end a
  request after its reads (`LockTaskConflict`, `AddRoleConflict`).

In `UserInfoCache` and `Workspaces` the step is the code between two awaits, since
the state they race on is a Python dictionary: look-up, revoke, delete, fetch,
mirror, store; and in `Workspaces` each COMMIT in either database, any of which
can be the last thing a request does (`Die`).

### TaskWorkflow

`taskStatus`, `lastMapper`, `locks`, `feedback`, `changesets` are the tables of
the schema, a row's absence being `"gone"`, `"free"` or `"deleted"`. A released
lock keeps its `release_reason` only, since nothing reads the rest. `lastEvent` is,
per task, the audit event committed last of those that tell its status: the
task's own or a project reset, after which every task is `to_map`.
`auditFlagged` says whether every event of the project carries
`project_deleted`; `flagCovers` whether a deletion in flight has flagged every
event there is, which any event committed after its UPDATE ends. Roles come from two places:
`WorkspaceRole`, a constant, is what the caller's token carries;
`projectRole` holds the explicit rows, which `RoleChange` alters in the way of
the endpoints of `ProjectRoles` (their own races are in that module).
`Init` is a project as `activate` leaves it.

Left out: `expires_at`, which no handler here reads to decide anything, and with
it `extend_lock` and `submit` with `done = false`, which write nothing else and
are in `LockLease`; geometry; the texts of feedback and audit details.

`Board` instantiates `TaskBoard` with what the tables show of it: a task's stage
is its status, its mapper `last_mapper_id`, and its holders the users of its
active locks (`WorkingOn`). Whoever may review is an input of the board,
`reviewers`, which the role rows give (`Reviewers`). A lock is `Take`, a
submission `Map` or `Review`, an unlock `Release`, a task reset `Restart`, the
project's close, reset and deletion `Close`, `RestartAll` and `Delete`; reads,
failures, changesets and role changes are stutters.

`TaskWorkflowAudit` adds the order of the trail. `_audit` leaves `occurred_at` to
its default, `now()`, which is when the transaction began, and the listing is
`ORDER BY occurred_at, id`. `begun` is the slots in the order their transactions
began (`Arrive`, before anything is read), `behind[s]` the tasks that a
transaction which began after that of `s` has told of, and `served` what the
newest event listed tells of each task.

`StillSo(s)` of `TaskWorkflowOverlap` says what a request would have to find
again when it commits: for a lock the status it read, for a submission its lock,
still active, and the status and last mapper it read before it; for an unlock or a
changeset only that the lock is active; for a project reset that its statements
would still pick no other rows, and for a deletion that its flags still cover
every event. `raced` becomes true with the first commit that writes something
although that no longer holds. Nothing in the code stops such a write; the point
is that nothing else goes wrong before one.

`Setup` of `TaskWorkflowSetup` instantiates `ProjectSetup` with what
`TaskWorkflow` has of it: the saved tasks are one batch while any task exists,
the workers are the role rows `activate` counts, and of the requests in flight
those that delete the project are shown. Locks, submissions and task resets are
stutters.

### ProjectSetup

`status`, `deleted`, `named`, `reviewRequired`, `aoi` and `boundary` are columns
of `tasking_projects`; the tasks of one save are a `batch`, as they come and go
together; `keyRow` is `tasking_task_save_idempotency`. A body is a model value
with a source, and whether it fits an AOI is the constant `Fits`. `overtaken`
is bookkeeping: a request in flight, and the batch a save leaves, collect in it
the kinds of commit that came between its reads and its writes, so that a
property can say *only if it was overtaken*. A patch carries what the
properties tell apart, the review rule and whether the name is blank; that a
name of blanks passes `min_length` and is stored stripped is why `named` can
become false. A save needs no row lock on the project, so that an activation
and an AOI upload can commit in its middle.

### LockLease

One task's locks with the time they were taken and the time they expire, the
project's timeout, and a clock that every handler reads once. `Extend` counts
from the expiry it has read, `Renew` (a submission with `done = false`) from the
time of the submission, and both write `WHERE id`, whatever has become of the
lock. Times are hours; the naive local times of the process and the zone it
strips from what it reads back are the same only where process and database run
in UTC, which the model takes for granted.

### OsmProxy

What `catch_all` does before it forwards a call: the places that name a
workspace (path prefix, `X-Workspace`, Basic username), the checks in their
order with the status each answers, the two rules of `TENANTLESS_ENDPOINTS`, and
the review tag of a contributor's changeset. `Gate` is the code; `Meant` says
without its order what the gate is for. A workspace's row (`gone`, `plain`,
`flagged`) is any, since it is read from a database that may have changed since
the caller's permissions were cached.

### Workspaces

`phase` is the row in `workspaces`, `settings` whether a long-quest or imagery
row refers to it, `roles` the rows of `user_workspace_roles` in the other
database, `cache` the `UserInfo` per user, with what it says of this workspace.
A request first validates (`Hit`, or `Miss`, `ReadListing`, `ReadRoles`, `Store`)
and then creates, deletes, assigns, removes or saves settings with the
permissions it got. `strays`, `untold` and `due` are bookkeeping: which role rows
were left behind by a request that died or had seen the workspace, and what an
entry says that was changed without its eviction. The job and its message are
one step (`Announce`), since no other request waits for them.

### ProjectRoles

One project from before its creation. `known` is the `users` table, `Members`
what TDEI answers. A request body's `role_assignments` are any assignment of
roles to users.

`Roster` has no requests: a lead gives or takes a role, nobody that of the last
lead, on the rows as they are. In `ProjectRolesOverlap` a slot joins
`overtaken` when another request changes who leads the project, which is what
`assert_can_manage_roles` and `_lead_count` have read; its commit is then the
only one that need not be an operation of `Roster` by its caller.

### UserInfoCache

One user: the row of one workspace in `user_workspace_roles`, the cache entry, and the OSM
rows of the user's tokens. `overtaken` is bookkeeping of the model only: it
remembers in an entry that the role was written, or its token's mirror revoked
or failed, while the entry's own validation was between read and store. The
workspace's creation and deletion, which also write role rows and evict, are in
`Workspaces`. Left out: a commit that succeeds although its acknowledgement is
lost.

## Runs

| Run | Instance | Shows |
|---|---|---|
| `TaskWorkflow_concurrent` | 2 users, 1 task, 2 locks, 2 slots, 1 role change | what survives any overlap: exclusive locks (`LocksExclusive`), no mapper on an unmapped task (`UnmappedHasNoMapper`), feedback for every remap (`RemapHasFeedback`), nothing revived after a deletion (`DeletedIsEmpty`), and to the project nothing `ProjectSetup` does not say (`KeepsTheSetup`); and what requests in sequence keep to for ever and overlapping ones until one writes on a decision that was overtaken: the state (`SafeUntilRace`), the board (`BoardUntilRace`), reasons, movers and reviewers on record (`RecordsUntilRace`) |
| `TaskWorkflow_serial` | 3 users, 2 tasks, 3 locks, 1 slot, 1 role change | from request to request the service implements the board (`KeepsTheBoard`): tasks move by whoever holds them, nobody reviews their own mapping, close, reset and delete ask for what they should; and the trail it serves tells the status of each task (`TrailTellsStatus`) |
| `TaskWorkflow_race` | 3 users, 1 task, 2 locks, 2 slots | `NoSelfReview` fails when a lock request is overtaken |
| `TaskWorkflow_audit` | as race | `TrailTellsStatus` fails when the request that commits last has begun first |
| `ProjectSetup` | 2 AOIs, 2 bodies, 1 key, 2 saves, 2 slots | saved tasks fit the AOI and come from one save (`SavedFitsAoi`, `OneBatch`), a retry inserts nothing (`RetryInsertsNothing`), a project opens set up (`OpenedSetUp`), work on it is not wiped (`WorkIsKept`), its review rule stands (`SettingsStand`), a deleted one is empty (`DeletedIsEmpty`); the exceptions are requests that were overtaken, by what each property says |
| `LockLease_expiry` | 2 users, 2 locks, 2 slots, 5 hours | an expiry is after its start (`LeaseStandsOut`), is moved only by the holder's requests (`OnlyHolderMoves`), back only by a renewal or an overtaken extension (`BackByRenewal`), and on a released lock only by a request the release overtook (`HistoryStands`) |
| `ProjectRoles_concurrent` | creator, member, outsider; 2 slots | only members are provisioned, role rows are of known users (`RolesOfMembers`), POST never overwrites and PATCH never adds (`PostAddsPatchChanges`); overlapping requests implement `Roster` but for those a change of the leads has overtaken (`RosterUnlessOvertaken`), which are then the only ones that can lose the last lead |
| `ProjectRoles_race` | as concurrent | `LastLeadStays` fails when two demotions overlap |
| `UserInfoCache_races` | 2 tokens, 2 slots, bridge failures | a stale role or a dead cached token comes only from the named races; once the role is left alone the cache comes to serve it and stays so (`SettledRoleServed`) |
| `UserInfoCache_stale` | 2 tokens, 2 slots | `NextRequestSeesRole` fails |
| `Workspaces_life` | 2 users, one a point of contact; 2 slots, failures | roles go with the workspace but for the explained ones (`StraysExplained`) and do not come back (`GoneStaysClean`), cached permissions are current but for what nobody was told (`EntriesCurrent`), and the gate sends on what it is meant to for every caller and call (`GateServes`) |
| `Workspaces_delete` | as life, without failures | `DeletesProperly` fails for a workspace with settings |

### Bounds

- `LockIds` bounds the locks ever taken. One task needs two for a mapping and a
  review, or for one lock request overtaken by another's whole cycle; three in
  the serial run allow mapping, sending back and remapping, or two tasks at once.
- Two slots are two overlapping requests; each race the findings name needs no
  third. The proofs for any interleaving have no such bound.
- The users of the serial run and of the two findings about tasks are a workspace
  lead and two members with the explicit roles validator and contributor. Its
  role changes are those that give or take the right to review
  (`ReviewersChange`); one is enough to take a role away while a lock is held.
- `TaskWorkflow_concurrent` has a workspace lead and a member with a validator row, who can
  map and review each other's work. A third user would add a bystander: the
  indexes, the eligibility table and `HoldsLock` compare two. Its role change is
  the member's, who loses the right to review (`ReviewerDemoted`), where review is
  required and only until the first overtaken write, as no property asks for roles
  after it. What comes after that write is looked at with review required and
  without recorded changesets (`RacedInReview`): without review a task goes
  from `to_map` to `completed` and no other way, and nothing but a deletion minds a
  changeset. Until that write everything is looked at.
- In the runs of `ProjectRoles` the creator has signed in before, the member is
  provisioned on the way and then leads as well as the creator does, and the
  outsider is nobody TDEI knows. Every body of `role_assignments` over the three
  is tried.
- `MaxSaves` = 2 lets a second save follow a new AOI, or overlap the first; one
  body fits both AOIs and one only the second, so that an overtaken save can
  leave tasks outside the AOI. With one key a save is retried or a new one; two
  keys differ in nothing a third slot would not be needed for.
- `MaxTime` = 5 with timeouts of 1 and 2 hours leaves room for a lock, an
  extension and a renewal that moves it back; `Timeouts` has two values so that
  the project's timeout can change in between.
- In `Workspaces` one user is a point of contact, who is a lead without a row,
  and one is not. A third user would only add another bystander. The second
  workspace id is there for calls that name two.
- Lock ids, tasks, slots and, in `LockLease`, users are symmetric in the runs
  whose constants do not tell them apart: nothing orders them.
- Deadlock is checked in the runs of `UserInfoCache` only. In the others the
  system may stop: after a soft delete no request succeeds, with every lock id
  used and the clock at its end none begins.

### Fairness

Only `SettledRoleServed` needs any: `WF_vars(Expire)`. An entry of the `TTLCache`
is an hour old after an hour whatever the requests do, and counts as absent from
then on. A store over an entry begins its hour anew; but while there is an entry
only validations that missed it before can store, and those are finitely many,
so the hour of the last of them ends. No fairness is assumed of requests or
clients: an entry a validation never comes to store is not served. That the
right entry follows is not the fairness' doing: expiry says nothing of what is
stored next, and a validation that took the role from an entry another had
stored would hand an old one on for ever. The other properties are safety.

## Proofs

Every theorem is for arbitrary constants under the assumptions stated with
them: `NULL` is not a user, task, lock, role or status, role functions have
their types, members and leads are users.

**Any interleaving** (`TaskWorkflow_proofs`). `TypeInv` adds to `TypeOK` the
shape of a request in flight: which fields are set for which operation. `SafeInv`
adds what makes the properties inductive: a lock a request refers to has been
taken (`LockRefs`, so a stale id never touches a free row), and the rows of a
deleted project are gone (`DeletedRows`).
`HeldRows` says what the statements of a reset or a deletion
hold: two requests never the same row, and what is held has not changed since
it was picked. `StepKinds` reduces the actions to a few kinds of change of the lock
table, and each property is proved per kind. `LocksExclusive` follows from
`LockInsertable` alone: the SELECTs of `lock_task` are not needed for it.

**One request at a time** (`TaskWorkflow_serial_proofs`). Under `Serial`, at most
one slot, `Fresh` states that everything a request in flight has read is still
true, the rows its statements have picked included; it is the invariant two
slots destroy. With it the table of locks and
tasks satisfies `LockMatchesTask`, `NoSelfReview`, `MappedHasMapper`,
`ClosedHasNoLock`, `FourEyes`, `EventTellsStatus` together: none is inductive alone, as the reviewer
of a task is who held its lock, in review, which matched the task when it was
taken. The action properties follow from the same invariant.

**The board** (`TaskWorkflow_board_proofs`). `ServiceKeepsTheBoard`: under
`Serial` the service implements `TaskBoard`. `BoardInv` adds to the serial
invariant that a task is gone only with its project, and that a lock request has
read a task that takes work. With `Fresh`, what a request decided on is the
board as it is when it commits, so each commit is one operation of the board,
its guard included (`BoardStep`, one lemma per operation); the lemmas about
`held` say what a lock row taken or let go does to a task's holders. Two slots
break the refinement the way finding 1 tells.

**Until the first race** (same module). The serial results say nothing once two
requests overlap. `OverlapInv` generalises them to any number of slots: until
`raced`, the serial data invariants hold. `Fresh` cannot be kept, as any commit
may make a request's reads old, and what replaces it is weaker: `Pending`, that
what a submission will write follows from the status it saw, and that only
who may review has asked for the lock of a review, as long as no role changes.
Others' commits cannot change either (`PendingStands`). Everything else a
request relies on is what `StillSo` asks for again, so a commit with `StillSo` has all
the facts a serial one has (`StillFacts`), and the lemmas of the serial proofs
apply. `UntilRaceSafe`, `UntilRaceBoard` and `UntilRaceRecords` follow, and
`SerialNeverRaces` gives back the serial case: with one slot `raced` stays false.

**Work and setup** (same module). `WorkKeepsTheSetup` needs types and that the
rows a reset has picked are still there when it commits (`SafeInv`): a submission or a task reset writes a status a task can have, to a row that is
there (`CommitKeepsTasks`), and what `ProjectSetup` shows of the requests minds
nobody's commit (`ShownMindsNothing`).

**Setup** (`ProjectSetup_proofs`). `SetupInv` says of every request in flight
that what it has read is still so, or the commit that changed it is in the
request's `overtaken` (`Fresh`); a batch likewise fits its AOI or was overtaken.
`OwnMove` and `OtherMove` give one step of a request's own and one of another's;
every property is then what a write does with fresh reads.

**Leases** (`LockLease_proofs`). `LeaseInv` says what a request in flight still
knows of the row it read: whose it is, that the expiry it will write is after
the time the lock was taken, and, until it is overtaken, that the row is as it
was read. It needs `Timeouts` to be positive. The action properties
follow from which commit can change a row (`RowsChangeByCommit`).

**Roles** (`ProjectRoles_proofs`). For any overlap, the users a request names
are known or still recorded as missing, and `known` only grows. That POST never
overwrites and PATCH never adds then needs only types: the primary key and the
`WHERE` of the UPDATE decide at the write (`OwnStepStands`), and no step of one
request ends another (`OthersGoOn`). For one request at a time, the lead count a
request has seen is still the count.

With overlap, `RosterInv` says that of every request that is not in `overtaken`
(`Stands`): its caller may still manage roles, and what it writes still leaves
a lead. A change of the leads puts every other request in flight into the
variable in the same step, so a request outside it acts on rows that decide as
those it read. `RosterStands` holds for any number of
slots, and `LeadLostOnlyByRace` says what it comes to for the last lead; `SerialKeepsTheRoster` is the case of one, where nobody is overtaken and
the service implements `Roster` outright.

**Cache** (`UserInfoCache_proofs`). A validation between read and store holds
the current role or has been overtaken, and one about to store has its token
live or has been overtaken; the two properties are what that leaves in the cache.

**Workspaces** (`Workspaces_proofs`). `LifeInv`: whoever's permissions differ
from the tables is in some request's `due` (it will evict them), or the entry or
request carries the difference in `untold`. One lemma per kind of write shows
that a write moves everybody it concerns into one of the two. `GateServesAll`
is `GateIsMeant`, by cases over the gate and any caller, applied to what requests
hold.

Most of the serial theorems state what no run lists by itself: as invariants
`LockMatchesTask`, `FourEyes`, `MappedHasMapper`, `EventTellsStatus` and
`DeletedIsFlagged` (together
with `NoSelfReview` and `ClosedHasNoLock` they are `SafeUntilRace`) and the action
properties of `ReasonsStand`, `HoldersSubmit` (a task moves by the holder of its
lock, its reset or the project's) and `ReviewersReview` (only who may review
does), which together are `RecordsUntilRace`. `ManagersChange` (role rows change
for a manager of roles) and `LeadsKept` are for one request at a time.
`ForeignKeyIdle` says for any overlap that the foreign key to `users` never
fails an insert.

Only model-checked: `SettledRoleServed`, since liveness under fairness is out of
the prover's reach, and `TrailTellsStatus`, which holds of requests in sequence
only; what it rests on there, that the event committed last for a task tells its
status, is proved (`EventsPaired`). The findings need no proof: a run shows the trace.

## Findings

1. **A mapper may come to hold the review of their own task**
   (`TaskWorkflow_race`). `lock_task` inserts a lock that nothing ties to what it
   read: the request that read the task as `to_map` commits after the same user
   has mapped and submitted it through another.
2. **Two overlapping demotions leave a project without a lead**
   (`ProjectRoles_race`): both count two leads and both write.
3. **A workspace with settings cannot be deleted** (`Workspaces_delete`). The
   DELETE is set-based, so the ORM cascade of the settings never runs, and their
   foreign keys cascade nothing.
4. **An evicted role comes back** (`UserInfoCache_stale`): a validation in flight
   stores it after the eviction.
5. **The trail is not newest first** (`TaskWorkflow_audit`). It is sorted by when
   transactions began: a task reset that begins before a submission and commits
   after it sorts before it, and the newest event says `completed` of a task that
   is `to_map`.

Smaller differences met on the way, without a run of their own:

- A project reset writes one `project_reset` event, where the interface
  description (`docs/tasking-mvp/tasking-mvp.openapi.yaml`, lines 254-257) has
  one per task and lock. A reader has to know what the event does to the tasks;
  and `list_task_events` of a task does not show it, as it names no task.
- The same lines have the reset release every active lock. One that is inserted
  after its UPDATE of the locks and before its COMMIT survives it, and a task so
  locked and submitted before the UPDATE of the tasks has seen it is not rewound
  (`StillSo` counts such a reset as overtaken).
- An event committed between a deletion's UPDATE of the flags and its COMMIT, or
  later, stays without `project_deleted` (likewise).
- A creator listed in `role_assignments` under another role is no lead; if nobody
  else is, the project has none (`docs/requirements/project-roles-integration.md`,
  line 19). `LastLeadStays` therefore speaks of projects that have had a lead.
- A cached token whose OSM row is revoked does not heal while the cache answers
  for it, whatever the comment at `api/core/security.py:745` hopes for;
  `CutOffOnlyByRace` says when that can come about.
- A save replayed with its key after a new AOI has removed its tasks still
  answers with them (`tasks/repository.py:551`).
- A patch with a name of blanks passes `min_length` and is stored stripped, as
  the empty name.
- Locks past their expiry stay active: no job releases them, as the interface
  description (line 1342) says one does. A renewal counts from now, so it can
  move an extended expiry back, where lines 731 and 1724 of it say it slides forward.
- The interface description lets only contributors and leads lock a task to be
  mapped, the code validators too. `list_self_project_roles` reports the explicit
  row where `_project_role` gives a workspace lead precedence.
- Deleting a workspace leaves its teams, projects, jobs and its tenant schema;
  its lead can then no longer have the schema dropped through the proxy, which
  finds no workspace. Members whose role rows go with it keep cached permissions
  for up to an hour if they were not listed when the request began (`untold`).
- `list_tasks` filters by `locked_by` after it has cut the page; `project_name_exists`
  compares names with their case, the unique index without.

## Not modelled

- Geometry: grids, areas and whether a polygon fits another are computed by
  shapely and pyproj. `Fits` of `ProjectSetup` stands for the answer, and any
  answer is allowed.
- The read-only queries (lists, statistics, changesets in a bounding box, and of
  the audit history all but its order): they change nothing, and the rows they read are the state above.
- Migrations, run once per deployment. Their indexes, keys and cascades are in the
  guards and effects of the actions; the drop of stray table copies
  (`b7d4e2a9c1f0`) touches schemas the service does not read.
- Streaming, compression, headers and timeouts of the proxy: no state, and
  nothing they do depends on whom the gate let through.
- The JSON schemas that settings are checked against, fetched from elsewhere.
- Teams: single rows and one membership table that nothing else reads. Their one
  race, two joins at once, ends at the primary key.
- What the importer does with a job. Nothing here reads the job again.
- The order of row locks inside one transaction. PostgreSQL ends a deadlock by
  failing one of the two, which is `Abort`; which requests then wait
  for each other, and which one fails, is below the models. That a statement waits for a
  row that a reset, a deletion or an AOI upload has written is in them.

## What is left

1. The workspace's PATCH and the settings' two-statement insert, in `Workspaces`.
2. Provisioning of the OSM application and user rows by `validate_token`, in
   `UserInfoCache`.
3. Teams, if anything comes to depend on a membership.
4. A finer `SoftDelete` in `ProjectSetup`, where it is one step, and in
   `TaskWorkflow` a cascade that takes its row locks one by one, to show which
   pairs of requests can wait for each other.
5. The end of a lock by a reset or a deletion of its project, in `LockLease`, where
   a lock now ends by a release or by its expiry.

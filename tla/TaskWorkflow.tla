---------------------------- MODULE TaskWorkflow ----------------------------
(***************************************************************************)
(* The working life of one activated tasking project: its tasks, the locks *)
(* its members take on them, the submissions that move the tasks through   *)
(* mapping and review, and the lead's reset, close and delete.             *)
(*                                                                         *)
(* Every handler of TaskingTaskRepository and TaskingProjectRepository is  *)
(* one database transaction at READ COMMITTED: a run of SELECTs, each      *)
(* awaited and none FOR UPDATE, that ends in an early return or in a       *)
(* decision held in local variables, then a run of UPDATEs and INSERTs,    *)
(* then one COMMIT.  X reads and decides, XCommit commits.  A submission   *)
(* reads in two steps, since the lock, which it reads last, protects the   *)
(* task only from then on.  A handler that writes rows by the ids it read  *)
(* has all its writes in XCommit.  The project reset and the soft delete   *)
(* pick their rows by a WHERE, each statement on a snapshot of its own:    *)
(* those statements are steps, the rows they pick are held until the       *)
(* COMMIT, and whoever else would write one of them waits.  What a handler *)
(* carries along is req[s], with s the slot (a coroutine of the event      *)
(* loop) that runs the request.  With one slot handlers run one after      *)
(* another, with two they interleave.  A request that fails, or whose      *)
(* process dies, before its COMMIT leaves no trace (Abort).  A read that   *)
(* ends in an error response changes nothing, so only the guards of the    *)
(* successful path appear.                                                 *)
(*                                                                         *)
(* expires_at is left out: no handler here reads it to decide anything     *)
(* (module LockLease is about it), and with it extend_lock and the         *)
(* done = false half of submit, which change nothing else.                 *)
(***************************************************************************)
EXTENDS Naturals

CONSTANTS
  Users,           \* members of the project group that owns the workspace
  Tasks,           \* the tasks saved before activation
  LockIds,         \* primary keys of tasking_locks: bounds the locks ever taken
  Slots,           \* requests the event loop can have in flight at once
  NULL,
  WorkspaceRole,   \* the workspace-level role UserInfo carries, per user
  AllocatedRole,   \* the explicit project role rows at activation
  MaxRoleChanges   \* bound: how often a project role row may change

Roles == {"lead", "validator", "contributor"}
TaskStatuses == {"to_map", "to_review", "to_remap", "completed"}
ReleaseReasons == {"manual", "auto_unlock", "lead_release", "reset"}

ASSUME NullIsNothing ==
  NULL \notin Users \cup Tasks \cup LockIds \cup TaskStatuses \cup Roles
ASSUME WorkspaceRoleType == WorkspaceRole \in [Users -> Roles]
ASSUME AllocatedRoleType == AllocatedRole \in [Users -> Roles \cup {NULL}]
ASSUME MaxRoleChangesType == MaxRoleChanges \in Nat

VARIABLES
  status,          \* tasking_projects.status: "open" or "done"
  deleted,         \* tasking_projects.deleted_at is set
  reviewRequired,  \* tasking_projects.review_required, immutable once active
  projectRole,     \* tasking_project_roles: the explicit row of each user
  roleChanges,     \* how many times projectRole has changed (bounded)
  taskStatus,      \* tasking_tasks.status, "gone" once the row is deleted
  lastMapper,      \* tasking_tasks.last_mapper_id
  locks,           \* tasking_locks, see LockRow
  feedback,        \* tasks with a row in tasking_feedback
  changesets,      \* locks a row of tasking_changesets points to
  lastEvent,       \* per task, the audit event committed last of those that
                   \* tell its status (TaskWorkflowAudit has the served order)
  auditFlagged,    \* every audit row of the project has project_deleted set
  flagCovers,      \* ... or will have, once the deletion in flight commits
  req              \* per slot, what the request in flight has decided

taskVars == <<taskStatus, lastMapper, feedback>>
roleVars == <<projectRole, roleChanges>>
auditVars == <<auditFlagged, flagCovers>>
dbVars == <<status, deleted, reviewRequired, roleVars, taskVars, locks,
            changesets, lastEvent, auditVars>>
vars == <<status, deleted, reviewRequired, projectRole, roleChanges, taskStatus,
          lastMapper, locks, feedback, changesets, lastEvent, auditFlagged,
          flagCovers, req>>

(***************************************************************************)
(* A lock row.  state is "free" before the INSERT, "active" while          *)
(* released_at IS NULL, the release_reason afterwards, and "deleted" once  *)
(* the cascade from tasking_tasks has removed the row.  at is              *)
(* task_status_at_lock.  Nothing here reads the other columns of a row     *)
(* that is no longer active, and they are dropped with the release.        *)
(***************************************************************************)
LockRow == [state : {"free", "active", "deleted"} \cup ReleaseReasons,
            task : Tasks \cup {NULL},
            user : Users \cup {NULL},
            at : TaskStatuses \cup {NULL}]

Row(state) == [state |-> state, task |-> NULL, user |-> NULL, at |-> NULL]

(***************************************************************************)
(* A request in flight: the local variables its handler has set by the     *)
(* time it starts to write.  seen is the status it read, of the task or,   *)
(* for reset, of the project.  A submission is "read_task" until it has    *)
(* read the lock as well.  A reset goes on to "reset_locks" and            *)
(* "reset_tasks" with its two UPDATEs, and keeps the rows they picked in   *)
(* locks and tasks; a soft delete is "deleting" once it has run its        *)
(* statements, and holds all the rows of the project.                      *)
(***************************************************************************)
Ops == {"none", "lock_task", "unlock_task", "reset_task", "read_task", "submit",
        "submit_changeset", "close", "reset", "reset_locks", "reset_tasks",
        "soft_delete", "deleting"}

Request == [op : Ops,
            user : Users \cup {NULL},
            task : Tasks \cup {NULL},
            lock : LockIds \cup {NULL},
            reason : ReleaseReasons \cup {NULL},
            seen : TaskStatuses \cup {"open", "done", NULL},
            to : TaskStatuses \cup {NULL},
            mapper : Users \cup {NULL},
            locks : SUBSET LockIds,
            tasks : SUBSET Tasks]

NoRequest == [op |-> "none", user |-> NULL, task |-> NULL, lock |-> NULL,
              reason |-> NULL, seen |-> NULL, to |-> NULL, mapper |-> NULL,
              locks |-> {}, tasks |-> {}]

(***************************************************************************)
(* An audit event that tells the status of a task: task_state_changed      *)
(* (which names the new status) or project_reset (after which every task   *)
(* is to_map), with the actor it names.                                    *)
(***************************************************************************)
AuditEvent == [event : {"none", "task_state_changed", "project_reset"},
               to : TaskStatuses,
               by : Users \cup {NULL}]

-----------------------------------------------------------------------------

Idle(s) == req[s] = NoRequest

(* _get_active / _get_project: a project that is not soft-deleted. *)
ProjectFound == ~deleted

(* lock_task and close ask for an open project. *)
ProjectOpen == ProjectFound /\ status = "open"

(* _get_task, and the rows a foreign key to tasking_tasks may point to. *)
TaskExists(t) == taskStatus[t] # "gone"

(* _get_active_lock and _get_active_lock_for_user_in_project. *)
ActiveLock(l) == locks[l].state = "active"
ActiveLocksOn(t) == {l \in LockIds : ActiveLock(l) /\ locks[l].task = t}
ActiveLocksOf(u) == {l \in LockIds : ActiveLock(l) /\ locks[l].user = u}

MutHoldsLock(l, u, t) == l \in ActiveLocksOn(t)

(* Both submissions: "Caller does not hold the active lock" otherwise. *)
HoldsLock(l, u, t) == l \in ActiveLocksOn(t) /\ locks[l].user = u

(***************************************************************************)
(* Row locks.  An UPDATE waits for the transaction that has written its    *)
(* row, and so does an INSERT for the one that deletes the row its foreign *)
(* key names.  An INSERT does not wait for one that updates other columns  *)
(* of that row.                                                            *)
(***************************************************************************)
NoDeletion(s) == \A x \in Slots \ {s} : req[x].op # "deleting"

LockWritable(s, l) ==
  /\ NoDeletion(s)
  /\ \A x \in Slots \ {s} : l \notin req[x].locks

TaskWritable(s, t) ==
  /\ NoDeletion(s)
  /\ \A x \in Slots \ {s} : t \notin req[x].tasks

(* assert_workspace_lead: the role the token carries, not the project row. *)
IsWorkspaceLead(u) == WorkspaceRole[u] = "lead"

(* _project_role: a workspace lead stays lead, else the row, else the token. *)
EffectiveRole(u) ==
  IF IsWorkspaceLead(u) \/ projectRole[u] = NULL
  THEN WorkspaceRole[u]
  ELSE projectRole[u]

(* The review half of lock_task's eligibility table. *)
MayReview(u, t) ==
  /\ EffectiveRole(u) \in {"validator", "lead"}
  /\ lastMapper[t] # u

(* The eligibility table of lock_task. *)
MayLock(u, t) ==
  \/ /\ taskStatus[t] \in {"to_map", "to_remap"}
     /\ EffectiveRole(u) \in {"contributor", "validator", "lead"}
  \/ taskStatus[t] = "to_review" /\ MayReview(u, t)

MutNextStatusTypo(from, fb) ==
  CASE from = "to_map" -> IF reviewRequired THEN "to_review" ELSE "completed"
    [] from = "to_remap" -> "to_review"
    [] from = "to_review" -> IF fb THEN "remap" ELSE "completed"

(* The transition table of submit; fb says whether feedback came with it. *)
NextStatus(from, fb) ==
  CASE from = "to_map" -> IF reviewRequired THEN "to_review" ELSE "completed"
    [] from = "to_remap" -> "to_review"
    [] from = "to_review" -> IF fb THEN "to_remap" ELSE "completed"

MutNextMapper(u, t) == IF taskStatus[t] = "to_review" THEN NULL ELSE u

(* A reviewer's submission keeps the last mapper it read. *)
NextMapper(u, t) == IF taskStatus[t] = "to_review" THEN lastMapper[t] ELSE u

Begin(s, r) ==
  /\ Idle(s)
  /\ req' = [req EXCEPT ![s] = r]
  /\ UNCHANGED dbVars

(* A statement of the transaction has run, and is not committed. *)
Goes(s, r) ==
  /\ req' = [req EXCEPT ![s] = r]
  /\ UNCHANGED dbVars

Done(s) == req' = [req EXCEPT ![s] = NoRequest]

(* UPDATE tasking_locks SET released_at, release_reason WHERE id = l: by id *)
(* alone, so a row already released is written again.                       *)
Released(l, reason) ==
  IF locks[l].state = "deleted"
  THEN locks
  ELSE [locks EXCEPT ![l] = Row(reason)]

MutUpdateTask(t, st, mapper) ==
  IF TaskExists(t)
  THEN /\ taskStatus' = [taskStatus EXCEPT ![t] = st]
       /\ lastMapper' = [lastMapper EXCEPT
                           ![t] = IF mapper = NULL THEN @ ELSE mapper]
  ELSE UNCHANGED <<taskStatus, lastMapper>>

MutMergeTask(t, st, mapper) ==
  /\ taskStatus' = [taskStatus EXCEPT ![t] = st]
  /\ lastMapper' = [lastMapper EXCEPT ![t] = mapper]

(* UPDATE tasking_tasks SET status, last_mapper_id WHERE id = t. *)
UpdateTask(t, st, mapper) ==
  IF TaskExists(t)
  THEN /\ taskStatus' = [taskStatus EXCEPT ![t] = st]
       /\ lastMapper' = [lastMapper EXCEPT ![t] = mapper]
  ELSE UNCHANGED <<taskStatus, lastMapper>>

(* _audit: tasking_audit_events has no foreign key and project_deleted *)
(* defaults to FALSE, so the INSERT always succeeds, unflagged.        *)
Audit == auditFlagged' = FALSE /\ flagCovers' = FALSE

MutAuditStatus(t, st, u) ==
  lastEvent' = [lastEvent EXCEPT ![t] =
    [event |-> "task_state_changed", to |-> lastEvent[t].to, by |-> u]]

(* A task_state_changed event. *)
AuditStatus(t, st, u) ==
  lastEvent' = [lastEvent EXCEPT ![t] =
    [event |-> "task_state_changed", to |-> st, by |-> u]]

-----------------------------------------------------------------------------
(* Locks. *)

LockTask(s, u, t) ==
  /\ ProjectOpen
  /\ TaskExists(t)
  /\ MayLock(u, t)
  /\ ActiveLocksOn(t) = {}
  /\ ActiveLocksOf(u) = {}
  /\ Begin(s, [NoRequest EXCEPT !.op = "lock_task", !.user = u, !.task = t,
                                !.seen = taskStatus[t]])

MutNoIndexes(u, t) == TaskExists(t)

MutNoForeignKey(u, t) == ActiveLocksOn(t) = {} /\ ActiveLocksOf(u) = {}

(* tasking_locks_one_active_per_task, tasking_locks_one_active_per_user_     *)
(* project and the foreign key to tasking_tasks: what the INSERT must pass.  *)
LockInsertable(u, t) ==
  /\ TaskExists(t)
  /\ ActiveLocksOn(t) = {}
  /\ ActiveLocksOf(u) = {}

(* The row the INSERT adds has an id no row had before. *)
FreshId(l) == locks[l].state = "free"

LockTaskCommit(s) ==
  /\ req[s].op = "lock_task"
  /\ NoDeletion(s)
  /\ LockInsertable(req[s].user, req[s].task)
  /\ \E l \in LockIds :
       /\ FreshId(l)
       /\ locks' = [locks EXCEPT ![l] = [state |-> "active",
                                         task |-> req[s].task,
                                         user |-> req[s].user,
                                         at |-> req[s].seen]]
  /\ Audit
  /\ Done(s)
  /\ UNCHANGED <<status, deleted, reviewRequired, roleVars, taskVars,
                 changesets, lastEvent>>

(* except IntegrityError: rollback, and 409 to the caller.  A unique index *)
(* waits to see what becomes of an active lock that is being released.     *)
LockTaskConflict(s) ==
  /\ req[s].op = "lock_task"
  /\ NoDeletion(s)
  /\ \/ ~TaskExists(req[s].task)
     \/ \E l \in ActiveLocksOn(req[s].task) \cup ActiveLocksOf(req[s].user) :
          LockWritable(s, l)
  /\ Done(s)
  /\ UNCHANGED dbVars

(* force releases any lock and is for workspace leads; without it the caller *)
(* must be the holder.                                                       *)
UnlockTask(s, u, t, force) ==
  /\ ProjectFound
  /\ TaskExists(t)
  /\ \E l \in ActiveLocksOn(t) :
       /\ IF force THEN IsWorkspaceLead(u) ELSE locks[l].user = u
       /\ Begin(s, [NoRequest EXCEPT
                      !.op = "unlock_task", !.lock = l,
                      !.reason = IF force THEN "lead_release" ELSE "manual"])

UnlockTaskCommit(s) ==
  /\ req[s].op = "unlock_task"
  /\ LockWritable(s, req[s].lock)
  /\ locks' = Released(req[s].lock, req[s].reason)
  /\ Audit
  /\ Done(s)
  /\ UNCHANGED <<status, deleted, reviewRequired, roleVars, taskVars,
                 changesets, lastEvent>>

(* The project may be open or done, and the lock, if any, is released. *)
ResetTask(s, u, t) ==
  /\ IsWorkspaceLead(u)
  /\ ProjectFound
  /\ TaskExists(t)
  /\ \E l \in LockIds \cup {NULL} :
       /\ IF ActiveLocksOn(t) = {} THEN l = NULL ELSE l \in ActiveLocksOn(t)
       /\ Begin(s, [NoRequest EXCEPT !.op = "reset_task", !.user = u,
                      !.task = t, !.lock = l, !.seen = taskStatus[t]])

(* The status is written only if the task read was not yet to_map; the last *)
(* mapper is cleared either way.                                            *)
ResetTaskCommit(s) ==
  LET r == req[s] IN
  /\ r.op = "reset_task"
  /\ TaskWritable(s, r.task)
  /\ r.lock # NULL => LockWritable(s, r.lock)
  /\ locks' = IF r.lock = NULL THEN locks ELSE Released(r.lock, "reset")
  /\ \/ /\ r.seen # "to_map"
        /\ UpdateTask(r.task, "to_map", NULL)
        /\ AuditStatus(r.task, "to_map", r.user)
     \/ /\ r.seen = "to_map"
        /\ UpdateTask(r.task, taskStatus[r.task], NULL)
        /\ UNCHANGED lastEvent
  /\ Audit
  /\ Done(s)
  /\ UNCHANGED <<status, deleted, reviewRequired, roleVars, feedback,
                 changesets>>

-----------------------------------------------------------------------------
(* Submissions.  Neither looks at the project's status or at the caller's   *)
(* role: holding the active lock stands for both.                           *)

(* done = true: the task is read, and decides what the submission does.      *)
(* Feedback in mapper context is ignored, in validator context it sends the  *)
(* task back to be remapped.                                                 *)
Submit(s, u, t, fb) ==
  /\ ProjectFound
  /\ TaskExists(t)
  /\ taskStatus[t] # "completed"
  /\ Begin(s, [NoRequest EXCEPT
                 !.op = "read_task", !.user = u, !.task = t,
                 !.seen = taskStatus[t],
                 !.to = NextStatus(taskStatus[t], fb),
                 !.mapper = NextMapper(u, t)])

(* The lock is read after the task, which it has not protected until then.   *)
SubmitHolds(s) ==
  /\ req[s].op = "read_task"
  /\ \E l \in LockIds :
       /\ HoldsLock(l, req[s].user, req[s].task)
       /\ Goes(s, [req[s] EXCEPT !.op = "submit", !.lock = l])

MutSendsBack(r) == r.seen = "to_review" /\ r.to = "completed"

(* The submission carries feedback that is stored. *)
SendsBack(r) == r.to = "to_remap"

(* The feedback row needs the task row: without it the transaction fails. *)
SubmitCommit(s) ==
  LET r == req[s] IN
  /\ r.op = "submit"
  /\ LockWritable(s, r.lock)
  /\ TaskWritable(s, r.task)
  /\ SendsBack(r) => TaskExists(r.task)
  /\ feedback' = IF SendsBack(r) THEN feedback \cup {r.task} ELSE feedback
  /\ locks' = Released(r.lock, "auto_unlock")
  /\ UpdateTask(r.task, r.to, r.mapper)
  /\ AuditStatus(r.task, r.to, r.user)
  /\ Audit
  /\ Done(s)
  /\ UNCHANGED <<status, deleted, reviewRequired, roleVars, changesets>>

SubmitChangeset(s, u, t) ==
  /\ ProjectFound
  /\ TaskExists(t)
  /\ \E l \in LockIds :
       /\ HoldsLock(l, u, t)
       /\ Begin(s, [NoRequest EXCEPT !.op = "submit_changeset", !.lock = l])

(* The changeset row references the lock row, released or not. *)
SubmitChangesetCommit(s) ==
  /\ req[s].op = "submit_changeset"
  /\ NoDeletion(s)
  /\ locks[req[s].lock].state # "deleted"
  /\ changesets' = changesets \cup {req[s].lock}
  /\ Audit
  /\ Done(s)
  /\ UNCHANGED <<status, deleted, reviewRequired, roleVars, taskVars, locks,
                 lastEvent>>

-----------------------------------------------------------------------------
(* The lead's operations on the whole project. *)

(* No row WHERE status <> 'completed'. *)
AllCompleted ==
  \A t \in Tasks : TaskExists(t) => taskStatus[t] = "completed"

Close(s, u) ==
  /\ IsWorkspaceLead(u)
  /\ ProjectOpen
  /\ AllCompleted
  /\ \A l \in LockIds : ~ActiveLock(l)
  /\ Begin(s, [NoRequest EXCEPT !.op = "close"])

CloseCommit(s) ==
  /\ req[s].op = "close"
  /\ NoDeletion(s)
  /\ status' = "done"
  /\ Audit
  /\ Done(s)
  /\ UNCHANGED <<deleted, reviewRequired, roleVars, taskVars, locks,
                 changesets, lastEvent>>

Reset(s, u) ==
  /\ IsWorkspaceLead(u)
  /\ ProjectFound
  /\ Begin(s, [NoRequest EXCEPT !.op = "reset", !.user = u, !.seen = status])

MutLocksToReset == {l \in LockIds : locks[l].state \notin {"free", "deleted"}}

(* WHERE released_at IS NULL. *)
LocksToReset == {l \in LockIds : ActiveLock(l)}

(* UPDATE tasking_locks.  A lock inserted after it is not among its rows. *)
ResetLocks(s) ==
  /\ req[s].op = "reset"
  /\ \A l \in LocksToReset : LockWritable(s, l)
  /\ Goes(s, [req[s] EXCEPT !.op = "reset_locks", !.locks = LocksToReset])

(* WHERE status <> 'to_map'. *)
TasksToRewind == {t \in Tasks : TaskExists(t) /\ taskStatus[t] # "to_map"}

(* UPDATE tasking_tasks, on a snapshot that may be younger. *)
ResetTasks(s) ==
  /\ req[s].op = "reset_locks"
  /\ \A t \in TasksToRewind : TaskWritable(s, t)
  /\ Goes(s, [req[s] EXCEPT !.op = "reset_tasks", !.tasks = TasksToRewind])

(* The status of the project if it was done, one project_reset event for all *)
(* of the tasks, and the COMMIT of it all.                                   *)
ResetCommit(s) ==
  LET r == req[s] IN
  /\ r.op = "reset_tasks"
  /\ r.seen = "done" => NoDeletion(s)
  /\ locks' = [l \in LockIds |->
                 IF l \in r.locks THEN Row("reset") ELSE locks[l]]
  /\ taskStatus' = [t \in Tasks |->
                      IF t \in r.tasks THEN "to_map" ELSE taskStatus[t]]
  /\ lastMapper' = [t \in Tasks |->
                      IF t \in r.tasks THEN NULL ELSE lastMapper[t]]
  /\ status' = IF r.seen = "done" THEN "open" ELSE status
  /\ lastEvent' = [t \in Tasks |-> [event |-> "project_reset", to |-> "to_map",
                                    by |-> r.user]]
  /\ Audit
  /\ Done(s)
  /\ UNCHANGED <<deleted, reviewRequired, roleVars, feedback, changesets>>

SoftDelete(s, u) ==
  /\ IsWorkspaceLead(u)
  /\ ProjectFound
  /\ \A l \in LockIds : ~ActiveLock(l)
  /\ Begin(s, [NoRequest EXCEPT !.op = "soft_delete"])

(* UPDATE tasking_audit_events SET project_deleted: after the INSERT of the *)
(* project_deleted event, and of every row that is committed by now.        *)
FlagAudit == flagCovers' = TRUE

(* deleted_at, the tasks with all that cascades from them, the event and the *)
(* flags: waits for a reset that has written rows of the project.            *)
SoftDeleteRows(s) ==
  /\ req[s].op = "soft_delete"
  /\ NoDeletion(s)
  /\ \A x \in Slots \ {s} : req[x].locks = {} /\ req[x].tasks = {}
  /\ req' = [req EXCEPT ![s].op = "deleting"]
  /\ FlagAudit
  /\ UNCHANGED <<status, deleted, reviewRequired, roleVars, taskVars, locks,
                 changesets, lastEvent, auditFlagged>>

(* The tasks go for good and take their locks, changesets and feedback with  *)
(* them; the audit rows stay, and those the flag UPDATE saw are flagged.     *)
SoftDeleteCommit(s) ==
  /\ req[s].op = "deleting"
  /\ deleted' = TRUE
  /\ taskStatus' = [t \in Tasks |-> "gone"]
  /\ lastMapper' = [t \in Tasks |-> NULL]
  /\ locks' = [l \in LockIds |->
                 IF locks[l].state = "free" THEN locks[l] ELSE Row("deleted")]
  /\ feedback' = {}
  /\ changesets' = {}
  /\ auditFlagged' = flagCovers
  /\ Done(s)
  /\ UNCHANGED <<status, reviewRequired, roleVars, lastEvent, flagCovers>>

-----------------------------------------------------------------------------

(* A project role row is inserted, changed or removed (r = NULL) by one of   *)
(* the role endpoints; the last lead row is not given up.  Role changes are  *)
(* not audited.  ProjectRoles models those endpoints one by one, and what    *)
(* becomes of the guard when they overlap.                                   *)
RoleChange(u, r) ==
  /\ \E c \in Users : IsWorkspaceLead(c) \/ projectRole[c] = "lead"
  /\ ProjectFound
  /\ roleChanges < MaxRoleChanges
  /\ r # projectRole[u]
  /\ projectRole[u] = "lead" => \E v \in Users \ {u} : projectRole[v] = "lead"
  /\ projectRole' = [projectRole EXCEPT ![u] = r]
  /\ roleChanges' = roleChanges + 1
  /\ UNCHANGED <<status, deleted, reviewRequired, taskVars, locks,
                 changesets, lastEvent, auditVars, req>>

(* The client goes away, the process dies, the database refuses or breaks a *)
(* deadlock: get_session rolls back and nothing the request decided is      *)
(* written.                                                                 *)
Abort(s) ==
  /\ ~Idle(s)
  /\ Done(s)
  /\ UNCHANGED dbVars

Init ==
  /\ status = "open"
  /\ deleted = FALSE
  /\ reviewRequired \in BOOLEAN
  /\ projectRole = AllocatedRole
  /\ roleChanges = 0
  /\ taskStatus = [t \in Tasks |-> "to_map"]
  /\ lastMapper = [t \in Tasks |-> NULL]
  /\ locks = [l \in LockIds |-> Row("free")]
  /\ feedback = {}
  /\ changesets = {}
  /\ lastEvent = [t \in Tasks |-> [event |-> "none", to |-> "to_map", by |-> NULL]]
  /\ auditFlagged = FALSE
  /\ flagCovers = FALSE
  /\ req = [s \in Slots |-> NoRequest]

Member(s) ==
  \E u \in Users, t \in Tasks :
    \/ LockTask(s, u, t)
    \/ \E force \in BOOLEAN : UnlockTask(s, u, t, force)
    \/ \E fb \in BOOLEAN : Submit(s, u, t, fb)
    \/ SubmitChangeset(s, u, t)
    \/ ResetTask(s, u, t)

Lead(s) ==
  \E u \in Users : Close(s, u) \/ Reset(s, u) \/ SoftDelete(s, u)

Commit(s) ==
  \/ LockTaskCommit(s)
  \/ LockTaskConflict(s)
  \/ UnlockTaskCommit(s)
  \/ ResetTaskCommit(s)
  \/ SubmitCommit(s)
  \/ SubmitChangesetCommit(s)
  \/ CloseCommit(s)
  \/ ResetCommit(s)
  \/ SoftDeleteCommit(s)

(* The statements of a transaction that run before its COMMIT. *)
Statement(s) ==
  SubmitHolds(s) \/ ResetLocks(s) \/ ResetTasks(s) \/ SoftDeleteRows(s)

Next ==
  \/ \E s \in Slots :
       Member(s) \/ Lead(s) \/ Statement(s) \/ Commit(s) \/ Abort(s)
  \/ \E u \in Users, r \in Roles \cup {NULL} : RoleChange(u, r)

Spec == Init /\ [][Next]_vars

-----------------------------------------------------------------------------

(* Every variable has its type. *)
TypeOK ==
  /\ status \in {"open", "done"}
  /\ deleted \in BOOLEAN
  /\ reviewRequired \in BOOLEAN
  /\ projectRole \in [Users -> Roles \cup {NULL}]
  /\ roleChanges \in Nat
  /\ taskStatus \in [Tasks -> TaskStatuses \cup {"gone"}]
  /\ lastMapper \in [Tasks -> Users \cup {NULL}]
  /\ locks \in [LockIds -> LockRow]
  /\ feedback \in SUBSET Tasks
  /\ changesets \in SUBSET LockIds
  /\ lastEvent \in [Tasks -> AuditEvent]
  /\ auditFlagged \in BOOLEAN
  /\ flagCovers \in BOOLEAN
  /\ req \in [Slots -> Request]

(***************************************************************************)
(* Safety that survives any interleaving of requests.                      *)
(***************************************************************************)

(* At most one active lock per task and one per user, although lock_task     *)
(* checks both in SELECTs of their own before it inserts.                    *)
LocksExclusive ==
  \A l, m \in LockIds :
    /\ ActiveLock(l)
    /\ ActiveLock(m)
    /\ locks[l].task = locks[m].task \/ locks[l].user = locks[m].user
    => l = m

(* A task that waits to be mapped has no last mapper.  The project reset     *)
(* relies on it: it clears last_mapper_id only WHERE status <> 'to_map', and *)
(* a mapper left behind there would survive the reset.                       *)
UnmappedHasNoMapper ==
  \A t \in Tasks : taskStatus[t] = "to_map" => lastMapper[t] = NULL

(* A task is sent back to be remapped only together with the reviewer's      *)
(* feedback row, and no reset takes the row away while the task waits.       *)
RemapHasFeedback ==
  \A t \in Tasks : taskStatus[t] = "to_remap" => t \in feedback

(* Deleted for good: once the project is soft-deleted no late commit brings  *)
(* a task, a lock, a changeset or feedback back.                             *)
DeletedIsEmpty ==
  deleted => /\ \A t \in Tasks : ~TaskExists(t)
             /\ \A l \in LockIds : ~ActiveLock(l)
             /\ feedback = {} /\ changesets = {}

(***************************************************************************)
(* Safety of requests that run one after another.                          *)
(***************************************************************************)

(* An active lock was taken on the task as it is now: every step that moves  *)
(* the task on releases the lock with it.  submit infers the caller's        *)
(* context from the task's status and is right to only because of this.      *)
LockMatchesTask ==
  \A l \in LockIds :
    ActiveLock(l) => taskStatus[locks[l].task] = locks[l].at

(* Nobody holds a review lock on a task they last mapped.                    *)
NoSelfReview ==
  \A l \in LockIds :
    /\ ActiveLock(l)
    /\ taskStatus[locks[l].task] = "to_review"
    => lastMapper[locks[l].task] # locks[l].user

(* With review required, whoever completed a task is not who last mapped it. *)
FourEyes ==
  reviewRequired =>
    \A t \in Tasks :
      taskStatus[t] = "completed" => lastEvent[t].by # lastMapper[t]

(* The audit event committed last for a task goes with the write committed   *)
(* last: no status is written without its event or the event without the     *)
(* write, although a project reset has one event for all of the tasks.       *)
EventTellsStatus ==
  \A t \in Tasks : TaskExists(t) => lastEvent[t].to = taskStatus[t]

(* Past to_map a task always has a last mapper: without one the self-review  *)
(* guard of lock_task would let anybody through.                             *)
MappedHasMapper ==
  \A t \in Tasks :
    taskStatus[t] \in {"to_review", "to_remap", "completed"}
      => lastMapper[t] # NULL

(* A closed project has no active lock and so, since submit never looks at   *)
(* the project's status, no way to submit.                                   *)
ClosedHasNoLock ==
  status = "done" => \A l \in LockIds : ~ActiveLock(l)

(* Only the holder of an active lock on the task moves it or records a       *)
(* changeset: the lock a submission stands on is active when it commits.     *)
SubmitsUnderLock ==
  [][/\ \A t \in Tasks :
          /\ taskStatus'[t] # taskStatus[t]
          /\ taskStatus'[t] \notin {"to_map", "gone"}
          => \E l \in ActiveLocksOn(t) : locks[l].user = lastEvent'[t].by
     /\ \A l \in changesets' \ changesets : ActiveLock(l)]_vars

(* The reason a lock was released for is the reason on record ever after.    *)
ReasonStands ==
  [][\A l \in LockIds :
       locks[l].state \in ReleaseReasons
         => locks'[l].state \in {locks[l].state, "deleted"}]_vars

(* Whoever moves a task out of review has a role that may review, as long as *)
(* no role row has changed: submit looks at no role, the lock stands for it. *)
ReviewedByReviewer ==
  [][roleChanges = 0 => \A t \in Tasks :
       /\ taskStatus[t] = "to_review"
       /\ taskStatus'[t] \in {"completed", "to_remap"}
       => EffectiveRole(lastEvent'[t].by) \in {"validator", "lead"}]_vars

(* After a soft delete every audit row of the project is flagged.            *)
DeletedIsFlagged == deleted => auditFlagged

(***************************************************************************)
(* The abstract specification.  A task is held by the users of its active  *)
(* locks.  A role row may change between a request's reads and its commit: *)
(* once one has, whoever a request found to be a reviewer counts as one    *)
(* until it commits.                                                       *)
(***************************************************************************)
Reviewers ==
  {u \in Users :
     \/ EffectiveRole(u) \in {"validator", "lead"}
     \/ roleChanges # 0
        /\ \E s \in Slots : req[s].op = "lock_task" /\ req[s].seen = "to_review"
                             /\ req[s].user = u}

WorkingOn(t) == {locks[l].user : l \in ActiveLocksOn(t)}

Board == INSTANCE TaskBoard WITH
  phase <- IF deleted THEN "deleted" ELSE status,
  reviewed <- reviewRequired,
  reviewers <- Reviewers,
  stage <- taskStatus,
  mapper <- lastMapper,
  holders <- [t \in Tasks |-> WorkingOn(t)]

(* Requests that run one after another implement the board: whatever they    *)
(* do to tasks, locks and the project is one operation of TaskBoard, or      *)
(* nothing that its members can see.                                         *)
KeepsTheBoard == Board!Spec

=============================================================================

------------------------ MODULE TaskWorkflow_proofs ------------------------
(***************************************************************************)
(* Proofs about TaskWorkflow, for any users, tasks, lock ids and number of *)
(* role changes.                                                           *)
(*                                                                         *)
(* Part one holds for any number of slots, that is, however requests       *)
(* interleave: the shape of what a request carries, that the ids it        *)
(* carries were inserted, and the invariants that follow.  Part two adds   *)
(* that at most one request is in flight (Serial), which makes what it     *)
(* read still true when it writes (Fresh).                                 *)
(***************************************************************************)
EXTENDS TaskWorkflow, TLAPS

USE NullIsNothing DEF Roles, TaskStatuses, ReleaseReasons

(* The columns a request of each kind has filled in. *)
Shape(r) ==
  /\ r \in Request
  /\ r.op \in {"lock_task", "reset_task", "read_task", "submit"}
       => r.user \in Users /\ r.task \in Tasks /\ r.seen \in TaskStatuses
  /\ r.op \in {"unlock_task", "submit", "submit_changeset"} => r.lock \in LockIds
  /\ r.op = "unlock_task" => r.reason \in ReleaseReasons
  /\ r.op \in {"read_task", "submit"}
       => r.to \in {"to_review", "to_remap", "completed"}
  /\ r.op \in {"reset", "reset_locks", "reset_tasks"} => r.user \in Users
  /\ r.op \notin {"reset_locks", "reset_tasks"} => r.locks = {}
  /\ r.op # "reset_tasks" => r.tasks = {}

ReqShape == \A s \in Slots : Shape(req[s])

TypeInv == TypeOK /\ ReqShape

-----------------------------------------------------------------------------
(* Types. *)

(* A request that begins with a well-shaped record keeps the types. *)
LEMMA BeginTypes ==
  ASSUME TypeInv, NEW s \in Slots, NEW r, Shape(r), Begin(s, r)
  PROVE  TypeInv'
  BY DEF TypeInv, TypeOK, ReqShape, Begin, dbVars, roleVars, taskVars, auditVars,
         Shape

(* So does a statement that leaves the request well shaped.                  *)
LEMMA GoesTypes ==
  ASSUME TypeInv, NEW s \in Slots, NEW r, Shape(r), Goes(s, r)
  PROVE  TypeInv'
  BY DEF TypeInv, TypeOK, ReqShape, Goes, dbVars, roleVars, taskVars, auditVars,
         Shape

(* So does one that ends, whatever it has written to the database, if that is *)
(* of its type.                                                              *)
LEMMA DoneShape ==
  ASSUME TypeInv, NEW s \in Slots, Done(s)
  PROVE  req' \in [Slots -> Request] /\ ReqShape'
  BY DEF TypeInv, TypeOK, ReqShape, Done, Shape, NoRequest, Request, Ops

LEMMA ReleasedType ==
  ASSUME TypeOK, NEW l, NEW reason \in ReleaseReasons
  PROVE  Released(l, reason) \in [LockIds -> LockRow]
  BY DEF TypeOK, Released, Row, LockRow

LEMMA UpdateTaskType ==
  ASSUME TypeOK, NEW t \in Tasks, NEW st \in TaskStatuses,
         NEW m \in Users \cup {NULL}, UpdateTask(t, st, m)
  PROVE  /\ taskStatus' \in [Tasks -> TaskStatuses \cup {"gone"}]
         /\ lastMapper' \in [Tasks -> Users \cup {NULL}]
  BY DEF TypeOK, UpdateTask

LEMMA AuditStatusType ==
  ASSUME TypeOK, NEW t \in Tasks, NEW st \in TaskStatuses, NEW u \in Users,
         AuditStatus(t, st, u)
  PROVE  lastEvent' \in [Tasks -> AuditEvent]
  BY DEF TypeOK, AuditStatus, AuditEvent

LEMMA InitTypes == Init => TypeInv
<1> SUFFICES ASSUME Init PROVE TypeInv
  OBVIOUS
<1>1. Shape(NoRequest)
  BY DEF Shape, NoRequest, Request, Ops
<1>2. req \in [Slots -> Request] /\ ReqShape
  BY <1>1 DEF Init, ReqShape, Shape
<1>3. locks \in [LockIds -> LockRow] /\ lastEvent \in [Tasks -> AuditEvent]
  BY DEF Init, Row, LockRow, AuditEvent
<1>4. projectRole \in [Users -> Roles \cup {NULL}] /\ roleChanges \in Nat
  BY AllocatedRoleType DEF Init
<1> QED
  BY <1>2, <1>3, <1>4 DEF Init, TypeInv, TypeOK

LEMMA MemberTypes ==
  ASSUME TypeInv, NEW s \in Slots, Member(s)
  PROVE  TypeInv'
<1> PICK u \in Users, t \in Tasks :
        \/ LockTask(s, u, t)
        \/ \E force \in BOOLEAN : UnlockTask(s, u, t, force)
        \/ \E fb \in BOOLEAN : Submit(s, u, t, fb)
        \/ SubmitChangeset(s, u, t)
        \/ ResetTask(s, u, t)
  BY DEF Member
<1> taskStatus[t] \in TaskStatuses \cup {"gone"} /\ lastMapper[t] \in Users \cup {NULL}
  BY DEF TypeInv, TypeOK
<1>1. CASE LockTask(s, u, t)
  <2> DEFINE r == [NoRequest EXCEPT !.op = "lock_task", !.user = u, !.task = t,
                                    !.seen = taskStatus[t]]
  <2>1. Shape(r)
    BY <1>1 DEF LockTask, TaskExists, Shape, NoRequest, Request, Ops
  <2>2. Begin(s, r)
    BY <1>1 DEF LockTask
  <2> QED
    BY <2>1, <2>2, BeginTypes
<1>2. ASSUME NEW force \in BOOLEAN, UnlockTask(s, u, t, force)
      PROVE  TypeInv'
  <2>1. PICK l \in ActiveLocksOn(t) :
          Begin(s, [NoRequest EXCEPT
                      !.op = "unlock_task", !.lock = l,
                      !.reason = IF force THEN "lead_release" ELSE "manual"])
    BY <1>2 DEF UnlockTask
  <2> DEFINE r == [NoRequest EXCEPT
                      !.op = "unlock_task", !.lock = l,
                      !.reason = IF force THEN "lead_release" ELSE "manual"]
  <2>2. Shape(r)
    BY DEF ActiveLocksOn, Shape, NoRequest, Request, Ops
  <2> QED
    BY <2>1, <2>2, BeginTypes
<1>3. ASSUME NEW fb \in BOOLEAN, Submit(s, u, t, fb)
      PROVE  TypeInv'
  <2> DEFINE r == [NoRequest EXCEPT
                      !.op = "read_task", !.user = u, !.task = t,
                      !.seen = taskStatus[t],
                      !.to = NextStatus(taskStatus[t], fb),
                      !.mapper = NextMapper(u, t)]
  <2>1. Begin(s, r)
    BY <1>3 DEF Submit
  <2>2. taskStatus[t] \in {"to_map", "to_remap", "to_review"}
    BY <1>3 DEF Submit, TaskExists
  <2>3. NextStatus(taskStatus[t], fb) \in {"to_review", "to_remap", "completed"}
    BY <2>2 DEF NextStatus
  <2>4. NextMapper(u, t) \in Users \cup {NULL}
    BY DEF NextMapper
  <2>5. Shape(r)
    BY <2>2, <2>3, <2>4 DEF Shape, NoRequest, Request, Ops
  <2> QED
    BY <2>1, <2>5, BeginTypes
<1>4. CASE SubmitChangeset(s, u, t)
  <2>1. PICK l \in LockIds :
          Begin(s, [NoRequest EXCEPT !.op = "submit_changeset", !.lock = l])
    BY <1>4 DEF SubmitChangeset
  <2>2. Shape([NoRequest EXCEPT !.op = "submit_changeset", !.lock = l])
    BY DEF Shape, NoRequest, Request, Ops
  <2> QED
    BY <2>1, <2>2, BeginTypes
<1>5. CASE ResetTask(s, u, t)
  <2>1. PICK l \in LockIds \cup {NULL} :
          Begin(s, [NoRequest EXCEPT !.op = "reset_task", !.user = u,
                      !.task = t, !.lock = l, !.seen = taskStatus[t]])
    BY <1>5 DEF ResetTask
  <2>2. Shape([NoRequest EXCEPT !.op = "reset_task", !.user = u,
                      !.task = t, !.lock = l, !.seen = taskStatus[t]])
    BY <1>5 DEF ResetTask, TaskExists, Shape, NoRequest, Request, Ops
  <2> QED
    BY <2>1, <2>2, BeginTypes
<1> QED
  BY <1>1, <1>2, <1>3, <1>4, <1>5

LEMMA LeadTypes ==
  ASSUME TypeInv, NEW s \in Slots, Lead(s)
  PROVE  TypeInv'
<1> PICK u \in Users : Close(s, u) \/ Reset(s, u) \/ SoftDelete(s, u)
  BY DEF Lead
<1>1. CASE Close(s, u)
  <2>1. Shape([NoRequest EXCEPT !.op = "close"])
    BY DEF Shape, NoRequest, Request, Ops
  <2> QED
    BY <1>1, <2>1, BeginTypes DEF Close
<1>2. CASE Reset(s, u)
  <2>1. status \in {"open", "done"}
    BY DEF TypeInv, TypeOK
  <2>2. Shape([NoRequest EXCEPT !.op = "reset", !.user = u, !.seen = status])
    BY <2>1 DEF Shape, NoRequest, Request, Ops
  <2> QED
    BY <1>2, <2>2, BeginTypes DEF Reset
<1>3. CASE SoftDelete(s, u)
  <2>1. Shape([NoRequest EXCEPT !.op = "soft_delete"])
    BY DEF Shape, NoRequest, Request, Ops
  <2> QED
    BY <1>3, <2>1, BeginTypes DEF SoftDelete
<1> QED
  BY <1>1, <1>2, <1>3

LEMMA StatementTypes ==
  ASSUME TypeInv, NEW s \in Slots, Statement(s)
  PROVE  TypeInv'
<1>a. req \in [Slots -> Request] /\ Shape(req[s])
  BY DEF TypeInv, TypeOK, ReqShape
<1>b. req[s] \in Request
  BY <1>a
<1>1. CASE ResetLocks(s)
  <2> DEFINE r == [req[s] EXCEPT !.op = "reset_locks", !.locks = LocksToReset]
  <2>0. LocksToReset \in SUBSET LockIds
    BY DEF LocksToReset
  <2>2. /\ r \in Request /\ r.op = "reset_locks" /\ r.locks \in SUBSET LockIds
        /\ r.user = req[s].user /\ r.tasks = req[s].tasks
    BY <1>b, <2>0 DEF Request, Ops
  <2>1. Shape(r)
    BY <1>1, <1>a, <2>2 DEF ResetLocks, Shape
  <2> QED
    BY <1>1, <2>1, GoesTypes DEF ResetLocks
<1>2. CASE ResetTasks(s)
  <2> DEFINE r == [req[s] EXCEPT !.op = "reset_tasks", !.tasks = TasksToRewind]
  <2>0. TasksToRewind \in SUBSET Tasks
    BY DEF TasksToRewind
  <2>2. /\ r \in Request /\ r.op = "reset_tasks" /\ r.tasks \in SUBSET Tasks
        /\ r.user = req[s].user /\ r.locks = req[s].locks
    BY <1>b, <2>0 DEF Request, Ops
  <2>1. Shape(r)
    BY <1>2, <1>a, <2>2 DEF ResetTasks, Shape
  <2> QED
    BY <1>2, <2>1, GoesTypes DEF ResetTasks
<1>3. CASE SoftDeleteRows(s)
  <2> DEFINE r == [req[s] EXCEPT !.op = "deleting"]
  <2>1. Shape(r)
    BY <1>3, <1>a DEF SoftDeleteRows, Shape, Request, Ops
  <2>2. req' = [req EXCEPT ![s] = r]
    BY <1>3, <1>a DEF SoftDeleteRows
  <2>3. req' \in [Slots -> Request] /\ ReqShape'
    BY <1>a, <2>1, <2>2 DEF TypeInv, ReqShape, Shape
  <2> QED
    BY <1>3, <2>3
    DEF SoftDeleteRows, FlagAudit, TypeInv, TypeOK, roleVars, taskVars
<1>4. CASE SubmitHolds(s)
  <2>1. PICK l \in LockIds : Goes(s, [req[s] EXCEPT !.op = "submit", !.lock = l])
    BY <1>4 DEF SubmitHolds
  <2>2. Shape([req[s] EXCEPT !.op = "submit", !.lock = l])
    BY <1>4, <1>a DEF SubmitHolds, Shape, Request, Ops
  <2> QED
    BY <2>1, <2>2, GoesTypes
<1> QED
  BY <1>1, <1>2, <1>3, <1>4 DEF Statement

LEMMA CommitTypes ==
  ASSUME TypeInv, NEW s \in Slots, Commit(s)
  PROVE  TypeInv'
<1> DEFINE r == req[s]
<1> USE DEF roleVars, taskVars
<1>a. TypeOK /\ ReqShape /\ Shape(r)
  BY DEF TypeInv, ReqShape
<1>b. Done(s) => req' \in [Slots -> Request] /\ ReqShape'
  BY DoneShape
<1>1. CASE LockTaskCommit(s)
  <2>1. locks' \in [LockIds -> LockRow]
    BY <1>1, <1>a DEF LockTaskCommit, TypeOK, Shape, LockRow
  <2> QED
    BY <1>1, <1>a, <1>b, <2>1 DEF LockTaskCommit, TypeInv, TypeOK, Audit
<1>2. CASE LockTaskConflict(s)
  BY <1>2, <1>a, <1>b DEF LockTaskConflict, TypeInv, TypeOK, dbVars, auditVars
<1>3. CASE UnlockTaskCommit(s)
  <2>1. locks' \in [LockIds -> LockRow]
    BY <1>3, <1>a, ReleasedType DEF UnlockTaskCommit, Shape
  <2> QED
    BY <1>3, <1>a, <1>b, <2>1 DEF UnlockTaskCommit, TypeInv, TypeOK, Audit
<1>4. CASE ResetTaskCommit(s)
  <2>0. r.task \in Tasks /\ r.user \in Users
    BY <1>4, <1>a DEF ResetTaskCommit, Shape
  <2>1. locks' \in [LockIds -> LockRow]
    BY <1>4, <1>a, ReleasedType DEF ResetTaskCommit, TypeOK
  <2>2. /\ taskStatus' \in [Tasks -> TaskStatuses \cup {"gone"}]
        /\ lastMapper' \in [Tasks -> Users \cup {NULL}]
    BY <1>4, <1>a, <2>0 DEF ResetTaskCommit, UpdateTask, TypeOK
  <2>3. lastEvent' \in [Tasks -> AuditEvent]
    BY <1>4, <1>a, <2>0, AuditStatusType DEF ResetTaskCommit, TypeOK
  <2> QED
    BY <1>4, <1>a, <1>b, <2>1, <2>2, <2>3
    DEF ResetTaskCommit, TypeInv, TypeOK, Audit
<1>5. CASE SubmitCommit(s)
  <2>0. /\ r.task \in Tasks /\ r.user \in Users /\ r.to \in TaskStatuses
        /\ r.mapper \in Users \cup {NULL}
    BY <1>5, <1>a DEF SubmitCommit, Shape, Request
  <2>1. locks' \in [LockIds -> LockRow]
    BY <1>5, <1>a, ReleasedType DEF SubmitCommit
  <2>2. /\ taskStatus' \in [Tasks -> TaskStatuses \cup {"gone"}]
        /\ lastMapper' \in [Tasks -> Users \cup {NULL}]
    BY <1>5, <1>a, <2>0, UpdateTaskType DEF SubmitCommit
  <2>3. lastEvent' \in [Tasks -> AuditEvent]
    BY <1>5, <1>a, <2>0, AuditStatusType DEF SubmitCommit
  <2>4. feedback' \in SUBSET Tasks
    BY <1>5, <1>a, <2>0 DEF SubmitCommit, TypeOK
  <2> QED
    BY <1>5, <1>a, <1>b, <2>1, <2>2, <2>3, <2>4
    DEF SubmitCommit, TypeInv, TypeOK, Audit
<1>6. CASE SubmitChangesetCommit(s)
  <2>1. changesets' \in SUBSET LockIds
    BY <1>6, <1>a DEF SubmitChangesetCommit, TypeOK, Shape
  <2> QED
    BY <1>6, <1>a, <1>b, <2>1 DEF SubmitChangesetCommit, TypeInv, TypeOK, Audit
<1>7. CASE CloseCommit(s)
  BY <1>7, <1>a, <1>b DEF CloseCommit, TypeInv, TypeOK, Audit
<1>8. CASE ResetCommit(s)
  <2>0. r.user \in Users
    BY <1>8, <1>a DEF ResetCommit, Shape
  <2>1. locks' \in [LockIds -> LockRow]
    BY <1>8, <1>a DEF ResetCommit, TypeOK, Row, LockRow
  <2>2. /\ taskStatus' \in [Tasks -> TaskStatuses \cup {"gone"}]
        /\ lastMapper' \in [Tasks -> Users \cup {NULL}]
        /\ status' \in {"open", "done"}
    BY <1>8, <1>a DEF ResetCommit, TypeOK
  <2>3. lastEvent' \in [Tasks -> AuditEvent]
    BY <1>8, <1>a, <2>0 DEF ResetCommit, AuditEvent
  <2> QED
    BY <1>8, <1>a, <1>b, <2>1, <2>2, <2>3 DEF ResetCommit, TypeInv, TypeOK, Audit
<1>9. CASE SoftDeleteCommit(s)
  <2>1. locks' \in [LockIds -> LockRow]
    BY <1>9, <1>a DEF SoftDeleteCommit, TypeOK, Row, LockRow
  <2> QED
    BY <1>9, <1>a, <1>b, <2>1 DEF SoftDeleteCommit, TypeInv, TypeOK
<1> QED
  BY <1>1, <1>2, <1>3, <1>4, <1>5, <1>6, <1>7, <1>8, <1>9 DEF Commit

LEMMA RoleChangeTypes ==
  ASSUME TypeInv, NEW u \in Users, NEW x \in Roles \cup {NULL}, RoleChange(u, x)
  PROVE  TypeInv'
  BY DEF TypeInv, TypeOK, ReqShape, Shape, RoleChange, taskVars, auditVars

LEMMA AbortTypes ==
  ASSUME TypeInv, NEW s \in Slots, Abort(s)
  PROVE  TypeInv'
  BY DoneShape DEF TypeInv, TypeOK, Abort, dbVars, roleVars, taskVars, auditVars

LEMMA NextTypes == TypeInv /\ [Next]_vars => TypeInv'
<1> SUFFICES ASSUME TypeInv, [Next]_vars PROVE TypeInv'
  OBVIOUS
<1>1. CASE UNCHANGED vars
  BY <1>1 DEF vars, TypeInv, TypeOK, ReqShape, Shape
<1>2. CASE Next
  BY <1>2, MemberTypes, LeadTypes, StatementTypes, CommitTypes, AbortTypes,
     RoleChangeTypes DEF Next
<1> QED
  BY <1>1, <1>2

(* Type correctness: every variable keeps its type, and every request in     *)
(* flight carries the columns its handler will write.                        *)
THEOREM Types == Spec => []TypeInv
  BY InitTypes, NextTypes, PTL DEF Spec

(* The type invariant the runs check. *)
THEOREM TypeCorrect == Spec => []TypeOK
<1>1. TypeInv => TypeOK
  BY DEF TypeInv
<1> QED
  BY <1>1, Types, PTL

-----------------------------------------------------------------------------
(* Part one: any interleaving. *)

(* Only a commit or a change of role writes to the database: the statements  *)
(* of a deletion leave no more than their flags to come.                     *)
LEMMA StepKinds ==
  ASSUME [Next]_vars
  PROVE  \/ UNCHANGED dbVars
         \/ \E s \in Slots : SoftDeleteRows(s)
         \/ \E u \in Users, x \in Roles \cup {NULL} : RoleChange(u, x)
         \/ \E s \in Slots :
              \/ LockTaskCommit(s) \/ UnlockTaskCommit(s) \/ ResetTaskCommit(s)
              \/ SubmitCommit(s) \/ SubmitChangesetCommit(s) \/ CloseCommit(s)
              \/ ResetCommit(s) \/ SoftDeleteCommit(s)
<1>1. CASE UNCHANGED vars
  BY <1>1 DEF vars, dbVars, roleVars, taskVars, auditVars
<1>2. ASSUME NEW s \in Slots, Member(s) PROVE UNCHANGED dbVars
  BY <1>2 DEF Member, LockTask, UnlockTask, Submit, SubmitChangeset, ResetTask, Begin
<1>3. ASSUME NEW s \in Slots, Lead(s) PROVE UNCHANGED dbVars
  BY <1>3 DEF Lead, Close, Reset, SoftDelete, Begin
<1>4. ASSUME NEW s \in Slots,
             \/ Abort(s) \/ LockTaskConflict(s)
             \/ SubmitHolds(s) \/ ResetLocks(s) \/ ResetTasks(s)
      PROVE  UNCHANGED dbVars
  BY <1>4 DEF Abort, LockTaskConflict, SubmitHolds, ResetLocks, ResetTasks, Goes
<1> QED
  BY <1>1, <1>2, <1>3, <1>4 DEF Next, Commit, Statement

-----------------------------------------------------------------------------
(* Rows held by transactions in flight. *)

(* A row that an UPDATE has picked stays as it was picked until its COMMIT,  *)
(* no two transactions hold one, and a deletion holds them all.              *)
HeldBy(s) ==
  /\ \A l \in req[s].locks : ActiveLock(l)
  /\ \A t \in req[s].tasks : TaskExists(t) /\ taskStatus[t] # "to_map"
  /\ \A x \in Slots \ {s} :
       /\ \A l \in req[s].locks : l \notin req[x].locks
       /\ \A t \in req[s].tasks : t \notin req[x].tasks
       /\ req[s].op = "deleting"
            => req[x].op # "deleting" /\ req[x].locks = {} /\ req[x].tasks = {}

HeldRows == \A s \in Slots : HeldBy(s)

(* A request that begins holds nothing. *)
HoldsNothing(r) == r.op # "deleting" /\ r.locks = {} /\ r.tasks = {}

LEMMA Begins ==
  ASSUME NEW s \in Slots, Member(s) \/ Lead(s)
  PROVE  /\ \E r : HoldsNothing(r) /\ req' = [req EXCEPT ![s] = r]
         /\ UNCHANGED dbVars
<1> USE DEF Begin, NoRequest, HoldsNothing
<1>1. CASE Lead(s)
  BY <1>1 DEF Lead, Close, Reset, SoftDelete
<1>2. CASE Member(s)
  <2> PICK u \in Users, t \in Tasks :
        \/ LockTask(s, u, t)
        \/ \E force \in BOOLEAN : UnlockTask(s, u, t, force)
        \/ \E fb \in BOOLEAN : Submit(s, u, t, fb)
        \/ SubmitChangeset(s, u, t)
        \/ ResetTask(s, u, t)
    BY <1>2 DEF Member
  <2>1. CASE LockTask(s, u, t)
    BY <2>1 DEF LockTask
  <2>2. ASSUME NEW force \in BOOLEAN, UnlockTask(s, u, t, force)
        PROVE  /\ \E r : HoldsNothing(r) /\ req' = [req EXCEPT ![s] = r]
               /\ UNCHANGED dbVars
    BY <2>2 DEF UnlockTask
  <2>3. ASSUME NEW fb \in BOOLEAN, Submit(s, u, t, fb)
        PROVE  /\ \E r : HoldsNothing(r) /\ req' = [req EXCEPT ![s] = r]
               /\ UNCHANGED dbVars
    BY <2>3 DEF Submit
  <2>4. CASE SubmitChangeset(s, u, t)
    BY <2>4 DEF SubmitChangeset
  <2>5. CASE ResetTask(s, u, t)
    BY <2>5 DEF ResetTask
  <2> QED
    BY <2>1, <2>2, <2>3, <2>4, <2>5
<1> QED
  BY <1>1, <1>2

LEMMA Ends ==
  ASSUME NEW s \in Slots, Commit(s) \/ Abort(s)
  PROVE  Done(s)
  BY DEF Commit, Abort, LockTaskCommit, LockTaskConflict, UnlockTaskCommit,
         ResetTaskCommit, SubmitCommit, SubmitChangesetCommit, CloseCommit,
         ResetCommit, SoftDeleteCommit

(* A request that holds nothing any more disturbs nobody, if the rows that   *)
(* others hold are as they were.                                             *)
LEMMA HeldKept ==
  ASSUME TypeInv, HeldRows, NEW z \in Slots, NEW r, HoldsNothing(r),
         req' = [req EXCEPT ![z] = r],
         \A s \in Slots \ {z} :
            /\ \A l \in req[s].locks : locks'[l] = locks[l]
            /\ \A t \in req[s].tasks : taskStatus'[t] = taskStatus[t]
  PROVE  HeldRows'
<1>1. \A s \in Slots : req'[s] = IF s = z THEN r ELSE req[s]
  BY DEF TypeInv, TypeOK
<1>2. ASSUME NEW s \in Slots, s # z PROVE HeldBy(s)'
  BY <1>1, <1>2 DEF HeldRows, HeldBy, HoldsNothing, ActiveLock, TaskExists
<1>3. HeldBy(z)'
  BY <1>1 DEF HeldBy, HoldsNothing
<1> QED
  BY <1>2, <1>3 DEF HeldRows

LEMMA HeldStep ==
  ASSUME TypeInv, HeldRows, [Next]_vars
  PROVE  HeldRows'
<1> USE DEF dbVars, taskVars
<1>t. /\ req \in [Slots -> Request] /\ locks \in [LockIds -> LockRow]
      /\ taskStatus \in [Tasks -> TaskStatuses \cup {"gone"}]
      /\ \A s \in Slots : Shape(req[s])
  BY DEF TypeInv, TypeOK, ReqShape
<1>n. HoldsNothing(NoRequest)
  BY DEF HoldsNothing, NoRequest
<1>1. CASE UNCHANGED <<req, locks, taskStatus>>
  BY <1>1 DEF HeldRows, HeldBy, ActiveLock, TaskExists
<1>2. ASSUME NEW z \in Slots, Member(z) \/ Lead(z) PROVE HeldRows'
  BY <1>2, Begins, HeldKept
<1>3. ASSUME NEW z \in Slots, ResetLocks(z) PROVE HeldRows'
  <2>1. \A s \in Slots \ {z} : req'[s] = req[s]
    BY <1>3, <1>t DEF ResetLocks, Goes
  <2>2. /\ req'[z].op = "reset_locks" /\ req'[z].locks = LocksToReset
        /\ req'[z].tasks = {}
    BY <1>3, <1>t DEF ResetLocks, Goes, Shape, Request
  <2>3. UNCHANGED <<locks, taskStatus>>
    BY <1>3 DEF ResetLocks, Goes
  <2>4. ASSUME NEW s \in Slots \ {z}, NEW k \in LocksToReset
        PROVE  k \notin req[s].locks /\ req[s].op # "deleting"
    BY <1>3 DEF ResetLocks, LockWritable, NoDeletion
  <2>5. HeldBy(z)
    BY DEF HeldRows
  <2>6. ASSUME NEW s \in Slots, s # z PROVE HeldBy(s)'
    <3>1. HeldBy(s)
      BY DEF HeldRows
    <3>2. req[s].op = "deleting" => LocksToReset = {}
      BY <2>4, <2>6
    <3>3. \A x \in Slots \ {s} :
            /\ \A l \in req[s].locks : l \notin req'[x].locks
            /\ \A t \in req[s].tasks : t \notin req'[x].tasks
            /\ req[s].op = "deleting"
                 => req'[x].op # "deleting" /\ req'[x].locks = {} /\ req'[x].tasks = {}
      BY <2>1, <2>2, <2>4, <2>6, <3>1, <3>2 DEF HeldBy
    <3> QED
      BY <2>1, <2>3, <2>6, <3>1, <3>3 DEF HeldBy, ActiveLock, TaskExists
  <2>7. HeldBy(z)'
    BY <2>1, <2>2, <2>3, <2>4, <2>5 DEF HeldBy, LocksToReset, ActiveLock, TaskExists
  <2> QED
    BY <2>6, <2>7 DEF HeldRows
<1>4. ASSUME NEW z \in Slots, ResetTasks(z) PROVE HeldRows'
  <2>1. \A s \in Slots \ {z} : req'[s] = req[s]
    BY <1>4, <1>t DEF ResetTasks, Goes
  <2>2. /\ req'[z].op = "reset_tasks" /\ req'[z].tasks = TasksToRewind
        /\ req'[z].locks = req[z].locks
    BY <1>4, <1>t DEF ResetTasks, Goes, Shape, Request
  <2>3. UNCHANGED <<locks, taskStatus>>
    BY <1>4 DEF ResetTasks, Goes
  <2>4. ASSUME NEW s \in Slots \ {z}, NEW k \in TasksToRewind
        PROVE  k \notin req[s].tasks /\ req[s].op # "deleting"
    BY <1>4 DEF ResetTasks, TaskWritable, NoDeletion
  <2>5. HeldBy(z)
    BY DEF HeldRows
  <2>6. ASSUME NEW s \in Slots, s # z PROVE HeldBy(s)'
    <3>1. HeldBy(s)
      BY DEF HeldRows
    <3>2. req[s].op = "deleting" => TasksToRewind = {}
      BY <2>4, <2>6
    <3>3. \A x \in Slots \ {s} :
            /\ \A l \in req[s].locks : l \notin req'[x].locks
            /\ \A t \in req[s].tasks : t \notin req'[x].tasks
            /\ req[s].op = "deleting"
                 => req'[x].op # "deleting" /\ req'[x].locks = {} /\ req'[x].tasks = {}
      BY <2>1, <2>2, <2>4, <2>6, <3>1, <3>2 DEF HeldBy
    <3> QED
      BY <2>1, <2>3, <2>6, <3>1, <3>3 DEF HeldBy, ActiveLock, TaskExists
  <2>7. HeldBy(z)'
    BY <2>1, <2>2, <2>3, <2>4, <2>5 DEF HeldBy, TasksToRewind, ActiveLock, TaskExists
  <2> QED
    BY <2>6, <2>7 DEF HeldRows
<1>5. ASSUME NEW z \in Slots, SoftDeleteRows(z) PROVE HeldRows'
  <2>1. \A s \in Slots : req'[s] = IF s = z THEN [req[z] EXCEPT !.op = "deleting"]
                                   ELSE req[s]
    BY <1>5, <1>t DEF SoftDeleteRows
  <2>2. req[z].locks = {} /\ req[z].tasks = {} /\ req[z] \in Request
    BY <1>5, <1>t DEF SoftDeleteRows, Shape
  <2>3. UNCHANGED <<locks, taskStatus>>
    BY <1>5 DEF SoftDeleteRows
  <2>4. \A x \in Slots \ {z} :
          req[x].op # "deleting" /\ req[x].locks = {} /\ req[x].tasks = {}
    BY <1>5 DEF SoftDeleteRows, NoDeletion
  <2>5. ASSUME NEW s \in Slots PROVE HeldBy(s)'
    BY <2>1, <2>2, <2>3, <2>4 DEF HeldRows, HeldBy, Request
  <2> QED
    BY <2>5 DEF HeldRows
<1>6. ASSUME NEW z \in Slots, Done(z), UNCHANGED <<locks, taskStatus>>
      PROVE  HeldRows'
  BY <1>6, <1>n, HeldKept DEF Done
<1>7. ASSUME NEW z \in Slots,
             LockTaskCommit(z) \/ UnlockTaskCommit(z) \/ ResetTaskCommit(z)
               \/ SubmitCommit(z) \/ ResetCommit(z) \/ SoftDeleteCommit(z)
      PROVE  HeldRows'
  <2>1. Done(z)
    BY <1>7, Ends DEF Commit
  <2> SUFFICES ASSUME NEW s \in Slots, s # z
               PROVE  /\ \A l \in req[s].locks : locks'[l] = locks[l]
                      /\ \A t \in req[s].tasks : taskStatus'[t] = taskStatus[t]
    BY <2>1, <1>n, HeldKept DEF Done
  <2>2. /\ HeldBy(s) /\ HeldBy(z) /\ req[s].locks \subseteq LockIds
        /\ req[s].tasks \subseteq Tasks
    BY <1>t DEF HeldRows, Request
  <2>3. CASE LockTaskCommit(z)
    BY <2>2, <2>3, <1>t DEF LockTaskCommit, FreshId, HeldBy, ActiveLock
  <2>4. CASE UnlockTaskCommit(z)
    BY <2>2, <2>4, <1>t DEF UnlockTaskCommit, LockWritable, Released
  <2>5. CASE ResetTaskCommit(z)
    BY <2>2, <2>5, <1>t
    DEF ResetTaskCommit, LockWritable, TaskWritable, Released, UpdateTask
  <2>6. CASE SubmitCommit(z)
    BY <2>2, <2>6, <1>t
    DEF SubmitCommit, LockWritable, TaskWritable, Released, UpdateTask
  <2>7. CASE ResetCommit(z)
    BY <2>2, <2>7, <1>t DEF ResetCommit, HeldBy
  <2>8. CASE SoftDeleteCommit(z)
    BY <2>2, <2>8 DEF SoftDeleteCommit, HeldBy
  <2> QED
    BY <1>7, <2>3, <2>4, <2>5, <2>6, <2>7, <2>8
<1>8. ASSUME NEW z \in Slots,
             Abort(z) \/ LockTaskConflict(z) \/ SubmitChangesetCommit(z) \/ CloseCommit(z)
      PROVE  HeldRows'
  BY <1>6, <1>8
  DEF Abort, LockTaskConflict, SubmitChangesetCommit, CloseCommit
<1>9. ASSUME NEW u \in Users, NEW x \in Roles \cup {NULL}, RoleChange(u, x)
      PROVE  HeldRows'
  BY <1>1, <1>9 DEF RoleChange
<1>10. CASE UNCHANGED vars
  BY <1>1, <1>10 DEF vars
<1>11. ASSUME NEW z \in Slots, SubmitHolds(z) PROVE HeldRows'
  <2>1. PICK l \in LockIds : Goes(z, [req[z] EXCEPT !.op = "submit", !.lock = l])
    BY <1>11 DEF SubmitHolds
  <2>2. HoldsNothing([req[z] EXCEPT !.op = "submit", !.lock = l])
    BY <1>11, <1>t DEF SubmitHolds, Shape, Request, HoldsNothing
  <2> QED
    BY <2>1, <2>2, HeldKept DEF Goes
<1> QED
  BY <1>2, <1>3, <1>4, <1>5, <1>7, <1>8, <1>9, <1>10, <1>11
  DEF Next, Statement, Commit

-----------------------------------------------------------------------------
(* Lock rows. *)

(* What any step may do to one lock row, when requests carry only the ids of *)
(* rows that were inserted (LockRefs).                                       *)
LockRefs ==
  \A s \in Slots : req[s].lock \in LockIds => locks[req[s].lock].state # "free"

LockIsInserted(l) ==
  /\ locks[l].state = "free"
  /\ locks'[l].state = "active"
  /\ locks'[l].task \in Tasks /\ TaskExists(locks'[l].task)
  /\ ActiveLocksOn(locks'[l].task) = {}
  /\ ActiveLocksOf(locks'[l].user) = {}
  /\ \A m \in LockIds \ {l} : locks'[m] = locks[m]
  /\ taskStatus' = taskStatus
  /\ deleted' = deleted

LockIsReleased(l) ==
  /\ locks[l].state \notin {"free", "deleted"}
  /\ locks'[l].state \in ReleaseReasons

LockIsDeleted(l) ==
  /\ locks[l].state # "free"
  /\ locks'[l].state = "deleted"

LEMMA ReleasedRow ==
  ASSUME TypeInv, NEW k \in LockIds, NEW reason \in ReleaseReasons,
         locks[k].state # "free", locks' = Released(k, reason),
         NEW l \in LockIds
  PROVE  locks'[l] = locks[l] \/ LockIsReleased(l)
  BY DEF TypeInv, TypeOK, Released, Row, LockIsReleased

LEMMA LockStep ==
  ASSUME TypeInv, LockRefs, HeldRows, [Next]_vars, NEW l \in LockIds
  PROVE  \/ locks'[l] = locks[l]
         \/ LockIsInserted(l)
         \/ LockIsReleased(l)
         \/ LockIsDeleted(l)
<1> USE DEF taskVars, roleVars
<1>t. locks \in [LockIds -> LockRow] /\ \A s \in Slots : Shape(req[s])
  BY DEF TypeInv, TypeOK, ReqShape
<1>1. ASSUME UNCHANGED dbVars \/ \E s \in Slots : SoftDeleteRows(s)
      PROVE  locks'[l] = locks[l]
  BY <1>1 DEF dbVars, SoftDeleteRows
<1>2. ASSUME NEW u \in Users, NEW x \in Roles \cup {NULL}, RoleChange(u, x)
      PROVE  locks'[l] = locks[l]
  BY <1>2 DEF RoleChange
<1>3. ASSUME NEW s \in Slots, LockTaskCommit(s)
      PROVE  locks'[l] = locks[l] \/ LockIsInserted(l)
  <2>1. req[s].task \in Tasks /\ req[s].user \in Users
    BY <1>3, <1>t DEF LockTaskCommit, Shape
  <2>2. PICK k \in LockIds :
          /\ FreshId(k)
          /\ locks' = [locks EXCEPT ![k] = [state |-> "active",
                                            task |-> req[s].task,
                                            user |-> req[s].user,
                                            at |-> req[s].seen]]
    BY <1>3 DEF LockTaskCommit
  <2>3. CASE k # l
    BY <1>t, <2>2, <2>3
  <2>4. CASE k = l
    BY <1>3, <1>t, <2>1, <2>2, <2>4
    DEF LockTaskCommit, LockIsInserted, LockInsertable, FreshId
  <2> QED
    BY <2>3, <2>4
<1>4. ASSUME NEW s \in Slots, UnlockTaskCommit(s)
      PROVE  locks'[l] = locks[l] \/ LockIsReleased(l)
  BY <1>4, <1>t, ReleasedRow DEF UnlockTaskCommit, Shape, LockRefs
<1>5. ASSUME NEW s \in Slots, ResetTaskCommit(s)
      PROVE  locks'[l] = locks[l] \/ LockIsReleased(l)
  <2>1. req[s].lock \in LockIds \cup {NULL}
    BY <1>t DEF Shape, Request
  <2> QED
    BY <1>5, <1>t, <2>1, ReleasedRow DEF ResetTaskCommit, LockRefs
<1>6. ASSUME NEW s \in Slots, SubmitCommit(s)
      PROVE  locks'[l] = locks[l] \/ LockIsReleased(l)
  BY <1>6, <1>t, ReleasedRow DEF SubmitCommit, Shape, LockRefs
<1>7. ASSUME NEW s \in Slots, SubmitChangesetCommit(s) \/ CloseCommit(s)
      PROVE  locks'[l] = locks[l]
  BY <1>7 DEF SubmitChangesetCommit, CloseCommit
<1>8. ASSUME NEW s \in Slots, ResetCommit(s)
      PROVE  locks'[l] = locks[l] \/ LockIsReleased(l)
  BY <1>8, <1>t DEF ResetCommit, HeldRows, HeldBy, ActiveLock, Row, LockIsReleased
<1>9. ASSUME NEW s \in Slots, SoftDeleteCommit(s)
      PROVE  locks'[l] = locks[l] \/ LockIsDeleted(l)
  BY <1>9, <1>t DEF SoftDeleteCommit, Row, LockIsDeleted
<1> QED
  BY <1>1, <1>2, <1>3, <1>4, <1>5, <1>6, <1>7, <1>8, <1>9, StepKinds

LEMMA LockRefsStep ==
  ASSUME TypeInv, LockRefs, HeldRows, [Next]_vars
  PROVE  LockRefs'
<1>1. \A l \in LockIds : locks[l].state # "free" => locks'[l].state # "free"
  BY LockStep DEF LockIsInserted, LockIsReleased, LockIsDeleted
<1> DEFINE RefKept(s) ==
             \/ req'[s].lock = req[s].lock
             \/ req'[s].lock \notin LockIds
             \/ req'[s].lock \in LockIds /\ locks[req'[s].lock].state = "active"
<1>2. ASSUME NEW s \in Slots
      PROVE  RefKept(s)
  <2>t. req \in [Slots -> Request]
    BY DEF TypeInv, TypeOK
  <2>1. ASSUME NEW z \in Slots, Done(z) PROVE RefKept(s)
    BY <2>1, <2>t DEF Done, NoRequest
  <2>2. ASSUME NEW z \in Slots, Member(z) PROVE RefKept(s)
    <3>1. PICK u \in Users, t \in Tasks :
            \/ LockTask(z, u, t)
            \/ \E force \in BOOLEAN : UnlockTask(z, u, t, force)
            \/ \E fb \in BOOLEAN : Submit(z, u, t, fb)
            \/ SubmitChangeset(z, u, t)
            \/ ResetTask(z, u, t)
      BY <2>2 DEF Member
    <3>2. CASE LockTask(z, u, t)
      BY <3>2, <2>t DEF LockTask, Begin, NoRequest
    <3>3. ASSUME NEW force \in BOOLEAN, UnlockTask(z, u, t, force) PROVE RefKept(s)
      BY <3>3, <2>t DEF UnlockTask, Begin, NoRequest, ActiveLocksOn, ActiveLock
    <3>4. ASSUME NEW fb \in BOOLEAN, Submit(z, u, t, fb) PROVE RefKept(s)
      BY <3>4, <2>t DEF Submit, Begin, NoRequest
    <3>5. CASE SubmitChangeset(z, u, t)
      BY <3>5, <2>t
      DEF SubmitChangeset, Begin, NoRequest, HoldsLock, ActiveLocksOn, ActiveLock
    <3>6. CASE ResetTask(z, u, t)
      BY <3>6, <2>t DEF ResetTask, Begin, NoRequest, ActiveLocksOn, ActiveLock
    <3> QED
      BY <3>1, <3>2, <3>3, <3>4, <3>5, <3>6
  <2>3. ASSUME NEW z \in Slots, Lead(z) PROVE RefKept(s)
    BY <2>3, <2>t DEF Lead, Close, Reset, SoftDelete, Begin, NoRequest
  <2>4. ASSUME NEW z \in Slots, Commit(z) \/ Abort(z) PROVE Done(z)
    BY <2>4, Ends
  <2>7. ASSUME NEW z \in Slots, Statement(z) PROVE RefKept(s)
    <3>1. req[z] \in Request /\ req[s] \in Request
      BY <2>t
    <3>2. CASE ResetLocks(z)
      BY <3>1, <3>2, <2>t DEF ResetLocks, Goes, Request
    <3>3. CASE ResetTasks(z)
      BY <3>1, <3>3, <2>t DEF ResetTasks, Goes, Request
    <3>4. CASE SoftDeleteRows(z)
      BY <3>1, <3>4, <2>t DEF SoftDeleteRows, Request
    <3>5. CASE SubmitHolds(z)
      BY <3>1, <3>5, <2>t
      DEF SubmitHolds, Goes, Request, HoldsLock, ActiveLocksOn, ActiveLock
    <3> QED
      BY <2>7, <3>2, <3>3, <3>4, <3>5 DEF Statement
  <2>5. ASSUME NEW u \in Users, NEW x \in Roles \cup {NULL}, RoleChange(u, x)
        PROVE  RefKept(s)
    BY <2>5 DEF RoleChange
  <2>6. CASE UNCHANGED vars
    BY <2>6 DEF vars
  <2> QED
    BY <2>1, <2>2, <2>3, <2>4, <2>5, <2>6, <2>7 DEF Next
<1> QED
  BY <1>1, <1>2 DEF LockRefs

(* A deleted project's lock rows are deleted, and stay so. *)
DeletedRows ==
  deleted => \A l \in LockIds : locks[l].state \in {"free", "deleted"}

SafeInv ==
  /\ TypeInv
  /\ LockRefs
  /\ HeldRows
  /\ LocksExclusive
  /\ UnmappedHasNoMapper
  /\ RemapHasFeedback
  /\ DeletedIsEmpty
  /\ DeletedRows

LEMMA ExclusiveStep ==
  ASSUME TypeInv, LockRefs, HeldRows, LocksExclusive, [Next]_vars
  PROVE  LocksExclusive'
<1> SUFFICES ASSUME NEW l \in LockIds, NEW m \in LockIds,
                    ActiveLock(l)', ActiveLock(m)', l # m
             PROVE  /\ locks'[l].task # locks'[m].task
                    /\ locks'[l].user # locks'[m].user
  BY DEF LocksExclusive, ActiveLock
<1>1. locks'[l] = locks[l] \/ LockIsInserted(l)
  BY LockStep DEF ActiveLock, LockIsReleased, LockIsDeleted
<1>2. locks'[m] = locks[m] \/ LockIsInserted(m)
  BY LockStep DEF ActiveLock, LockIsReleased, LockIsDeleted
<1>3. CASE LockIsInserted(l)
  BY <1>3 DEF LockIsInserted, ActiveLocksOn, ActiveLocksOf, ActiveLock
<1>4. CASE LockIsInserted(m)
  BY <1>4 DEF LockIsInserted, ActiveLocksOn, ActiveLocksOf, ActiveLock
<1>5. CASE locks'[l] = locks[l] /\ locks'[m] = locks[m]
  BY <1>5 DEF LocksExclusive, ActiveLock
<1> QED
  BY <1>1, <1>2, <1>3, <1>4, <1>5

(* The invariants about tasks, in one step each. *)
LEMMA TasksStep ==
  ASSUME SafeInv, [Next]_vars
  PROVE  UnmappedHasNoMapper' /\ RemapHasFeedback'
<1> USE DEF UnmappedHasNoMapper, RemapHasFeedback, TaskExists
<1>t. /\ taskStatus \in [Tasks -> TaskStatuses \cup {"gone"}]
      /\ lastMapper \in [Tasks -> Users \cup {NULL}]
      /\ \A s \in Slots : Shape(req[s])
  BY DEF SafeInv, TypeInv, TypeOK, ReqShape
<1>i. UnmappedHasNoMapper /\ RemapHasFeedback
  BY DEF SafeInv
<1>1. CASE UNCHANGED taskVars
  BY <1>1, <1>i DEF taskVars
<1>2. ASSUME NEW s \in Slots, ResetTaskCommit(s)
      PROVE  UnmappedHasNoMapper' /\ RemapHasFeedback'
  <2>1. req[s].task \in Tasks
    BY <1>2, <1>t DEF ResetTaskCommit, Shape
  <2>2. CASE req[s].seen # "to_map"
    BY <1>2, <1>t, <1>i, <2>1, <2>2
    DEF ResetTaskCommit, UpdateTask
  <2>3. CASE req[s].seen = "to_map"
    BY <1>2, <1>t, <1>i, <2>1, <2>3 DEF ResetTaskCommit, UpdateTask
  <2> QED
    BY <2>2, <2>3
<1>3. ASSUME NEW s \in Slots, SubmitCommit(s)
      PROVE  UnmappedHasNoMapper' /\ RemapHasFeedback'
  <2>1. req[s].task \in Tasks /\ req[s].to \in {"to_review", "to_remap", "completed"}
    BY <1>3, <1>t DEF SubmitCommit, Shape
  <2>2. UnmappedHasNoMapper'
    BY <1>3, <1>t, <1>i, <2>1 DEF SubmitCommit, UpdateTask
  <2>3. RemapHasFeedback'
    BY <1>3, <1>t, <1>i, <2>1 DEF SubmitCommit, UpdateTask, SendsBack
  <2> QED
    BY <2>2, <2>3
<1>4. ASSUME NEW s \in Slots, ResetCommit(s)
      PROVE  UnmappedHasNoMapper' /\ RemapHasFeedback'
  BY <1>4, <1>t, <1>i DEF ResetCommit
<1>5. ASSUME NEW s \in Slots, SoftDeleteCommit(s)
      PROVE  UnmappedHasNoMapper' /\ RemapHasFeedback'
  BY <1>5 DEF SoftDeleteCommit
<1>6. ASSUME NEW s \in Slots,
             \/ LockTaskCommit(s) \/ UnlockTaskCommit(s)
             \/ SubmitChangesetCommit(s) \/ CloseCommit(s)
      PROVE  UNCHANGED taskVars
  BY <1>6 DEF LockTaskCommit, UnlockTaskCommit, SubmitChangesetCommit, CloseCommit
<1>7. ASSUME NEW u \in Users, NEW x \in Roles \cup {NULL}, RoleChange(u, x)
      PROVE  UNCHANGED taskVars
  BY <1>7 DEF RoleChange
<1>8. ASSUME UNCHANGED dbVars \/ \E s \in Slots : SoftDeleteRows(s)
      PROVE  UNCHANGED taskVars
  BY <1>8 DEF dbVars, SoftDeleteRows
<1> QED
  BY <1>1, <1>2, <1>3, <1>4, <1>5, <1>6, <1>7, <1>8, StepKinds

LEMMA DeletedStep ==
  ASSUME SafeInv, [Next]_vars
  PROVE  DeletedIsEmpty' /\ DeletedRows'
<1> USE DEF taskVars, roleVars
<1>t. /\ taskStatus \in [Tasks -> TaskStatuses \cup {"gone"}]
      /\ locks \in [LockIds -> LockRow]
      /\ \A s \in Slots : Shape(req[s])
  BY DEF SafeInv, TypeInv, TypeOK, ReqShape
<1>1. ASSUME NEW s \in Slots, SoftDeleteCommit(s)
      PROVE  DeletedIsEmpty' /\ DeletedRows'
  BY <1>1, <1>t
  DEF SoftDeleteCommit, DeletedIsEmpty, DeletedRows, TaskExists, ActiveLock, Row
<1>2. ASSUME \A s \in Slots : ~SoftDeleteCommit(s)
      PROVE  deleted' = deleted
  BY <1>2, StepKinds
  DEF RoleChange, LockTaskCommit, UnlockTaskCommit, ResetTaskCommit, SubmitCommit,
      SubmitChangesetCommit, CloseCommit, ResetCommit, SoftDeleteRows, dbVars
<1>3. ASSUME deleted, deleted', NEW l \in LockIds
      PROVE  locks'[l].state \in {"free", "deleted"}
  <2>1. \A t \in Tasks : ~TaskExists(t)
    BY <1>3 DEF SafeInv, DeletedIsEmpty
  <2>2. locks[l].state \in {"free", "deleted"}
    BY <1>3 DEF SafeInv, DeletedRows
  <2> QED
    BY <2>1, <2>2, LockStep
    DEF SafeInv, LockIsInserted, LockIsReleased, LockIsDeleted
<1>4. ASSUME deleted, deleted', \A s \in Slots : ~SoftDeleteCommit(s)
      PROVE  DeletedIsEmpty' /\ DeletedRows'
  <2>1. \A t \in Tasks : taskStatus[t] = "gone"
    BY <1>4 DEF SafeInv, DeletedIsEmpty, TaskExists
  <2>2. feedback = {} /\ changesets = {}
    BY <1>4 DEF SafeInv, DeletedIsEmpty
  <2>3. DeletedRows'
    BY <1>3, <1>4 DEF DeletedRows
  <2>4. ASSUME NEW s \in Slots, ResetTaskCommit(s)
        PROVE  taskStatus' = taskStatus /\ feedback' = {} /\ changesets' = {}
    BY <2>4, <2>1, <2>2, <1>t DEF ResetTaskCommit, UpdateTask, TaskExists, Shape
  <2>5. ASSUME NEW s \in Slots, SubmitCommit(s)
        PROVE  taskStatus' = taskStatus /\ feedback' = {} /\ changesets' = {}
    BY <2>5, <2>1, <2>2, <1>t DEF SubmitCommit, UpdateTask, TaskExists, Shape
  <2>6. ASSUME NEW s \in Slots, SubmitChangesetCommit(s)
        PROVE  FALSE
    <3>1. req[s].lock \in LockIds /\ locks[req[s].lock].state # "free"
      BY <2>6, <1>t DEF SubmitChangesetCommit, Shape, SafeInv, LockRefs
    <3> QED
      BY <2>6, <1>4, <3>1 DEF SubmitChangesetCommit, SafeInv, DeletedRows
  <2>7. ASSUME NEW s \in Slots, ResetCommit(s)
        PROVE  taskStatus' = taskStatus /\ feedback' = {} /\ changesets' = {}
    BY <2>7, <2>1, <2>2, <1>t
    DEF ResetCommit, TaskExists, SafeInv, HeldRows, HeldBy, Shape, Request
  <2>8. ASSUME NEW s \in Slots,
               LockTaskCommit(s) \/ UnlockTaskCommit(s) \/ CloseCommit(s)
        PROVE  taskStatus' = taskStatus /\ feedback' = {} /\ changesets' = {}
    BY <2>8, <2>2 DEF LockTaskCommit, UnlockTaskCommit, CloseCommit
  <2>9. ASSUME NEW u \in Users, NEW x \in Roles \cup {NULL}, RoleChange(u, x)
        PROVE  taskStatus' = taskStatus /\ feedback' = {} /\ changesets' = {}
    BY <2>9, <2>2 DEF RoleChange
  <2>11. ASSUME NEW s \in Slots, SoftDeleteRows(s)
        PROVE  taskStatus' = taskStatus /\ feedback' = {} /\ changesets' = {}
    BY <2>11, <2>2 DEF SoftDeleteRows
  <2>10. taskStatus' = taskStatus /\ feedback' = {} /\ changesets' = {}
    BY <1>4, <2>2, <2>4, <2>5, <2>6, <2>7, <2>8, <2>9, <2>11, StepKinds DEF dbVars
  <2> QED
    BY <2>1, <2>3, <2>10 DEF DeletedIsEmpty, DeletedRows, TaskExists, ActiveLock
<1>5. CASE ~deleted'
  BY <1>5 DEF DeletedIsEmpty, DeletedRows
<1> QED
  BY <1>1, <1>2, <1>4, <1>5

LEMMA SafeInit == Init => SafeInv
<1> SUFFICES ASSUME Init PROVE SafeInv
  OBVIOUS
<1>1. TypeInv
  BY InitTypes
<1>2. LockRefs
  BY DEF Init, LockRefs, NoRequest
<1>3. LocksExclusive
  BY DEF Init, LocksExclusive, ActiveLock, Row
<1>4. UnmappedHasNoMapper /\ RemapHasFeedback
  BY DEF Init, UnmappedHasNoMapper, RemapHasFeedback
<1>5. DeletedIsEmpty /\ DeletedRows
  BY DEF Init, DeletedIsEmpty, DeletedRows
<1>6. HeldRows
  BY DEF Init, HeldRows, HeldBy, NoRequest
<1> QED
  BY <1>1, <1>2, <1>3, <1>4, <1>5, <1>6 DEF SafeInv

LEMMA SafeStep == SafeInv /\ [Next]_vars => SafeInv'
<1> SUFFICES ASSUME SafeInv, [Next]_vars PROVE SafeInv'
  OBVIOUS
<1>1. TypeInv'
  BY NextTypes DEF SafeInv
<1>2. LockRefs'
  BY LockRefsStep DEF SafeInv
<1>3. LocksExclusive'
  BY ExclusiveStep DEF SafeInv
<1>4. HeldRows'
  BY HeldStep DEF SafeInv
<1> QED
  BY <1>1, <1>2, <1>3, <1>4, TasksStep, DeletedStep DEF SafeInv

(* However requests interleave: rows held stay as they were picked, locks     *)
(* stay exclusive, an unmapped task has no last mapper, a task sent back has  *)
(* feedback, and a deleted project stays empty.                               *)
THEOREM Safety == Spec => []SafeInv
  BY SafeInit, SafeStep, PTL DEF Spec

(* No two active locks on one task or of one user. *)
THEOREM Exclusive == Spec => []LocksExclusive
<1>1. SafeInv => LocksExclusive
  BY DEF SafeInv
<1> QED
  BY <1>1, Safety, PTL

(* The WHERE clause of the project reset leaves no last mapper behind. *)
THEOREM ResetClears == Spec => []UnmappedHasNoMapper
<1>1. SafeInv => UnmappedHasNoMapper
  BY DEF SafeInv
<1> QED
  BY <1>1, Safety, PTL

(* A task waiting to be remapped has its reviewer's feedback. *)
THEOREM SentBackWithFeedback == Spec => []RemapHasFeedback
<1>1. SafeInv => RemapHasFeedback
  BY DEF SafeInv
<1> QED
  BY <1>1, Safety, PTL

(* Late commits leave a deleted project empty. *)
THEOREM DeletedForGood == Spec => []DeletedIsEmpty
<1>1. SafeInv => DeletedIsEmpty
  BY DEF SafeInv
<1> QED
  BY <1>1, Safety, PTL

=============================================================================

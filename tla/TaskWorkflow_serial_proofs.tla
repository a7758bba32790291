--------------------- MODULE TaskWorkflow_serial_proofs ---------------------
(***************************************************************************)
(* Part two of the proofs about TaskWorkflow: what holds when requests run *)
(* one after another (Serial), for any users, tasks, lock ids and number   *)
(* of role changes.                                                        *)
(*                                                                         *)
(* A handler reads in one step and writes in another.  With one slot no    *)
(* other request commits in between, so whatever it read still holds when  *)
(* it writes: that is Fresh, and the rest follows from it.  The run        *)
(* TaskWorkflow_race shows that NoSelfReview fails as soon as Serial does. *)
(***************************************************************************)
EXTENDS TaskWorkflow_proofs

USE NullIsNothing DEF Roles, TaskStatuses, ReleaseReasons

(* At most one request is in flight. *)
Serial == \A s, t \in Slots : s = t

MaySign(u) == EffectiveRole(u) \in {"validator", "lead"}

(* What each kind of request has read and relies on. *)
FreshLock(r) ==
  r.op = "lock_task" =>
    /\ status = "open"
    /\ r.seen = taskStatus[r.task]
    /\ r.seen = "to_review" =>
         /\ lastMapper[r.task] # r.user
         /\ roleChanges = 0 => MaySign(r.user)

FreshRelease(r) ==
  /\ r.op \in {"unlock_task", "submit_changeset"} => ActiveLock(r.lock)
  /\ r.op = "reset_task" =>
       /\ r.seen = taskStatus[r.task]
       /\ IF r.lock = NULL THEN ActiveLocksOn(r.task) = {}
                           ELSE r.lock \in ActiveLocksOn(r.task)

FreshSubmit(r) ==
  /\ r.op \in {"read_task", "submit"} =>
       /\ r.seen = taskStatus[r.task]
       /\ r.seen # "completed"
       /\ \E fb \in BOOLEAN : r.to = NextStatus(r.seen, fb)
       /\ r.mapper = NextMapper(r.user, r.task)
  /\ r.op = "submit" => HoldsLock(r.lock, r.user, r.task)

FreshLead(r) ==
  /\ r.op = "close" => status = "open" /\ AllCompleted
  /\ r.op \in {"close", "soft_delete", "deleting"}
       => \A l \in LockIds : ~ActiveLock(l)
  /\ r.op \in {"reset", "reset_locks", "reset_tasks"} => r.seen = status
  /\ r.op \in {"reset_locks", "reset_tasks"} => LocksToReset \subseteq r.locks
  /\ r.op = "reset_tasks" => TasksToRewind \subseteq r.tasks
  /\ r.op = "deleting" => flagCovers

FreshReq(r) ==
  /\ r.op # "none" => ~deleted
  /\ FreshLock(r)
  /\ FreshRelease(r)
  /\ FreshSubmit(r)
  /\ FreshLead(r)

Fresh == \A s \in Slots : FreshReq(req[s])

(* A task is asked for only where there is work left on it. *)
Takes(r) == r.op = "lock_task" => r.seen \in {"to_map", "to_remap", "to_review"}

(* Columns of an active lock row. *)
ActiveTyped ==
  \A l \in LockIds :
    ActiveLock(l) => locks[l].task \in Tasks /\ locks[l].user \in Users

(* A review lock was taken by a reviewer, as long as no role row changed. *)
ReviewerLocks ==
  roleChanges = 0 =>
    \A l \in LockIds :
      ActiveLock(l) /\ locks[l].at = "to_review" => MaySign(locks[l].user)

SerialData ==
  /\ ActiveTyped
  /\ LockMatchesTask
  /\ NoSelfReview
  /\ MappedHasMapper
  /\ FourEyes
  /\ EventTellsStatus
  /\ ClosedHasNoLock
  /\ DeletedIsFlagged
  /\ ReviewerLocks

SerialInv == SafeInv /\ SerialData /\ Fresh

-----------------------------------------------------------------------------
(* What a request read is true when it begins and, with nobody else, stays so. *)

(* What a step that reads leaves in its slot. *)
Decides(s, r) == Begin(s, r) /\ FreshReq(r) /\ Takes(r)

LEMMA BeginsFresh ==
  ASSUME NEW s \in Slots, Member(s) \/ Lead(s)
  PROVE  \E r : Decides(s, r)
<1>b. ASSUME NEW r, Begin(s, r), FreshReq(r), Takes(r)
      PROVE  \E x : Decides(s, x)
  BY <1>b DEF Decides
<1>1. ASSUME NEW u \in Users, NEW t \in Tasks, LockTask(s, u, t)
      PROVE  \E r : Decides(s, r)
  <2> DEFINE r == [NoRequest EXCEPT !.op = "lock_task", !.user = u, !.task = t,
                                    !.seen = taskStatus[t]]
  <2>1. FreshReq(r) /\ Takes(r)
    BY <1>1 DEF LockTask, ProjectOpen, ProjectFound, MayLock, MayReview, MaySign,
        NoRequest, FreshReq, FreshLock, FreshRelease, FreshSubmit, FreshLead, Takes
  <2> QED
    BY <1>1, <1>b, <2>1 DEF LockTask
<1>2. ASSUME NEW u \in Users, NEW t \in Tasks, NEW force \in BOOLEAN,
             UnlockTask(s, u, t, force)
      PROVE  \E r : Decides(s, r)
  <2>1. PICK l \in ActiveLocksOn(t) :
          Begin(s, [NoRequest EXCEPT
                      !.op = "unlock_task", !.lock = l,
                      !.reason = IF force THEN "lead_release" ELSE "manual"])
    BY <1>2 DEF UnlockTask
  <2> DEFINE r == [NoRequest EXCEPT
                      !.op = "unlock_task", !.lock = l,
                      !.reason = IF force THEN "lead_release" ELSE "manual"]
  <2>2. FreshReq(r) /\ Takes(r)
    BY <1>2 DEF UnlockTask, ProjectFound, ActiveLocksOn, NoRequest, FreshReq,
        FreshLock, FreshRelease, FreshSubmit, FreshLead, Takes
  <2> QED
    BY <1>b, <2>1, <2>2
<1>3. ASSUME NEW u \in Users, NEW t \in Tasks, NEW fb \in BOOLEAN, Submit(s, u, t, fb)
      PROVE  \E r : Decides(s, r)
  <2> DEFINE r == [NoRequest EXCEPT
                      !.op = "read_task", !.user = u, !.task = t,
                      !.seen = taskStatus[t],
                      !.to = NextStatus(taskStatus[t], fb),
                      !.mapper = NextMapper(u, t)]
  <2>1. Begin(s, r)
    BY <1>3 DEF Submit
  <2>2. FreshReq(r) /\ Takes(r)
    BY <1>3 DEF Submit, ProjectFound, NoRequest, FreshReq, FreshLock,
        FreshRelease, FreshSubmit, FreshLead, Takes
  <2> QED
    BY <1>b, <2>1, <2>2
<1>4. ASSUME NEW u \in Users, NEW t \in Tasks, SubmitChangeset(s, u, t)
      PROVE  \E r : Decides(s, r)
  <2> DEFINE r(l) == [NoRequest EXCEPT !.op = "submit_changeset", !.lock = l]
  <2>1. PICK l \in LockIds : HoldsLock(l, u, t) /\ Begin(s, r(l))
    BY <1>4 DEF SubmitChangeset
  <2>2. FreshReq(r(l)) /\ Takes(r(l))
    BY <1>4, <2>1 DEF SubmitChangeset, ProjectFound, HoldsLock, ActiveLocksOn,
        NoRequest, FreshReq, FreshLock, FreshRelease, FreshSubmit, FreshLead, Takes
  <2> QED
    BY <1>b, <2>1, <2>2
<1>5. ASSUME NEW u \in Users, NEW t \in Tasks, ResetTask(s, u, t)
      PROVE  \E r : Decides(s, r)
  <2> DEFINE r(l) == [NoRequest EXCEPT !.op = "reset_task", !.user = u,
                      !.task = t, !.lock = l, !.seen = taskStatus[t]]
  <2>1. PICK l \in LockIds \cup {NULL} :
          /\ IF ActiveLocksOn(t) = {} THEN l = NULL ELSE l \in ActiveLocksOn(t)
          /\ Begin(s, r(l))
    BY <1>5 DEF ResetTask
  <2>2. IF l = NULL THEN ActiveLocksOn(t) = {} ELSE l \in ActiveLocksOn(t)
    BY <2>1 DEF ActiveLocksOn
  <2>3. FreshReq(r(l)) /\ Takes(r(l))
    BY <1>5, <2>2 DEF ResetTask, ProjectFound, NoRequest, FreshReq, FreshLock,
        FreshRelease, FreshSubmit, FreshLead, Takes
  <2> QED
    BY <1>b, <2>1, <2>3
<1>6. ASSUME NEW u \in Users, Close(s, u) \/ Reset(s, u) \/ SoftDelete(s, u)
      PROVE  \E r : Decides(s, r)
  <2> USE DEF ProjectOpen, ProjectFound, NoRequest, FreshReq, FreshLock,
        FreshRelease, FreshSubmit, FreshLead, Takes
  <2>1. CASE Close(s, u)
    <3> DEFINE r == [NoRequest EXCEPT !.op = "close"]
    <3>1. FreshReq(r) /\ Takes(r) /\ Begin(s, r)
      BY <2>1 DEF Close
    <3> QED
      BY <1>b, <3>1
  <2>2. CASE Reset(s, u)
    <3> DEFINE r == [NoRequest EXCEPT !.op = "reset", !.user = u, !.seen = status]
    <3>1. FreshReq(r) /\ Takes(r) /\ Begin(s, r)
      BY <2>2 DEF Reset
    <3> QED
      BY <1>b, <3>1
  <2>3. CASE SoftDelete(s, u)
    <3> DEFINE r == [NoRequest EXCEPT !.op = "soft_delete"]
    <3>1. FreshReq(r) /\ Takes(r) /\ Begin(s, r)
      BY <2>3 DEF SoftDelete
    <3> QED
      BY <1>b, <3>1
  <2> QED
    BY <1>6, <2>1, <2>2, <2>3
<1> QED
  BY <1>1, <1>2, <1>3, <1>4, <1>5, <1>6 DEF Member, Lead

LEMMA FreshBegin ==
  ASSUME SerialInv, Serial, NEW s \in Slots, Member(s) \/ Lead(s)
  PROVE  Fresh'
<1> USE DEF dbVars, roleVars, taskVars, auditVars
<1>1. PICK r : Begin(s, r) /\ FreshReq(r)
  BY BeginsFresh DEF Decides
<1>2. req'[s] = r /\ UNCHANGED dbVars
  BY <1>1 DEF Begin, SerialInv, SafeInv, TypeInv, TypeOK
<1>3. \A x \in Slots : req'[x] = r
  BY <1>2 DEF Serial
<1>4. \A x \in Slots : FreshLock(req[x])'
  BY <1>1, <1>2, <1>3 DEF FreshReq, FreshLock, MaySign, EffectiveRole, IsWorkspaceLead
<1>5. \A x \in Slots : FreshRelease(req[x])'
  BY <1>1, <1>2, <1>3 DEF FreshReq, FreshRelease, ActiveLocksOn, ActiveLock
<1>6. \A x \in Slots : FreshSubmit(req[x])'
  BY <1>1, <1>2, <1>3 DEF FreshReq, FreshSubmit, HoldsLock, ActiveLocksOn, ActiveLock,
      NextStatus, NextMapper
<1>7. \A x \in Slots : FreshLead(req[x])'
  BY <1>1, <1>2, <1>3 DEF FreshReq, FreshLead, AllCompleted, TaskExists, ActiveLock,
      LocksToReset, TasksToRewind
<1> QED
  BY <1>1, <1>2, <1>3, <1>4, <1>5, <1>6, <1>7 DEF FreshReq, Fresh

LEMMA FreshRole ==
  ASSUME SerialInv, NEW u \in Users, NEW x \in Roles \cup {NULL}, RoleChange(u, x)
  PROVE  Fresh'
<1> USE DEF RoleChange, taskVars, auditVars
<1>1. roleChanges' # 0
  BY DEF SerialInv, SafeInv, TypeInv, TypeOK
<1> SUFFICES ASSUME NEW s \in Slots, FreshReq(req[s]) PROVE FreshReq(req[s])'
  BY DEF SerialInv, Fresh
<1>2. FreshLock(req[s])'
  BY <1>1 DEF FreshReq, FreshLock
<1>3. FreshRelease(req[s])'
  BY DEF FreshReq, FreshRelease, ActiveLocksOn, ActiveLock
<1>4. FreshSubmit(req[s])'
  BY DEF FreshReq, FreshSubmit, HoldsLock, ActiveLocksOn, ActiveLock,
      NextStatus, NextMapper
<1>5. FreshLead(req[s])'
  BY DEF FreshReq, FreshLead, AllCompleted, TaskExists, ActiveLock,
      LocksToReset, TasksToRewind
<1> QED
  BY <1>2, <1>3, <1>4, <1>5 DEF FreshReq

LEMMA FreshDone ==
  ASSUME SerialInv, Serial, NEW s \in Slots, Done(s)
  PROVE  Fresh'
<1>1. \A x \in Slots : req'[x] = NoRequest
  BY DEF Serial, Done, SerialInv, SafeInv, TypeInv, TypeOK
<1> QED
  BY <1>1 DEF Fresh, FreshReq, FreshLock, FreshRelease, FreshSubmit, FreshLead, NoRequest

(* The rows a statement has picked are all that it would pick, until the     *)
(* COMMIT, and a task read is as it was when the lock is: nobody else is     *)
(* there.                                                                    *)
LEMMA FreshStatement ==
  ASSUME SerialInv, Serial, NEW s \in Slots, Statement(s)
  PROVE  Fresh'
<1> USE DEF dbVars, roleVars, taskVars, auditVars
<1>t. req \in [Slots -> Request] /\ Shape(req[s]) /\ FreshReq(req[s])
  BY DEF SerialInv, SafeInv, TypeInv, TypeOK, ReqShape, Fresh
<1>q. ~deleted /\ FreshLead(req[s])
  BY <1>t
  DEF Statement, SubmitHolds, ResetLocks, ResetTasks, SoftDeleteRows, FreshReq
<1>o. UNCHANGED <<status, deleted, reviewRequired, roleVars, taskVars, locks>>
  BY DEF Statement, SubmitHolds, ResetLocks, ResetTasks, SoftDeleteRows, Goes
<1>1. ASSUME ~SubmitHolds(s)
      PROVE  /\ req'[s].op \in {"reset_locks", "reset_tasks", "deleting"}
             /\ FreshLead(req[s])'
  <2>1. CASE ResetLocks(s)
    BY <1>t, <1>q, <1>o, <2>1
    DEF ResetLocks, Goes, FreshLead, LocksToReset, ActiveLock, Request
  <2>2. CASE ResetTasks(s)
    BY <1>t, <1>q, <1>o, <2>2
    DEF ResetTasks, Goes, FreshLead, LocksToReset, TasksToRewind, TaskExists,
        ActiveLock, Request
  <2>3. CASE SoftDeleteRows(s)
    BY <1>t, <1>q, <1>o, <2>3
    DEF SoftDeleteRows, FlagAudit, FreshLead, ActiveLock, Request
  <2> QED
    BY <1>1, <2>1, <2>2, <2>3 DEF Statement
<1>2. ASSUME ~SubmitHolds(s) PROVE FreshReq(req[s])'
  BY <1>1, <1>2, <1>q, <1>o DEF FreshReq, FreshLock, FreshRelease, FreshSubmit
<1>3. ASSUME SubmitHolds(s) PROVE FreshReq(req[s])'
  <2>1. PICK l \in LockIds :
          /\ HoldsLock(l, req[s].user, req[s].task)
          /\ Goes(s, [req[s] EXCEPT !.op = "submit", !.lock = l])
    BY <1>3 DEF SubmitHolds
  <2>2. /\ req'[s] = [req[s] EXCEPT !.op = "submit", !.lock = l]
        /\ req[s].op = "read_task" /\ req[s] \in Request
    BY <1>3, <1>t, <2>1 DEF SubmitHolds, Goes
  <2>3. /\ req'[s].op = "submit" /\ req'[s].lock = l
        /\ req'[s].user = req[s].user /\ req'[s].task = req[s].task
        /\ req'[s].seen = req[s].seen /\ req'[s].to = req[s].to
        /\ req'[s].mapper = req[s].mapper
    BY <2>2 DEF Request
  <2>4. FreshSubmit(req[s])'
    BY <1>t, <1>o, <2>1, <2>2, <2>3
    DEF FreshReq, FreshSubmit, HoldsLock, ActiveLocksOn, ActiveLock, NextStatus,
        NextMapper
  <2> QED
    BY <1>q, <1>o, <2>3, <2>4 DEF FreshReq, FreshLock, FreshRelease, FreshLead
<1>4. FreshReq(req[s])'
  BY <1>2, <1>3
<1> QED
  BY <1>4 DEF Fresh, Serial

LEMMA FreshStep ==
  ASSUME SerialInv, Serial, [Next]_vars
  PROVE  Fresh'
<1>2. CASE UNCHANGED vars
  <2> USE <1>2 DEF vars
  <2> SUFFICES ASSUME NEW s \in Slots, FreshReq(req[s]) PROVE FreshReq(req[s])'
    BY DEF SerialInv, Fresh
  <2>1. FreshLock(req[s])'
    BY DEF FreshReq, FreshLock, MaySign, EffectiveRole, IsWorkspaceLead
  <2>2. FreshRelease(req[s])'
    BY DEF FreshReq, FreshRelease, ActiveLocksOn, ActiveLock
  <2>3. FreshSubmit(req[s])'
    BY DEF FreshReq, FreshSubmit, HoldsLock, ActiveLocksOn, ActiveLock,
        NextStatus, NextMapper
  <2>4. FreshLead(req[s])'
    BY DEF FreshReq, FreshLead, AllCompleted, TaskExists, ActiveLock,
      LocksToReset, TasksToRewind
  <2> QED
    BY <2>1, <2>2, <2>3, <2>4 DEF FreshReq
<1> QED
  BY <1>2, Ends, FreshBegin, FreshStatement, FreshDone, FreshRole DEF Next

-----------------------------------------------------------------------------
(* The data invariants, one commit at a time. *)

Facts(s) ==
  /\ SerialData
  /\ Shape(req[s])
  /\ FreshReq(req[s])
  /\ taskStatus \in [Tasks -> TaskStatuses \cup {"gone"}]
  /\ lastMapper \in [Tasks -> Users \cup {NULL}]
  /\ lastEvent \in [Tasks -> AuditEvent]
  /\ locks \in [LockIds -> LockRow]

LEMMA SerialFacts ==
  ASSUME SerialInv, NEW s \in Slots
  PROVE  Facts(s)
  BY DEF SerialInv, SafeInv, TypeInv, TypeOK, ReqShape, Fresh, Facts

(* A commit that releases the lock it carries, if any, and leaves tasks and  *)
(* roles alone keeps them all.                                               *)
LEMMA DataKept ==
  ASSUME SerialData, locks \in [LockIds -> LockRow],
         \A l \in LockIds : ActiveLock(l)' => ActiveLock(l) /\ locks'[l] = locks[l],
         UNCHANGED <<taskVars, lastEvent, roleVars, reviewRequired>>,
         status' = "done" => \A l \in LockIds : ~ActiveLock(l),
         deleted' => auditFlagged'
  PROVE  SerialData'
<1> USE DEF SerialData, taskVars, roleVars
<1>1. ActiveTyped' /\ LockMatchesTask' /\ NoSelfReview'
  BY DEF ActiveTyped, LockMatchesTask, NoSelfReview, ActiveLock
<1>2. MappedHasMapper' /\ FourEyes' /\ EventTellsStatus' /\ DeletedIsFlagged'
  BY DEF MappedHasMapper, FourEyes, EventTellsStatus, TaskExists, DeletedIsFlagged
<1>3. ClosedHasNoLock'
  BY DEF ClosedHasNoLock, ActiveLock
<1>4. ReviewerLocks'
  BY DEF ReviewerLocks, ActiveLock, MaySign, EffectiveRole, IsWorkspaceLead
<1> QED
  BY <1>1, <1>2, <1>3, <1>4

LEMMA DataLock ==
  ASSUME SafeInv, NEW s \in Slots, Facts(s), LockTaskCommit(s)
  PROVE  SerialData'
<1> DEFINE r == req[s]
<1> USE DEF taskVars, roleVars
<1>1. /\ r.task \in Tasks /\ r.user \in Users /\ r.seen = taskStatus[r.task]
      /\ r.seen = "to_review" => /\ lastMapper[r.task] # r.user
                                 /\ roleChanges = 0 => MaySign(r.user)
      /\ status = "open" /\ ~deleted
  BY DEF LockTaskCommit, Facts, Shape, FreshReq, FreshLock
<1>2. PICK k \in LockIds :
        locks' = [locks EXCEPT ![k] = [state |-> "active", task |-> r.task,
                                       user |-> r.user, at |-> r.seen]]
  BY DEF LockTaskCommit
<1>3. \A l \in LockIds :
        ActiveLock(l)' => \/ l # k /\ ActiveLock(l) /\ locks'[l] = locks[l]
                          \/ /\ locks'[l].task = r.task
                             /\ locks'[l].user = r.user
                             /\ locks'[l].at = taskStatus[r.task]
  BY <1>1, <1>2 DEF ActiveLock, Facts
<1>4. UNCHANGED <<status, deleted, reviewRequired, roleVars, taskVars, lastEvent>>
  BY DEF LockTaskCommit
<1>5. ActiveTyped' /\ LockMatchesTask' /\ NoSelfReview'
  BY <1>1, <1>3, <1>4
  DEF Facts, SerialData, ActiveTyped, LockMatchesTask, NoSelfReview
<1>6. /\ MappedHasMapper' /\ FourEyes' /\ EventTellsStatus' /\ DeletedIsFlagged'
      /\ ClosedHasNoLock'
  BY <1>1, <1>4
  DEF Facts, SerialData, MappedHasMapper, FourEyes, EventTellsStatus, TaskExists,
      DeletedIsFlagged, ClosedHasNoLock
<1>7. ReviewerLocks'
  BY <1>1, <1>3, <1>4
  DEF Facts, SerialData, ReviewerLocks, MaySign, EffectiveRole, IsWorkspaceLead
<1> QED
  BY <1>5, <1>6, <1>7 DEF SerialData

LEMMA DataRelease ==
  ASSUME SafeInv, NEW s \in Slots, Facts(s),
         UnlockTaskCommit(s) \/ SubmitChangesetCommit(s) \/ CloseCommit(s)
  PROVE  SerialData'
<1> USE DEF taskVars, roleVars
<1>1. \A l \in LockIds : ActiveLock(l)' => ActiveLock(l) /\ locks'[l] = locks[l]
  <2>1. CASE UnlockTaskCommit(s)
    BY <2>1 DEF UnlockTaskCommit, Facts, Shape, Released, Row, ActiveLock
  <2>2. CASE SubmitChangesetCommit(s) \/ CloseCommit(s)
    BY <2>2 DEF SubmitChangesetCommit, CloseCommit, ActiveLock
  <2> QED
    BY <2>1, <2>2
<1>2. /\ UNCHANGED <<taskVars, lastEvent, roleVars, reviewRequired, deleted>>
      /\ ~deleted
  BY DEF UnlockTaskCommit, SubmitChangesetCommit, CloseCommit, Facts, FreshReq
<1>3. status' = "done" => \A l \in LockIds : ~ActiveLock(l)
  BY DEF UnlockTaskCommit, SubmitChangesetCommit, CloseCommit, Facts, SerialData,
      ClosedHasNoLock, FreshReq, FreshLead
<1> QED
  BY <1>1, <1>2, <1>3, DataKept DEF Facts

(* Once the lock a request carries is released no other lock is active on    *)
(* its task, and a task that moves on takes no lock of another along.        *)
LEMMA LastLock ==
  ASSUME SafeInv, NEW t \in Tasks, NEW k \in LockIds, k \in ActiveLocksOn(t),
         NEW reason \in ReleaseReasons, locks' = Released(k, reason), NEW l \in LockIds,
         ActiveLock(l)'
  PROVE  ActiveLock(l) /\ locks'[l] = locks[l] /\ locks[l].task # t
<1>1. LocksExclusive /\ locks \in [LockIds -> LockRow]
  BY DEF SafeInv, TypeInv, TypeOK
<1> QED
  BY <1>1 DEF LocksExclusive, ActiveLocksOn, ActiveLock, Released, Row

(* A step that moves one task, after which no lock is active on it. *)
LEMMA DataMove ==
  ASSUME SafeInv, SerialData, NEW t \in Tasks,
         NEW st \in TaskStatuses, NEW m \in Users \cup {NULL},
         taskStatus' = [taskStatus EXCEPT ![t] = st],
         lastMapper' = [lastMapper EXCEPT ![t] = m],
         \A l \in LockIds :
           ActiveLock(l)' =>
             ActiveLock(l) /\ locks'[l] = locks[l] /\ locks[l].task # t,
         \A x \in Tasks \ {t} : lastEvent'[x] = lastEvent[x],
         lastEvent'[t].to = st,
         st = "to_map" \/ m # NULL,
         reviewRequired /\ st = "completed" => lastEvent'[t].by # m,
         UNCHANGED <<status, deleted, reviewRequired, roleVars>>, ~deleted
  PROVE  SerialData'
<1> USE DEF roleVars
<1>f. /\ SerialData
      /\ taskStatus \in [Tasks -> TaskStatuses \cup {"gone"}]
      /\ lastMapper \in [Tasks -> Users \cup {NULL}]
  BY DEF SafeInv, TypeInv, TypeOK
<1>1. \A x \in Tasks \ {t} : taskStatus'[x] = taskStatus[x] /\ lastMapper'[x] = lastMapper[x]
  BY <1>f
<1>2. taskStatus'[t] = st /\ lastMapper'[t] = m
  BY <1>f
<1>3. ActiveTyped'
  BY <1>f DEF SerialData, ActiveTyped
<1>4. LockMatchesTask' /\ NoSelfReview'
  BY <1>f, <1>1 DEF SerialData, ActiveTyped, LockMatchesTask, NoSelfReview
<1>5. MappedHasMapper'
  BY <1>f, <1>1, <1>2 DEF SerialData, MappedHasMapper
<1>6. FourEyes'
  BY <1>f, <1>1, <1>2 DEF SerialData, FourEyes
<1>9. EventTellsStatus'
  BY <1>f, <1>1, <1>2 DEF SerialData, EventTellsStatus, TaskExists
<1>7. ClosedHasNoLock' /\ DeletedIsFlagged'
  BY <1>f DEF SerialData, ClosedHasNoLock, DeletedIsFlagged
<1>8. ReviewerLocks'
  BY <1>f DEF SerialData, ReviewerLocks, MaySign, EffectiveRole, IsWorkspaceLead
<1> QED
  BY <1>3, <1>4, <1>5, <1>6, <1>7, <1>8, <1>9 DEF SerialData

(* What a submission that commits has read, spelled out. *)
LEMMA SubmitReads ==
  ASSUME SafeInv, NEW s \in Slots, Facts(s), SubmitCommit(s)
  PROVE  LET r == req[s] IN
         /\ r.task \in Tasks /\ r.user \in Users /\ r.lock \in LockIds
         /\ r.lock \in ActiveLocksOn(r.task) /\ locks[r.lock].user = r.user
         /\ taskStatus[r.task] \in {"to_map", "to_remap", "to_review"}
         /\ \E fb \in BOOLEAN : r.to = NextStatus(taskStatus[r.task], fb)
         /\ r.mapper = NextMapper(r.user, r.task)
         /\ taskStatus' = [taskStatus EXCEPT ![r.task] = r.to]
         /\ lastMapper' = [lastMapper EXCEPT ![r.task] = r.mapper]
         /\ lastEvent' = [lastEvent EXCEPT ![r.task] = [event |-> "task_state_changed",
                                               to |-> r.to, by |-> r.user]]
         /\ ~deleted /\ status = "open"
<1> DEFINE r == req[s]
<1>1. r.op = "submit"
  BY DEF SubmitCommit
<1>2. r.task \in Tasks /\ r.user \in Users /\ r.lock \in LockIds /\ r.seen \in TaskStatuses
  BY <1>1 DEF Facts, Shape
<1>3. /\ HoldsLock(r.lock, r.user, r.task) /\ r.seen = taskStatus[r.task]
      /\ r.seen # "completed" /\ r.mapper = NextMapper(r.user, r.task)
      /\ \E fb \in BOOLEAN : r.to = NextStatus(r.seen, fb)
      /\ ~deleted
  BY <1>1 DEF Facts, FreshReq, FreshSubmit
<1>4. taskStatus[r.task] \in {"to_map", "to_remap", "to_review"}
  BY <1>2, <1>3
<1>5. status = "open"
  BY <1>2, <1>3
  DEF Facts, SerialData, ClosedHasNoLock, HoldsLock, ActiveLocksOn, SafeInv, TypeInv,
      TypeOK
<1>6. TaskExists(r.task)
  BY <1>4 DEF TaskExists
<1> QED
  BY <1>2, <1>3, <1>4, <1>5, <1>6 DEF SubmitCommit, UpdateTask, AuditStatus, HoldsLock

(* The lock proves the holder is not the last mapper, so a completed review  *)
(* has two pairs of eyes, and a task past to_map has its mapper.             *)
LEMMA DataSubmit ==
  ASSUME SafeInv, NEW s \in Slots, Facts(s), SubmitCommit(s)
  PROVE  SerialData'
<1> DEFINE r == req[s]
<1> USE DEF roleVars
<1>1. /\ r.task \in Tasks /\ r.user \in Users /\ r.lock \in LockIds
      /\ r.lock \in ActiveLocksOn(r.task) /\ locks[r.lock].user = r.user
      /\ taskStatus[r.task] \in {"to_map", "to_remap", "to_review"}
      /\ \E fb \in BOOLEAN : r.to = NextStatus(taskStatus[r.task], fb)
      /\ r.mapper = NextMapper(r.user, r.task)
      /\ taskStatus' = [taskStatus EXCEPT ![r.task] = r.to]
      /\ lastMapper' = [lastMapper EXCEPT ![r.task] = r.mapper]
      /\ lastEvent' = [lastEvent EXCEPT ![r.task] = [event |-> "task_state_changed",
                                            to |-> r.to, by |-> r.user]]
      /\ ~deleted
  BY SubmitReads
<1>2. r.to \in TaskStatuses
  BY <1>1 DEF NextStatus
<1>3. r.mapper \in Users \cup {NULL} /\ r.mapper # NULL
  BY <1>1 DEF NextMapper, Facts, SerialData, MappedHasMapper
<1>4. reviewRequired /\ r.to = "completed" => taskStatus[r.task] = "to_review"
  BY <1>1 DEF NextStatus
<1>5. taskStatus[r.task] = "to_review" => r.user # r.mapper
  BY <1>1 DEF NextMapper, Facts, SerialData, NoSelfReview, ActiveLocksOn
<1>6. /\ lastEvent'[r.task].by = r.user /\ lastEvent'[r.task].to = r.to
      /\ \A x \in Tasks \ {r.task} : lastEvent'[x] = lastEvent[x]
  BY <1>1 DEF Facts
<1>7. \A l \in LockIds :
        ActiveLock(l)' =>
          ActiveLock(l) /\ locks'[l] = locks[l] /\ locks[l].task # r.task
  <2>1. locks' = Released(r.lock, "auto_unlock")
    BY DEF SubmitCommit
  <2> QED
    BY <1>1, <2>1, LastLock
<1>8. UNCHANGED <<status, deleted, reviewRequired, roleVars>>
  BY DEF SubmitCommit
<1> HIDE DEF r
<1>9. SerialData
  BY DEF Facts
<1>10. reviewRequired /\ r.to = "completed" => lastEvent'[r.task].by # r.mapper
  BY <1>4, <1>5, <1>6
<1>11. /\ r.task \in Tasks /\ ~deleted
       /\ taskStatus' = [taskStatus EXCEPT ![r.task] = r.to]
       /\ lastMapper' = [lastMapper EXCEPT ![r.task] = r.mapper]
  BY <1>1
<1> QED
  BY <1>2, <1>3, <1>6, <1>7, <1>8, <1>9, <1>10, <1>11, DataMove

LEMMA DataResetTask ==
  ASSUME SafeInv, NEW s \in Slots, Facts(s), ResetTaskCommit(s)
  PROVE  SerialData'
<1> DEFINE r == req[s]
<1> USE DEF roleVars
<1>1. /\ r.task \in Tasks /\ r.user \in Users /\ r.seen \in TaskStatuses
      /\ r.seen = taskStatus[r.task] /\ ~deleted
      /\ IF r.lock = NULL THEN ActiveLocksOn(r.task) = {}
                          ELSE r.lock \in ActiveLocksOn(r.task)
  BY DEF ResetTaskCommit, Facts, Shape, FreshReq, FreshRelease
<1>2. TaskExists(r.task)
  BY <1>1 DEF TaskExists
<1>3. /\ taskStatus' = [taskStatus EXCEPT ![r.task] = "to_map"]
      /\ lastMapper' = [lastMapper EXCEPT ![r.task] = NULL]
  BY <1>1, <1>2 DEF ResetTaskCommit, UpdateTask, Facts
<1>4. /\ \A x \in Tasks \ {r.task} : lastEvent'[x] = lastEvent[x]
      /\ lastEvent'[r.task].to = "to_map"
  BY <1>1, <1>2
  DEF ResetTaskCommit, AuditStatus, Facts, SerialData, EventTellsStatus
<1>5. ASSUME NEW l \in LockIds, ActiveLock(l)'
      PROVE  ActiveLock(l) /\ locks'[l] = locks[l] /\ locks[l].task # r.task
  <2>1. CASE r.lock = NULL
    BY <1>1, <1>5, <2>1 DEF ResetTaskCommit, ActiveLocksOn, ActiveLock
  <2>2. CASE r.lock # NULL
    BY <1>1, <1>5, <2>2, LastLock DEF ResetTaskCommit, ActiveLocksOn
  <2> QED
    BY <2>1, <2>2
<1>6. UNCHANGED <<status, deleted, reviewRequired, roleVars>>
  BY DEF ResetTaskCommit
<1>7. SerialData
  BY DEF Facts
<1> HIDE DEF r
<1> QED
  BY <1>1, <1>3, <1>4, <1>5, <1>6, <1>7, DataMove

LEMMA DataReset ==
  ASSUME SafeInv, NEW s \in Slots, Facts(s), ResetCommit(s)
  PROVE  SerialData'
<1>f. Facts(s) /\ ~deleted
  BY DEF ResetCommit, Facts, FreshReq
<1>p. LocksToReset \subseteq req[s].locks /\ TasksToRewind \subseteq req[s].tasks
  BY DEF ResetCommit, Facts, FreshReq, FreshLead
<1>1. \A l \in LockIds : ~ActiveLock(l)'
  BY <1>p DEF ResetCommit, LocksToReset, Row, ActiveLock
<1>2. \A t \in Tasks : taskStatus'[t] \in {"to_map", "gone"}
  BY <1>f, <1>p DEF ResetCommit, Facts, TasksToRewind, TaskExists
<1>3. ActiveTyped' /\ LockMatchesTask' /\ NoSelfReview' /\ ClosedHasNoLock' /\ ReviewerLocks'
  BY <1>1 DEF ActiveTyped, LockMatchesTask, NoSelfReview, ClosedHasNoLock, ReviewerLocks
<1>4. MappedHasMapper' /\ FourEyes' /\ EventTellsStatus'
  BY <1>2 DEF MappedHasMapper, FourEyes, EventTellsStatus, TaskExists, ResetCommit
<1>5. DeletedIsFlagged'
  BY <1>f DEF DeletedIsFlagged, ResetCommit
<1> QED
  BY <1>3, <1>4, <1>5 DEF SerialData

LEMMA DataDelete ==
  ASSUME NEW s \in Slots, Facts(s), SoftDeleteCommit(s)
  PROVE  SerialData'
<1>1. \A l \in LockIds : ~ActiveLock(l)'
  BY DEF SoftDeleteCommit, Row, ActiveLock
<1>2. \A t \in Tasks : taskStatus'[t] = "gone"
  BY DEF SoftDeleteCommit
<1>3. ActiveTyped' /\ LockMatchesTask' /\ NoSelfReview' /\ ClosedHasNoLock' /\ ReviewerLocks'
  BY <1>1 DEF ActiveTyped, LockMatchesTask, NoSelfReview, ClosedHasNoLock, ReviewerLocks
<1>4. MappedHasMapper' /\ FourEyes' /\ EventTellsStatus'
  BY <1>2 DEF MappedHasMapper, FourEyes, EventTellsStatus, TaskExists
<1>5. DeletedIsFlagged'
  BY DEF DeletedIsFlagged, SoftDeleteCommit, Facts, FreshReq, FreshLead
<1> QED
  BY <1>3, <1>4, <1>5 DEF SerialData

LEMMA DataRole ==
  ASSUME SafeInv, SerialData, NEW u \in Users, NEW x \in Roles \cup {NULL}, RoleChange(u, x)
  PROVE  SerialData'
<1> USE DEF taskVars, auditVars, RoleChange
<1>1. SerialData /\ roleChanges' # 0
  BY DEF SafeInv, TypeInv, TypeOK
<1>2. ActiveTyped' /\ LockMatchesTask' /\ NoSelfReview' /\ ClosedHasNoLock'
  BY <1>1 DEF SerialData, ActiveTyped, LockMatchesTask, NoSelfReview, ClosedHasNoLock,
      ActiveLock
<1>3. /\ MappedHasMapper' /\ FourEyes' /\ EventTellsStatus'
      /\ DeletedIsFlagged' /\ ReviewerLocks'
  BY <1>1
  DEF SerialData, MappedHasMapper, FourEyes, EventTellsStatus, TaskExists,
      DeletedIsFlagged, ReviewerLocks
<1> QED
  BY <1>2, <1>3 DEF SerialData

(* Everything but the requests and the flags a deletion will leave. *)
Kept == UNCHANGED <<status, deleted, reviewRequired, roleVars, taskVars, locks,
                    changesets, lastEvent, auditFlagged>>

(* The commits that write. *)
Writes(s) ==
  \/ LockTaskCommit(s) \/ UnlockTaskCommit(s) \/ ResetTaskCommit(s)
  \/ SubmitCommit(s) \/ SubmitChangesetCommit(s) \/ CloseCommit(s)
  \/ ResetCommit(s) \/ SoftDeleteCommit(s)

LEMMA StepWrites ==
  ASSUME [Next]_vars
  PROVE  \/ Kept
         \/ \E u \in Users, x \in Roles \cup {NULL} : RoleChange(u, x)
         \/ \E s \in Slots : Writes(s)
  BY StepKinds DEF Writes, Kept, SoftDeleteRows, dbVars, auditVars

(* One commit keeps the data, whichever it is. *)
LEMMA CommitData ==
  ASSUME SafeInv, NEW s \in Slots, Facts(s), Writes(s)
  PROVE  SerialData'
  BY DataLock, DataRelease, DataSubmit, DataResetTask, DataReset, DataDelete DEF Writes

LEMMA SerialStep == Serial => (SerialInv /\ [Next]_vars => SerialInv')
<1> SUFFICES ASSUME Serial, SerialInv, [Next]_vars PROVE SerialInv'
  OBVIOUS
<1>1. SafeInv'
  BY SafeStep DEF SerialInv
<1>2. Fresh'
  BY FreshStep
<1>3. CASE Kept
  <2>1. SerialData /\ locks \in [LockIds -> LockRow]
    BY DEF SerialInv, SafeInv, TypeInv, TypeOK
  <2>2. UNCHANGED <<status, deleted, reviewRequired, roleVars, taskVars, locks,
                    lastEvent, auditFlagged>>
    BY <1>3 DEF Kept
  <2>3. \A l \in LockIds : ActiveLock(l)' => ActiveLock(l) /\ locks'[l] = locks[l]
    BY <2>2 DEF ActiveLock
  <2>4. SerialData'
    BY <2>1, <2>2, <2>3, DataKept DEF SerialData, ClosedHasNoLock, DeletedIsFlagged
  <2> QED
    BY <1>1, <1>2, <2>4 DEF SerialInv
<1>4. CASE ~Kept
  <2>1. SafeInv /\ SerialData /\ \A s \in Slots : Facts(s)
    BY SerialFacts DEF SerialInv
  <2> QED
    BY <1>1, <1>2, <1>4, <2>1, StepWrites, CommitData, DataRole DEF SerialInv
<1> QED
  BY <1>3, <1>4

LEMMA SerialInit == Init => SerialInv
<1> SUFFICES ASSUME Init PROVE SerialInv
  OBVIOUS
<1>1. \A l \in LockIds : ~ActiveLock(l)
  BY DEF Init, Row, ActiveLock
<1>2. ActiveTyped /\ LockMatchesTask /\ NoSelfReview /\ ClosedHasNoLock /\ ReviewerLocks
  BY <1>1 DEF ActiveTyped, LockMatchesTask, NoSelfReview, ClosedHasNoLock, ReviewerLocks
<1>3. MappedHasMapper /\ FourEyes /\ EventTellsStatus /\ DeletedIsFlagged
  BY DEF Init, MappedHasMapper, FourEyes, EventTellsStatus, DeletedIsFlagged
<1>4. Fresh
  BY DEF Init, Fresh, FreshReq, FreshLock, FreshRelease, FreshSubmit, FreshLead, NoRequest
<1> QED
  BY <1>2, <1>3, <1>4, SafeInit DEF SerialInv, SerialData

-----------------------------------------------------------------------------
(* The theorems. *)

(* With requests one after another the serial invariants hold. *)
THEOREM SerialSafety ==
  ASSUME Serial
  PROVE  Spec => []SerialInv
<1>1. SerialInv /\ [Next]_vars => SerialInv'
  BY SerialStep
<1> QED
  BY <1>1, SerialInit, PTL DEF Spec

(* An active lock was taken on the task as it is now. *)
THEOREM OneContext ==
  ASSUME Serial
  PROVE  Spec => []LockMatchesTask
<1>1. SerialInv => LockMatchesTask
  BY DEF SerialInv, SerialData
<1> QED
  BY <1>1, SerialSafety, PTL

(* Nobody holds a review lock on a task they last mapped. *)
THEOREM NoOwnReview ==
  ASSUME Serial
  PROVE  Spec => []NoSelfReview
<1>1. SerialInv => NoSelfReview
  BY DEF SerialInv, SerialData
<1> QED
  BY <1>1, SerialSafety, PTL

(* With review required, nobody completes a task they last mapped. *)
THEOREM TwoPairsOfEyes ==
  ASSUME Serial
  PROVE  Spec => []FourEyes
<1>1. SerialInv => FourEyes
  BY DEF SerialInv, SerialData
<1> QED
  BY <1>1, SerialSafety, PTL

(* A task past to_map has a last mapper. *)
THEOREM MapperKnown ==
  ASSUME Serial
  PROVE  Spec => []MappedHasMapper
<1>1. SerialInv => MappedHasMapper
  BY DEF SerialInv, SerialData
<1> QED
  BY <1>1, SerialSafety, PTL

(* No status without its event, no event without its status. *)
THEOREM EventsPaired ==
  ASSUME Serial
  PROVE  Spec => []EventTellsStatus
<1>1. SerialInv => EventTellsStatus
  BY DEF SerialInv, SerialData
<1> QED
  BY <1>1, SerialSafety, PTL

(* A closed project has no active lock. *)
THEOREM ClosedUnlocked ==
  ASSUME Serial
  PROVE  Spec => []ClosedHasNoLock
<1>1. SerialInv => ClosedHasNoLock
  BY DEF SerialInv, SerialData
<1> QED
  BY <1>1, SerialSafety, PTL

(* A deleted project's audit rows are all flagged. *)
THEOREM FlagsComplete ==
  ASSUME Serial
  PROVE  Spec => []DeletedIsFlagged
<1>1. SerialInv => DeletedIsFlagged
  BY DEF SerialInv, SerialData
<1> QED
  BY <1>1, SerialSafety, PTL

(***************************************************************************)
(* What one commit does to the records, when what its request decided on   *)
(* is still so.                                                            *)
(***************************************************************************)

(* Only a submission moves a task on. *)
LEMMA MoveKinds ==
  ASSUME SafeInv, NEW s \in Slots, Writes(s), NEW t \in Tasks,
         taskStatus'[t] # taskStatus[t], taskStatus'[t] \notin {"to_map", "gone"}
  PROVE  SubmitCommit(s) /\ req[s].task = t
<1> USE DEF taskVars
<1>f. taskStatus \in [Tasks -> TaskStatuses \cup {"gone"}]
  BY DEF SafeInv, TypeInv, TypeOK
<1>1. taskStatus' # taskStatus
  OBVIOUS
<1>2. SubmitCommit(s) \/ ResetTaskCommit(s) \/ ResetCommit(s) \/ SoftDeleteCommit(s)
  BY <1>1
  DEF Writes, LockTaskCommit, UnlockTaskCommit, SubmitChangesetCommit, CloseCommit
<1>3. ~SoftDeleteCommit(s) /\ ~ResetCommit(s)
  BY <1>f DEF SoftDeleteCommit, ResetCommit
<1>4. ~ResetTaskCommit(s)
  BY <1>f DEF ResetTaskCommit, UpdateTask
<1> QED
  BY <1>2, <1>3, <1>4, <1>f DEF SubmitCommit, UpdateTask

(* The event of a submission that moves a task names the submitter. *)
LEMMA SubmitActor ==
  ASSUME SafeInv, NEW s \in Slots, Facts(s), SubmitCommit(s), NEW t \in Tasks, req[s].task = t
  PROVE  lastEvent'[t].by = req[s].user /\ taskStatus'[t] = req[s].to
<1>1. lastEvent \in [Tasks -> AuditEvent] /\ taskStatus \in [Tasks -> TaskStatuses \cup {"gone"}]
  BY DEF SafeInv, TypeInv, TypeOK
<1>2. /\ lastEvent' = [lastEvent EXCEPT ![t] = [event |-> "task_state_changed",
                                       to |-> req[s].to, by |-> req[s].user]]
      /\ taskStatus' = [taskStatus EXCEPT ![t] = req[s].to]
  BY SubmitReads
<1> QED
  BY <1>1, <1>2

MovedByHolder ==
  /\ \A t \in Tasks :
       /\ taskStatus'[t] # taskStatus[t]
       /\ taskStatus'[t] \notin {"to_map", "gone"}
       => \E l \in ActiveLocksOn(t) : locks[l].user = lastEvent'[t].by
  /\ \A l \in changesets' \ changesets : ActiveLock(l)

LEMMA HolderMoves ==
  ASSUME SafeInv, NEW s \in Slots, Facts(s), Writes(s)
  PROVE  MovedByHolder
<1>1. ASSUME NEW t \in Tasks, taskStatus'[t] # taskStatus[t],
             taskStatus'[t] \notin {"to_map", "gone"}
      PROVE  \E l \in ActiveLocksOn(t) : locks[l].user = lastEvent'[t].by
  <2>1. SubmitCommit(s) /\ req[s].task = t
    BY <1>1, MoveKinds
  <2>2. lastEvent'[t].by = req[s].user
    BY <2>1, SubmitActor
  <2> QED
    BY <2>1, <2>2, SubmitReads
<1>2. ASSUME NEW l \in changesets' \ changesets
      PROVE  ActiveLock(l)
  <2>1. SubmitChangesetCommit(s)
    BY <1>2
    DEF Writes, LockTaskCommit, UnlockTaskCommit, ResetTaskCommit, SubmitCommit,
        CloseCommit, ResetCommit, SoftDeleteCommit
  <2> QED
    BY <1>2, <2>1 DEF SubmitChangesetCommit, Facts, FreshReq, FreshRelease
<1> QED
  BY <1>1, <1>2 DEF MovedByHolder

ReasonsKept ==
  \A l \in LockIds :
    locks[l].state \in ReleaseReasons
      => locks'[l].state \in {locks[l].state, "deleted"}

LEMMA CommitKeepsReasons ==
  ASSUME SafeInv, NEW s \in Slots, Facts(s), Writes(s)
  PROVE  ReasonsKept
<1> SUFFICES ASSUME NEW l \in LockIds, locks[l].state \in ReleaseReasons
             PROVE  locks'[l].state \in {locks[l].state, "deleted"}
  BY DEF ReasonsKept
<1>t. locks \in [LockIds -> LockRow]
  BY DEF SafeInv, TypeInv, TypeOK
<1>1. ASSUME NEW k \in LockIds, ActiveLock(k), NEW reason, locks' = Released(k, reason)
      PROVE  locks'[l] = locks[l]
  BY <1>1, <1>t DEF ActiveLock, Released
<1>2. CASE UnlockTaskCommit(s)
  BY <1>1, <1>2 DEF UnlockTaskCommit, Facts, Shape, FreshReq, FreshRelease
<1>3. CASE SubmitCommit(s)
  <2>1. req[s].lock \in LockIds /\ ActiveLock(req[s].lock)
    BY <1>3, SubmitReads DEF ActiveLocksOn
  <2> QED
    BY <1>1, <1>3, <2>1 DEF SubmitCommit
<1>4. CASE ResetTaskCommit(s)
  <2>1. req[s].lock # NULL => req[s].lock \in LockIds /\ ActiveLock(req[s].lock)
    BY <1>4 DEF ResetTaskCommit, Facts, FreshReq, FreshRelease, ActiveLocksOn
  <2> QED
    BY <1>1, <1>4, <2>1 DEF ResetTaskCommit
<1>5. CASE LockTaskCommit(s)
  BY <1>5, <1>t DEF LockTaskCommit, FreshId
<1>6. CASE ResetCommit(s) \/ SoftDeleteCommit(s)
  <2>1. \A k \in req[s].locks : ActiveLock(k)
    BY DEF SafeInv, HeldRows, HeldBy
  <2> QED
    BY <1>6, <1>t, <2>1 DEF ResetCommit, SoftDeleteCommit, ActiveLock, Row
<1>7. CASE SubmitChangesetCommit(s) \/ CloseCommit(s)
  BY <1>7 DEF SubmitChangesetCommit, CloseCommit
<1> QED
  BY <1>2, <1>3, <1>4, <1>5, <1>6, <1>7 DEF Writes

JudgedByReviewer ==
  roleChanges = 0 => \A t \in Tasks :
    /\ taskStatus[t] = "to_review"
    /\ taskStatus'[t] \in {"completed", "to_remap"}
    => EffectiveRole(lastEvent'[t].by) \in {"validator", "lead"}

LEMMA ReviewerJudges ==
  ASSUME SafeInv, NEW s \in Slots, Facts(s), Writes(s)
  PROVE  JudgedByReviewer
<1> SUFFICES ASSUME roleChanges = 0, NEW t \in Tasks, taskStatus[t] = "to_review",
                    taskStatus'[t] \in {"completed", "to_remap"}
             PROVE  EffectiveRole(lastEvent'[t].by) \in {"validator", "lead"}
  BY DEF JudgedByReviewer
<1>1. SubmitCommit(s) /\ req[s].task = t
  BY MoveKinds
<1>2. lastEvent'[t].by = req[s].user
  BY <1>1, SubmitActor
<1>3. req[s].lock \in ActiveLocksOn(t) /\ locks[req[s].lock].user = req[s].user
  BY <1>1, SubmitReads
<1>4. locks[req[s].lock].at = "to_review"
  BY <1>3 DEF ActiveLocksOn, Facts, SerialData, LockMatchesTask
<1> QED
  BY <1>2, <1>3, <1>4 DEF ActiveLocksOn, Facts, SerialData, ReviewerLocks, MaySign

(* A step that is no commit does nothing to them. *)
LEMMA OtherSteps ==
  ASSUME Kept \/ \E u \in Users, x \in Roles \cup {NULL} : RoleChange(u, x)
  PROVE  MovedByHolder /\ ReasonsKept /\ JudgedByReviewer
<1>1. UNCHANGED <<taskStatus, locks, changesets>>
  BY DEF RoleChange, Kept, taskVars
<1> QED
  BY <1>1 DEF MovedByHolder, ReasonsKept, JudgedByReviewer

LEMMA SerialRecords ==
  ASSUME SerialInv, [Next]_vars
  PROVE  MovedByHolder /\ ReasonsKept /\ JudgedByReviewer
<1>1. SafeInv /\ \A s \in Slots : Facts(s)
  BY SerialFacts DEF SerialInv
<1> QED
  BY <1>1, StepWrites, HolderMoves, CommitKeepsReasons, ReviewerJudges, OtherSteps

(* The holder of an active lock, and nobody else, moves a task or records a  *)
(* changeset.                                                                *)
THEOREM HoldersSubmit ==
  ASSUME Serial
  PROVE  Spec => SubmitsUnderLock
<1>1. SerialInv /\ [Next]_vars => MovedByHolder
  BY SerialRecords
<1> QED
  BY <1>1, SerialSafety, PTL DEF Spec, SubmitsUnderLock, MovedByHolder

(* A release reason on record stays. *)
THEOREM ReasonsStand ==
  ASSUME Serial
  PROVE  Spec => ReasonStands
<1>1. SerialInv /\ [Next]_vars => ReasonsKept
  BY SerialRecords
<1> QED
  BY <1>1, SerialSafety, PTL DEF Spec, ReasonStands, ReasonsKept

(* Until a role row changes, whoever moves a task out of review may review. *)
THEOREM ReviewersReview ==
  ASSUME Serial
  PROVE  Spec => ReviewedByReviewer
<1>1. SerialInv /\ [Next]_vars => JudgedByReviewer
  BY SerialRecords
<1> QED
  BY <1>1, SerialSafety, PTL DEF Spec, ReviewedByReviewer, JudgedByReviewer

=============================================================================

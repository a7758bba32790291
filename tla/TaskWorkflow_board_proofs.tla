---------------------- MODULE TaskWorkflow_board_proofs ----------------------
(***************************************************************************)
(* Part three of the proofs about TaskWorkflow: requests that run one      *)
(* after another implement TaskBoard, for any users, tasks, lock ids and   *)
(* number of role changes.  A commit is one operation of the board on the  *)
(* tasks as its request read them; everything else leaves the board alone. *)
(* The same, and the invariants of part two, hold of overlapping requests  *)
(* until one writes on a decision that was overtaken.  Last, whatever      *)
(* overlaps, the work in a project does to it what ProjectSetup sums up.   *)
(***************************************************************************)
EXTENDS TaskWorkflow_serial_proofs, TaskWorkflowOverlap, TaskWorkflowSetup

USE NullIsNothing DEF Roles, TaskStatuses, ReleaseReasons

(* What the board's operations rely on besides, whatever overlaps. *)
GoneWhenDeleted == \A t \in Tasks : TaskExists(t) \/ deleted

TakesWork == \A s \in Slots : Takes(req[s])

BoardSafe == SafeInv /\ GoneWhenDeleted /\ TakesWork

BoardInv == SerialInv /\ BoardSafe

held == [t \in Tasks |-> WorkingOn(t)]

-----------------------------------------------------------------------------
(* Who holds what after a step. *)

LEMMA HeldStays ==
  ASSUME \A l \in LockIds : locks'[l] = locks[l]
  PROVE  held' = held
<1>1. \A t \in Tasks : ActiveLocksOn(t)' = ActiveLocksOn(t)
  BY DEF ActiveLocksOn, ActiveLock
<1>2. \A t \in Tasks : WorkingOn(t)' = WorkingOn(t)
  BY <1>1 DEF WorkingOn, ActiveLocksOn
<1> QED
  BY <1>2 DEF held

LEMMA HeldLetGo ==
  ASSUME NEW t \in Tasks,
         \A l \in LockIds :
           ActiveLock(l)' =>
             ActiveLock(l) /\ locks'[l] = locks[l] /\ locks[l].task # t,
         \A l \in LockIds :
           ActiveLock(l) /\ locks[l].task # t => locks'[l] = locks[l]
  PROVE  held' = [held EXCEPT ![t] = {}]
<1>1. ActiveLocksOn(t)' = {}
  BY DEF ActiveLocksOn
<1>2. ASSUME NEW x \in Tasks, x # t
      PROVE  WorkingOn(x)' = WorkingOn(x)
  <2>1. ActiveLocksOn(x)' = ActiveLocksOn(x)
    BY <1>2 DEF ActiveLocksOn, ActiveLock
  <2>2. \A l \in ActiveLocksOn(x) : locks'[l] = locks[l]
    BY <1>2 DEF ActiveLocksOn
  <2> QED
    BY <2>1, <2>2 DEF WorkingOn
<1>3. WorkingOn(t)' = {}
  BY <1>1 DEF WorkingOn
<1> QED
  BY <1>2, <1>3 DEF held

LEMMA HeldTaken ==
  ASSUME NEW t \in Tasks, NEW u, NEW k \in LockIds, ActiveLocksOn(t) = {}, ~ActiveLock(k),
         locks'[k].state = "active", locks'[k].task = t, locks'[k].user = u,
         \A l \in LockIds \ {k} : locks'[l] = locks[l]
  PROVE  held' = [held EXCEPT ![t] = {u}]
<1>1. ActiveLocksOn(t)' = {k}
  BY DEF ActiveLocksOn, ActiveLock
<1>2. WorkingOn(t)' = {u}
  BY <1>1 DEF WorkingOn
<1>3. ASSUME NEW x \in Tasks, x # t
      PROVE  WorkingOn(x)' = WorkingOn(x)
  <2>1. ActiveLocksOn(x)' = ActiveLocksOn(x)
    BY <1>3 DEF ActiveLocksOn, ActiveLock
  <2>2. \A l \in ActiveLocksOn(x) : locks'[l] = locks[l]
    BY DEF ActiveLocksOn
  <2> QED
    BY <2>1, <2>2 DEF WorkingOn
<1> QED
  BY <1>2, <1>3 DEF held

LEMMA HeldByNobody ==
  (\A l \in LockIds : ~ActiveLock(l)) => held = [t \in Tasks |-> {}]
  BY DEF held, WorkingOn, ActiveLocksOn

(* The release of the only lock on its task. *)
LEMMA HeldReleased ==
  ASSUME SafeInv, NEW t \in Tasks, NEW k \in LockIds, k \in ActiveLocksOn(t),
         NEW reason \in ReleaseReasons, locks' = Released(k, reason)
  PROVE  held' = [held EXCEPT ![t] = {}] /\ held[t] = {locks[k].user}
<1>1. LocksExclusive /\ locks \in [LockIds -> LockRow]
  BY DEF SafeInv, TypeInv, TypeOK
<1>2. \A l \in LockIds :
        ActiveLock(l)' => ActiveLock(l) /\ locks'[l] = locks[l] /\ locks[l].task # t
  BY LastLock
<1>3. \A l \in LockIds : ActiveLock(l) /\ locks[l].task # t => locks'[l] = locks[l]
  BY <1>1 DEF Released, ActiveLocksOn
<1>4. ActiveLocksOn(t) = {k}
  BY <1>1 DEF LocksExclusive, ActiveLocksOn
<1>5. WorkingOn(t) = {locks[k].user}
  BY <1>4 DEF WorkingOn
<1> QED
  BY <1>2, <1>3, <1>5, HeldLetGo DEF held

-----------------------------------------------------------------------------
(* One operation of the board per commit. *)

LEMMA TakeStep ==
  ASSUME BoardSafe, NEW s \in Slots, Facts(s), LockTaskCommit(s)
  PROVE  \E u \in Users, t \in Tasks : Board!Take(u, t)
<1> DEFINE u == req[s].user
           t == req[s].task
<1> USE DEF taskVars, roleVars
<1>1. /\ t \in Tasks /\ u \in Users /\ req[s].op = "lock_task"
      /\ req[s].seen = taskStatus[t]
      /\ req[s].seen = "to_review" => /\ lastMapper[t] # u
                                      /\ roleChanges = 0 => MaySign(u)
      /\ status = "open" /\ ~deleted
  BY DEF LockTaskCommit, Facts, Shape, FreshReq, FreshLock
<1>2. taskStatus[t] \in {"to_map", "to_remap", "to_review"}
  BY <1>1 DEF Takes, BoardSafe, TakesWork
<1>3. taskStatus[t] = "to_review" => u \in Reviewers
  BY <1>1 DEF Reviewers, MaySign
<1>4. ActiveLocksOn(t) = {} /\ ActiveLocksOf(u) = {}
  BY DEF LockTaskCommit, LockInsertable
<1>5. held[t] = {} /\ \A x \in Tasks : u \notin held[x]
  BY <1>1, <1>4 DEF held, WorkingOn, ActiveLocksOn, ActiveLocksOf
<1>6. PICK k \in LockIds :
        /\ FreshId(k)
        /\ locks' = [locks EXCEPT ![k] = [state |-> "active", task |-> t,
                                          user |-> u, at |-> req[s].seen]]
  BY DEF LockTaskCommit
<1>7. /\ locks'[k].state = "active" /\ locks'[k].task = t /\ locks'[k].user = u
      /\ ~ActiveLock(k) /\ \A l \in LockIds \ {k} : locks'[l] = locks[l]
  BY <1>6 DEF Facts, FreshId, ActiveLock
<1> HIDE DEF u, t
<1>8. held' = [held EXCEPT ![t] = {u}]
  BY <1>1, <1>4, <1>7, HeldTaken
<1>9. UNCHANGED <<status, deleted, reviewRequired, taskStatus, lastMapper>>
  BY DEF LockTaskCommit
<1>10. Board!Take(u, t)
  BY <1>1, <1>2, <1>3, <1>5, <1>8, <1>9 DEF Board!Take, Board!Free, held, u, t
<1> QED
  BY <1>1, <1>10

LEMMA ReleaseStep ==
  ASSUME BoardSafe, NEW s \in Slots, Facts(s), UnlockTaskCommit(s)
  PROVE  \E t \in Tasks : Board!Release(t)
<1> DEFINE k == req[s].lock
           t == locks[k].task
<1> USE DEF taskVars, roleVars
<1>0. status \in {"open", "done"}
  BY DEF BoardSafe, SafeInv, TypeInv, TypeOK
<1>1. k \in LockIds /\ ActiveLock(k) /\ ~deleted /\ req[s].reason \in ReleaseReasons
  BY DEF UnlockTaskCommit, Facts, Shape, FreshReq, FreshRelease
<1>2. t \in Tasks /\ k \in ActiveLocksOn(t)
  BY <1>1 DEF Facts, SerialData, ActiveTyped, ActiveLocksOn
<1>3. /\ locks' = Released(k, req[s].reason)
      /\ UNCHANGED <<status, deleted, reviewRequired, taskStatus, lastMapper>>
  BY DEF UnlockTaskCommit
<1> HIDE DEF k, t
<1>4. held' = [held EXCEPT ![t] = {}] /\ held[t] = {locks[k].user}
  BY <1>1, <1>2, <1>3, HeldReleased DEF BoardSafe
<1>5. Board!Release(t)
  BY <1>0, <1>1, <1>2, <1>3, <1>4 DEF Board!Release, Board!Free, held
<1> QED
  BY <1>2, <1>5

LEMMA RestartStep ==
  ASSUME BoardSafe, NEW s \in Slots, Facts(s), ResetTaskCommit(s)
  PROVE  \E t \in Tasks : Board!Restart(t)
<1> DEFINE r == req[s]
           t == r.task
<1> USE DEF roleVars
<1>0. status \in {"open", "done"}
  BY DEF BoardSafe, SafeInv, TypeInv, TypeOK
<1>1. /\ t \in Tasks /\ r.seen \in TaskStatuses /\ r.lock \in LockIds \cup {NULL}
      /\ r.seen = taskStatus[t] /\ ~deleted
      /\ IF r.lock = NULL THEN ActiveLocksOn(t) = {} ELSE r.lock \in ActiveLocksOn(t)
  BY DEF ResetTaskCommit, Facts, Shape, FreshReq, FreshRelease, Request
<1>2. TaskExists(t)
  BY <1>1 DEF TaskExists
<1>3. /\ taskStatus' = [taskStatus EXCEPT ![t] = "to_map"]
      /\ lastMapper' = [lastMapper EXCEPT ![t] = NULL]
  BY <1>1, <1>2 DEF ResetTaskCommit, UpdateTask, Facts
<1>4. /\ locks' = (IF r.lock = NULL THEN locks ELSE Released(r.lock, "reset"))
      /\ UNCHANGED <<status, deleted, reviewRequired>>
  BY DEF ResetTaskCommit
<1> HIDE DEF r, t
<1>5. held' = [held EXCEPT ![t] = {}]
  <2>1. CASE r.lock = NULL
    <3>1. held[t] = {}
      BY <1>1, <2>1 DEF held, WorkingOn
    <3>2. held' = held
      BY <1>4, <2>1, HeldStays
    <3>3. held = [held EXCEPT ![t] = {}]
      BY <3>1 DEF held
    <3> QED
      BY <3>2, <3>3
  <2>2. CASE r.lock # NULL
    BY <1>1, <1>4, <2>2, HeldReleased DEF BoardSafe
  <2> QED
    BY <2>1, <2>2
<1>6. Board!Restart(t)
  BY <1>0, <1>1, <1>3, <1>4, <1>5 DEF Board!Restart, held
<1> QED
  BY <1>1, <1>6

LEMMA FinishStep ==
  ASSUME BoardSafe, NEW s \in Slots, Facts(s), SubmitCommit(s)
  PROVE  \E u \in Users, t \in Tasks : Board!Map(u, t) \/ Board!Review(u, t)
<1> DEFINE u == req[s].user
           t == req[s].task
           k == req[s].lock
           to == req[s].to
           by == req[s].mapper
<1>1. /\ t \in Tasks /\ u \in Users /\ k \in LockIds
      /\ k \in ActiveLocksOn(t) /\ locks[k].user = u
      /\ taskStatus[t] \in {"to_map", "to_remap", "to_review"}
      /\ \E fb \in BOOLEAN : to = NextStatus(taskStatus[t], fb)
      /\ by = NextMapper(u, t)
      /\ taskStatus' = [taskStatus EXCEPT ![t] = to]
      /\ lastMapper' = [lastMapper EXCEPT ![t] = by]
      /\ ~deleted /\ status = "open"
  BY SubmitReads DEF BoardSafe
<1>2. /\ locks' = Released(k, "auto_unlock")
      /\ UNCHANGED <<status, deleted, reviewRequired>>
  BY DEF SubmitCommit
<1> HIDE DEF u, t, k, to, by
<1>3. held' = [held EXCEPT ![t] = {}] /\ held[t] = {u}
  BY <1>1, <1>2, HeldReleased DEF BoardSafe
<1>4. Board!Moves(u, t, to, by)
  BY <1>1, <1>2, <1>3 DEF Board!Moves, held
<1>5. CASE taskStatus[t] \in {"to_map", "to_remap"}
  <2>1. by = u
    BY <1>1, <1>5 DEF NextMapper
  <2>2. to = IF taskStatus[t] = "to_map" /\ ~reviewRequired
             THEN "completed" ELSE "to_review"
    BY <1>1, <1>5 DEF NextStatus
  <2>3. Board!Map(u, t)
    BY <1>4, <1>5, <2>1, <2>2 DEF Board!Map
  <2> QED
    BY <1>1, <2>3
<1>6. CASE taskStatus[t] = "to_review"
  <2>1. by = lastMapper[t] /\ to \in {"completed", "to_remap"}
    BY <1>1, <1>6 DEF NextMapper, NextStatus
  <2>2. u # lastMapper[t]
    BY <1>1, <1>6 DEF Facts, SerialData, NoSelfReview, ActiveLocksOn
  <2>3. Board!Review(u, t)
    BY <1>4, <1>6, <2>1, <2>2 DEF Board!Review
  <2> QED
    BY <1>1, <2>3
<1> QED
  BY <1>1, <1>5, <1>6

LEMMA CloseStep ==
  ASSUME BoardSafe, NEW s \in Slots, Facts(s), CloseCommit(s)
  PROVE  Board!Close
<1> USE DEF taskVars, roleVars
<1>1. /\ ~deleted /\ status = "open" /\ AllCompleted /\ \A l \in LockIds : ~ActiveLock(l)
  BY DEF CloseCommit, Facts, FreshReq, FreshLead
<1>2. \A t \in Tasks : taskStatus[t] = "completed"
  BY <1>1 DEF AllCompleted, BoardSafe, GoneWhenDeleted
<1>3. /\ status' = "done" /\ locks' = locks
      /\ UNCHANGED <<deleted, reviewRequired, taskStatus, lastMapper>>
  BY DEF CloseCommit
<1>4. held' = held /\ held = [t \in Tasks |-> {}]
  BY <1>1, <1>3, HeldStays, HeldByNobody
<1> QED
  BY <1>1, <1>2, <1>3, <1>4 DEF Board!Close, Board!NobodyWorks, Board!Free, held

LEMMA RestartAllStep ==
  ASSUME BoardSafe, NEW s \in Slots, Facts(s), ResetCommit(s)
  PROVE  Board!RestartAll
<1>1. ~deleted /\ req[s].seen = status /\ status \in {"open", "done"}
  BY DEF ResetCommit, Facts, FreshReq, FreshLead, BoardSafe, SafeInv,
      TypeInv, TypeOK
<1>p. LocksToReset \subseteq req[s].locks /\ TasksToRewind \subseteq req[s].tasks
  BY DEF ResetCommit, Facts, FreshReq, FreshLead
<1>2. \A t \in Tasks : t \notin req[s].tasks => taskStatus[t] = "to_map"
  BY <1>1, <1>p DEF BoardSafe, GoneWhenDeleted, TasksToRewind
<1>3. taskStatus' = [t \in Tasks |-> "to_map"]
  BY <1>2 DEF ResetCommit
<1>4. lastMapper' = [t \in Tasks |-> NULL]
  BY <1>2 DEF ResetCommit, BoardSafe, SafeInv, UnmappedHasNoMapper
<1>5. status' = "open" /\ deleted' = deleted /\ reviewRequired' = reviewRequired
  BY <1>1 DEF ResetCommit
<1>6. \A l \in LockIds : ~ActiveLock(l)'
  BY <1>p DEF ResetCommit, LocksToReset, Row, ActiveLock
<1>7. held' = [t \in Tasks |-> {}]
  BY <1>6 DEF held, WorkingOn, ActiveLocksOn
<1> QED
  BY <1>1, <1>3, <1>4, <1>5, <1>7 DEF Board!RestartAll, held

LEMMA DeleteStep ==
  ASSUME BoardSafe, NEW s \in Slots, Facts(s), SoftDeleteCommit(s)
  PROVE  Board!Delete
<1>1. /\ ~deleted /\ \A l \in LockIds : ~ActiveLock(l)
      /\ status \in {"open", "done"}
  BY DEF SoftDeleteCommit, Facts, FreshReq, FreshLead, BoardSafe,
      SafeInv, TypeInv, TypeOK
<1>2. /\ deleted' = TRUE /\ taskStatus' = [t \in Tasks |-> "gone"]
      /\ lastMapper' = [t \in Tasks |-> NULL] /\ reviewRequired' = reviewRequired
  BY DEF SoftDeleteCommit
<1>3. \A l \in LockIds : ~ActiveLock(l)'
  BY DEF SoftDeleteCommit, Row, ActiveLock
<1>4. held' = [t \in Tasks |-> {}] /\ held = [t \in Tasks |-> {}]
  BY <1>1, <1>3 DEF held, WorkingOn, ActiveLocksOn
<1> QED
  BY <1>1, <1>2, <1>4 DEF Board!Delete, Board!NobodyWorks, Board!Free, held

-----------------------------------------------------------------------------

LEMMA GoneStep ==
  ASSUME BoardSafe, [Next]_vars
  PROVE  GoneWhenDeleted'
<1> USE DEF taskVars, roleVars
<1>t. /\ taskStatus \in [Tasks -> TaskStatuses \cup {"gone"}]
      /\ GoneWhenDeleted /\ \A s \in Slots : Shape(req[s])
  BY DEF BoardSafe, SafeInv, TypeInv, TypeOK, ReqShape
<1>1. ASSUME NEW s \in Slots, SubmitCommit(s) PROVE GoneWhenDeleted'
  <2>1. req[s].to \in TaskStatuses
    BY <1>1, <1>t DEF SubmitCommit, Shape
  <2> QED
    BY <1>1, <1>t, <2>1 DEF SubmitCommit, UpdateTask, GoneWhenDeleted, TaskExists
<1>2. ASSUME NEW s \in Slots, ResetTaskCommit(s) PROVE GoneWhenDeleted'
  BY <1>2, <1>t DEF ResetTaskCommit, UpdateTask, Shape, GoneWhenDeleted, TaskExists
<1>3. ASSUME NEW s \in Slots, ResetCommit(s) PROVE GoneWhenDeleted'
  BY <1>3, <1>t DEF ResetCommit, GoneWhenDeleted, TaskExists
<1>4. ASSUME NEW s \in Slots, SoftDeleteCommit(s) PROVE GoneWhenDeleted'
  BY <1>4 DEF SoftDeleteCommit, GoneWhenDeleted
<1>5. CASE UNCHANGED <<taskStatus, deleted>>
  BY <1>5, <1>t DEF GoneWhenDeleted, TaskExists
<1> QED
  BY <1>1, <1>2, <1>3, <1>4, <1>5, StepWrites
  DEF Writes, Kept, RoleChange, LockTaskCommit, UnlockTaskCommit,
      SubmitChangesetCommit, CloseCommit

(* A submission, a reset or a deletion goes on to its next statement. *)
GoesOn(s, r) ==
  /\ r.op \in {"submit", "reset_locks", "reset_tasks", "deleting"}
  /\ r.op = "submit" =>
       req[s].op = "read_task" /\ r.seen = req[s].seen /\ r.to = req[s].to
  /\ req' = [req EXCEPT ![s] = r]

LEMMA StatementGoes ==
  ASSUME TypeOK, NEW s \in Slots, Statement(s)
  PROVE  (\E r : GoesOn(s, r)) /\ Kept
<1>1. req[s] \in Request
  BY DEF TypeOK
<1>2. Kept
  BY DEF Statement, SubmitHolds, ResetLocks, ResetTasks, SoftDeleteRows, Goes, Kept,
         dbVars, auditVars
<1>3. CASE ResetLocks(s)
  <2>1. GoesOn(s, [req[s] EXCEPT !.op = "reset_locks", !.locks = LocksToReset])
    BY <1>1, <1>3 DEF ResetLocks, Goes, GoesOn, Request
  <2> QED
    BY <2>1, <1>2
<1>4. CASE ResetTasks(s)
  <2>1. GoesOn(s, [req[s] EXCEPT !.op = "reset_tasks", !.tasks = TasksToRewind])
    BY <1>1, <1>4 DEF ResetTasks, Goes, GoesOn, Request
  <2> QED
    BY <2>1, <1>2
<1>5. CASE SoftDeleteRows(s)
  <2>1. GoesOn(s, [req[s] EXCEPT !.op = "deleting"])
    BY <1>1, <1>5 DEF SoftDeleteRows, GoesOn, Request
  <2> QED
    BY <2>1, <1>2
<1>6. CASE SubmitHolds(s)
  <2>1. PICK l \in LockIds : Goes(s, [req[s] EXCEPT !.op = "submit", !.lock = l])
    BY <1>6 DEF SubmitHolds
  <2>2. GoesOn(s, [req[s] EXCEPT !.op = "submit", !.lock = l])
    BY <1>1, <1>6, <2>1 DEF SubmitHolds, Goes, GoesOn, Request
  <2> QED
    BY <2>2, <1>2
<1> QED
  BY <1>2, <1>3, <1>4, <1>5, <1>6 DEF Statement

(* A step decides a request, goes on with one, ends one or leaves all of     *)
(* them alone.                                                               *)
LEMMA SlotSteps ==
  ASSUME TypeOK, [Next]_vars
  PROVE  \/ \E s \in Slots : \E r : Decides(s, r)
         \/ \E s \in Slots : \E r : GoesOn(s, r)
         \/ \E s \in Slots : Done(s)
         \/ req' = req
  BY Ends, BeginsFresh, StatementGoes DEF Next, RoleChange, vars

LEMMA TakesStep ==
  ASSUME BoardSafe, [Next]_vars
  PROVE  TakesWork'
<1>0. TakesWork /\ req \in [Slots -> Request] /\ TypeOK
  BY DEF BoardSafe, SafeInv, TypeInv, TypeOK
<1>1. ASSUME NEW s \in Slots, NEW r, Takes(r), req' = [req EXCEPT ![s] = r]
      PROVE  TakesWork'
  BY <1>0, <1>1 DEF TakesWork, Takes
<1>2. Takes(NoRequest)
  BY DEF Takes, NoRequest
<1>3. CASE req' = req
  BY <1>0, <1>3 DEF TakesWork, Takes
<1> QED
  BY <1>0, <1>1, <1>2, <1>3, SlotSteps DEF Decides, Begin, Done, GoesOn, Takes

LEMMA BoardSafeStep == BoardSafe /\ [Next]_vars => BoardSafe'
  BY SafeStep, GoneStep, TakesStep DEF BoardSafe

(* A commit is one operation of the board, or nothing its members can see. *)
LEMMA CommitKeepsBoard ==
  ASSUME BoardSafe, NEW s \in Slots, Facts(s), Writes(s)
  PROVE  Board!Next \/ UNCHANGED Board!board
<1>1. CASE SubmitChangesetCommit(s)
  <2>1. held' = held
    BY <1>1, HeldStays DEF SubmitChangesetCommit
  <2> QED
    BY <1>1, <2>1 DEF SubmitChangesetCommit, Board!board, held, taskVars
<1>2. CASE ~SubmitChangesetCommit(s)
  BY <1>2, TakeStep, ReleaseStep, RestartStep, FinishStep, CloseStep, RestartAllStep,
     DeleteStep DEF Board!Next, Writes
<1> QED
  BY <1>1, <1>2

(* A step that is no commit leaves the board alone. *)
LEMMA OthersKeepBoard ==
  ASSUME Kept \/ \E u \in Users, x \in Roles \cup {NULL} : RoleChange(u, x)
  PROVE  UNCHANGED Board!board
<1>1. UNCHANGED <<status, deleted, reviewRequired, taskStatus, lastMapper, locks>>
  BY DEF Kept, RoleChange, taskVars
<1>2. held' = held
  BY <1>1, HeldStays
<1> QED
  BY <1>1, <1>2 DEF Board!board, held

LEMMA BoardStep ==
  ASSUME BoardInv, [Next]_vars
  PROVE  [Board!Next]_(Board!board)
<1>1. BoardSafe /\ \A s \in Slots : Facts(s)
  BY SerialFacts DEF BoardInv
<1> QED
  BY <1>1, StepWrites, CommitKeepsBoard, OthersKeepBoard

LEMMA BoardSafeInit == Init => Board!Init /\ BoardSafe
<1> SUFFICES ASSUME Init PROVE Board!Init /\ BoardSafe
  OBVIOUS
<1>1. held = [t \in Tasks |-> {}]
  BY HeldByNobody DEF Init, Row, ActiveLock
<1>2. Board!Init
  BY <1>1 DEF Init, Board!Init, held
<1>3. GoneWhenDeleted /\ TakesWork
  BY DEF Init, GoneWhenDeleted, TakesWork, Takes, TaskExists, NoRequest
<1> QED
  BY <1>2, <1>3, SafeInit DEF BoardSafe

(* With requests one after another the service implements the board. *)
THEOREM ServiceKeepsTheBoard ==
  ASSUME Serial
  PROVE  Spec => KeepsTheBoard
<1>1. BoardInv /\ [Next]_vars => BoardInv'
  BY SerialStep, BoardSafeStep DEF BoardInv
<1>2. BoardInv /\ [Next]_vars => [Board!Next]_(Board!board)
  BY BoardStep
<1>3. Init => Board!Init /\ BoardInv
  BY SerialInit, BoardSafeInit DEF BoardInv
<1> QED
  BY <1>1, <1>2, <1>3, PTL DEF Spec, KeepsTheBoard, Board!Spec

-----------------------------------------------------------------------------
(***************************************************************************)
(* Any number of requests at a time, until one writes on a decision that   *)
(* others have overtaken.  What the read-time guards have made sure of is  *)
(* lost as soon as somebody else commits, except what nobody can change: a *)
(* submission writes what follows from the status it saw, and only who may *)
(* review takes a task to review, as long as no role row changes.  The     *)
(* rest is so at the commit if the decision still stands then (StillSo).   *)
(***************************************************************************)
Pending(r) ==
  /\ r.op \in {"read_task", "submit"} =>
       r.seen # "completed" /\ \E fb \in BOOLEAN : r.to = NextStatus(r.seen, fb)
  /\ r.op = "lock_task" /\ r.seen = "to_review" /\ roleChanges = 0 => MaySign(r.user)

OverlapData == SerialData /\ \A s \in Slots : Pending(req[s])

OverlapInv == BoardSafe /\ (~raced => OverlapData)

(* A commit whose decision still stands has the facts its request had read.  *)
LEMMA StillFacts ==
  ASSUME BoardSafe, OverlapData, NEW s \in Slots, Writes(s), StillSo(s)
  PROVE  Facts(s)
<1> DEFINE r == req[s]
<1>1. /\ Shape(r) /\ Pending(r) /\ SerialData
      /\ taskStatus \in [Tasks -> TaskStatuses \cup {"gone"}]
      /\ lastMapper \in [Tasks -> Users \cup {NULL}]
      /\ lastEvent \in [Tasks -> AuditEvent]
      /\ locks \in [LockIds -> LockRow]
  BY DEF OverlapData, BoardSafe, SafeInv, TypeInv, TypeOK, ReqShape
<1>2. deleted => /\ \A t \in Tasks : ~TaskExists(t)
                 /\ \A l \in LockIds : ~ActiveLock(l)
  BY DEF BoardSafe, SafeInv, DeletedIsEmpty
<1> HIDE DEF r
<1>3. CASE LockTaskCommit(s)
  <2>1. r.op = "lock_task" /\ TaskExists(r.task) /\ r.task \in Tasks
    BY <1>1, <1>3 DEF LockTaskCommit, LockInsertable, Shape, r
  <2>2. FreshReq(r)
    BY <1>1, <1>2, <2>1
    DEF StillSo, Pending, FreshReq, FreshLock, FreshRelease, FreshSubmit, FreshLead, r
  <2> QED
    BY <1>1, <2>2 DEF Facts, r
<1>7. CASE SubmitCommit(s)
  <2>1. r.op = "submit" /\ r.lock \in LockIds
    BY <1>1, <1>7 DEF SubmitCommit, Shape, r
  <2>2. FreshSubmit(r)
    BY <1>1, <2>1 DEF StillSo, Pending, FreshSubmit, r
  <2>3. ActiveLock(r.lock)
    BY <2>1, <2>2 DEF FreshSubmit, HoldsLock, ActiveLocksOn
  <2>4. FreshReq(r)
    BY <1>2, <2>1, <2>2, <2>3 DEF FreshReq, FreshLock, FreshRelease, FreshLead
  <2> QED
    BY <1>1, <2>4 DEF Facts, r
<1>4. CASE UnlockTaskCommit(s) \/ SubmitChangesetCommit(s)
  <2>1. r.op \in {"unlock_task", "submit_changeset"} /\ r.lock \in LockIds
    BY <1>1, <1>4 DEF UnlockTaskCommit, SubmitChangesetCommit, Shape, r
  <2>2. ActiveLock(r.lock)
    BY <2>1 DEF StillSo, r
  <2>3. FreshReq(r)
    BY <1>1, <1>2, <2>1, <2>2
    DEF FreshReq, FreshLock, FreshRelease, FreshSubmit, FreshLead
  <2> QED
    BY <1>1, <2>3 DEF Facts, r
<1>5. CASE ResetTaskCommit(s)
  <2>1. r.op = "reset_task" /\ r.seen \in TaskStatuses /\ r.task \in Tasks
    BY <1>1, <1>5 DEF ResetTaskCommit, Shape, r
  <2>2. /\ r.seen = taskStatus[r.task]
        /\ IF r.lock = NULL THEN ActiveLocksOn(r.task) = {}
                            ELSE r.lock \in ActiveLocksOn(r.task)
    BY <2>1 DEF StillSo, r
  <2>3. ~deleted
    BY <1>2, <2>1, <2>2 DEF TaskExists
  <2>4. FreshReq(r)
    BY <2>1, <2>2, <2>3
    DEF FreshReq, FreshLock, FreshRelease, FreshSubmit, FreshLead
  <2> QED
    BY <1>1, <2>4 DEF Facts, r
<1>6. CASE CloseCommit(s) \/ ResetCommit(s) \/ SoftDeleteCommit(s)
  <2>1. r.op \in {"close", "reset_tasks", "deleting"}
    BY <1>6 DEF CloseCommit, ResetCommit, SoftDeleteCommit, r
  <2>2. FreshReq(r)
    BY <2>1
    DEF StillSo, ProjectOpen, ProjectFound, FreshReq, FreshLock, FreshRelease,
        FreshSubmit, FreshLead, r
  <2> QED
    BY <1>1, <2>2 DEF Facts, r
<1> QED
  BY <1>3, <1>4, <1>5, <1>6, <1>7 DEF Writes

(* What is known of a request in flight does not depend on what others       *)
(* commit: they change neither whether review is required nor a role.        *)
LEMMA PendingStands ==
  ASSUME UNCHANGED <<reviewRequired, roleVars>>, NEW x \in Slots, NEW r,
         req'[x] = r, Pending(r)
  PROVE  Pending(req[x])'
<1>1. r.op = "lock_task" /\ r.seen = "to_review" /\ roleChanges' = 0 => MaySign(r.user)'
  BY DEF Pending, MaySign, EffectiveRole, IsWorkspaceLead, roleVars
<1>2. \A fb \in BOOLEAN : NextStatus(r.seen, fb)' = NextStatus(r.seen, fb)
  BY DEF NextStatus
<1> QED
  BY <1>1, <1>2 DEF Pending

(* A request that has just read, or that is over, has nothing to know.       *)
LEMMA PendingBegins ==
  /\ \A r : FreshReq(r) => Pending(r)
  /\ Pending(NoRequest)
  BY DEF FreshReq, FreshLock, FreshSubmit, Pending, NoRequest

(* A step before the first race. *)
LEMMA UnracedStep ==
  ASSUME OverlapInv, [OverlapNext]_<<vars, raced>>, ~raced'
  PROVE  /\ ~raced /\ OverlapData /\ [Next]_vars
         /\ \/ Kept
            \/ \E u \in Users, x \in Roles \cup {NULL} : RoleChange(u, x)
            \/ \E s \in Slots : Writes(s) /\ Facts(s)
<1>1. [Next]_vars
  BY DEF OverlapNext, Next
<1>2. ~raced
  BY DEF OverlapNext
<1>3. BoardSafe /\ OverlapData
  BY <1>2 DEF OverlapInv
<1>4. ASSUME NEW s \in Slots, Commit(s), raced' = (raced \/ Overtaken(s))
      PROVE  Kept \/ (Writes(s) /\ Facts(s))
  <2>1. ~Overtaken(s)
    BY <1>4
  <2>2. CASE dbVars' = dbVars
    BY <2>2 DEF Kept, dbVars, auditVars
  <2>3. CASE dbVars' # dbVars
    <3>1. StillSo(s)
      BY <2>1, <2>3 DEF Overtaken
    <3>2. Writes(s)
      BY <1>4, <2>3 DEF Commit, Writes, LockTaskConflict
    <3> QED
      BY <1>3, <3>1, <3>2, StillFacts
  <2> QED
    BY <2>2, <2>3
<1>5. ASSUME NEW s \in Slots, Member(s) \/ Lead(s) \/ Statement(s) \/ Abort(s)
      PROVE  Kept
  <2>1. CASE Abort(s)
    BY <2>1 DEF Abort, Kept, dbVars, auditVars
  <2>2. CASE Member(s) \/ Lead(s)
    BY <2>2, BeginsFresh DEF Decides, Begin, Kept, dbVars, auditVars
  <2>3. CASE Statement(s)
    BY <1>3, <2>3, StatementGoes DEF BoardSafe, SafeInv, TypeInv
  <2> QED
    BY <1>5, <2>1, <2>2, <2>3
<1>6. CASE UNCHANGED <<vars, raced>>
  BY <1>1, <1>2, <1>3, <1>6 DEF vars, Kept, roleVars, taskVars
<1>7. CASE OverlapNext
  BY <1>1, <1>2, <1>3, <1>4, <1>5, <1>7 DEF OverlapNext
<1> QED
  BY <1>6, <1>7

(* What requests in flight know, after such a step. *)
LEMMA PendingStep ==
  ASSUME OverlapInv, [OverlapNext]_<<vars, raced>>, ~raced', NEW x \in Slots
  PROVE  Pending(req[x])'
<1>1. /\ OverlapData /\ BoardSafe /\ [Next]_vars
      /\ TypeOK /\ req \in [Slots -> Request] /\ roleChanges \in Nat
  BY UnracedStep DEF OverlapInv, BoardSafe, SafeInv, TypeInv, TypeOK
<1>2. Pending(req[x]) /\ Pending(NoRequest)
  BY <1>1, PendingBegins DEF OverlapData
<1>3. CASE Kept
  <2>1. \E r : req'[x] = r /\ Pending(r)
    <3>1. ASSUME NEW s \in Slots, NEW r, Pending(r), req' = [req EXCEPT ![s] = r]
          PROVE  \E y : req'[x] = y /\ Pending(y)
      BY <1>1, <1>2, <3>1
    <3>2. CASE \E s \in Slots : \E r : Decides(s, r)
      BY <3>1, <3>2, PendingBegins DEF Decides, Begin
    <3>5. ASSUME NEW s \in Slots, NEW r, GoesOn(s, r)
          PROVE  \E y : req'[x] = y /\ Pending(y)
      <4>1. Pending(req[s])
        BY <1>1 DEF OverlapData
      <4>2. Pending(r)
        BY <3>5, <4>1 DEF GoesOn, Pending
      <4> QED
        BY <3>1, <3>5, <4>2 DEF GoesOn
    <3>3. CASE \E s \in Slots : Done(s)
      BY <1>2, <3>1, <3>3 DEF Done
    <3>4. CASE req' = req
      BY <1>2, <3>4
    <3> QED
      BY <1>1, <3>2, <3>3, <3>4, <3>5, SlotSteps
  <2> QED
    BY <1>3, <2>1, PendingStands DEF Kept
<1>4. ASSUME NEW u \in Users, NEW y \in Roles \cup {NULL}, RoleChange(u, y)
      PROVE  Pending(req[x])'
  <2>1. /\ roleChanges' # 0 /\ req' = req
        /\ UNCHANGED reviewRequired
    BY <1>1, <1>4 DEF RoleChange
  <2> QED
    BY <1>2, <2>1 DEF Pending, NextStatus
<1>5. ASSUME NEW s \in Slots, Facts(s), Writes(s)
      PROVE  Pending(req[x])'
  <2>1. req' = [req EXCEPT ![s] = NoRequest]
    BY <1>5 DEF Done, Writes, LockTaskCommit, UnlockTaskCommit, ResetTaskCommit,
        SubmitCommit, SubmitChangesetCommit, CloseCommit, ResetCommit, SoftDeleteCommit
  <2>2. UNCHANGED <<reviewRequired, roleVars>>
    BY <1>5 DEF Writes, LockTaskCommit, UnlockTaskCommit, ResetTaskCommit, SubmitCommit,
        SubmitChangesetCommit, CloseCommit, ResetCommit, SoftDeleteCommit
  <2>3. \E r : req'[x] = r /\ Pending(r)
    BY <1>1, <1>2, <2>1
  <2> QED
    BY <2>2, <2>3, PendingStands
<1> QED
  BY <1>3, <1>4, <1>5, UnracedStep

LEMMA OverlapStep == OverlapInv /\ [OverlapNext]_<<vars, raced>> => OverlapInv'
<1> SUFFICES ASSUME OverlapInv, [OverlapNext]_<<vars, raced>> PROVE OverlapInv'
  OBVIOUS
<1>1. BoardSafe /\ BoardSafe'
  BY BoardSafeStep DEF OverlapNext, Next, OverlapInv
<1>2. ASSUME ~raced' PROVE SerialData'
  <2>1. SafeInv /\ SerialData /\ locks \in [LockIds -> LockRow]
    BY <1>1, <1>2, UnracedStep DEF OverlapData, BoardSafe, SafeInv, TypeInv, TypeOK
  <2>2. CASE Kept
    <3>1. UNCHANGED <<status, deleted, reviewRequired, roleVars, taskVars, locks,
                      lastEvent, auditFlagged>>
      BY <2>2 DEF Kept
    <3>2. \A l \in LockIds : ActiveLock(l)' => ActiveLock(l) /\ locks'[l] = locks[l]
      BY <3>1 DEF ActiveLock
    <3> QED
      BY <2>1, <3>1, <3>2, DataKept DEF SerialData, ClosedHasNoLock, DeletedIsFlagged
  <2>3. CASE \E u \in Users, y \in Roles \cup {NULL} : RoleChange(u, y)
    BY <2>1, <2>3, DataRole
  <2>4. CASE \E s \in Slots : Writes(s) /\ Facts(s)
    BY <2>1, <2>4, CommitData
  <2> QED
    BY <1>2, <2>2, <2>3, <2>4, UnracedStep
<1> QED
  BY <1>1, <1>2, PendingStep DEF OverlapInv, OverlapData

LEMMA OverlapStart == OverlapInit => OverlapInv
<1> SUFFICES ASSUME OverlapInit PROVE OverlapInv
  OBVIOUS
<1>1. BoardSafe /\ SerialData
  BY BoardSafeInit, SerialInit DEF OverlapInit, SerialInv
<1>2. \A s \in Slots : Pending(req[s])
  BY PendingBegins DEF OverlapInit, Init
<1> QED
  BY <1>1, <1>2 DEF OverlapInv, OverlapData

(* The serial data invariants hold until the first race. *)
THEOREM OverlapSafety == OverlapSpec => []OverlapInv
  BY OverlapStart, OverlapStep, PTL DEF OverlapSpec

(* Until a request writes on a decision that was overtaken, or a reset or a  *)
(* deletion commits though its statements have missed a row, overlapping     *)
(* requests keep what requests one after another keep: a lock goes with its  *)
(* task, nobody reviews their own mapping, the last event tells the status,  *)
(* a closed project is left alone, a deleted one is flagged throughout.      *)
THEOREM UntilRaceSafe == OverlapSpec => []SafeUntilRace
<1>1. OverlapInv => SafeUntilRace
  BY DEF OverlapInv, OverlapData, SerialData, SafeUntilRace
<1> QED
  BY <1>1, OverlapSafety, PTL

(* Until then every step of overlapping requests is a step of the board: the *)
(* three statements of a reset, once nothing has slipped in between, are one.*)
THEOREM UntilRaceBoard == OverlapSpec => BoardUntilRace
<1>1. OverlapInit => Board!Init
  BY BoardSafeInit DEF OverlapInit
<1>2. OverlapInv /\ [OverlapNext]_<<vars, raced>>
        => [raced' \/ Board!Next]_(Board!board)
  <2> SUFFICES ASSUME OverlapInv, [OverlapNext]_<<vars, raced>>, ~raced'
               PROVE  Board!Next \/ UNCHANGED Board!board
    OBVIOUS
  <2>1. BoardSafe
    BY DEF OverlapInv
  <2> QED
    BY <2>1, UnracedStep, CommitKeepsBoard, OthersKeepBoard
<1> QED
  BY <1>1, <1>2, OverlapSafety, PTL DEF OverlapSpec, BoardUntilRace

(* Until then a release reason stays on record, the lock's holder is who     *)
(* moved the task, and whoever judged a task may review.                     *)
THEOREM UntilRaceRecords == OverlapSpec => RecordsUntilRace
<1>1. OverlapInv /\ [OverlapNext]_<<vars, raced>>
        => raced' \/ (ReasonsKept /\ MovedByHolder /\ JudgedByReviewer)
  <2> SUFFICES ASSUME OverlapInv, [OverlapNext]_<<vars, raced>>, ~raced'
               PROVE  ReasonsKept /\ MovedByHolder /\ JudgedByReviewer
    OBVIOUS
  <2>1. SafeInv
    BY DEF OverlapInv, BoardSafe
  <2> QED
    BY <2>1, UnracedStep, HolderMoves, CommitKeepsReasons, ReviewerJudges, OtherSteps
<1>2. ASSUME raced' \/ (ReasonsKept /\ MovedByHolder /\ JudgedByReviewer)
      PROVE  [raced' \/ (ReasonsKept /\ MovedByHolder /\ JudgedByReviewer)]_vars
  BY <1>2
<1> QED
  BY <1>1, OverlapSafety, PTL
  DEF OverlapSpec, RecordsUntilRace, ReasonsKept, MovedByHolder, JudgedByReviewer

-----------------------------------------------------------------------------
(* Requests that run one after another are never overtaken, so that the      *)
(* theorems above speak of them without the proviso.                         *)

LEMMA FreshIsStill ==
  ASSUME SafeInv, NEW s \in Slots, Facts(s), Writes(s)
  PROVE  StillSo(s)
<1> DEFINE r == req[s]
<1>1. /\ FreshReq(r) /\ Shape(r)
      /\ r.op \in {"lock_task", "unlock_task", "submit", "submit_changeset",
                   "reset_task", "close", "reset_tasks", "deleting"}
      /\ status \in {"open", "done"}
  BY DEF Facts, SafeInv, TypeInv, TypeOK, Writes, LockTaskCommit, UnlockTaskCommit,
      ResetTaskCommit, SubmitCommit, SubmitChangesetCommit, CloseCommit, ResetCommit,
      SoftDeleteCommit
<1> QED
  BY <1>1
  DEF StillSo, FreshReq, FreshLock, FreshRelease, FreshSubmit, FreshLead, HoldsLock,
      ActiveLocksOn, ProjectFound, ProjectOpen

(* One request at a time: no write is ever overtaken. *)
THEOREM SerialNeverRaces ==
  ASSUME Serial
  PROVE  OverlapSpec => []~raced
<1> DEFINE Inv == SerialInv /\ ~raced
<1>1. OverlapInit => Inv
  BY SerialInit DEF OverlapInit
<1>2. Inv /\ [OverlapNext]_<<vars, raced>> => Inv'
  <2> SUFFICES ASSUME Inv, [OverlapNext]_<<vars, raced>> PROVE Inv'
    OBVIOUS
  <2>1. [Next]_vars
    BY DEF OverlapNext, Next
  <2>2. ASSUME NEW s \in Slots, Commit(s), raced' = (raced \/ Overtaken(s))
        PROVE  ~raced'
    <3>1. CASE dbVars' = dbVars
      BY <2>2, <3>1 DEF Overtaken
    <3>2. CASE dbVars' # dbVars
      <4>1. Writes(s)
        BY <2>2, <3>2 DEF Commit, Writes, LockTaskConflict
      <4>2. StillSo(s)
        BY <4>1, SerialFacts, FreshIsStill DEF SerialInv
      <4> QED
        BY <2>2, <4>2 DEF Overtaken
    <3> QED
      BY <3>1, <3>2
  <2>3. ~raced'
    BY <2>2 DEF OverlapNext
  <2> QED
    BY <2>1, <2>3, SerialStep
<1> QED
  BY <1>1, <1>2, PTL DEF OverlapSpec

-----------------------------------------------------------------------------
(***************************************************************************)
(* The work in a project, whatever overlaps, as ProjectSetup sums it up.   *)
(***************************************************************************)
shown == [s \in Slots |-> Shown(req[s])]

Deletes(r) == r.op \in {"soft_delete", "deleting"}

(* A request that deletes nothing begins, goes on or ends. *)
LEMMA NotShown ==
  ASSUME TypeOK, NEW s \in Slots, NEW r, req' = [req EXCEPT ![s] = r],
         Deletes(r) <=> Deletes(req[s])
  PROVE  shown' = shown
<1>1. \A t \in Slots : Shown(req'[t]) = Shown(req[t])
  BY DEF TypeOK, Shown, Deletes
<1> QED
  BY <1>1 DEF shown, Shown

(* What is shown minds nobody's commit. *)
LEMMA ShownMindsNothing ==
  ASSUME NEW r, NEW kind
  PROVE  Setup!Overtaken(Shown(r), kind) = Shown(r)
<1>1. Setup!Minds(Shown(r).op) = {}
  BY DEF Setup!Minds, Shown
<1> QED
  BY <1>1 DEF Setup!Overtaken, Shown

LEMMA NobodyMinds ==
  ASSUME NEW kind, shown' = shown
  PROVE  Setup!Overtake(kind)
<1>1. \A t \in Slots : Setup!Overtaken(shown[t], kind) = shown[t]
  BY ShownMindsNothing DEF shown
<1> QED
  BY <1>1 DEF Setup!Overtake, shown

(* The tasks there are stay, as long as the project does. *)
LEMMA BatchStays ==
  ASSUME \A t \in Tasks : TaskExists(t)' <=> TaskExists(t)
  PROVE  Batches' = Batches
<1>1. (\E t \in Tasks : TaskExists(t)') <=> (\E t \in Tasks : TaskExists(t))
  OBVIOUS
<1> QED
  BY <1>1 DEF Batches, Batch

LEMMA CommitKeepsTasks ==
  ASSUME SafeInv, NEW s \in Slots,
         \/ LockTaskCommit(s) \/ UnlockTaskCommit(s) \/ ResetTaskCommit(s)
         \/ SubmitCommit(s) \/ SubmitChangesetCommit(s) \/ CloseCommit(s)
         \/ ResetCommit(s)
  PROVE  Batches' = Batches
<1>1. Shape(req[s]) /\ TypeOK
  BY DEF SafeInv, TypeInv, ReqShape
<1>2. ASSUME NEW t \in Tasks, NEW st, NEW m, UpdateTask(t, st, m),
             TaskExists(t) => st \in TaskStatuses
      PROVE  Batches' = Batches
  <2>1. \A x \in Tasks : TaskExists(x)' <=> TaskExists(x)
    BY <1>1, <1>2 DEF UpdateTask, TaskExists, TypeOK
  <2> QED
    BY <2>1, BatchStays
<1>3. CASE ResetTaskCommit(s)
  BY <1>1, <1>2, <1>3 DEF ResetTaskCommit, Shape, TypeOK, TaskExists
<1>4. CASE SubmitCommit(s)
  BY <1>1, <1>2, <1>4 DEF SubmitCommit, Shape
<1>5. CASE ResetCommit(s)
  <2>1. \A x \in Tasks : TaskExists(x)' <=> TaskExists(x)
    BY <1>1, <1>5 DEF ResetCommit, TaskExists, TypeOK, SafeInv, HeldRows, HeldBy
  <2> QED
    BY <2>1, BatchStays
<1>6. CASE \/ LockTaskCommit(s) \/ UnlockTaskCommit(s)
           \/ SubmitChangesetCommit(s) \/ CloseCommit(s)
  <2>1. taskStatus' = taskStatus
    BY <1>6 DEF LockTaskCommit, UnlockTaskCommit, SubmitChangesetCommit,
       CloseCommit, taskVars
  <2> QED
    BY <2>1, BatchStays DEF TaskExists
<1> QED
  BY <1>3, <1>4, <1>5, <1>6

(* A step that changes nothing ProjectSetup has. *)
LEMMA SetupStutters ==
  ASSUME status' = status, deleted' = deleted, reviewRequired' = reviewRequired,
         Batches' = Batches, projectRole' = projectRole, shown' = shown
  PROVE  UNCHANGED Setup!vars
  BY DEF Setup!vars, shown, Workers

LEMMA ReadKeepsSetup ==
  ASSUME TypeInv, NEW s \in Slots, Member(s) \/ Lead(s)
  PROVE  UNCHANGED Setup!vars \/ Setup!SoftDelete(s)
<1> DEFINE Begun == \E r : /\ Begin(s, r) /\ r.op # "deleting"
                           /\ r.op = "soft_delete" => ProjectFound
<1>1. ASSUME NEW r, Begin(s, r), r.op # "deleting", r.op = "soft_delete" => ProjectFound
      PROVE  Begun
  BY <1>1
<1> HIDE DEF Begun
<1>2. ASSUME NEW u \in Users, NEW t \in Tasks,
             \/ LockTask(s, u, t) \/ (\E force \in BOOLEAN : UnlockTask(s, u, t, force))
             \/ (\E fb \in BOOLEAN : Submit(s, u, t, fb))
             \/ SubmitChangeset(s, u, t) \/ ResetTask(s, u, t)
      PROVE  Begun
  BY <1>1, <1>2 DEF LockTask, UnlockTask, Submit, SubmitChangeset, ResetTask,
     NoRequest
<1>3. ASSUME NEW u \in Users, Close(s, u) \/ Reset(s, u) \/ SoftDelete(s, u)
      PROVE  Begun
  BY <1>1, <1>3 DEF Close, Reset, SoftDelete, NoRequest
<1>4. PICK r : /\ Begin(s, r) /\ r.op # "deleting"
               /\ r.op = "soft_delete" => ProjectFound
  BY <1>2, <1>3 DEF Begun, Member, Lead
<1>5. req[s].op = "none" /\ TypeOK
  BY <1>4 DEF Begin, Idle, NoRequest, TypeInv
<1>6. /\ UNCHANGED <<status, deleted, reviewRequired, projectRole>>
      /\ Batches' = Batches
  BY <1>4, BatchStays DEF Begin, dbVars, roleVars, taskVars, TaskExists
<1>7. CASE r.op # "soft_delete"
  BY <1>4, <1>5, <1>6, <1>7, NotShown, SetupStutters DEF Begin, Deletes
<1>8. CASE r.op = "soft_delete"
  <2>1. shown' = [shown EXCEPT ![s] = Shown(r)] /\ shown[s] = Shown(NoRequest)
    BY <1>4, <1>5 DEF shown, Shown, Begin, Idle, TypeOK
  <2> QED
    BY <1>4, <1>6, <1>8, <2>1
    DEF Setup!SoftDelete, Setup!ProjectFound, Setup!Begin, Setup!Idle,
        Setup!NoRequest, Setup!dbVars, Setup!projectVars, Setup!taskVars,
        ProjectFound, Shown, NoRequest, shown, Workers
<1> QED
  BY <1>7, <1>8

(* ProjectSetup has a deletion in one write: its statements show nothing.    *)
LEMMA StatementKeepsSetup ==
  ASSUME TypeInv, NEW s \in Slots, Statement(s)
  PROVE  UNCHANGED Setup!vars
<1>1. TypeOK /\ req[s] \in Request
  BY DEF TypeInv, TypeOK
<1>2. /\ UNCHANGED <<status, deleted, reviewRequired, projectRole>>
      /\ Batches' = Batches
  BY <1>1, StatementGoes, BatchStays DEF Kept, roleVars, taskVars, TaskExists
<1>3. CASE ResetLocks(s)
  <2>1. ~Deletes([req[s] EXCEPT !.op = "reset_locks", !.locks = LocksToReset])
        /\ ~Deletes(req[s])
    BY <1>1, <1>3 DEF ResetLocks, Deletes, Request
  <2> QED
    BY <1>1, <1>2, <1>3, <2>1, NotShown, SetupStutters DEF ResetLocks, Goes
<1>4. CASE ResetTasks(s)
  <2>1. ~Deletes([req[s] EXCEPT !.op = "reset_tasks", !.tasks = TasksToRewind])
        /\ ~Deletes(req[s])
    BY <1>1, <1>4 DEF ResetTasks, Deletes, Request
  <2> QED
    BY <1>1, <1>2, <1>4, <2>1, NotShown, SetupStutters DEF ResetTasks, Goes
<1>5. CASE SoftDeleteRows(s)
  <2>1. /\ Deletes([req[s] EXCEPT !.op = "deleting"]) /\ Deletes(req[s])
        /\ req' = [req EXCEPT ![s] = [req[s] EXCEPT !.op = "deleting"]]
    BY <1>1, <1>5 DEF SoftDeleteRows, Deletes, Request
  <2> QED
    BY <1>1, <1>2, <2>1, NotShown, SetupStutters
<1>6. CASE SubmitHolds(s)
  <2>1. PICK l \in LockIds : Goes(s, [req[s] EXCEPT !.op = "submit", !.lock = l])
    BY <1>6 DEF SubmitHolds
  <2>2. ~Deletes([req[s] EXCEPT !.op = "submit", !.lock = l]) /\ ~Deletes(req[s])
    BY <1>1, <1>6 DEF SubmitHolds, Deletes, Request
  <2> QED
    BY <1>1, <1>2, <2>1, <2>2, NotShown, SetupStutters DEF Goes
<1> QED
  BY <1>3, <1>4, <1>5, <1>6 DEF Statement

LEMMA CommitKeepsSetup ==
  ASSUME SafeInv, NEW s \in Slots, Commit(s)
  PROVE  \/ UNCHANGED Setup!vars
         \/ Setup!Close \/ Setup!Reset \/ Setup!SoftDeleteCommit(s)
<1>1. TypeOK /\ Done(s) /\ NoRequest.op = "none"
  BY Ends DEF SafeInv, TypeInv, NoRequest
<1>2. CASE SoftDeleteCommit(s)
  <2>1. Batches' = {} /\ deleted' = TRUE
        /\ UNCHANGED <<status, reviewRequired, projectRole>>
    BY <1>2 DEF SoftDeleteCommit, Batches, TaskExists, roleVars
  <2>2. shown' = [t \in Slots |-> IF t = s THEN Shown(NoRequest)
                                 ELSE Setup!Overtaken(shown[t], "delete")]
    <3>1. \A t \in Slots : Shown(req'[t]) = IF t = s THEN Shown(NoRequest)
                                            ELSE Shown(req[t])
      BY <1>1 DEF Done, TypeOK
    <3>2. \A t \in Slots : Setup!Overtaken(shown[t], "delete") = Shown(req[t])
      BY ShownMindsNothing DEF shown
    <3> QED
      BY <3>1, <3>2 DEF shown
  <2>3. Shown(NoRequest) = Setup!NoRequest
    BY DEF Shown, NoRequest, Setup!NoRequest
  <2>4. Setup!Commits(s, "delete")
    BY <2>2, <2>3 DEF Setup!Commits, shown
  <2>5. shown[s].op = "soft_delete" /\ \A t \in Slots : shown[t].op # "write_aoi"
    BY <1>2 DEF SoftDeleteCommit, shown, Shown
  <2> QED
    BY <2>1, <2>4, <2>5 DEF Setup!SoftDeleteCommit, Setup!KeptTasks,
       Setup!Wiping, shown, Workers
<1>3. ASSUME ~SoftDeleteCommit(s)
      PROVE  /\ shown' = shown /\ Batches' = Batches
             /\ UNCHANGED <<deleted, reviewRequired, projectRole>>
  <2>1. ~Deletes(req[s])
    BY <1>3 DEF Commit, LockTaskCommit, LockTaskConflict, UnlockTaskCommit,
       ResetTaskCommit, SubmitCommit, SubmitChangesetCommit, CloseCommit,
       ResetCommit, Deletes
  <2>2. shown' = shown
    BY <1>1, <2>1, NotShown DEF Done, Deletes
  <2>3. CASE LockTaskConflict(s)
    BY <2>2, <2>3, BatchStays DEF LockTaskConflict, dbVars, roleVars, taskVars,
       TaskExists
  <2>4. CASE ~LockTaskConflict(s)
    <3>1. Batches' = Batches
      BY <1>3, <2>4, CommitKeepsTasks DEF Commit
    <3> QED
      BY <1>3, <2>2, <2>4, <3>1 DEF Commit, LockTaskCommit, UnlockTaskCommit,
         ResetTaskCommit, SubmitCommit, SubmitChangesetCommit, CloseCommit,
         ResetCommit, roleVars
  <2> QED
    BY <2>3, <2>4
<1>4. CASE CloseCommit(s)
  <2>1. Setup!Overtake("close")
    BY <1>3, <1>4, NobodyMinds DEF CloseCommit, SoftDeleteCommit
  <2>2. /\ status # "draft" /\ status' = "done" /\ Batches' = Batches
        /\ UNCHANGED <<deleted, reviewRequired, projectRole>>
    BY <1>1, <1>3, <1>4 DEF TypeOK, CloseCommit, SoftDeleteCommit
  <2> QED
    BY <2>1, <2>2 DEF Setup!Close, Setup!taskVars, Workers
<1>5. CASE ResetCommit(s)
  <2>1. /\ status # "draft" /\ status' \in {status, "open"} /\ shown' = shown
        /\ Batches' = Batches /\ UNCHANGED <<deleted, reviewRequired, projectRole>>
    BY <1>1, <1>3, <1>5 DEF TypeOK, ResetCommit, SoftDeleteCommit
  <2> QED
    BY <2>1 DEF Setup!Reset, Setup!taskVars, shown, Workers
<1>6. CASE ~SoftDeleteCommit(s) /\ ~CloseCommit(s) /\ ~ResetCommit(s)
  <2>1. status' = status
    BY <1>6 DEF Commit, LockTaskCommit, LockTaskConflict, UnlockTaskCommit,
       ResetTaskCommit, SubmitCommit, SubmitChangesetCommit, dbVars
  <2> QED
    BY <1>3, <1>6, <2>1, SetupStutters
<1> QED
  BY <1>2, <1>4, <1>5, <1>6

LEMMA AbortKeepsSetup ==
  ASSUME TypeInv, NEW s \in Slots, Abort(s)
  PROVE  UNCHANGED Setup!vars \/ Setup!Abort(s)
<1>1. /\ UNCHANGED <<status, deleted, reviewRequired, projectRole>>
      /\ Batches' = Batches
  BY BatchStays DEF Abort, dbVars, roleVars, taskVars, TaskExists
<1>2. TypeOK /\ NoRequest.op = "none" /\ Done(s)
  BY DEF TypeInv, NoRequest, Abort
<1>3. CASE ~Deletes(req[s])
  BY <1>1, <1>2, <1>3, NotShown, SetupStutters DEF Done, Deletes
<1>4. CASE Deletes(req[s])
  <2>1. shown' = [shown EXCEPT ![s] = Shown(NoRequest)]
        /\ shown[s].op = "soft_delete"
    BY <1>2, <1>4 DEF shown, Shown, Deletes, Done, TypeOK
  <2>2. Shown(NoRequest) = Setup!NoRequest /\ Setup!NoRequest.op = "none"
    BY DEF Shown, NoRequest, Setup!NoRequest
  <2> QED
    BY <1>1, <2>1, <2>2 DEF Setup!Abort, Setup!Idle, Setup!dbVars,
       Setup!projectVars, Setup!taskVars, shown, Workers
<1> QED
  BY <1>3, <1>4

LEMMA RoleChangeKeepsSetup ==
  ASSUME NEW u \in Users, NEW x, RoleChange(u, x)
  PROVE  UNCHANGED Setup!vars \/ Setup!AllocateWorkers
<1>1. /\ UNCHANGED <<status, deleted, reviewRequired, req>> /\ ~deleted
      /\ Batches' = Batches /\ shown' = shown
  BY BatchStays DEF RoleChange, taskVars, TaskExists, ProjectFound, shown
<1>2. Workers' \in BOOLEAN /\ Workers \in BOOLEAN
  BY DEF Workers
<1>3. CASE Workers' = Workers
  BY <1>1, <1>3 DEF Setup!vars, shown
<1>4. CASE Workers' = ~Workers
  <2>1. Setup!Overtake("role")
    BY <1>1, NobodyMinds
  <2> QED
    BY <1>1, <1>4, <2>1 DEF Setup!AllocateWorkers, Setup!ProjectFound,
       Setup!projectVars, Setup!taskVars
<1> QED
  BY <1>2, <1>3, <1>4

(* However requests overlap, the work in a project is to ProjectSetup what   *)
(* its three actions say, and no late commit brings a deleted task back.     *)
THEOREM WorkKeepsTheSetup == Spec => KeepsTheSetup
<1> DEFINE Summary ==
      \/ Setup!AllocateWorkers \/ Setup!Close \/ Setup!Reset
      \/ \E s \in Slots : \/ Setup!SoftDelete(s)
                          \/ Setup!SoftDeleteCommit(s)
                          \/ Setup!Abort(s)
<1>1. SafeInv /\ [Next]_vars => [Summary]_(Setup!vars)
  <2> SUFFICES ASSUME SafeInv, [Next]_vars
               PROVE  Summary \/ UNCHANGED Setup!vars
    OBVIOUS
  <2>0. TypeInv
    BY DEF SafeInv
  <2>1. CASE UNCHANGED vars
    <3>1. Batches' = Batches /\ shown' = shown
      BY <2>1, BatchStays DEF vars, TaskExists, shown
    <3> QED
      BY <2>1, <3>1, SetupStutters DEF vars
  <2>2. ASSUME NEW s \in Slots, Member(s) \/ Lead(s)
        PROVE  Summary \/ UNCHANGED Setup!vars
    BY <2>2, <2>0, ReadKeepsSetup
  <2>3. ASSUME NEW s \in Slots, Commit(s)
        PROVE  Summary \/ UNCHANGED Setup!vars
    BY <2>3, CommitKeepsSetup
  <2>4. ASSUME NEW s \in Slots, Abort(s)
        PROVE  Summary \/ UNCHANGED Setup!vars
    BY <2>4, <2>0, AbortKeepsSetup
  <2>6. ASSUME NEW s \in Slots, Statement(s)
        PROVE  Summary \/ UNCHANGED Setup!vars
    BY <2>6, <2>0, StatementKeepsSetup
  <2>5. ASSUME NEW u \in Users, NEW x \in Roles \cup {NULL}, RoleChange(u, x)
        PROVE  Summary \/ UNCHANGED Setup!vars
    BY <2>5, RoleChangeKeepsSetup
  <2> HIDE DEF Summary
  <2> QED
    BY <2>1, <2>2, <2>3, <2>4, <2>5, <2>6 DEF Next
<1> QED
  BY <1>1, Safety, PTL DEF Spec, KeepsTheSetup

=============================================================================

------------------------ MODULE TaskWorkflowOverlap -------------------------
(***************************************************************************)
(* TaskWorkflow with one variable more, which remembers whether a request  *)
(* has yet written on a decision that others had overtaken.  It is not in  *)
(* the code and decides nothing: it lets the properties say how far the    *)
(* promises of requests that run one after another reach when they do not. *)
(* They hold until the first such write, however requests overlap before.  *)
(***************************************************************************)
EXTENDS TaskWorkflow

VARIABLE raced  \* a request has written what it would not decide any more

(***************************************************************************)
(* What the request decided on is still so when it commits, and what its   *)
(* statements have picked by a WHERE is still all that they would pick.    *)
(* This is all that a lock on the rows it read would have to keep: it is   *)
(* less than "nothing has changed".  A holder's lock stands for the role   *)
(* and the project, and what a request may do is not asked again.          *)
(***************************************************************************)
StillSo(s) ==
  LET r == req[s] IN
  CASE r.op = "lock_task" ->
         /\ status = "open"
         /\ r.seen = taskStatus[r.task]
         /\ r.seen = "to_review" => lastMapper[r.task] # r.user
    [] r.op \in {"unlock_task", "submit_changeset"} ->
         ActiveLock(r.lock)
    [] r.op = "submit" ->
         /\ HoldsLock(r.lock, r.user, r.task)
         /\ r.seen = taskStatus[r.task]
         /\ r.mapper = NextMapper(r.user, r.task)
    [] r.op = "reset_task" ->
         /\ r.seen = taskStatus[r.task]
         /\ IF r.lock = NULL THEN ActiveLocksOn(r.task) = {}
                             ELSE r.lock \in ActiveLocksOn(r.task)
    [] r.op = "close" ->
         ProjectOpen /\ AllCompleted /\ \A l \in LockIds : ~ActiveLock(l)
    [] r.op = "reset_tasks" ->
         /\ ProjectFound /\ r.seen = status
         /\ LocksToReset \subseteq r.locks
         /\ TasksToRewind \subseteq r.tasks
    [] r.op = "deleting" ->
         /\ ProjectFound /\ \A l \in LockIds : ~ActiveLock(l)
         /\ flagCovers

(* The commit of s writes, although its decision was overtaken. *)
Overtaken(s) == dbVars' # dbVars /\ ~StillSo(s)

OverlapInit == Init /\ raced = FALSE

OverlapNext ==
  \/ \E s \in Slots :
       \/ (Member(s) \/ Lead(s) \/ Statement(s) \/ Abort(s)) /\ UNCHANGED raced
       \/ Commit(s) /\ raced' = (raced \/ Overtaken(s))
  \/ \E u \in Users, r \in Roles \cup {NULL} : RoleChange(u, r) /\ UNCHANGED raced

OverlapSpec == OverlapInit /\ [][OverlapNext]_<<vars, raced>>

-----------------------------------------------------------------------------

(* Until a request writes on a decision, or on picks, that others overtook:  *)
(* a lock goes with the task as it is, nobody reviews what they mapped, the  *)
(* last audit event tells a task's status, a closed project is left alone    *)
(* and a deleted one has no audit row unflagged, whatever requests overlap.  *)
SafeUntilRace ==
  ~raced => /\ LockMatchesTask
            /\ NoSelfReview
            /\ MappedHasMapper
            /\ FourEyes
            /\ EventTellsStatus
            /\ ClosedHasNoLock
            /\ DeletedIsFlagged

(* Until then overlapping requests implement the board.                      *)
BoardUntilRace == Board!Init /\ [][raced' \/ Board!Next]_(Board!board)

(* Until then what is on record is true: a release reason stays what it was, *)
(* the holder of the lock is who the event says moved the task, a changeset  *)
(* is recorded for a lock that is held, and whoever judges a task may review.*)
RecordsUntilRace ==
  [][\/ raced'
     \/ /\ \A l \in LockIds :
              locks[l].state \in ReleaseReasons
                => locks'[l].state \in {locks[l].state, "deleted"}
        /\ \A t \in Tasks :
              /\ taskStatus'[t] # taskStatus[t]
              /\ taskStatus'[t] \notin {"to_map", "gone"}
              => \E l \in ActiveLocksOn(t) : locks[l].user = lastEvent'[t].by
        /\ \A l \in changesets' \ changesets : ActiveLock(l)
        /\ roleChanges = 0 => \A t \in Tasks :
              /\ taskStatus[t] = "to_review"
              /\ taskStatus'[t] \in {"completed", "to_remap"}
              => EffectiveRole(lastEvent'[t].by) \in {"validator", "lead"}]_vars

=============================================================================

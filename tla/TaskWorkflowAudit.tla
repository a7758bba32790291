-------------------------- MODULE TaskWorkflowAudit --------------------------
(***************************************************************************)
(* TaskWorkflow with the audit trail as the service lists it for the       *)
(* project.  An audit row's occurred_at is left to its default, now(),     *)
(* which in PostgreSQL is when the transaction began: at the first SELECT  *)
(* of the request, before it reads what it decides on.  The trail is       *)
(* served ORDER BY occurred_at, id, so its order is that of the            *)
(* transactions' begins and not of their commits.  What is kept of it is,  *)
(* per task, the last event in it that tells the task's status: the task's *)
(* own or a project reset.                                                 *)
(***************************************************************************)
EXTENDS TaskWorkflow, SequencesExt

VARIABLES
  begun,   \* the slots whose transaction has begun, in that order
  behind,  \* per slot, the tasks told of by a transaction that began later
  served   \* per task, the status that the last event of its trail tells

auditOrder == <<begun, behind, served>>

Arrive(s) ==
  /\ s \notin ToSet(begun)
  /\ begun' = Append(begun, s)
  /\ UNCHANGED <<vars, behind, served>>

(* The tasks whose status the events of a commit tell. *)
EventsOf(r) ==
  CASE r.op = "submit" -> {r.task}
    [] r.op = "reset_task" /\ r.seen # "to_map" -> {r.task}
    [] r.op = "reset_tasks" -> Tasks
    [] OTHER -> {}

BeganBefore(x, s) == \E i \in DOMAIN begun :
                       begun[i] = s /\ x \in ToSet(SubSeq(begun, 1, i - 1))

(* Of the tasks told of, those whose trail this transaction's event is last in. *)
EndsTrail(s, told) == told \ behind[s]

(* The transaction ends, and has told of these tasks. *)
Ends(s, told) ==
  /\ begun' = Remove(begun, s)
  /\ served' = [t \in Tasks |->
                  IF t \in EndsTrail(s, told) THEN lastEvent'[t].to ELSE served[t]]
  /\ behind' = [x \in Slots |->
                  IF x = s THEN {}
                  ELSE IF BeganBefore(x, s) THEN behind[x] \cup told
                  ELSE behind[x]]

AuditInit ==
  /\ Init
  /\ begun = <<>>
  /\ behind = [s \in Slots |-> {}]
  /\ served = [t \in Tasks |-> "to_map"]

AuditNext ==
  \/ \E s \in Slots :
       \/ Arrive(s)
       \/ /\ s \in ToSet(begun)
          /\ \/ (Member(s) \/ Lead(s) \/ Statement(s)) /\ UNCHANGED auditOrder
             \/ Commit(s) /\ Ends(s, EventsOf(req[s]))
             \/ Abort(s) /\ Ends(s, {})
  \/ \E u \in Users, r \in Roles \cup {NULL} :
       RoleChange(u, r) /\ UNCHANGED auditOrder

AuditSpec == AuditInit /\ [][AuditNext]_<<vars, auditOrder>>

-----------------------------------------------------------------------------

(* The newest event listed that tells of a task, newest first, tells the     *)
(* status it has.  It does for requests that run one after another.          *)
TrailTellsStatus ==
  \A t \in Tasks : TaskExists(t) => served[t] = taskStatus[t]

=============================================================================

----------------------------- MODULE TaskBoard ------------------------------
(***************************************************************************)
(* What the tasking service promises to those who work on a project: a     *)
(* board of tasks, where one member at a time holds a task, and a member   *)
(* one task; a task moves only in the hands of its holder, from mapping    *)
(* through review by somebody else to its completion; and only the leads   *)
(* send tasks, or the whole board, back to the start.                      *)
(*                                                                         *)
(* No requests, lock rows or audit trail: every operation is one step, on  *)
(* the board as it is.  TaskWorkflow implements it as long as its requests *)
(* run one after another (its property KeepsTheBoard).                     *)
(***************************************************************************)
CONSTANTS Users, Tasks, NULL

VARIABLES
  phase,     \* of the project: "open", "done" or "deleted"
  reviewed,  \* whether the project asks for reviews
  reviewers, \* an input: who may review, which is for others to say
  stage,     \* per task, "to_map", "to_review", "to_remap", "completed"; or "gone"
  mapper,    \* per task, who last mapped it, or NULL
  holders    \* per task, who is working on it: at most one

board == <<phase, reviewed, stage, mapper, holders>>

Free(t) == holders[t] = {}
NobodyWorks == \A t \in Tasks : Free(t)

(* A mapper takes a task to map, or a reviewer one that somebody else mapped. *)
Take(u, t) ==
  /\ phase = "open"
  /\ Free(t)
  /\ \A x \in Tasks : u \notin holders[x]
  /\ \/ stage[t] \in {"to_map", "to_remap"}
     \/ stage[t] = "to_review" /\ u \in reviewers /\ u # mapper[t]
  /\ holders' = [holders EXCEPT ![t] = {u}]
  /\ UNCHANGED <<phase, reviewed, stage, mapper>>

(* The holder gives the task back, or a lead takes it away. *)
Release(t) ==
  /\ phase # "deleted"
  /\ ~Free(t)
  /\ holders' = [holders EXCEPT ![t] = {}]
  /\ UNCHANGED <<phase, reviewed, stage, mapper>>

(* Whoever holds a task finishes it, and lets go of it. *)
Moves(u, t, to, by) ==
  /\ phase = "open"
  /\ holders[t] = {u}
  /\ stage' = [stage EXCEPT ![t] = to]
  /\ mapper' = [mapper EXCEPT ![t] = by]
  /\ holders' = [holders EXCEPT ![t] = {}]
  /\ UNCHANGED <<phase, reviewed>>

Map(u, t) ==
  \/ /\ stage[t] = "to_map"
     /\ Moves(u, t, IF reviewed THEN "to_review" ELSE "completed", u)
  \/ stage[t] = "to_remap" /\ Moves(u, t, "to_review", u)

Review(u, t) ==
  /\ stage[t] = "to_review"
  /\ u # mapper[t]
  /\ \E verdict \in {"completed", "to_remap"} : Moves(u, t, verdict, mapper[t])

(* A lead sends a task back to the start, from whoever holds it. *)
Restart(t) ==
  /\ phase # "deleted"
  /\ stage' = [stage EXCEPT ![t] = "to_map"]
  /\ mapper' = [mapper EXCEPT ![t] = NULL]
  /\ holders' = [holders EXCEPT ![t] = {}]
  /\ UNCHANGED <<phase, reviewed>>

Close ==
  /\ phase = "open"
  /\ \A t \in Tasks : stage[t] = "completed"
  /\ NobodyWorks
  /\ phase' = "done"
  /\ UNCHANGED <<reviewed, stage, mapper, holders>>

(* All of the board back to the start, and open if it was closed. *)
RestartAll ==
  /\ phase # "deleted"
  /\ phase' = "open"
  /\ stage' = [t \in Tasks |-> "to_map"]
  /\ mapper' = [t \in Tasks |-> NULL]
  /\ holders' = [t \in Tasks |-> {}]
  /\ UNCHANGED reviewed

Delete ==
  /\ phase # "deleted"
  /\ NobodyWorks
  /\ phase' = "deleted"
  /\ stage' = [t \in Tasks |-> "gone"]
  /\ mapper' = [t \in Tasks |-> NULL]
  /\ UNCHANGED <<reviewed, holders>>

Init ==
  /\ phase = "open"
  /\ reviewed \in BOOLEAN
  /\ stage = [t \in Tasks |-> "to_map"]
  /\ mapper = [t \in Tasks |-> NULL]
  /\ holders = [t \in Tasks |-> {}]

Next ==
  \/ \E t \in Tasks :
       \/ \E u \in Users : Take(u, t) \/ Map(u, t) \/ Review(u, t)
       \/ Release(t)
       \/ Restart(t)
  \/ Close
  \/ RestartAll
  \/ Delete

Spec == Init /\ [][Next]_board

=============================================================================

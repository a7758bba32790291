------------------------ MODULE MCTaskWorkflowOverlap -----------------------
(***************************************************************************)
(* An instance for TLC of TaskWorkflowOverlap, beside ProjectSetup: a      *)
(* workspace lead and a member with a validator row, who may map and       *)
(* review each other's work.                                               *)
(***************************************************************************)
EXTENDS TaskWorkflowOverlap, TaskWorkflowSetup, TLC

CONSTANTS lead, val

MCUsers == {lead, val}

MCWorkspaceRole == lead :> "lead" @@ val :> "contributor"

MCAllocatedRole == lead :> "lead" @@ val :> "validator"

(* Of the role changes, the one that takes the right to review away, where  *)
(* there is review, and that until the first race: no property asks for     *)
(* roles after it.                                                          *)
ReviewerDemoted ==
  \/ projectRole = MCAllocatedRole
  \/ projectRole = [MCAllocatedRole EXCEPT ![val] = NULL] /\ reviewRequired /\ ~raced

(* What follows the first race is looked at where there is review (without  *)
(* it a task goes from to_map to completed, and no other way) and as long   *)
(* as no changeset is recorded, which nothing but a deletion minds.         *)
RacedInReview == raced => reviewRequired /\ changesets = {}

(* Lock ids and slots are only ever compared. *)
Symmetry == Permutations(LockIds) \cup Permutations(Slots)

=============================================================================

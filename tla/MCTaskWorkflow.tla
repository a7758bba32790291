--------------------------- MODULE MCTaskWorkflow ---------------------------
(***************************************************************************)
(* Instances for TLC of TaskWorkflowAudit: a workspace lead who is also    *)
(* the project's lead, a member with a validator row, a member with none.  *)
(***************************************************************************)
EXTENDS TaskWorkflowAudit, TLC

CONSTANTS lead, val, con

MCUsers == {lead, val, con}

MCWorkspaceRole ==
  lead :> "lead" @@ val :> "contributor" @@ con :> "contributor"

MCAllocatedRole == lead :> "lead" @@ val :> "validator" @@ con :> NULL

(* Of the role changes, those that give or take the right to review. *)
ReviewersChange ==
  projectRole \in {MCAllocatedRole,
                   [MCAllocatedRole EXCEPT ![val] = NULL],
                   [MCAllocatedRole EXCEPT ![con] = "validator"]}

(* Lock ids and tasks are only ever compared. *)
Symmetry == Permutations(LockIds) \cup Permutations(Tasks)

=============================================================================

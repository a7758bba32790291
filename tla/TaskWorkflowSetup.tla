-------------------------- MODULE TaskWorkflowSetup --------------------------
(***************************************************************************)
(* TaskWorkflow beside ProjectSetup: two models of one project, the former *)
(* of the work in it after its activation, the latter of its settings and  *)
(* of requests that may still be in flight from before.  ProjectSetup has  *)
(* all that work in the actions Close, Reset and SoftDelete, and takes it  *)
(* that nothing else in it touches the project or the set of its tasks.    *)
(***************************************************************************)
EXTENDS TaskWorkflow

(* The tasks of the project are one batch, as activation has found them. *)
Batch == [id |-> 1, body |-> "body", key |-> NULL, overtaken |-> {}]

Batches == IF \E t \in Tasks : TaskExists(t) THEN {Batch} ELSE {}

(* activate counts the rows of these roles. *)
Workers == \E u \in Users : projectRole[u] \in {"contributor", "validator"}

(* Of the requests in flight ProjectSetup shows those that delete the project, *)
(* in one write.                                                               *)
Shown(r) ==
  [op |-> IF r.op \in {"soft_delete", "deleting"} THEN "soft_delete" ELSE "none",
   aoi |-> NULL, wiped |-> {}, body |-> NULL, key |-> NULL, review |-> NULL,
   name |-> NULL, overtaken |-> {}]

Setup == INSTANCE ProjectSetup WITH
  Aois <- {"aoi"}, Bodies <- {"body"}, Fits <- {<<"body", "aoi">>},
  SourceOf <- [b \in {"body"} |-> "grid"], Keys <- {}, MaxSaves <- 1,
  named <- TRUE, aoi <- "aoi", boundary <- "grid", batches <- Batches,
  saves <- 1, keyRow <- [k \in {} |-> NULL], workers <- Workers,
  req <- [s \in Slots |-> Shown(req[s])]

-----------------------------------------------------------------------------

(* However requests overlap, the work in a project does to the project and   *)
(* to the set of its tasks what ProjectSetup says in summary and nothing     *)
(* else: it closes, reopens and deletes the project, and no submission or    *)
(* reset that commits late brings a deleted task back.                       *)
KeepsTheSetup ==
  [][\/ Setup!AllocateWorkers \/ Setup!Close \/ Setup!Reset
     \/ \E s \in Slots : \/ Setup!SoftDelete(s)
                         \/ Setup!SoftDeleteCommit(s)
                         \/ Setup!Abort(s)]_(Setup!vars)

=============================================================================

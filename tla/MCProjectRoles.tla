--------------------------- MODULE MCProjectRoles ---------------------------
(***************************************************************************)
(* An instance of ProjectRolesOverlap for TLC.                             *)
(***************************************************************************)
EXTENDS ProjectRolesOverlap, TLC

(* Slots are only ever compared. *)
Symmetry == Permutations(Slots)

=============================================================================

---------------------------- MODULE MCWorkspaces ----------------------------
(* Requests are alike: their slots are a symmetry set. *)
EXTENDS Workspaces, TLC

SlotSymmetry == Permutations(Slots)

=============================================================================

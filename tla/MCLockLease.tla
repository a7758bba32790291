---------------------------- MODULE MCLockLease -----------------------------
(* Users, requests and locks are each alike. *)
EXTENDS LockLease, TLC

Symmetry == Permutations(Users) \cup Permutations(LockIds) \cup Permutations(Slots)

=============================================================================

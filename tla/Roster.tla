------------------------------- MODULE Roster -------------------------------
(***************************************************************************)
(* What the role endpoints promise to the members of a project: who leads  *)
(* it and who holds which role is changed by those who may, one row at a   *)
(* time, and never so that the last lead is lost.                          *)
(*                                                                         *)
(* No requests and no lookup of users: every operation is one step, of     *)
(* somebody who may take it, on the rows as they are.                      *)
(***************************************************************************)
CONSTANTS Users, WorkspaceLeads, Roles, NULL

VARIABLES
  phase,  \* of the project: "none", "live" or "deleted"
  rows    \* per user, the role row, or NULL

roster == <<phase, rows>>

(* A workspace lead creates the project and leads it, unless the list that   *)
(* comes with it gives the creator another role.                             *)
Create(c, given) ==
  /\ c \in WorkspaceLeads
  /\ phase = "none"
  /\ phase' = "live"
  /\ rows' = [given EXCEPT ![c] = IF @ = NULL THEN "lead" ELSE @]

(* A lead gives a user a role, or takes it away (r = NULL); of the last lead *)
(* nobody does.  Who has been let in may still write after the project has   *)
(* been deleted, on rows that nothing reads any more.                        *)
Change(c, u, r) ==
  /\ c \in WorkspaceLeads \/ rows[c] = "lead"
  /\ phase # "none"
  /\ rows[u] = "lead" /\ r # "lead" => \E v \in Users \ {u} : rows[v] = "lead"
  /\ rows' = [rows EXCEPT ![u] = r]
  /\ UNCHANGED phase

Delete ==
  /\ phase = "live"
  /\ phase' = "deleted"
  /\ UNCHANGED rows

(* The operations of one user. *)
Does(c) ==
  \/ \E given \in [Users -> Roles \cup {NULL}] : Create(c, given)
  \/ \E u \in Users, r \in Roles \cup {NULL} : Change(c, u, r)

Init == phase = "none" /\ rows = [u \in Users |-> NULL]

Next == (\E c \in Users : Does(c)) \/ Delete

Spec == Init /\ [][Next]_roster

=============================================================================

---------------------------- MODULE ProjectRoles ----------------------------
(***************************************************************************)
(* Who holds which role on one tasking project: its creation, with the     *)
(* creator's lead row and the assignments that come with the request, and  *)
(* the endpoints that add, put, change and remove a role row.              *)
(*                                                                         *)
(* A handler authorises the caller, reads the row and counts the leads in  *)
(* SELECTs of their own, none FOR UPDATE, then writes one row and commits: *)
(* as in TaskWorkflow one step reads and decides and another writes, with  *)
(* req[s] carrying the decision.  A user who has no row in users yet is    *)
(* looked up in TDEI first; the users rows that come of it are committed   *)
(* in a transaction of their own, and stay if the request then fails.      *)
(***************************************************************************)
EXTENDS Naturals, FiniteSets

CONSTANTS
  Users,           \* user ids a request may name
  WorkspaceLeads,  \* those whose token makes them workspace leads
  Members,         \* those TDEI lists as members of the project group
  SignedIn,        \* those with a row in users from the start
  Slots,           \* requests the event loop can have in flight at once
  NULL

Roles == {"lead", "validator", "contributor"}

ASSUME NullIsNoRole == NULL \notin Users \cup Roles
ASSUME LeadsAreUsers == WorkspaceLeads \subseteq Users
ASSUME MembersAreUsers == Members \subseteq Users
ASSUME SignedInAreUsers == SignedIn \subseteq Users

VARIABLES
  phase,   \* "none" before the project exists, then "live", then "deleted"
  roles,   \* tasking_project_roles of the project, NULL where there is no row
  known,   \* users with a row in the users table
  req      \* per slot, what the request in flight has decided

vars == <<phase, roles, known, req>>

(* The rows of a request body's role_assignments; a user it names twice gets *)
(* the later role, since each is upserted in turn.                           *)
Assignments == [Users -> Roles \cup {NULL}]
NoRows == [u \in Users |-> NULL]

Ops == {"none", "create_provision", "create", "add_provision", "add_role",
        "put_role", "update_role", "remove_role"}

(* A request in flight: its caller, the row it is about and the role it asks *)
(* for, the assignments of a create, and the users it found missing.         *)
Request == [op : Ops,
            by : Users \cup {NULL},
            user : Users \cup {NULL},
            role : Roles \cup {NULL},
            rows : Assignments,
            missing : SUBSET Users]

NoRequest == [op |-> "none", by |-> NULL, user |-> NULL, role |-> NULL,
              rows |-> NoRows, missing |-> {}]

-----------------------------------------------------------------------------

Idle(s) == req[s] = NoRequest

Begin(s, r) ==
  /\ Idle(s)
  /\ req' = [req EXCEPT ![s] = r]
  /\ UNCHANGED <<phase, roles, known>>

Done(s) == req' = [req EXCEPT ![s] = NoRequest]

LeadsOf(rs) == {u \in Users : rs[u] = "lead"}

(* _lead_count: workspace leads without a row do not count. *)
LeadCount == Cardinality(LeadsOf(roles))

MutCanManage(u) ==
  /\ phase = "live"
  /\ u \in WorkspaceLeads \/ roles[u] \in {"lead", "validator"}

(* assert_can_manage_roles. *)
CanManage(u) ==
  /\ phase = "live"
  /\ u \in WorkspaceLeads \/ roles[u] = "lead"

(* The last-LEAD guard; r = NULL when the row is to be removed. *)
KeepsLead(u, r) == roles[u] = "lead" /\ r # "lead" => LeadCount > 1

(* _missing_user_auth_uids. *)
Missing(us) == us \ known

MutProvisioned(us) == us

(* _provision_users_from_tdei: the users TDEI lists get a row. *)
Provisioned(us) == us \cap Members

-----------------------------------------------------------------------------
(* Creation. *)

(* The project followed here is the first one created.                      *)
Create(s, u, rows) ==
  LET missing == Missing({u} \cup {v \in Users : rows[v] # NULL}) IN
  /\ u \in WorkspaceLeads
  /\ phase = "none"
  /\ \A t \in Slots : req[t].op \notin {"create_provision", "create"}
  /\ Begin(s, [NoRequest EXCEPT
                 !.op = IF missing = {} THEN "create" ELSE "create_provision",
                 !.by = u, !.rows = rows, !.missing = missing])

(* The users TDEI lists are committed even if the others make the request    *)
(* fail, the creator with 409 and the rest with 422.                         *)
CreateProvision(s) ==
  /\ req[s].op = "create_provision"
  /\ known' = known \cup Provisioned(req[s].missing)
  /\ IF req[s].missing \subseteq Provisioned(req[s].missing)
     THEN req' = [req EXCEPT ![s].op = "create", ![s].missing = {}]
     ELSE Done(s)
  /\ UNCHANGED <<phase, roles>>

(* The assignments first, then the creator as lead ON CONFLICT DO NOTHING.   *)
Seeded(u, rows) ==
  [v \in Users |-> IF v = u /\ rows[v] = NULL THEN "lead" ELSE rows[v]]

CreateCommit(s) ==
  /\ req[s].op = "create"
  /\ phase' = "live"
  /\ roles' = Seeded(req[s].by, req[s].rows)
  /\ Done(s)
  /\ UNCHANGED known

-----------------------------------------------------------------------------
(* The role endpoints: c is the caller, u the user the path or body names.   *)

(* POST.  A user unknown so far is provisioned before the row is looked up.  *)
AddRole(s, c, u, r) ==
  LET missing == Missing({u}) IN
  /\ CanManage(c)
  /\ missing = {} => roles[u] = NULL
  /\ Begin(s, [NoRequest EXCEPT
                 !.op = IF missing = {} THEN "add_role" ELSE "add_provision",
                 !.by = c, !.user = u, !.role = r, !.missing = missing])

AddProvision(s) ==
  LET r == req[s] IN
  /\ r.op = "add_provision"
  /\ known' = known \cup Provisioned(r.missing)
  /\ IF r.missing \subseteq Provisioned(r.missing) /\ roles[r.user] = NULL
     THEN req' = [req EXCEPT ![s].op = "add_role", ![s].missing = {}]
     ELSE Done(s)
  /\ UNCHANGED <<phase, roles>>

MutAddable(u) == TRUE

(* The primary key (project_id, user_auth_uid). *)
Addable(u) == roles[u] = NULL

AddRoleCommit(s) ==
  /\ req[s].op = "add_role"
  /\ Addable(req[s].user)
  /\ roles' = [roles EXCEPT ![req[s].user] = req[s].role]
  /\ Done(s)
  /\ UNCHANGED <<phase, known>>

(* except IntegrityError: rollback and 409. *)
AddRoleConflict(s) ==
  /\ req[s].op = "add_role"
  /\ ~Addable(req[s].user)
  /\ Done(s)
  /\ UNCHANGED <<phase, roles, known>>

(* PUT.  No provisioning here: a missing user is a 422. *)
PutRole(s, c, u, r) ==
  /\ CanManage(c)
  /\ IF roles[u] # NULL THEN KeepsLead(u, r) ELSE Missing({u}) = {}
  /\ Begin(s, [NoRequest EXCEPT
                 !.op = "put_role", !.by = c, !.user = u, !.role = r])

(* INSERT .. ON CONFLICT DO UPDATE. *)
PutRoleCommit(s) ==
  /\ req[s].op = "put_role"
  /\ roles' = [roles EXCEPT ![req[s].user] = req[s].role]
  /\ Done(s)
  /\ UNCHANGED <<phase, known>>

(* PATCH. *)
UpdateRole(s, c, u, r) ==
  /\ CanManage(c)
  /\ roles[u] # NULL
  /\ KeepsLead(u, r)
  /\ Begin(s, [NoRequest EXCEPT
                 !.op = "update_role", !.by = c, !.user = u, !.role = r])

(* UPDATE .. WHERE project_id and user_auth_uid: no row, no effect. *)
Updated(u, r) == [roles EXCEPT ![u] = IF @ = NULL THEN NULL ELSE r]

UpdateRoleCommit(s) ==
  /\ req[s].op = "update_role"
  /\ roles' = Updated(req[s].user, req[s].role)
  /\ Done(s)
  /\ UNCHANGED <<phase, known>>

(* DELETE. *)
RemoveRole(s, c, u) ==
  /\ CanManage(c)
  /\ roles[u] # NULL
  /\ KeepsLead(u, NULL)
  /\ Begin(s, [NoRequest EXCEPT
                 !.op = "remove_role", !.by = c, !.user = u])

MutRemoved(u) == [roles EXCEPT ![u] = "none"]

(* DELETE .. WHERE project_id and user_auth_uid. *)
Removed(u) == [roles EXCEPT ![u] = NULL]

RemoveRoleCommit(s) ==
  /\ req[s].op = "remove_role"
  /\ roles' = Removed(req[s].user)
  /\ Done(s)
  /\ UNCHANGED <<phase, known>>

(* soft_delete sets deleted_at: the project row stays, and its role rows.    *)
(* TaskWorkflow has the rest of it.                                          *)
SoftDelete ==
  /\ phase = "live"
  /\ phase' = "deleted"
  /\ UNCHANGED <<roles, known, req>>

(* The client goes away, the process dies or TDEI does not answer. *)
Abort(s) ==
  /\ ~Idle(s)
  /\ Done(s)
  /\ UNCHANGED <<phase, roles, known>>

-----------------------------------------------------------------------------

Init ==
  /\ phase = "none"
  /\ roles = NoRows
  /\ known = SignedIn
  /\ req = [s \in Slots |-> NoRequest]

Read(s) ==
  \/ \E u \in Users, rows \in Assignments : Create(s, u, rows)
  \/ \E c \in Users, u \in Users :
       \/ \E r \in Roles : \/ AddRole(s, c, u, r)
                           \/ PutRole(s, c, u, r)
                           \/ UpdateRole(s, c, u, r)
       \/ RemoveRole(s, c, u)

Write(s) ==
  \/ CreateProvision(s)
  \/ CreateCommit(s)
  \/ AddProvision(s)
  \/ AddRoleCommit(s)
  \/ AddRoleConflict(s)
  \/ PutRoleCommit(s)
  \/ UpdateRoleCommit(s)
  \/ RemoveRoleCommit(s)

Next ==
  \/ \E s \in Slots : Read(s) \/ Write(s) \/ Abort(s)
  \/ SoftDelete

Spec == Init /\ [][Next]_vars

-----------------------------------------------------------------------------

(* Every variable has its type. *)
TypeOK ==
  /\ phase \in {"none", "live", "deleted"}
  /\ roles \in Assignments
  /\ known \in SUBSET Users
  /\ req \in [Slots -> Request]

(***************************************************************************)
(* However requests interleave.                                            *)
(***************************************************************************)

(* By the time a request inserts role rows every user they name has a row in *)
(* users: the preflight and the provisioning leave the foreign key nothing   *)
(* to refuse.                                                                *)
PreflightHolds ==
  \A s \in Slots :
    /\ req[s].op = "create" => {req[s].by} \cup
         {u \in Users : req[s].rows[u] # NULL} \subseteq known
    /\ req[s].op = "add_role" => req[s].user \in known
    /\ req[s].op = "put_role" => req[s].user \in known

(* A role row's user is a user, and a user TDEI does not list in the project *)
(* group is never provisioned, not even by a request that fails.             *)
RolesOfMembers ==
  /\ \A u \in Users : roles[u] # NULL => u \in known
  /\ known \ SignedIn \subseteq Members

(* POST adds and never overwrites, PATCH overwrites and never adds, whatever *)
(* has happened to the row since they looked.                                *)
PostAddsPatchChanges ==
  [][\A s \in Slots : req'[s] = NoRequest =>
       /\ req[s].op = "add_role" /\ roles[req[s].user] # NULL
            => roles'[req[s].user] = roles[req[s].user]
       /\ req[s].op = "update_role" /\ roles[req[s].user] = NULL
            => roles'[req[s].user] = NULL]_vars

(***************************************************************************)
(* Requests that run one after another.                                    *)
(***************************************************************************)

(* A project that has a lead keeps one, through every add, put, change and   *)
(* removal.                                                                  *)
LastLeadStays ==
  [][LeadsOf(roles) # {} => LeadsOf(roles') # {}]_vars

(* A role row changes only while the caller is someone who may manage them.  *)
ChangedByManager ==
  [][phase = "live" /\ roles' # roles =>
       \E s \in Slots : /\ req'[s] # req[s]
                        /\ \/ req[s].by \in WorkspaceLeads
                           \/ roles[req[s].by] = "lead"]_vars

=============================================================================

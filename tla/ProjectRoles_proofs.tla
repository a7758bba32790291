------------------------ MODULE ProjectRoles_proofs -------------------------
(***************************************************************************)
(* Proofs about ProjectRoles, for any users and memberships: types and the *)
(* preflight however requests interleave, the lead rows when they run one  *)
(* after another, and the roster for every request that is not overtaken.  *)
(***************************************************************************)
EXTENDS ProjectRolesOverlap, FiniteSetTheorems, TLAPS

USE NullIsNoRole, LeadsAreUsers, MembersAreUsers, SignedInAreUsers DEF Roles

(* The users a request still has to find in users before it inserts. *)
Named(r) ==
  CASE r.op \in {"create_provision", "create"} ->
         {r.by} \cup {u \in Users : r.rows[u] # NULL}
    [] r.op \in {"add_provision", "add_role", "put_role"} -> {r.user}
    [] OTHER -> {}

Shape(r) ==
  /\ r \in Request
  /\ IF r.op = "none" THEN r = NoRequest ELSE r.by \in Users
  /\ r.op \in {"add_provision", "add_role", "put_role", "update_role"}
       => r.user \in Users /\ r.role \in Roles
  /\ r.op = "remove_role" => r.user \in Users
  /\ r.op \notin {"create_provision", "add_provision"} => r.missing = {}

(* What a request names is known or among those it found missing. *)
Preflight(r) == Shape(r) /\ Named(r) \subseteq known \cup r.missing

RolesInv ==
  /\ TypeOK
  /\ \A s \in Slots : Preflight(req[s])
  /\ RolesOfMembers

-----------------------------------------------------------------------------
(* Any interleaving. *)

LEMMA NoneShape == Preflight(NoRequest)
  BY DEF Preflight, Shape, Named, NoRequest, Request, Ops, Assignments, NoRows

LEMMA BeginKeeps ==
  ASSUME RolesInv, NEW s \in Slots, NEW r, Preflight(r), Begin(s, r)
  PROVE  RolesInv'
<1>1. req' \in [Slots -> Request]
  BY DEF RolesInv, TypeOK, Begin, Preflight, Shape
<1>2. \A x \in Slots : Preflight(req[x])'
  BY DEF RolesInv, TypeOK, Begin, Preflight
<1> QED
  BY <1>1, <1>2 DEF RolesInv, TypeOK, Begin, RolesOfMembers

(* A step in which users only gains members of the project group, a request  *)
(* ends, and a role row appears only for a known user.                       *)
LEMMA WriteKeeps ==
  ASSUME RolesInv, NEW s \in Slots, Done(s),
         known \subseteq known', known' \subseteq known \cup Members,
         roles' \in Assignments, phase' \in {"none", "live", "deleted"},
         \A u \in Users : roles'[u] # NULL => u \in known'
  PROVE  RolesInv'
<1>1. Preflight(NoRequest)
  BY NoneShape
<1>2. req' \in [Slots -> Request]
  BY <1>1 DEF RolesInv, TypeOK, Done, Preflight, Shape
<1>3. ASSUME NEW x \in Slots PROVE Preflight(req[x])'
  <2>1. CASE x = s
    <3>1. req'[s] = NoRequest
      BY DEF Done, RolesInv, TypeOK
    <3>2. Shape(req'[s]) /\ Named(req'[s]) \subseteq {}
      BY <3>1, <1>1 DEF Preflight, Named, NoRequest
    <3> QED
      BY <2>1, <3>2 DEF Preflight
  <2>2. CASE x # s
    <3>1. req'[x] = req[x]
      BY <2>2 DEF Done, RolesInv, TypeOK
    <3>2. Preflight(req[x])
      BY DEF RolesInv
    <3> QED
      BY <3>1, <3>2 DEF Preflight
  <2> QED
    BY <2>1, <2>2
<1>4. known' \in SUBSET Users
  BY DEF RolesInv, TypeOK
<1>5. RolesOfMembers'
  BY DEF RolesInv, RolesOfMembers
<1> QED
  BY <1>2, <1>3, <1>4, <1>5 DEF RolesInv, TypeOK

LEMMA RolesInit == Init => RolesInv
<1> SUFFICES ASSUME Init PROVE RolesInv
  OBVIOUS
<1>1. Preflight(NoRequest)
  BY NoneShape
<1>2. \A s \in Slots : req[s] = NoRequest
  BY DEF Init
<1>3. req \in [Slots -> Request] /\ \A s \in Slots : Preflight(req[s])
  BY <1>1, <1>2 DEF Init, Preflight, Shape
<1> QED
  BY <1>3 DEF Init, RolesInv, TypeOK, RolesOfMembers, NoRows, Assignments

LEMMA ReadStep ==
  ASSUME RolesInv, NEW s \in Slots, Read(s)
  PROVE  RolesInv'
<1>k. known \subseteq Users
  BY DEF RolesInv, TypeOK
<1>1. ASSUME NEW u \in Users, NEW rows \in Assignments, Create(s, u, rows)
      PROVE  RolesInv'
  <2> DEFINE missing == Missing({u} \cup {v \in Users : rows[v] # NULL})
             r == [NoRequest EXCEPT
                     !.op = IF missing = {} THEN "create" ELSE "create_provision",
                     !.by = u, !.rows = rows, !.missing = missing]
  <2>1. missing \subseteq Users
    BY DEF Missing
  <2>2. Shape(r)
    BY <2>1 DEF Shape, NoRequest, Request, Ops
  <2>3. Named(r) \subseteq known \cup r.missing
    BY DEF Named, NoRequest, Missing
  <2>4. Begin(s, r)
    BY <1>1 DEF Create
  <2> QED
    BY <2>2, <2>3, <2>4, BeginKeeps DEF Preflight
<1>2. ASSUME NEW c \in Users, NEW u \in Users, NEW x \in Roles, AddRole(s, c, u, x)
      PROVE  RolesInv'
  <2> DEFINE missing == Missing({u})
             r == [NoRequest EXCEPT
                     !.op = IF missing = {} THEN "add_role" ELSE "add_provision",
                     !.by = c, !.user = u, !.role = x, !.missing = missing]
  <2>1. Shape(r)
    BY DEF Shape, NoRequest, Request, Ops, Missing, Assignments, NoRows
  <2>2. Named(r) \subseteq known \cup r.missing
    BY DEF Named, NoRequest, Missing
  <2>3. Begin(s, r)
    BY <1>2 DEF AddRole
  <2> QED
    BY <2>1, <2>2, <2>3, BeginKeeps DEF Preflight
<1>3. ASSUME NEW c \in Users, NEW u \in Users, NEW x \in Roles, PutRole(s, c, u, x)
      PROVE  RolesInv'
  <2> DEFINE r == [NoRequest EXCEPT !.op = "put_role", !.by = c, !.user = u, !.role = x]
  <2>1. Shape(r)
    BY DEF Shape, NoRequest, Request, Ops, Assignments, NoRows
  <2>2. u \in known
    BY <1>3 DEF PutRole, Missing, RolesInv, RolesOfMembers
  <2>3. Named(r) \subseteq known \cup r.missing
    BY <2>2 DEF Named, NoRequest
  <2>4. Begin(s, r)
    BY <1>3 DEF PutRole
  <2> QED
    BY <2>1, <2>3, <2>4, BeginKeeps DEF Preflight
<1>4. ASSUME NEW c \in Users, NEW u \in Users, NEW x \in Roles, UpdateRole(s, c, u, x)
      PROVE  RolesInv'
  <2> DEFINE r == [NoRequest EXCEPT !.op = "update_role", !.by = c, !.user = u, !.role = x]
  <2>1. Shape(r) /\ Named(r) \subseteq {}
    BY DEF Shape, NoRequest, Request, Ops, Assignments, NoRows, Named
  <2>2. Begin(s, r)
    BY <1>4 DEF UpdateRole
  <2> QED
    BY <2>1, <2>2, BeginKeeps DEF Preflight
<1>5. ASSUME NEW c \in Users, NEW u \in Users, RemoveRole(s, c, u)
      PROVE  RolesInv'
  <2> DEFINE r == [NoRequest EXCEPT !.op = "remove_role", !.by = c, !.user = u]
  <2>1. Shape(r) /\ Named(r) \subseteq {}
    BY DEF Shape, NoRequest, Request, Ops, Assignments, NoRows, Named
  <2>2. Begin(s, r)
    BY <1>5 DEF RemoveRole
  <2> QED
    BY <2>1, <2>2, BeginKeeps DEF Preflight
<1> QED
  BY <1>1, <1>2, <1>3, <1>4, <1>5 DEF Read

(* A request whose missing users have all been provisioned moves on. *)
LEMMA ProvisionMoves ==
  ASSUME RolesInv, NEW s \in Slots, NEW op,
         \/ req[s].op = "create_provision" /\ op = "create"
         \/ req[s].op = "add_provision" /\ op = "add_role",
         known' = known \cup Provisioned(req[s].missing),
         req[s].missing \subseteq Provisioned(req[s].missing),
         req' = [req EXCEPT ![s].op = op, ![s].missing = {}],
         UNCHANGED <<phase, roles>>
  PROVE  RolesInv'
<1>0. req \in [Slots -> Request] /\ \A x \in Slots : Preflight(req[x])
  BY DEF RolesInv, TypeOK
<1>1. req'[s] = [req[s] EXCEPT !.op = op, !.missing = {}]
  BY <1>0
<1>2. Shape(req[s]) /\ Named(req[s]) \subseteq known \cup req[s].missing
  BY <1>0 DEF Preflight
<1>a. req[s] \in Request
  BY <1>2 DEF Shape
<1>c. op \in Ops
  BY DEF Ops
<1>d. [req[s] EXCEPT !.op = op, !.missing = {}] \in Request
  BY <1>a, <1>c DEF Request
<1>b. /\ req'[s] \in Request
      /\ req'[s].op = op /\ req'[s].missing = {}
      /\ req'[s].by = req[s].by /\ req'[s].user = req[s].user
      /\ req'[s].role = req[s].role /\ req'[s].rows = req[s].rows
  BY <1>1, <1>a, <1>d DEF Request
<1>3. Shape(req'[s])
  BY <1>2, <1>b DEF Shape
<1>4. Named(req'[s]) = Named(req[s])
  <2>1. CASE req[s].op = "create_provision" /\ op = "create"
    <3>1. Named(req[s]) = {req[s].by} \cup {u \in Users : req[s].rows[u] # NULL}
      BY <2>1 DEF Named
    <3>2. Named(req'[s]) = {req'[s].by} \cup {u \in Users : req'[s].rows[u] # NULL}
      BY <1>b, <2>1 DEF Named
    <3> QED
      BY <1>b, <3>1, <3>2
  <2>2. CASE req[s].op = "add_provision" /\ op = "add_role"
    BY <1>b, <2>2 DEF Named
  <2> QED
    BY <2>1, <2>2
<1>5. Preflight(req[s])'
  BY <1>2, <1>3, <1>4 DEF Preflight
<1>6. ASSUME NEW x \in Slots, x # s PROVE Preflight(req[x])'
  <2>1. req'[x] = req[x]
    BY <1>0, <1>6
  <2> QED
    BY <1>0, <2>1 DEF Preflight
<1>7. req' \in [Slots -> Request]
  BY <1>0, <1>1, <1>3 DEF Shape
<1>8. known' \subseteq Users /\ RolesOfMembers'
  BY DEF RolesInv, TypeOK, RolesOfMembers, Provisioned
<1> QED
  BY <1>5, <1>6, <1>7, <1>8 DEF RolesInv, TypeOK

LEMMA WriteStep ==
  ASSUME RolesInv, NEW s \in Slots, Write(s)
  PROVE  RolesInv'
<1> DEFINE r == req[s]
<1>0. /\ Shape(r) /\ Named(r) \subseteq known \cup r.missing
      /\ roles \in Assignments /\ phase \in {"none", "live", "deleted"}
      /\ \A u \in Users : roles[u] # NULL => u \in known
  BY DEF RolesInv, TypeOK, Preflight, RolesOfMembers
<1>p. Provisioned(r.missing) \subseteq Members
  BY DEF Provisioned
<1>1. CASE CreateProvision(s)
  <2>1. CASE r.missing \subseteq Provisioned(r.missing)
    BY <1>1, <2>1, ProvisionMoves DEF CreateProvision
  <2>2. CASE ~(r.missing \subseteq Provisioned(r.missing))
    <3>1. Done(s) /\ known' = known \cup Provisioned(r.missing) /\ UNCHANGED <<phase, roles>>
      BY <1>1, <2>2 DEF CreateProvision
    <3> QED
      BY <1>0, <1>p, <3>1, WriteKeeps
  <2> QED
    BY <2>1, <2>2
<1>2. CASE AddProvision(s)
  <2>1. CASE r.missing \subseteq Provisioned(r.missing) /\ roles[r.user] = NULL
    BY <1>2, <2>1, ProvisionMoves DEF AddProvision
  <2>2. CASE ~(r.missing \subseteq Provisioned(r.missing) /\ roles[r.user] = NULL)
    <3>1. Done(s) /\ known' = known \cup Provisioned(r.missing) /\ UNCHANGED <<phase, roles>>
      BY <1>2, <2>2 DEF AddProvision
    <3> QED
      BY <1>0, <1>p, <3>1, WriteKeeps
  <2> QED
    BY <2>1, <2>2
<1>3. CASE CreateCommit(s)
  <2>1. Done(s) /\ known' = known /\ phase' = "live" /\ roles' = Seeded(r.by, r.rows)
    BY <1>3 DEF CreateCommit
  <2>2. r.by \in Users /\ r.rows \in Assignments /\ r.missing = {} /\ r.op = "create"
    BY <1>0, <1>3 DEF CreateCommit, Shape, Request
  <2>3. roles' \in Assignments
    BY <2>1, <2>2 DEF Seeded, Assignments
  <2>4. \A u \in Users : roles'[u] # NULL => u \in known'
    BY <1>0, <2>1, <2>2 DEF Seeded, Named
  <2> QED
    BY <2>1, <2>3, <2>4, WriteKeeps
<1>4. CASE AddRoleCommit(s) \/ PutRoleCommit(s)
  <2>1. /\ Done(s) /\ UNCHANGED <<phase, known>>
        /\ roles' = [roles EXCEPT ![r.user] = r.role]
    BY <1>4 DEF AddRoleCommit, PutRoleCommit
  <2>2. r.user \in Users /\ r.role \in Roles /\ r.user \in known
    BY <1>0, <1>4 DEF AddRoleCommit, PutRoleCommit, Shape, Named
  <2>3. roles' \in Assignments /\ \A u \in Users : roles'[u] # NULL => u \in known'
    BY <1>0, <2>1, <2>2 DEF Assignments
  <2> QED
    BY <1>0, <2>1, <2>3, WriteKeeps
<1>5. CASE UpdateRoleCommit(s) \/ RemoveRoleCommit(s)
  <2>1. /\ Done(s) /\ UNCHANGED <<phase, known>>
        /\ \/ roles' = Updated(r.user, r.role) /\ r.role \in Roles
           \/ roles' = Removed(r.user)
    BY <1>0, <1>5 DEF UpdateRoleCommit, RemoveRoleCommit, Shape
  <2>2. roles' \in Assignments /\ \A u \in Users : roles'[u] # NULL => u \in known'
    BY <1>0, <2>1 DEF Assignments, Updated, Removed
  <2> QED
    BY <1>0, <2>1, <2>2, WriteKeeps
<1>6. CASE AddRoleConflict(s)
  BY <1>0, <1>6, WriteKeeps DEF AddRoleConflict
<1> QED
  BY <1>1, <1>2, <1>3, <1>4, <1>5, <1>6 DEF Write

LEMMA RolesStep == RolesInv /\ [Next]_vars => RolesInv'
<1> SUFFICES ASSUME RolesInv, [Next]_vars PROVE RolesInv'
  OBVIOUS
<1>1. CASE UNCHANGED vars \/ SoftDelete
  BY <1>1 DEF vars, SoftDelete, RolesInv, TypeOK, Preflight, RolesOfMembers
<1>2. ASSUME NEW s \in Slots, Abort(s) PROVE RolesInv'
  BY <1>2, WriteKeeps DEF Abort, RolesInv, TypeOK, RolesOfMembers
<1> QED
  BY <1>1, <1>2, ReadStep, WriteStep DEF Next

(* Types, and the preflight's promise to the inserts that follow it. *)
THEOREM RolesSafety == Spec => []RolesInv
  BY RolesInit, RolesStep, PTL DEF Spec

(* Every variable keeps its type. *)
THEOREM RolesTypeCorrect == Spec => []TypeOK
<1>1. RolesInv => TypeOK
  BY DEF RolesInv
<1> QED
  BY <1>1, RolesSafety, PTL

(* No insert of a role row meets the foreign key to users. *)
THEOREM ForeignKeyIdle == Spec => []PreflightHolds
<1>1. RolesInv => PreflightHolds
  BY DEF RolesInv, PreflightHolds, Preflight, Shape, Named
<1> QED
  BY <1>1, RolesSafety, PTL

(* Only members of the project group are provisioned. *)
THEOREM OnlyMembersProvisioned == Spec => []RolesOfMembers
<1>1. RolesInv => RolesOfMembers
  BY DEF RolesInv
<1> QED
  BY <1>1, RolesSafety, PTL

(* What becomes of the row a POST or PATCH is about when a step is taken that *)
(* ends the request, or leaves it alone.                                      *)
RowStands(r) ==
  /\ r.op = "add_role" /\ roles[r.user] # NULL => roles'[r.user] = roles[r.user]
  /\ r.op = "update_role" /\ roles[r.user] = NULL => roles'[r.user] = NULL

LEMMA OwnStepStands ==
  ASSUME RolesInv, NEW s \in Slots, Read(s) \/ Write(s) \/ Abort(s)
  PROVE  RowStands(req[s])
<1> USE DEF RowStands
<1>1. CASE Read(s)
  BY <1>1 DEF Read, Create, AddRole, PutRole, UpdateRole, RemoveRole, Begin
<1>2. CASE CreateProvision(s) \/ CreateCommit(s) \/ PutRoleCommit(s) \/ RemoveRoleCommit(s)
  BY <1>2 DEF CreateProvision, CreateCommit, PutRoleCommit, RemoveRoleCommit
<1>3. CASE AddProvision(s) \/ AddRoleConflict(s) \/ Abort(s)
  BY <1>3 DEF AddProvision, AddRoleConflict, Abort
<1>4. CASE AddRoleCommit(s)
  BY <1>4 DEF AddRoleCommit, Addable
<1>5. CASE UpdateRoleCommit(s)
  <2>1. req[s].user \in Users /\ req[s].op = "update_role" /\ roles \in Assignments
    BY <1>5 DEF RolesInv, TypeOK, Preflight, Shape, UpdateRoleCommit
  <2> QED
    BY <1>5, <2>1 DEF UpdateRoleCommit, Updated, Assignments
<1> QED
  BY <1>1, <1>2, <1>3, <1>4, <1>5 DEF Write

(* A step of one request ends no other. *)
LEMMA OthersGoOn ==
  ASSUME RolesInv, NEW s \in Slots, Read(s) \/ Write(s) \/ Abort(s),
         NEW t \in Slots, t # s
  PROVE  req'[t] = req[t]
<1>1. CASE Read(s)
  BY <1>1 DEF Read, Create, AddRole, PutRole, UpdateRole, RemoveRole, Begin, RolesInv, TypeOK
<1>2. CASE Write(s)
  BY <1>2 DEF Write, CreateProvision, CreateCommit, AddProvision, AddRoleCommit,
    AddRoleConflict, PutRoleCommit, UpdateRoleCommit, RemoveRoleCommit, Done, RolesInv, TypeOK
<1>3. CASE Abort(s)
  BY <1>3 DEF Abort, Done, RolesInv, TypeOK
<1> QED
  BY <1>1, <1>2, <1>3

(* POST adds and PATCH changes, however the requests of others interleave. *)
THEOREM PostAddsPatchStays == Spec => PostAddsPatchChanges
<1> DEFINE Stands == \A s \in Slots : req'[s] = NoRequest => RowStands(req[s])
<1>1. ASSUME RolesInv, [Next]_vars PROVE Stands
  <2>1. CASE UNCHANGED roles
    BY <2>1 DEF RowStands
  <2>2. ASSUME NEW s \in Slots, Read(s) \/ Write(s) \/ Abort(s), NEW t \in Slots,
               req'[t] = NoRequest
        PROVE  RowStands(req[t])
    <3>1. CASE t = s
      BY <1>1, <2>2, <3>1, OwnStepStands
    <3>2. CASE t # s
      BY <1>1, <2>2, <3>2, OthersGoOn DEF RowStands, NoRequest
    <3> QED
      BY <3>1, <3>2
  <2> QED
    BY <1>1, <2>1, <2>2 DEF Next, SoftDelete, vars
<1>2. Stands => \A s \in Slots : req'[s] = NoRequest =>
       /\ req[s].op = "add_role" /\ roles[req[s].user] # NULL
            => roles'[req[s].user] = roles[req[s].user]
       /\ req[s].op = "update_role" /\ roles[req[s].user] = NULL
            => roles'[req[s].user] = NULL
  BY DEF RowStands
<1> QED
  BY <1>1, <1>2, RolesSafety, PTL DEF Spec, PostAddsPatchChanges

-----------------------------------------------------------------------------
(* Requests one after another. *)

Serial == \A s, t \in Slots : s = t

CreateOps == {"create_provision", "create"}
RoleOps == {"add_provision", "add_role", "put_role", "update_role", "remove_role"}

(* The project is not there before it is created, and not created twice. *)
Placed(r) ==
  /\ r.op \in CreateOps => phase = "none"
  /\ r.op \in RoleOps => phase # "none"

(* The guards the request has passed still stand. *)
Stands(r) ==
  /\ r.op \in RoleOps => r.by \in WorkspaceLeads \/ roles[r.by] = "lead"
  /\ r.op \in {"put_role", "update_role"} => KeepsLead(r.user, r.role)
  /\ r.op = "remove_role" => KeepsLead(r.user, NULL)

SerialInv ==
  /\ RolesInv
  /\ phase = "none" => roles = NoRows
  /\ \A s \in Slots : Placed(req[s]) /\ Stands(req[s])

(* What a step that reads leaves in its slot. *)
Decides(s, r) ==
  /\ Begin(s, r)
  /\ Placed(r)
  /\ Stands(r)
  /\ r.op \in CreateOps =>
       r.by \in WorkspaceLeads /\ \A t \in Slots : req[t].op \notin CreateOps

(* A set of leads that is more than one has another lead. *)
LEMMA AnotherLead ==
  ASSUME NEW L, NEW u \in L, Cardinality(L) > 1
  PROVE  \E v \in L : v # u
<1> SUFFICES ASSUME \A v \in L : v = u PROVE FALSE
  OBVIOUS
<1>1. L = {u}
  OBVIOUS
<1>2. Cardinality(L) = 1
  BY <1>1, FS_Singleton
<1> QED
  BY <1>2

LEMMA SerialInit == Init => SerialInv
<1> SUFFICES ASSUME Init PROVE SerialInv
  OBVIOUS
<1>1. \A s \in Slots : req[s] = NoRequest
  BY DEF Init
<1> QED
  BY <1>1, RolesInit DEF Init, SerialInv, Placed, Stands, CreateOps, RoleOps, NoRequest

LEMMA ReadsDecide ==
  ASSUME NEW s \in Slots, Read(s)
  PROVE  \E r : Decides(s, r)
<1> USE DEF Decides, Placed, Stands, CreateOps, RoleOps, NoRequest
<1>1. ASSUME NEW u \in Users, NEW rows \in Assignments, Create(s, u, rows)
      PROVE  \E r : Decides(s, r)
  <2> DEFINE missing == Missing({u} \cup {v \in Users : rows[v] # NULL})
             r == [NoRequest EXCEPT
                     !.op = IF missing = {} THEN "create" ELSE "create_provision",
                     !.by = u, !.rows = rows, !.missing = missing]
  <2>1. /\ Begin(s, r) /\ phase = "none" /\ u \in WorkspaceLeads
        /\ \A t \in Slots : req[t].op \notin {"create_provision", "create"}
    BY <1>1 DEF Create
  <2>2. r.op \in {"create", "create_provision"} /\ r.by = u
    OBVIOUS
  <2> HIDE DEF r
  <2>3. Decides(s, r)
    BY <2>1, <2>2
  <2> QED
    BY <2>3
<1>2. ASSUME NEW c \in Users, NEW u \in Users, NEW x \in Roles, AddRole(s, c, u, x)
      PROVE  \E r : Decides(s, r)
  <2> DEFINE missing == Missing({u})
             r == [NoRequest EXCEPT
                     !.op = IF missing = {} THEN "add_role" ELSE "add_provision",
                     !.by = c, !.user = u, !.role = x, !.missing = missing]
  <2>1. Begin(s, r) /\ phase = "live" /\ (c \in WorkspaceLeads \/ roles[c] = "lead")
    BY <1>2 DEF AddRole, CanManage
  <2>2. r.op \in {"add_role", "add_provision"} /\ r.by = c
    OBVIOUS
  <2> HIDE DEF r
  <2>3. Decides(s, r)
    BY <2>1, <2>2
  <2> QED
    BY <2>3
<1>3. ASSUME NEW c \in Users, NEW u \in Users, NEW x \in Roles, PutRole(s, c, u, x)
      PROVE  \E r : Decides(s, r)
  <2> DEFINE r == [NoRequest EXCEPT !.op = "put_role", !.by = c, !.user = u, !.role = x]
  <2>1. /\ Begin(s, r) /\ phase = "live" /\ KeepsLead(u, x)
        /\ c \in WorkspaceLeads \/ roles[c] = "lead"
    BY <1>3 DEF PutRole, CanManage, KeepsLead
  <2>2. Decides(s, r)
    BY <2>1
  <2> QED
    BY <2>2
<1>4. ASSUME NEW c \in Users, NEW u \in Users, NEW x \in Roles, UpdateRole(s, c, u, x)
      PROVE  \E r : Decides(s, r)
  <2> DEFINE r == [NoRequest EXCEPT !.op = "update_role", !.by = c, !.user = u,
                                    !.role = x]
  <2>1. /\ Begin(s, r) /\ phase = "live" /\ KeepsLead(u, x)
        /\ c \in WorkspaceLeads \/ roles[c] = "lead"
    BY <1>4 DEF UpdateRole, CanManage
  <2>2. Decides(s, r)
    BY <2>1
  <2> QED
    BY <2>2
<1>5. ASSUME NEW c \in Users, NEW u \in Users, RemoveRole(s, c, u)
      PROVE  \E r : Decides(s, r)
  <2> DEFINE r == [NoRequest EXCEPT !.op = "remove_role", !.by = c, !.user = u]
  <2>1. /\ Begin(s, r) /\ phase = "live" /\ KeepsLead(u, NULL)
        /\ c \in WorkspaceLeads \/ roles[c] = "lead"
    BY <1>5 DEF RemoveRole, CanManage
  <2>2. Decides(s, r)
    BY <2>1
  <2> QED
    BY <2>2
<1> QED
  BY <1>1, <1>2, <1>3, <1>4, <1>5 DEF Read

(* A request that goes on with the users it missed keeps its caller and row. *)
LEMMA MovesOn ==
  ASSUME RolesInv, NEW s \in Slots, Write(s), ~Done(s)
  PROVE  /\ UNCHANGED <<phase, roles>>
         /\ req'[s].by = req[s].by /\ req'[s].user = req[s].user
         /\ \/ req[s].op = "create_provision" /\ req'[s].op = "create"
            \/ req[s].op = "add_provision" /\ req'[s].op = "add_role"
         /\ \A t \in Slots \ {s} : req'[t] = req[t]
<1>1. CreateProvision(s) \/ AddProvision(s)
  BY DEF Write, CreateCommit, AddRoleCommit, AddRoleConflict, PutRoleCommit,
      UpdateRoleCommit, RemoveRoleCommit
<1>2. /\ UNCHANGED <<phase, roles>>
      /\ \/ /\ req[s].op = "create_provision"
            /\ req' = [req EXCEPT ![s].op = "create", ![s].missing = {}]
         \/ /\ req[s].op = "add_provision"
            /\ req' = [req EXCEPT ![s].op = "add_role", ![s].missing = {}]
  BY <1>1 DEF CreateProvision, AddProvision
<1>3. req \in [Slots -> Request] /\ req[s] \in Request
  BY DEF RolesInv, TypeOK
<1> QED
  BY <1>2, <1>3 DEF Request

LEMMA SerialStep == Serial => (SerialInv /\ [Next]_vars => SerialInv')
<1> SUFFICES ASSUME Serial, SerialInv, [Next]_vars PROVE SerialInv'
  OBVIOUS
<1> USE DEF SerialInv, Placed, Stands, CreateOps, RoleOps
<1>i. RolesInv /\ RolesInv' /\ req \in [Slots -> Request]
  BY RolesStep DEF RolesInv, TypeOK
<1>d. ASSUME NEW s \in Slots, Done(s), phase' = "none" => roles' = NoRows PROVE SerialInv'
  <2>1. \A x \in Slots : req'[x] = NoRequest
    BY <1>i, <1>d DEF Done, Serial
  <2> QED
    BY <1>i, <1>d, <2>1 DEF NoRequest
<1>1. CASE UNCHANGED vars
  BY <1>1, <1>i DEF vars, KeepsLead, LeadCount, LeadsOf
<1>2. CASE SoftDelete
  BY <1>2, <1>i DEF SoftDelete, KeepsLead, LeadCount, LeadsOf
<1>3. ASSUME NEW s \in Slots, Abort(s) PROVE SerialInv'
  BY <1>3, <1>d DEF Abort
<1>4. ASSUME NEW s \in Slots, Read(s) PROVE SerialInv'
  <2>1. PICK r : Decides(s, r)
    BY <1>4, ReadsDecide
  <2>2. req'[s] = r /\ UNCHANGED <<phase, roles, known>>
    BY <1>i, <2>1 DEF Begin, Decides
  <2>3. \A x \in Slots : req'[x] = r
    BY <2>2 DEF Serial
  <2> QED
    BY <1>i, <2>1, <2>2, <2>3 DEF Decides, KeepsLead, LeadCount, LeadsOf
<1>5. ASSUME NEW s \in Slots, Write(s), ~Done(s) PROVE SerialInv'
  <2>1. /\ UNCHANGED <<phase, roles>>
        /\ req'[s].by = req[s].by /\ req'[s].user = req[s].user
        /\ \/ req[s].op = "create_provision" /\ req'[s].op = "create"
           \/ req[s].op = "add_provision" /\ req'[s].op = "add_role"
    BY <1>i, <1>5, MovesOn
  <2>2. Placed(req[s])' /\ Stands(req[s])'
    BY <2>1
  <2>3. \A x \in Slots : Placed(req[x])' /\ Stands(req[x])'
    BY <2>2 DEF Serial
  <2> QED
    BY <1>i, <2>1, <2>3
<1>6. ASSUME NEW s \in Slots, Write(s), Done(s) PROVE SerialInv'
  <2>1. phase' = "none" => roles' = NoRows
    BY <1>6 DEF Write, CreateProvision, AddProvision, CreateCommit,
        AddRoleCommit, AddRoleConflict, PutRoleCommit, UpdateRoleCommit, RemoveRoleCommit
  <2> QED
    BY <1>6, <1>d, <2>1
<1> QED
  BY <1>1, <1>2, <1>3, <1>4, <1>5, <1>6 DEF Next

(* What a request has checked still holds when it writes. *)
THEOREM SerialRoles ==
  ASSUME Serial
  PROVE  Spec => []SerialInv
<1>1. SerialInv /\ [Next]_vars => SerialInv'
  BY SerialStep
<1> QED
  BY <1>1, SerialInit, PTL DEF Spec

(* A step that changes a role row is the commit of a request, and what it    *)
(* leaves in the rows.                                                       *)
LEMMA RoleWrites ==
  ASSUME RolesInv, [Next]_vars, roles' # roles
  PROVE  \E s \in Slots :
           /\ Done(s)
           /\ \/ req[s].op = "create" /\ phase' = "live"
              \/ /\ req[s].op \in {"add_role", "put_role", "update_role", "remove_role"}
                 /\ req[s].op = "add_role" => roles[req[s].user] = NULL
                 /\ phase' = phase
                 /\ \A u \in Users \ {req[s].user} : roles'[u] = roles[u]
                 /\ req[s].op \in {"put_role", "update_role"}
                      => roles'[req[s].user] \in {req[s].role, roles[req[s].user]}
                 /\ req[s].op = "remove_role" => roles'[req[s].user] = NULL
<1>1. ASSUME NEW s \in Slots, Read(s) PROVE FALSE
  BY <1>1 DEF Read, Create, AddRole, PutRole, UpdateRole, RemoveRole, Begin
<1>2. PICK s \in Slots : Write(s)
  BY <1>1 DEF Next, vars, SoftDelete, Abort
<1>3. /\ roles \in Assignments
      /\ req[s].op \in {"add_role", "put_role", "update_role", "remove_role"}
           => req[s].user \in Users
  BY DEF RolesInv, TypeOK, Preflight, Shape
<1>4. CASE CreateCommit(s)
  BY <1>4 DEF CreateCommit
<1>5. CASE AddRoleCommit(s)
  BY <1>3, <1>5 DEF AddRoleCommit, Addable, Assignments
<1>6. CASE PutRoleCommit(s)
  BY <1>3, <1>6 DEF PutRoleCommit, Assignments
<1>7. CASE UpdateRoleCommit(s)
  BY <1>3, <1>7 DEF UpdateRoleCommit, Updated, Assignments
<1>8. CASE RemoveRoleCommit(s)
  BY <1>3, <1>8 DEF RemoveRoleCommit, Removed, Assignments
<1> QED
  BY <1>2, <1>4, <1>5, <1>6, <1>7, <1>8
  DEF Write, CreateProvision, AddProvision, AddRoleConflict

(* The last-LEAD guard does its work when nobody else writes in between.     *)
THEOREM LeadsKept ==
  ASSUME Serial
  PROVE  Spec => LastLeadStays
<1>1. SerialInv /\ [Next]_vars => [LeadsOf(roles) # {} => LeadsOf(roles') # {}]_vars
  <2> SUFFICES ASSUME SerialInv, [Next]_vars, NEW l \in LeadsOf(roles), roles' # roles
               PROVE  LeadsOf(roles') # {}
    BY DEF LeadsOf
  <2>1. PICK s \in Slots :
          /\ Done(s)
          /\ \/ req[s].op = "create" /\ phase' = "live"
             \/ /\ req[s].op \in {"add_role", "put_role", "update_role", "remove_role"}
                /\ req[s].op = "add_role" => roles[req[s].user] = NULL
                /\ phase' = phase
                /\ \A u \in Users \ {req[s].user} : roles'[u] = roles[u]
                /\ req[s].op \in {"put_role", "update_role"}
                     => roles'[req[s].user] \in {req[s].role, roles[req[s].user]}
                /\ req[s].op = "remove_role" => roles'[req[s].user] = NULL
    BY RoleWrites DEF SerialInv
  <2> DEFINE r == req[s]
  <2>2. Placed(r) /\ Stands(r) /\ l \in Users /\ roles[l] = "lead"
    BY DEF SerialInv, LeadsOf
  <2>3. CASE r.op = "create"
    BY <2>2, <2>3 DEF Placed, CreateOps, SerialInv, NoRows
  <2>4. CASE r.op # "create" /\ l # r.user
    BY <2>1, <2>2, <2>4 DEF LeadsOf
  <2>5. CASE r.op # "create" /\ l = r.user /\ r.op \in {"put_role", "update_role", "remove_role"}
    <3>1. roles'[l] = "lead" \/ LeadCount > 1
      BY <2>1, <2>2, <2>5 DEF Stands, KeepsLead
    <3>2. ASSUME LeadCount > 1 PROVE LeadsOf(roles') # {}
      <4>1. PICK v \in LeadsOf(roles) : v # l
        BY <3>2, AnotherLead DEF LeadCount
      <4> QED
        BY <2>1, <2>5, <4>1 DEF LeadsOf
    <3> QED
      BY <2>2, <3>1, <3>2 DEF LeadsOf
  <2>6. CASE r.op = "add_role" /\ l = r.user
    BY <2>1, <2>2, <2>6
  <2> QED
    BY <2>1, <2>3, <2>4, <2>5, <2>6
<1> QED
  BY <1>1, SerialRoles, PTL DEF Spec, LastLeadStays

(* Whoever writes a role row may manage the rows when it is written. *)
THEOREM ManagersChange ==
  ASSUME Serial
  PROVE  Spec => ChangedByManager
<1>1. SerialInv /\ [Next]_vars
        => [phase = "live" /\ roles' # roles =>
              \E s \in Slots : /\ req'[s] # req[s]
                               /\ \/ req[s].by \in WorkspaceLeads
                                  \/ roles[req[s].by] = "lead"]_vars
  <2> SUFFICES ASSUME SerialInv, [Next]_vars, phase = "live", roles' # roles
               PROVE  \E s \in Slots : /\ req'[s] # req[s]
                                       /\ \/ req[s].by \in WorkspaceLeads
                                          \/ roles[req[s].by] = "lead"
    OBVIOUS
  <2>1. PICK s \in Slots :
          /\ Done(s)
          /\ req[s].op \in {"create", "add_role", "put_role", "update_role", "remove_role"}
    BY RoleWrites DEF SerialInv
  <2>2. Placed(req[s]) /\ Stands(req[s])
    BY DEF SerialInv
  <2>3. req[s].op # "create"
    BY <2>2 DEF Placed, CreateOps
  <2>4. req'[s] # req[s]
    BY <2>1 DEF Done, NoRequest, SerialInv, RolesInv, TypeOK
  <2> QED
    BY <2>1, <2>2, <2>3, <2>4 DEF Stands, RoleOps
<1> QED
  BY <1>1, SerialRoles, PTL DEF Spec, ChangedByManager

-----------------------------------------------------------------------------
(***************************************************************************)
(* Any number of requests at a time.  The guard of a request stands as     *)
(* long as the set of leads does, and is what the roster asks for when the *)
(* request writes.                                                         *)
(***************************************************************************)
Creations ==
  /\ \A s, t \in Slots : req[s].op \in CreateOps /\ req[t].op \in CreateOps => s = t
  /\ \A s \in Slots : req[s].op \in CreateOps => req[s].by \in WorkspaceLeads

RosterInv ==
  /\ RolesInv
  /\ phase = "none" => roles = NoRows
  /\ \A s \in Slots : Placed(req[s])
  /\ Creations
  /\ \A s \in Slots \ overtaken : Stands(req[s])

LEMMA SlotSteps ==
  ASSUME RolesInv, [Next]_vars
  PROVE  \/ \E s \in Slots : \E r : Decides(s, r)
         \/ \E s \in Slots : Write(s) /\ ~Done(s)
         \/ \E s \in Slots : Done(s) /\ (Write(s) \/ Abort(s))
         \/ SoftDelete
         \/ UNCHANGED vars
  BY ReadsDecide DEF Next, Abort

(* What a request that ends leaves of the project. *)
LEMMA EndsLeave ==
  ASSUME RosterInv, NEW s \in Slots, Done(s), Write(s) \/ Abort(s)
  PROVE  /\ \/ UNCHANGED <<phase, roles>>
            \/ req[s].op = "create" /\ phase' = "live"
            \/ req[s].op \in RoleOps /\ phase' = phase
         /\ req'[s] = NoRequest
         /\ \A t \in Slots \ {s} : req'[t] = req[t]
  BY DEF Write, CreateProvision, AddProvision, CreateCommit, AddRoleCommit,
      AddRoleConflict, PutRoleCommit, UpdateRoleCommit, RemoveRoleCommit, Abort,
      Done, RosterInv, RolesInv, TypeOK, RoleOps

LEMMA PlacedStep ==
  ASSUME RosterInv, [Next]_vars
  PROVE  /\ phase' = "none" => roles' = NoRows
         /\ \A s \in Slots : Placed(req[s])'
         /\ Creations'
<1> USE DEF Placed, Creations, CreateOps, RoleOps
<1>0. RolesInv /\ req \in [Slots -> Request]
  BY DEF RosterInv, RolesInv, TypeOK
<1>1. ASSUME NEW s \in Slots, NEW r, Decides(s, r)
      PROVE  /\ phase' = "none" => roles' = NoRows
             /\ \A x \in Slots : Placed(req[x])'
             /\ Creations'
  <2>1. /\ req'[s] = r /\ UNCHANGED <<phase, roles>>
        /\ \A t \in Slots \ {s} : req'[t] = req[t]
    BY <1>0, <1>1 DEF Decides, Begin
  <2> QED
    BY <1>1, <2>1 DEF Decides, RosterInv
<1>2. ASSUME NEW s \in Slots, Write(s), ~Done(s)
      PROVE  /\ phase' = "none" => roles' = NoRows
             /\ \A x \in Slots : Placed(req[x])'
             /\ Creations'
  BY <1>0, <1>2, MovesOn DEF RosterInv
<1>3. ASSUME NEW s \in Slots, Done(s), Write(s) \/ Abort(s)
      PROVE  /\ phase' = "none" => roles' = NoRows
             /\ \A x \in Slots : Placed(req[x])'
             /\ Creations'
  <2>1. NoRequest.op = "none"
    BY DEF NoRequest
  <2> QED
    BY <1>3, <2>1, EndsLeave DEF RosterInv
<1>4. CASE SoftDelete
  BY <1>4 DEF SoftDelete, RosterInv
<1>5. CASE UNCHANGED vars
  BY <1>5 DEF vars, RosterInv
<1> QED
  BY <1>0, <1>1, <1>2, <1>3, <1>4, <1>5, SlotSteps

(* A guard stands as long as the leads do. *)
LEMMA LeadsDecide ==
  ASSUME NEW x \in Slots, NEW r, req'[x] = r, Stands(r), Shape(r),
         LeadsOf(roles') = LeadsOf(roles)
  PROVE  Stands(req[x])'
<1>1. \A u \in Users : roles'[u] = "lead" <=> roles[u] = "lead"
  BY DEF LeadsOf
<1>2. LeadCount' = LeadCount
  BY DEF LeadCount
<1> QED
  BY <1>1, <1>2 DEF Stands, Shape, KeepsLead, RoleOps

LEMMA StandsStep ==
  ASSUME RosterInv, [OverlapNext]_<<vars, overtaken>>, NEW x \in Slots \ overtaken'
  PROVE  Stands(req[x])'
<1>0. RolesInv /\ [Next]_vars /\ req \in [Slots -> Request] /\ \A s \in Slots : Shape(req[s])
  BY DEF RosterInv, RolesInv, TypeOK, Preflight, OverlapNext
<1>1. CASE req'[x] = NoRequest
  BY <1>1 DEF Stands, RoleOps, NoRequest
<1>2. CASE req'[x] # NoRequest /\ req'[x] = req[x]
  <2>1. x \notin overtaken /\ LeadsOf(roles') = LeadsOf(roles)
    <3>1. CASE OverlapNext
      BY <1>2, <3>1 DEF OverlapNext, Idle
    <3>2. CASE UNCHANGED <<vars, overtaken>>
      BY <3>2 DEF vars
    <3> QED
      BY <3>1, <3>2
  <2>2. Stands(req[x])
    BY <2>1 DEF RosterInv
  <2> QED
    BY <1>0, <1>2, <2>1, <2>2, LeadsDecide
<1>3. CASE req'[x] # NoRequest /\ req'[x] # req[x]
  <2>1. OverlapNext
    BY <1>3 DEF vars
  <2>2. ASSUME NEW s \in Slots, NEW r, Decides(s, r) PROVE Stands(req[x])'
    <3>1. UNCHANGED roles /\ req'[s] = r /\ \A t \in Slots \ {s} : req'[t] = req[t]
      BY <1>0, <2>2 DEF Decides, Begin
    <3>2. req'[x] = r
      BY <1>3, <3>1
    <3> QED
      BY <2>2, <3>1, <3>2 DEF Decides, Stands, KeepsLead, LeadCount, LeadsOf
  <2>3. ASSUME NEW s \in Slots, Write(s), ~Done(s) PROVE Stands(req[x])'
    <3>1. x = s
      BY <1>0, <1>3, <2>3, MovesOn
    <3>2. /\ UNCHANGED roles /\ req'[x].by = req[x].by
          /\ \/ req[x].op = "create_provision" /\ req'[x].op = "create"
             \/ req[x].op = "add_provision" /\ req'[x].op = "add_role"
      BY <1>0, <2>3, <3>1, MovesOn
    <3>3. x \notin overtaken
      BY <1>3, <2>1 DEF OverlapNext
    <3>4. Stands(req[x])
      BY <3>3 DEF RosterInv
    <3> QED
      BY <3>2, <3>4 DEF Stands, RoleOps
  <2>4. ASSUME NEW s \in Slots, Done(s), Write(s) \/ Abort(s) PROVE FALSE
    BY <1>3, <2>4, EndsLeave
  <2>5. CASE SoftDelete \/ UNCHANGED vars
    BY <1>3, <2>5 DEF SoftDelete, vars
  <2> QED
    BY <1>0, <2>2, <2>3, <2>4, <2>5, SlotSteps
<1> QED
  BY <1>1, <1>2, <1>3

LEMMA RosterStep == RosterInv /\ [OverlapNext]_<<vars, overtaken>> => RosterInv'
<1> SUFFICES ASSUME RosterInv, [OverlapNext]_<<vars, overtaken>> PROVE RosterInv'
  OBVIOUS
<1>1. RolesInv /\ [Next]_vars
  BY DEF RosterInv, OverlapNext
<1> QED
  BY <1>1, RolesStep, PlacedStep, StandsStep DEF RosterInv

LEMMA RosterInit == OverlapInit => RosterInv /\ Roster!Init
<1> SUFFICES ASSUME OverlapInit PROVE RosterInv /\ Roster!Init
  OBVIOUS
<1>1. \A s \in Slots : req[s] = NoRequest
  BY DEF OverlapInit, Init
<1> QED
  BY <1>1, RolesInit
  DEF OverlapInit, Init, RosterInv, Creations, Placed, Stands, CreateOps, RoleOps, NoRequest,
      Roster!Init, NoRows

(* What holds of the guards and of the creation, whatever overlaps. *)
THEOREM RosterSafety == OverlapSpec => []RosterInv
  BY RosterInit, RosterStep, PTL DEF OverlapSpec

-----------------------------------------------------------------------------
(* One operation of the roster per commit. *)

(* What the last-LEAD guard of a request leaves to the roster. *)
LEMMA GuardLeavesLead ==
  ASSUME NEW u \in Users, NEW r, KeepsLead(u, r)
  PROVE  roles[u] = "lead" /\ r # "lead" => \E v \in Users \ {u} : roles[v] = "lead"
<1> SUFFICES ASSUME roles[u] = "lead", r # "lead"
             PROVE  \E v \in Users \ {u} : roles[v] = "lead"
  OBVIOUS
<1>1. PICK v \in LeadsOf(roles) : v # u
  BY AnotherLead DEF KeepsLead, LeadCount, LeadsOf
<1> QED
  BY <1>1 DEF LeadsOf

LEMMA EndIsOperation ==
  ASSUME RosterInv, NEW s \in Slots, Stands(req[s]), Write(s), Done(s)
  PROVE  Roster!Does(req[s].by) \/ UNCHANGED Roster!roster
<1> DEFINE q == req[s]
<1>0. /\ Shape(q) /\ Placed(q) /\ Stands(q) /\ roles \in Assignments
      /\ q.op \in CreateOps => q.by \in WorkspaceLeads
  BY DEF RosterInv, RolesInv, TypeOK, Preflight, Creations
<1>1. CASE CreateCommit(s)
  <2>1. /\ q.op = "create" /\ q.rows \in [Users -> Roles \cup {NULL}] /\ phase = "none"
        /\ q.by \in Users /\ q.by \in WorkspaceLeads
    BY <1>0, <1>1 DEF CreateCommit, Shape, Request, Assignments, Placed, CreateOps
  <2>2. roles' = [q.rows EXCEPT ![q.by] = IF @ = NULL THEN "lead" ELSE @]
    BY <1>1, <2>1 DEF CreateCommit, Seeded
  <2>3. Roster!Create(q.by, q.rows)
    BY <1>1, <2>1, <2>2 DEF CreateCommit, Roster!Create
  <2> QED
    BY <2>1, <2>3 DEF Roster!Does
<1>c. ASSUME NEW r \in Roles \cup {NULL}, q.op \in RoleOps, q.user \in Users,
             roles' = [roles EXCEPT ![q.user] = r], phase' = phase,
             roles[q.user] = "lead" /\ r # "lead"
               => \E v \in Users \ {q.user} : roles[v] = "lead"
      PROVE  Roster!Does(q.by)
  <2>1. q.by \in WorkspaceLeads \/ roles[q.by] = "lead"
    BY <1>0, <1>c DEF Stands
  <2>2. phase # "none"
    BY <1>0, <1>c DEF Placed
  <2>3. Roster!Change(q.by, q.user, r)
    BY <1>c, <2>1, <2>2 DEF Roster!Change
  <2> QED
    BY <1>c, <2>3 DEF Roster!Does
<1>2. CASE AddRoleCommit(s)
  BY <1>0, <1>2, <1>c DEF AddRoleCommit, Addable, Shape, RoleOps
<1>3. CASE PutRoleCommit(s)
  <2>1. q.op = "put_role" /\ q.user \in Users /\ q.role \in Roles /\ KeepsLead(q.user, q.role)
    BY <1>0, <1>3 DEF PutRoleCommit, Shape, Stands
  <2> QED
    BY <1>3, <1>c, <2>1, GuardLeavesLead DEF PutRoleCommit, RoleOps
<1>4. CASE UpdateRoleCommit(s)
  <2>1. /\ q.op = "update_role" /\ q.user \in Users /\ q.role \in Roles
        /\ KeepsLead(q.user, q.role)
    BY <1>0, <1>4 DEF UpdateRoleCommit, Shape, Stands
  <2>2. CASE roles[q.user] = NULL
    BY <1>0, <1>4, <2>2
    DEF UpdateRoleCommit, Updated, Assignments, Roster!roster
  <2>3. CASE roles[q.user] # NULL
    BY <1>4, <1>c, <2>1, <2>3, GuardLeavesLead DEF UpdateRoleCommit, Updated, RoleOps
  <2> QED
    BY <2>2, <2>3
<1>5. CASE RemoveRoleCommit(s)
  <2>1. q.op = "remove_role" /\ q.user \in Users /\ KeepsLead(q.user, NULL)
    BY <1>0, <1>5 DEF RemoveRoleCommit, Shape, Stands
  <2> QED
    BY <1>5, <1>c, <2>1, GuardLeavesLead DEF RemoveRoleCommit, Removed, RoleOps
<1>6. CASE CreateProvision(s) \/ AddProvision(s) \/ AddRoleConflict(s)
  BY <1>6 DEF CreateProvision, AddProvision, AddRoleConflict, Roster!roster
<1> QED
  BY <1>1, <1>2, <1>3, <1>4, <1>5, <1>6 DEF Write

(* A step that changes the roster is its deletion or ends a request. *)
LEMMA RosterChanges ==
  ASSUME RosterInv, [Next]_vars, ~UNCHANGED Roster!roster
  PROVE  \/ Roster!Delete
         \/ \E s \in Slots : /\ Write(s) /\ Done(s)
                            /\ req[s] # NoRequest /\ req'[s] = NoRequest
<1>1. RolesInv
  BY DEF RosterInv
<1>2. ASSUME NEW s \in Slots, NEW r, Decides(s, r) PROVE FALSE
  BY <1>2 DEF Decides, Begin, Roster!roster
<1>3. ASSUME NEW s \in Slots, Write(s), ~Done(s) PROVE FALSE
  BY <1>1, <1>3, MovesOn DEF Roster!roster
<1>4. ASSUME NEW s \in Slots, Done(s), Write(s) \/ Abort(s)
      PROVE  Write(s) /\ req[s] # NoRequest /\ req'[s] = NoRequest
  <2>1. Write(s)
    BY <1>4 DEF Abort, Roster!roster
  <2>2. req[s].op # "none"
    BY <1>4, EndsLeave DEF Roster!roster, RoleOps
  <2> QED
    BY <1>4, <2>1, <2>2, EndsLeave DEF NoRequest
<1>5. CASE SoftDelete
  BY <1>5 DEF SoftDelete, Roster!Delete
<1>6. CASE UNCHANGED vars
  BY <1>6 DEF vars, Roster!roster
<1> QED
  BY <1>1, <1>2, <1>3, <1>4, <1>5, <1>6, SlotSteps

RosterMoves ==
  \/ Roster!Delete
  \/ \E s \in Slots :
       /\ req[s] # NoRequest /\ req'[s] = NoRequest
       /\ s \in overtaken \/ Roster!Does(req[s].by)

LEMMA CallerIsUser ==
  ASSUME RosterInv, NEW s \in Slots, req[s] # NoRequest
  PROVE  req[s].by \in Users
  BY DEF RosterInv, RolesInv, Preflight, Shape

LEMMA RosterMoved ==
  ASSUME RosterInv, [Next]_vars
  PROVE  RosterMoves \/ UNCHANGED Roster!roster
<1> SUFFICES ASSUME ~UNCHANGED Roster!roster PROVE RosterMoves
  OBVIOUS
<1>1. ASSUME NEW s \in Slots, Write(s), Done(s), s \notin overtaken
      PROVE  Roster!Does(req[s].by)
  BY <1>1, EndIsOperation DEF RosterInv
<1> QED
  BY <1>1, RosterChanges DEF RosterMoves

(* Whatever overlaps, only requests during which the leads have changed do   *)
(* what the roster does not allow their caller.                              *)
THEOREM RosterStands == OverlapSpec => RosterUnlessOvertaken
<1>1. RosterInv /\ [OverlapNext]_<<vars, overtaken>> => RosterMoves \/ UNCHANGED Roster!roster
  BY RosterMoved DEF OverlapNext
<1>2. OverlapInit => Roster!Init
  BY RosterInit
<1> QED
  BY <1>1, <1>2, RosterSafety, PTL DEF OverlapSpec, RosterUnlessOvertaken, RosterMoves

(* No operation of the roster gives the last lead up. *)
LEMMA OperationsKeepLead ==
  ASSUME RosterInv, NEW c, Roster!Does(c) \/ Roster!Delete, NEW l \in LeadsOf(roles)
  PROVE  LeadsOf(roles') # {}
<1>0. /\ roles \in [Users -> Roles \cup {NULL}] /\ l \in Users /\ roles[l] = "lead"
      /\ phase # "none"
  BY DEF RosterInv, RolesInv, TypeOK, Assignments, LeadsOf, NoRows
<1>1. ASSUME NEW u \in Users, NEW r \in Roles \cup {NULL}, Roster!Change(c, u, r)
      PROVE  \E v \in Users : roles'[v] = "lead"
  <2>1. roles' = [roles EXCEPT ![u] = r]
    BY <1>1 DEF Roster!Change
  <2>2. CASE u # l \/ r = "lead"
    BY <1>0, <2>1, <2>2
  <2>3. CASE u = l /\ r # "lead"
    <3>1. PICK v \in Users \ {u} : roles[v] = "lead"
      BY <1>0, <1>1, <2>3 DEF Roster!Change
    <3> QED
      BY <1>0, <2>1, <3>1
  <2> QED
    BY <2>2, <2>3
<1>2. CASE Roster!Delete
  BY <1>0, <1>2 DEF Roster!Delete, LeadsOf
<1>3. CASE Roster!Does(c)
  <2>1. \A given : ~Roster!Create(c, given)
    BY <1>0 DEF Roster!Create
  <2>2. \E v \in Users : roles'[v] = "lead"
    BY <1>1, <1>3, <2>1 DEF Roster!Does
  <2> QED
    BY <2>2 DEF LeadsOf
<1> QED
  BY <1>2, <1>3

(* Among other things, a project that has a lead loses the last one only to  *)
(* a request during which its leads have changed.                            *)
LastLeadLostByRace ==
  [][LeadsOf(roles) # {} /\ LeadsOf(roles') = {}
       => \E s \in overtaken : req[s] # NoRequest /\ req'[s] = NoRequest]_vars

(* A corollary of the roster's safety, for any users and any overlap. *)
THEOREM LeadLostOnlyByRace == OverlapSpec => LastLeadLostByRace
<1> DEFINE Kept == LeadsOf(roles) # {} /\ LeadsOf(roles') = {}
                     => \E s \in overtaken : req[s] # NoRequest /\ req'[s] = NoRequest
<1>1. ASSUME RosterInv, [OverlapNext]_<<vars, overtaken>> PROVE Kept
  <2> SUFFICES ASSUME NEW l \in LeadsOf(roles), LeadsOf(roles') = {}
               PROVE  \E s \in overtaken : req[s] # NoRequest /\ req'[s] = NoRequest
    OBVIOUS
  <2>1. [Next]_vars
    BY <1>1 DEF OverlapNext
  <2>2. CASE UNCHANGED Roster!roster
    BY <2>2 DEF Roster!roster
  <2>3. CASE RosterMoves
    BY <1>1, <2>3, OperationsKeepLead DEF RosterMoves
  <2> QED
    BY <1>1, <2>1, <2>2, <2>3, RosterMoved
<1>2. Kept => [Kept]_vars
  OBVIOUS
<1> QED
  BY <1>1, RosterSafety, PTL DEF OverlapSpec, LastLeadLostByRace

(* With one request at a time nobody is overtaken, and the service           *)
(* implements the roster.                                                    *)
THEOREM SerialKeepsTheRoster ==
  ASSUME Serial
  PROVE  OverlapSpec => Roster!Spec
<1> DEFINE Alone == \A s \in Slots : s \notin overtaken
<1>1. OverlapInit => Alone
  BY DEF OverlapInit
<1>2. RosterInv /\ Alone /\ [OverlapNext]_<<vars, overtaken>> => Alone'
  <2> SUFFICES ASSUME RosterInv, Alone, [OverlapNext]_<<vars, overtaken>>,
                      NEW t \in Slots, t \in overtaken'
               PROVE  FALSE
    BY DEF Alone
  <2>1. RolesInv /\ [Next]_vars /\ OverlapNext
    BY DEF RosterInv, OverlapNext
  <2>2. req'[t] # NoRequest /\ roles' # roles
    BY <2>1 DEF OverlapNext
  <2>3. PICK s \in Slots : Done(s)
    BY <2>1, <2>2, RoleWrites
  <2>4. s = t
    BY DEF Serial
  <2> QED
    BY <2>1, <2>2, <2>3, <2>4 DEF Done, RolesInv, TypeOK
<1>3. RosterInv /\ Alone /\ [OverlapNext]_<<vars, overtaken>> => [Roster!Next]_(Roster!roster)
  <2> SUFFICES ASSUME RosterInv, Alone, [OverlapNext]_<<vars, overtaken>>
               PROVE  [Roster!Next]_(Roster!roster)
    OBVIOUS
  <2>1. RosterMoves \/ UNCHANGED Roster!roster
    BY RosterMoved DEF OverlapNext
  <2>2. ASSUME NEW s \in Slots, req[s] # NoRequest, Roster!Does(req[s].by) PROVE Roster!Next
    BY <2>2, CallerIsUser DEF Roster!Next
  <2> QED
    BY <2>1, <2>2 DEF RosterMoves, Roster!Next, Alone
<1>4. OverlapInit => Roster!Init
  BY RosterInit
<1> QED
  BY <1>1, <1>2, <1>3, <1>4, RosterSafety, PTL DEF OverlapSpec, Roster!Spec

=============================================================================

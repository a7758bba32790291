----------------------------- MODULE Workspaces -----------------------------
(***************************************************************************)
(* One workspace from its creation to its deletion, over three stores that *)
(* share no transaction: its row in the task database, its roles and its   *)
(* import job in the OSM database, and the permissions of its project      *)
(* group's users in _user_info_cache.  Every request validates first and   *)
(* then works with the permissions it got, however long that takes.        *)
(*                                                                         *)
(* A user has one token here (UserInfoCache follows its rotation), every   *)
(* user has signed in, and belongs to the one project group all along.     *)
(***************************************************************************)
EXTENDS OsmProxy

CONSTANTS
  Users,     \* the members of the project group
  POCs,      \* those who are its points of contact, in TDEI
  Slots,     \* requests in flight at once
  Here,      \* the workspace's id; the other Ids are workspaces of others
  MayDie     \* whether a request can fail between two of its steps

ASSUME HereIsAnId == Here \in Ids
ASSUME POCsAreUsers == POCs \subseteq Users
ASSUME MayDieType == MayDie \in BOOLEAN

VARIABLES
  phase,     \* the row of workspaces: "none" yet, "there" or "gone"
  settings,  \* whether a long quest or imagery row refers to it
  roles,     \* the rows of user_workspace_roles, NULL where there is none
  cache,     \* _user_info_cache
  strays,    \* not in the code: see StraysExplained
  req        \* per slot, where the request in flight is

vars == <<phase, settings, roles, cache, strays, req>>

WorkspaceRoles == {"lead", "validator"}
RoleRow == WorkspaceRoles \cup {NULL}

(* untold is not in the code: what the entry says that a request changed     *)
(* without evicting it, or changed while the entry's own validation ran.     *)
Entry == [role : RoleRow, listed : BOOLEAN, untold : SUBSET {"role", "listing"}]
Blank == [role |-> NULL, listed |-> FALSE, untold |-> {}]

ASSUME NullIsNoValue == NULL \notin Users \cup WorkspaceRoles \cup Entry

(* The requests that have written and not evicted yet. *)
Evicting == {"assign", "announce", "clear", "evict"}

Ops == {"none", "fetch", "roles", "store", "ready", "delete", "grant", "revoke"}
         \cup Evicting

(* entry is the caller's UserInfo, as it is read and then as the handler has *)
(* it; row the role to assign; told the users the request evicts in the end. *)
(* due is not in the code: the users whose permissions the request was to    *)
(* change when it set out, whom it therefore ought to tell.                  *)
Request == [op : Ops,
            by : Users \cup {NULL},
            entry : Entry,
            row : RoleRow,
            told : SUBSET Users,
            due : SUBSET Users]

NoRequest == [op |-> "none", by |-> NULL, entry |-> Blank, row |-> NULL,
              told |-> {}, due |-> {}]

Idle(s) == req[s] = NoRequest
Done(s) == req' = [req EXCEPT ![s] = NoRequest]

(* The request of s goes on to op; or sets out to write, with what it needs  *)
(* of its caller's permissions checked and left behind.                      *)
Onward(s, op) == [req[s] EXCEPT !.op = op, !.row = NULL]

SetOut(op, row, told, due) ==
  [NoRequest EXCEPT !.op = op, !.row = row, !.told = told, !.due = due]

Proceed(s, next) == req' = [req EXCEPT ![s] = next]

Holders == {u \in Users : roles[u] # NULL}

-----------------------------------------------------------------------------
(* validate_token: a hit hands out the entry; a miss reads the workspaces of *)
(* the caller's project group, then its role rows, and stores them.          *)

Held(e) == [e EXCEPT !.untold = {}]

Hit(s, u) ==
  /\ Idle(s)
  /\ cache[u] # NULL
  /\ req' = [req EXCEPT ![s] = [NoRequest EXCEPT !.op = "ready", !.by = u,
                                                 !.entry = Held(cache[u])]]
  /\ UNCHANGED <<phase, settings, roles, cache, strays>>

Miss(s, u) ==
  /\ Idle(s)
  /\ cache[u] = NULL
  /\ req' = [req EXCEPT ![s] = [NoRequest EXCEPT !.op = "fetch", !.by = u]]
  /\ UNCHANGED <<phase, settings, roles, cache, strays>>

ReadListing(s) ==
  /\ req[s].op = "fetch"
  /\ req' = [req EXCEPT ![s].op = "roles", ![s].entry.listed = (phase = "there")]
  /\ UNCHANGED <<phase, settings, roles, cache, strays>>

ReadRoles(s) ==
  /\ req[s].op = "roles"
  /\ req' = [req EXCEPT ![s].op = "store", ![s].entry.role = roles[req[s].by]]
  /\ UNCHANGED <<phase, settings, roles, cache, strays>>

Store(s) ==
  /\ req[s].op = "store"
  /\ cache' = [cache EXCEPT ![req[s].by] = req[s].entry]
  /\ req' = [req EXCEPT ![s].op = "ready", ![s].entry = Held(@)]
  /\ UNCHANGED <<phase, settings, roles, strays>>

(* TDEI rejects the token or is away; or, once validated, the request reads  *)
(* and answers, or is refused.                                               *)
AnswerOnly(s) ==
  /\ req[s].op \in {"fetch", "ready"}
  /\ Done(s)
  /\ UNCHANGED <<phase, settings, roles, cache, strays>>

(* isWorkspaceLead: by the role row read, listed or not; or as the point of  *)
(* contact of a project group the workspace was listed in.                   *)
IsLead(s) ==
  /\ req[s].op = "ready"
  /\ \/ req[s].entry.role = "lead"
     \/ req[s].by \in POCs /\ req[s].entry.listed

(* isWorkspaceContributor, as the gate of the proxy asks it. *)
CallerOf(s) == [listed |-> IF req[s].entry.listed THEN {Here} ELSE {},
                leads |-> IF IsLead(s) THEN {Here} ELSE {}]

-----------------------------------------------------------------------------
(* What a write by s does to the permissions of the users it changes: what a *)
(* validation has read is out of date, and so is the entry of a user the     *)
(* request does not know it ought to tell.                                   *)

HasRead(t, what) ==
  req[t].op \in (IF what = "listing" THEN {"roles", "store"} ELSE {"store"})

Outdated(e, what) == [e EXCEPT !.untold = @ \cup {what}]

Writes(s, what, users, next) ==
  /\ cache' = [u \in Users |->
                 IF cache[u] # NULL /\ u \in users \ next.due
                 THEN Outdated(cache[u], what) ELSE cache[u]]
  /\ req' = [t \in Slots |->
               IF t = s THEN next
               ELSE IF HasRead(t, what) /\ req[t].by \in users
               THEN [req[t] EXCEPT !.entry = Outdated(@, what)]
               ELSE req[t]]

(* The last step: evict_user_from_cache for each. *)
Evicts(s, told) ==
  /\ cache' = [u \in Users |-> IF u \in told THEN NULL ELSE cache[u]]
  /\ Done(s)

-----------------------------------------------------------------------------
(* create_workspace and its variant from a file: the workspace in one        *)
(* database, the lead role in the other; for an OSW or Pathways data set the *)
(* import's job, the job's own id in its request, and the message on the     *)
(* bus, none of which another request waits for; then the eviction.          *)

Create(s) ==
  /\ req[s].op = "ready"
  /\ phase = "none"
  /\ phase' = "there"
  /\ Writes(s, "listing", Users, SetOut("assign", NULL, {req[s].by}, {req[s].by}))
  /\ UNCHANGED <<settings, roles, strays>>

(* A role row committed when the workspace is gone is a stray. *)
AssignRow(s, r, next) ==
  \E u \in req[s].told :
    /\ roles' = [roles EXCEPT ![u] = r]
    /\ strays' = IF phase = "gone" THEN strays \cup {u} ELSE strays
    /\ Writes(s, "role", {u}, Onward(s, next))

AssignCreator(s) ==
  /\ req[s].op = "assign"
  /\ \E next \in {"announce", "evict"} : AssignRow(s, "lead", next)
  /\ UNCHANGED <<phase, settings>>

Announce(s) ==
  /\ req[s].op = "announce"
  /\ Proceed(s, Onward(s, "evict"))
  /\ UNCHANGED <<phase, settings, roles, cache, strays>>

-----------------------------------------------------------------------------
(* delete_workspace: who has a role is read first and evicted last; between, *)
(* the workspace goes from one database and then its roles from the other.   *)

MutListMembers(s) == {req[s].by}

(* get_privileged_workspace_members. *)
ListMembers(s) == Holders

BeginDelete(s) ==
  /\ IsLead(s)
  /\ Proceed(s, SetOut("delete", NULL, ListMembers(s), Holders))
  /\ UNCHANGED <<phase, settings, roles, cache, strays>>

(* The foreign keys of the settings' tables cascade nothing: a row there     *)
(* makes the DELETE fail.                                                    *)
Deletable == phase = "there" /\ ~settings

Delete(s) ==
  /\ req[s].op = "delete"
  /\ Deletable
  /\ phase' = "gone"
  /\ Writes(s, "listing", Users, Onward(s, "clear"))
  /\ UNCHANGED <<settings, roles, strays>>

DeleteFails(s) ==
  /\ req[s].op = "delete"
  /\ ~Deletable
  /\ Done(s)
  /\ UNCHANGED <<phase, settings, roles, cache, strays>>

MutCleared(s) == [u \in Users |-> IF u \in req[s].told THEN NULL ELSE roles[u]]

(* remove_all_member_roles: also those assigned since the members were read. *)
Cleared(s) == [u \in Users |-> NULL]

ClearRoles(s) ==
  /\ req[s].op = "clear"
  /\ roles' = Cleared(s)
  /\ strays' = {}
  /\ Writes(s, "role", Holders, Onward(s, "evict"))
  /\ UNCHANGED <<phase, settings>>

Evict(s) ==
  /\ req[s].op = "evict"
  /\ Evicts(s, req[s].told)
  /\ UNCHANGED <<phase, settings, roles, strays>>

-----------------------------------------------------------------------------
(* The members' routes.  Both ask the task database whether the workspace is *)
(* there (getById), and then write to the other.                             *)

MutMayWriteRole(s) == IsLead(s)

MayWriteRole(s) == IsLead(s) /\ phase = "there"

MutGrantable == WorkspaceRoles \cup {"contributor"}

(* privileged_roles_only: contributor is what a user is without a row. *)
Grantable == WorkspaceRoles

BeginGrant(s, u, r) ==
  /\ MayWriteRole(s)
  /\ Proceed(s, SetOut("grant", r, {u}, {u}))
  /\ UNCHANGED <<phase, settings, roles, cache, strays>>

Grant(s) ==
  /\ req[s].op = "grant"
  /\ AssignRow(s, req[s].row, "evict")
  /\ UNCHANGED <<phase, settings>>

BeginRevoke(s, u) ==
  /\ MayWriteRole(s)
  /\ Proceed(s, SetOut("revoke", NULL, {u}, {u}))
  /\ UNCHANGED <<phase, settings, roles, cache, strays>>

Revoke(s) ==
  /\ req[s].op = "revoke"
  /\ \E u \in req[s].told :
       /\ roles[u] # NULL
       /\ roles' = [roles EXCEPT ![u] = NULL]
       /\ strays' = strays \ {u}
       /\ Writes(s, "role", {u}, Onward(s, "evict"))
  /\ UNCHANGED <<phase, settings>>

(* No row to delete: rowcount is not 1. *)
RevokeFails(s) ==
  /\ req[s].op = "revoke"
  /\ req[s].told \cap Holders = {}
  /\ Done(s)
  /\ UNCHANGED <<phase, settings, roles, cache, strays>>

(* The PATCH of the long quest or the imagery settings: an UPDATE, and an    *)
(* INSERT where it found no row; refused by the foreign key once the         *)
(* workspace is gone.                                                        *)
SaveSettings(s) ==
  /\ IsLead(s)
  /\ phase = "there"
  /\ settings' = TRUE
  /\ Done(s)
  /\ UNCHANGED <<phase, roles, cache, strays>>

-----------------------------------------------------------------------------
(* A database, the disk, the bus or the process's task fails a request that  *)
(* has a step to go: what it has written stays, and nobody is evicted.       *)
Die(s) ==
  /\ MayDie
  /\ req[s].op \notin {"none", "ready"}
  /\ cache' = [u \in Users |->
                 IF cache[u] # NULL /\ u \in req[s].told /\ req[s].op \in Evicting
                 THEN [cache[u] EXCEPT !.untold = {"role", "listing"}] ELSE cache[u]]
  /\ strays' = IF req[s].op = "clear" THEN Holders ELSE strays
  /\ Done(s)
  /\ UNCHANGED <<phase, settings, roles>>

(* An hour after it was stored, however often it was used. *)
Expire(u) ==
  /\ cache[u] # NULL
  /\ cache' = [cache EXCEPT ![u] = NULL]
  /\ UNCHANGED <<phase, settings, roles, strays, req>>

Init ==
  /\ phase = "none"
  /\ settings = FALSE
  /\ roles = [u \in Users |-> NULL]
  /\ cache = [u \in Users |-> NULL]
  /\ strays = {}
  /\ req = [s \in Slots |-> NoRequest]

Validate(s) ==
  \/ \E u \in Users : Hit(s, u) \/ Miss(s, u)
  \/ ReadListing(s)
  \/ ReadRoles(s)
  \/ Store(s)
  \/ AnswerOnly(s)

Handle(s) ==
  \/ Create(s)
  \/ AssignCreator(s)
  \/ Announce(s)
  \/ BeginDelete(s)
  \/ Delete(s)
  \/ DeleteFails(s)
  \/ ClearRoles(s)
  \/ \E u \in Users, r \in Grantable : BeginGrant(s, u, r)
  \/ Grant(s)
  \/ \E u \in Users : BeginRevoke(s, u)
  \/ Revoke(s)
  \/ RevokeFails(s)
  \/ Evict(s)
  \/ SaveSettings(s)

Next ==
  \/ \E s \in Slots : Validate(s) \/ Handle(s) \/ Die(s)
  \/ \E u \in Users : Expire(u)

Spec == Init /\ [][Next]_vars

-----------------------------------------------------------------------------

(* Every variable has its type. *)
TypeOK ==
  /\ phase \in {"none", "there", "gone"}
  /\ settings \in BOOLEAN
  /\ roles \in [Users -> RoleRow]
  /\ cache \in [Users -> Entry \cup {NULL}]
  /\ strays \subseteq Users
  /\ req \in [Slots -> Request]

(* The roles go with their workspace: once it is gone, and no deletion is    *)
(* about to remove them, a role row is left only by a deletion that died     *)
(* between the two databases, or by a request that had seen the workspace    *)
(* there before it went.                                                     *)
StraysExplained ==
  phase = "gone" /\ (\A s \in Slots : req[s].op # "clear") => Holders \subseteq strays

(* Once a workspace is gone with its roles, and the assignments that had     *)
(* seen it there have been written, no request brings a role back, however   *)
(* long its caller's entry still makes it a lead.                            *)
GoneStaysClean ==
  [][phase = "gone" /\ Holders = {} /\ (\A s \in Slots : req[s].op \notin {"assign", "grant"})
       => \A s \in Slots : req'[s].op # "grant" /\ roles' = roles]_vars

WillEvict(u) == \E s \in Slots : req[s].op \in Evicting /\ u \in req[s].told

(* What a cached entry says of the user's role and of the workspace's        *)
(* existence is so, unless the user is about to be evicted, or a request     *)
(* that died, or could not know the user had a part in it, changed it, or it *)
(* changed while the entry was being read: creation evicts its creator,      *)
(* deletion everyone who had a role when it set out.                         *)
EntriesCurrent ==
  \A u \in Users : cache[u] # NULL /\ ~WillEvict(u) =>
    /\ cache[u].role = roles[u] \/ "role" \in cache[u].untold
    /\ (cache[u].listed <=> phase = "there") \/ "listing" \in cache[u].untold

(* The proxy's gate sends on what it is meant to for every caller a request  *)
(* can be.                                                                   *)
GateServes ==
  \A s \in Slots : req[s].op = "ready" => <<CallerOf(s), TRUE>> \in Service

(* Deleting a workspace that exists removes it ("properly deletes the        *)
(* workspace from the database", says the comment above delete_workspace).   *)
DeletesProperly ==
  [][\A s \in Slots : req[s].op = "delete" /\ phase = "there" /\ req'[s] # req[s]
       => phase' = "gone"]_vars

=============================================================================

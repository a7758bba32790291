--------------------------- MODULE UserInfoCache ----------------------------
(***************************************************************************)
(* validate_token: the permissions of one user, kept for an hour in the    *)
(* process-wide _user_info_cache, and the mirror of the user's tokens in   *)
(* the OSM database (WS_OSM_TOKEN_BRIDGE_ENABLED).                         *)
(*                                                                         *)
(* Everything runs on one event loop: the code between two awaits is one   *)
(* step.  A validation that misses the cache asks TDEI and reads the role  *)
(* row, mirrors its token, and only then stores what it read; a request    *)
(* that changes the role commits, then evicts.  Entries of different users *)
(* have nothing to do with each other, and one workspace stands for all:   *)
(* the model follows one user's role row, entry and tokens, in a workspace *)
(* that exists throughout (what its creation and deletion leave cached is  *)
(* not followed here) and with no commit acknowledgement lost.             *)
(***************************************************************************)
CONSTANTS
  Tokens,         \* the user's JWTs, told apart by jti
  Slots,          \* requests in flight at once
  MirrorMayFail,  \* whether statements of the bridge can fail
  NULL

WorkspaceRoles == {"lead", "validator"}

ASSUME NullIsNoToken == NULL \notin Tokens \cup WorkspaceRoles
ASSUME MirrorMayFailType == MirrorMayFail \in BOOLEAN

VARIABLES
  role,      \* the row of user_workspace_roles, NULL where there is none
  cache,     \* the user's entry of _user_info_cache
  osmToken,  \* oauth_access_tokens: "none", "active" or "revoked"
  req        \* per slot, where the request in flight is

vars == <<role, cache, osmToken, req>>

RoleRow == WorkspaceRoles \cup {NULL}

(* overtaken is not in the code: it records that, between a validation's     *)
(* reads and its store, another request wrote the role row ("role"), or that *)
(* its token's mirror was revoked or failed ("token").                       *)
Entry == [token : Tokens, role : RoleRow, overtaken : SUBSET {"role", "token"}]
NoEntry == [token |-> NULL, role |-> NULL, overtaken |-> {}]

Ops == {"none", "revoke", "drop", "fetch", "mirror", "store", "evict"}

(* old is the cached token a validation has found superseded. *)
Request == [op : Ops,
            token : Tokens \cup {NULL},
            old : Tokens \cup {NULL},
            role : RoleRow,
            overtaken : SUBSET {"role", "token"}]

NoRequest == [op |-> "none", token |-> NULL, old |-> NULL, role |-> NULL,
              overtaken |-> {}]

Idle(s) == req[s] = NoRequest
Cached == cache # NoEntry
Done(s) == req' = [req EXCEPT ![s] = NoRequest]

-----------------------------------------------------------------------------
(* validate_token.  A hit, cached under the very jti, answers from the entry *)
(* and changes nothing.                                                      *)

CacheMiss(s, k) ==
  /\ Idle(s)
  /\ ~Cached
  /\ req' = [req EXCEPT ![s] = [NoRequest EXCEPT !.op = "fetch", !.token = k]]
  /\ UNCHANGED <<role, cache, osmToken>>

Rotated(s, k) ==
  /\ Idle(s)
  /\ Cached
  /\ cache.token # k
  /\ req' = [req EXCEPT ![s] = [NoRequest EXCEPT !.op = "revoke", !.token = k,
                                                 !.old = cache.token]]
  /\ UNCHANGED <<role, cache, osmToken>>

(* What the step of s does to a validation in slot t that has read the role  *)
(* (mirror, store) or mirrored the token (store).                            *)
OvertakenBy(s, what, t) ==
  IF \/ what = "role" /\ req[t].op \in {"mirror", "store"}
     \/ what = "token" /\ req[t].op = "store" /\ req[t].token = req[s].old
  THEN req[t].overtaken \cup {what}
  ELSE req[t].overtaken

(* The slot moves on to op, and the others learn what they were overtaken by. *)
MovesTo(s, op, what) ==
  req' = [t \in Slots |->
            IF t = s THEN [req[s] EXCEPT !.op = op]
            ELSE [req[t] EXCEPT !.overtaken = OvertakenBy(s, what, t)]]

(* _revoke_osm_token: only a row not revoked yet, and none if none exists. *)
RevokeOld(s) ==
  /\ req[s].op = "revoke"
  /\ osmToken' = [osmToken EXCEPT ![req[s].old] = IF @ = "active" THEN "revoked" ELSE @]
  /\ MovesTo(s, "drop", "token")
  /\ UNCHANGED <<role, cache>>

RevokeFails(s) ==
  /\ MirrorMayFail
  /\ req[s].op = "revoke"
  /\ MovesTo(s, "drop", "none")
  /\ UNCHANGED <<role, cache, osmToken>>

(* del _user_info_cache[user_uuid]: whatever entry is there by now. *)
Dropped == NoEntry

DropEntry(s) ==
  /\ req[s].op = "drop"
  /\ Cached
  /\ cache' = Dropped
  /\ req' = [req EXCEPT ![s].op = "fetch", ![s].old = NULL]
  /\ UNCHANGED <<role, osmToken>>

(* The entry was evicted, expired or dropped meanwhile: KeyError, a 500. *)
DropKeyError(s) ==
  /\ req[s].op = "drop"
  /\ ~Cached
  /\ Done(s)
  /\ UNCHANGED <<role, cache, osmToken>>

MutRoleRead == IF Cached THEN cache.role ELSE role

(* SELECT .. FROM user_workspace_roles, whatever others have stored by now. *)
RoleRead == role

(* TDEI's answer, the workspaces, then the role. *)
Fetch(s) ==
  /\ req[s].op = "fetch"
  /\ req' = [req EXCEPT ![s].op = "mirror", ![s].role = RoleRead]
  /\ UNCHANGED <<role, cache, osmToken>>

(* TDEI does not answer, or not with 200: 401, 502 or 503. *)
FetchFails(s) ==
  /\ req[s].op = "fetch"
  /\ Done(s)
  /\ UNCHANGED <<role, cache, osmToken>>

MutMirrored(k) == IF osmToken[k] = "none" THEN "active" ELSE osmToken[k]

(* ON CONFLICT (token) DO UPDATE .. revoked_at = NULL. *)
Mirrored(k) == "active"

Mirror(s) ==
  /\ req[s].op = "mirror"
  /\ osmToken' = [osmToken EXCEPT ![req[s].token] = Mirrored(req[s].token)]
  /\ req' = [req EXCEPT ![s].op = "store"]
  /\ UNCHANGED <<role, cache>>

(* Best-effort: a failure is logged, rolled back and forgotten. *)
MirrorFails(s) ==
  /\ MirrorMayFail
  /\ req[s].op = "mirror"
  /\ req' = [req EXCEPT ![s].op = "store", ![s].overtaken = @ \cup {"token"}]
  /\ UNCHANGED <<role, cache, osmToken>>

MutStored(r) == [token |-> r.old, role |-> r.role, overtaken |-> r.overtaken]

Stored(r) == [token |-> r.token, role |-> r.role, overtaken |-> r.overtaken]

(* _user_info_cache[user_uuid] = user_info, over whatever is there. *)
Store(s) ==
  /\ req[s].op = "store"
  /\ cache' = Stored(req[s])
  /\ Done(s)
  /\ UNCHANGED <<role, osmToken>>

-----------------------------------------------------------------------------
(* assign_member_role and remove_member_role, of the users routes: the row   *)
(* is committed, then the user evicted.                                      *)

MutEvicts == "none"

(* What follows the commit. *)
Evicts == "evict"

WritesRole(s, r) ==
  /\ Idle(s)
  /\ role' = r
  /\ req' = [t \in Slots |->
               IF t = s THEN [NoRequest EXCEPT !.op = Evicts]
               ELSE [req[t] EXCEPT !.overtaken = OvertakenBy(s, "role", t)]]
  /\ UNCHANGED <<cache, osmToken>>

AssignMemberRole(s, r) == WritesRole(s, r)

(* rowcount must be 1. *)
RemoveMemberRole(s) == role # NULL /\ WritesRole(s, NULL)

EvictUser(s) ==
  /\ req[s].op = "evict"
  /\ cache' = NoEntry
  /\ Done(s)
  /\ UNCHANGED <<role, osmToken>>

-----------------------------------------------------------------------------

(* TTLCache: an hour after the store, or sooner when 1000 users are newer. *)
Expire ==
  /\ Cached
  /\ cache' = NoEntry
  /\ UNCHANGED <<role, osmToken, req>>

(* The process dies and comes back. *)
Restart ==
  /\ cache' = NoEntry
  /\ req' = [s \in Slots |-> NoRequest]
  /\ UNCHANGED <<role, osmToken>>

Init ==
  /\ role \in RoleRow
  /\ cache = NoEntry
  /\ osmToken = [k \in Tokens |-> "none"]
  /\ req = [s \in Slots |-> NoRequest]

Validate(s) ==
  \/ \E k \in Tokens : CacheMiss(s, k) \/ Rotated(s, k)
  \/ RevokeOld(s)
  \/ RevokeFails(s)
  \/ DropEntry(s)
  \/ DropKeyError(s)
  \/ Fetch(s)
  \/ FetchFails(s)
  \/ Mirror(s)
  \/ MirrorFails(s)
  \/ Store(s)

ChangeRole(s) ==
  \/ \E r \in WorkspaceRoles : AssignMemberRole(s, r)
  \/ RemoveMemberRole(s)
  \/ EvictUser(s)

Next ==
  \/ \E s \in Slots : Validate(s) \/ ChangeRole(s)
  \/ Expire
  \/ Restart

(* Time passes whatever the requests do.  A store begins the hour of the     *)
(* entry anew, but while there is an entry only the validations that missed  *)
(* it before can store, so the hour of the last of them ends.                *)
Spec == Init /\ [][Next]_vars /\ WF_vars(Expire)

-----------------------------------------------------------------------------

(* Every variable has its type. *)
TypeOK ==
  /\ role \in RoleRow
  /\ cache \in Entry \cup {NoEntry}
  /\ osmToken \in [Tokens -> {"none", "active", "revoked"}]
  /\ req \in [Slots -> Request]

(* The cache tells the role in the database unless an eviction is on its way *)
(* or the role was written while the entry's own validation ran: no other    *)
(* overlap of validations, rotations, expiries and role changes makes a      *)
(* cached permission stale.                                                  *)
StaleOnlyByRace ==
  Cached /\ cache.role # role =>
    \/ "role" \in cache.overtaken
    \/ \E s \in Slots : req[s].op = "evict"

(* The token cached for a user is live in the OSM database unless the entry  *)
(* is about to be dropped or its mirror was revoked or failed while its own  *)
(* validation ran.                                                           *)
CutOffOnlyByRace ==
  Cached /\ osmToken[cache.token] # "active" =>
    \/ "token" \in cache.overtaken
    \/ \E s \in Slots : req[s].op = "drop"

(* Once the role is no longer changed, what the cache serves becomes the     *)
(* role and stays it: evictions lost to validations in flight, and stale     *)
(* stores over fresh ones, do not hand an old permission on from entry to    *)
(* entry for ever.                                                           *)
SettledRoleServed ==
  <>[][role' = role]_role => <>[](Cached => cache.role = role)

(* Once the requests that change the role have answered, and no request is   *)
(* in flight, the user's next request sees the role as it is.                *)
NextRequestSeesRole ==
  (\A s \in Slots : Idle(s)) /\ Cached => cache.role = role

=============================================================================

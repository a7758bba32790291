------------------------------ MODULE OsmProxy ------------------------------
(***************************************************************************)
(* The gate of the OSM proxy (catch_all of main.py, with the Basic         *)
(* credentials of TDEIHTTPBearer): which workspace a proxied call          *)
(* addresses, and whether it is sent on.  A call may name its workspace in *)
(* up to three places.  Only the operators: Workspaces applies them to the *)
(* permissions its requests hold.                                          *)
(***************************************************************************)
CONSTANTS
  Ids,   \* workspace ids
  NULL

ASSUME NotIds == NULL \notin Ids \cup {"malformed"} /\ "malformed" \notin Ids

Methods == {"GET", "PUT", "DELETE"}

(* native: /api/v1/..; schema: /api/0.6/workspaces/{id}; user: the caller's  *)
(* own row, stranger: another's, at /api/0.6/user/{uid}; changeset:          *)
(* /api/0.6/changeset/create; editing: the rest of the OSM API.              *)
Paths == {"native", "schema", "user", "stranger", "changeset", "editing"}

(* path is what follows a /workspace/{id} prefix; subject the id in a schema *)
(* path; header the X-Workspace header; basic the Basic username, read as a  *)
(* workspace id, of a call that carries its token in the password.           *)
Call == [path : Paths,
         method : Methods,
         subject : Ids,
         prefix : Ids \cup {NULL},
         header : Ids \cup {NULL, "malformed"},
         basic : Ids \cup {NULL, "malformed"}]

(* What the caller's UserInfo says: the workspaces it may see, and those it  *)
(* leads.                                                                    *)
Caller == [listed : SUBSET Ids, leads : SUBSET Ids]

(* A status code, and the X-Workspace and review tag sent on with "sent".    *)
Answer(status) == [status |-> status, workspace |-> NULL, tagged |-> FALSE]

(* Basic is refused under /api/v1/ (a prefix hides that path from this check *)
(* but not from the next), and where the username is no workspace id.        *)
BasicRefused(c) ==
  /\ c.basic # NULL
  /\ c.basic = "malformed" \/ (c.path = "native" /\ c.prefix = NULL)

MutMismatch(c) ==
  \/ c.prefix # NULL /\ c.header # NULL /\ c.prefix # c.header
  \/ c.basic # NULL /\ c.header # NULL /\ c.header # c.basic

(* The path prefix against the header, then either against Basic. *)
Mismatch(c) ==
  \/ c.prefix # NULL /\ c.header # NULL /\ c.prefix # c.header
  \/ c.basic # NULL /\ c.header # NULL /\ c.header # c.basic
  \/ c.basic # NULL /\ c.header = NULL /\ c.prefix # NULL /\ c.prefix # c.basic

(* The header over the prefix, and the Basic username over both. *)
Resolved(c) ==
  IF c.basic # NULL THEN c.basic
  ELSE IF c.header # NULL THEN c.header
  ELSE c.prefix

(* TENANTLESS_ENDPOINTS: the rule of a path that needs no workspace. *)
Tenantless(c) ==
  \/ c.path = "schema" /\ c.method \in {"PUT", "DELETE"}
  \/ c.path \in {"user", "stranger"} /\ c.method = "PUT"

Authorize(u, c) ==
  \/ c.path = "schema" /\ c.subject \in u.leads
  \/ c.path = "user"

(* A contributor's new changeset; validator is the caller's cached role.     *)
NewChangeset(c) == c.path = "changeset" /\ c.method = "PUT"

Contributes(u, c, validator) == Resolved(c) \notin u.leads /\ ~validator

(* To the workspace the call names.  A new changeset reads its row ("gone",  *)
(* "plain", or "flagged" for autoFlagReview), and is tagged for review where *)
(* the workspace asks for it and the caller only contributes.                *)
SentOn(u, c, row, validator) ==
  IF NewChangeset(c) /\ row = "gone" THEN Answer("404")
  ELSE [status |-> "sent",
        workspace |-> Resolved(c),
        tagged |-> NewChangeset(c) /\ row = "flagged" /\ Contributes(u, c, validator)]

(* The checks in the order of the code: the first that fails answers. *)
Gate(u, c, row, validator) ==
  IF BasicRefused(c) THEN Answer("401")
  ELSE IF c.path = "native" THEN Answer("404")
  ELSE IF c.header = "malformed" \/ Mismatch(c) THEN Answer("400")
  ELSE IF Resolved(c) # NULL THEN
    IF Resolved(c) \in u.listed THEN SentOn(u, c, row, validator) ELSE Answer("403")
  ELSE IF ~Tenantless(c) THEN Answer("400")
  ELSE IF Authorize(u, c) THEN Answer("sent") ELSE Answer("403")

-----------------------------------------------------------------------------
(* What the gate is for, told without its order: the places that name a      *)
(* workspace all name the same, the caller may see it, and it is the one     *)
(* sent on; a call that names none is one of the two kinds that need none,   *)
(* about a workspace the caller leads or the caller's own row.               *)

Named(c) == {c.prefix, c.header, c.basic} \ {NULL}

Meant(u, c, row) ==
  /\ c.path # "native"
  /\ \A x, y \in Named(c) : x = y
  /\ Named(c) \subseteq u.listed
  /\ NewChangeset(c) => row # "gone"
  /\ Named(c) = {} =>
       \/ c.path = "schema" /\ c.method # "GET" /\ c.subject \in u.leads
       \/ c.path = "user" /\ c.method = "PUT"

(* The gate sends on exactly the calls it is meant to, to the workspace the  *)
(* call names, and tagged if and only if the workspace asks for reviews and  *)
(* the caller is neither its lead nor its validator.                         *)
SendsWhatIsMeant(u, c, row, validator) ==
  LET a == Gate(u, c, row, validator) IN
  /\ (a.status = "sent") <=> Meant(u, c, row)
  /\ a.status = "sent" =>
       /\ {a.workspace} \ {NULL} = Named(c)
       /\ a.tagged <=> /\ NewChangeset(c) /\ row = "flagged"
                       /\ Named(c) \cap u.leads = {} /\ ~validator

Rows == {"gone", "plain", "flagged"}

(* For each caller, whether it does whatever the caller calls. *)
Service ==
  {<<u, \A c \in Call, row \in Rows, validator \in BOOLEAN :
          SendsWhatIsMeant(u, c, row, validator)>> : u \in Caller}

=============================================================================

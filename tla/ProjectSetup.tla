---------------------------- MODULE ProjectSetup -----------------------------
(***************************************************************************)
(* One tasking project on its way from draft to open: its settings, its    *)
(* area of interest (AOI), the tasks saved for it under idempotency keys,  *)
(* its activation, and what requests that were in flight across the        *)
(* activation, a soft delete or a new AOI still do to it afterwards.       *)
(*                                                                         *)
(* As in TaskWorkflow a request is a read step X, which holds the guards   *)
(* of the handler and leaves what it decided in req[s], and a commit step. *)
(* The AOI endpoints take three: their DELETE of the tasks and their       *)
(* UPDATE of the project are two statements, and a save can commit in      *)
(* between, since a DELETE locks only rows it sees.  All other             *)
(* transactions write rows that stay locked until their COMMIT.            *)
(*                                                                         *)
(* The life of the project after activation (locks, submissions, close,    *)
(* reset) is module TaskWorkflow; here it is summarised by Close and Reset *)
(* (TaskWorkflowSetup shows that the summary is right), and the role       *)
(* endpoints (ProjectRoles) by AllocateWorkers.                            *)
(***************************************************************************)
EXTENDS Naturals

CONSTANTS
  Aois,       \* areas of interest a lead may upload
  Bodies,     \* bodies of POST /tasks/save: a source and its features
  Fits,       \* <<body, aoi>>: every feature lies inside the AOI
  SourceOf,   \* the source a body names
  Keys,       \* values of the Idempotency-Key header
  Slots,      \* requests in flight at once
  MaxSaves,   \* bound: how many saves may ever commit
  NULL

Sources == {"grid", "import"}

ASSUME FitsType == Fits \subseteq Bodies \X Aois
ASSUME SourceOfType == SourceOf \in [Bodies -> Sources]
ASSUME MaxSavesType == MaxSaves \in Nat
ASSUME NullIsNothing ==
  NULL \notin Aois \cup Bodies \cup Keys \cup Sources /\ NULL \notin BOOLEAN

VARIABLES
  status,          \* tasking_projects.status
  deleted,         \* tasking_projects.deleted_at is set
  named,           \* tasking_projects.name is not blank
  reviewRequired,  \* tasking_projects.review_required
  aoi,             \* tasking_projects.aoi, NULL where there is none
  boundary,        \* tasking_projects.task_boundary_type
  batches,         \* tasking_tasks: the tasks of one save are one batch
  saves,           \* how many batches were ever saved: their ids are fresh
  keyRow,          \* tasking_task_save_idempotency
  workers,         \* a contributor or validator row exists
  req              \* per slot, what the request in flight has decided

projectVars == <<status, deleted, named, reviewRequired, aoi, boundary>>
taskVars == <<batches, saves, keyRow>>
dbVars == <<projectVars, taskVars, workers>>
vars == <<status, deleted, named, reviewRequired, aoi, boundary, batches, saves,
          keyRow, workers, req>>

Ids == 1..MaxSaves

(***************************************************************************)
(* overtaken is not in the code.  A request in flight collects in it the   *)
(* kinds of commit it was overtaken by, and a batch keeps those its save   *)
(* was; "aoi" also marks a batch the wipe of a new AOI has missed.         *)
(***************************************************************************)
Overtakers == {"aoi", "activate", "delete", "patch", "role", "close"}

Batch == [id : Ids, body : Bodies, key : Keys \cup {NULL},
          overtaken : SUBSET Overtakers]

KeyRow == [body : Bodies, batch : Ids]

Ops == {"none", "patch", "delete_tasks", "write_aoi", "save", "activate",
        "soft_delete"}

Request == [op : Ops,
            aoi : Aois \cup {NULL},
            wiped : SUBSET Batch,
            body : Bodies \cup {NULL},
            key : Keys \cup {NULL},
            review : BOOLEAN \cup {NULL},
            name : BOOLEAN \cup {NULL},
            overtaken : SUBSET Overtakers]

NoRequest == [op |-> "none", aoi |-> NULL, wiped |-> {}, body |-> NULL,
              key |-> NULL, review |-> NULL, name |-> NULL, overtaken |-> {}]

-----------------------------------------------------------------------------

Idle(s) == req[s] = NoRequest

(* _get_active / _get_project: a project that is not soft-deleted. *)
ProjectFound == ~deleted

InDraft == ProjectFound /\ status = "draft"

Begin(s, r) ==
  /\ Idle(s)
  /\ req' = [req EXCEPT ![s] = r]
  /\ UNCHANGED dbVars

(* Which commits matter to a request that has read and not yet written. *)
Minds(op) ==
  CASE op = "patch" -> {"activate", "close", "patch"}
    [] op \in {"delete_tasks", "write_aoi"} -> {"activate"}
    [] op = "save" -> {"aoi", "delete"}
    [] op = "activate" -> {"aoi", "patch", "role", "delete"}
    [] OTHER -> {}

Overtaken(r, by) == [r EXCEPT !.overtaken = @ \cup (Minds(r.op) \cap {by})]

(* Slot s ends its request with a commit of the given kind. *)
Commits(s, kind) ==
  req' = [t \in Slots |-> IF t = s THEN NoRequest ELSE Overtaken(req[t], kind)]

(* A commit of somebody outside the slots. *)
Overtake(kind) == req' = [t \in Slots |-> Overtaken(req[t], kind)]

(* The row locks of a DELETE that has run and not yet committed. *)
Wiping(s, b) == req[s].op = "write_aoi" /\ b \in req[s].wiped

-----------------------------------------------------------------------------
(* Settings. *)

MutPatchable(review) == ProjectFound /\ status # "done"

(* Not a closed project, and review_required only while it is a draft. *)
Patchable(review) ==
  /\ ProjectFound
  /\ status # "done"
  /\ review \in {NULL, reviewRequired} \/ status = "draft"

(* A blank name passes the request's checks and is stored stripped. *)
Patch(s, review, name) ==
  /\ Patchable(review)
  /\ Begin(s, [NoRequest EXCEPT !.op = "patch", !.review = review,
                                !.name = name])

MutUpdated(old, new) == new

(* Only the fields the body has are written. *)
Updated(old, new) == IF new = NULL THEN old ELSE new

PatchCommit(s) ==
  /\ req[s].op = "patch"
  /\ named' = Updated(named, req[s].name)
  /\ reviewRequired' = Updated(reviewRequired, req[s].review)
  /\ Commits(s, "patch")
  /\ UNCHANGED <<status, deleted, aoi, boundary, taskVars, workers>>

-----------------------------------------------------------------------------
(* The area of interest.  POST replaces it, DELETE clears it; either way the *)
(* saved tasks go.                                                           *)

MutAoiMayChange == ProjectFound

AoiMayChange == InDraft

UploadAoi(s, a) ==
  /\ AoiMayChange
  /\ Begin(s, [NoRequest EXCEPT !.op = "delete_tasks", !.aoi = a])

DeleteAoi(s) ==
  /\ AoiMayChange
  /\ aoi # NULL
  /\ Begin(s, [NoRequest EXCEPT !.op = "delete_tasks"])

(* DELETE FROM tasking_tasks WHERE project_id: the rows there are, once     *)
(* nobody else holds them.                                                  *)
DeleteTasks(s) ==
  /\ req[s].op = "delete_tasks"
  /\ \A t \in Slots, b \in batches : ~Wiping(t, b)
  /\ req' = [req EXCEPT ![s].op = "write_aoi", ![s].wiped = batches]
  /\ UNCHANGED dbVars

(* What the wipe leaves: batches saved after its DELETE ran. *)
Wipe(wiped) ==
  {[b EXCEPT !.overtaken = @ \cup {"aoi"}] : b \in batches \ wiped}

WriteAoi(s) ==
  LET r == req[s] IN
  /\ r.op = "write_aoi"
  /\ batches' = Wipe(r.wiped)
  /\ aoi' = r.aoi
  /\ boundary' = NULL
  /\ Commits(s, "aoi")
  /\ UNCHANGED <<status, deleted, named, reviewRequired, saves, keyRow, workers>>

-----------------------------------------------------------------------------
(* POST /tasks/save. *)

MutCovered(b) == aoi # NULL

(* Every feature is checked against the AOI again, whatever validate said. *)
Covered(b) == aoi # NULL /\ <<b, aoi>> \in Fits

(* The key, if any, is new, and no tasks have been saved.  A known key is    *)
(* answered with the stored tasks or, for another body, a conflict.          *)
Save(s, b, k) ==
  /\ InDraft
  /\ Covered(b)
  /\ k # NULL => keyRow[k] = NULL
  /\ batches = {}
  /\ saves < MaxSaves
  /\ Begin(s, [NoRequest EXCEPT !.op = "save", !.body = b, !.key = k])

MutNoTaskNumberIndex(k) == k # NULL => keyRow[k] = NULL
MutNoKeyIndex(k) == batches = {}

(* tasking_tasks_pn_unique and the primary key of the idempotency table:    *)
(* otherwise the transaction fails (Abort).                                 *)
Insertable(k) ==
  /\ batches = {}
  /\ k # NULL => keyRow[k] = NULL

(* Tasks, boundary type and key are one transaction. *)
SaveCommit(s) ==
  LET r == req[s] IN
  /\ r.op = "save"
  /\ Insertable(r.key)
  /\ saves < MaxSaves
  /\ saves' = saves + 1
  /\ batches' = batches \cup {[id |-> saves', body |-> r.body, key |-> r.key,
                               overtaken |-> r.overtaken]}
  /\ boundary' = SourceOf[r.body]
  /\ keyRow' = [k \in Keys |-> IF k = r.key
                               THEN [body |-> r.body, batch |-> saves']
                               ELSE keyRow[k]]
  /\ Commits(s, "save")
  /\ UNCHANGED <<status, deleted, named, reviewRequired, aoi, workers>>

-----------------------------------------------------------------------------
(* Activation and deletion. *)

MutSetUp == named /\ aoi # NULL /\ batches # {}

(* What activate asks for. *)
SetUp == named /\ aoi # NULL /\ batches # {} /\ workers

Activate(s) ==
  /\ InDraft
  /\ SetUp
  /\ Begin(s, [NoRequest EXCEPT !.op = "activate"])

ActivateCommit(s) ==
  /\ req[s].op = "activate"
  /\ status' = "open"
  /\ Commits(s, "activate")
  /\ UNCHANGED <<deleted, named, reviewRequired, aoi, boundary, taskVars, workers>>

SoftDelete(s) ==
  /\ ProjectFound
  /\ Begin(s, [NoRequest EXCEPT !.op = "soft_delete"])

MutKeptTasks == batches

KeptTasks == {}

(* The DELETE waits for a wipe that holds the tasks. *)
SoftDeleteCommit(s) ==
  /\ req[s].op = "soft_delete"
  /\ \A t \in Slots, b \in batches : ~Wiping(t, b)
  /\ deleted' = TRUE
  /\ batches' = KeptTasks
  /\ Commits(s, "delete")
  /\ UNCHANGED <<status, named, reviewRequired, aoi, boundary, saves, keyRow,
                 workers>>

-----------------------------------------------------------------------------
(* The other components, in summary. *)

(* A contributor or validator is allocated, or the last one removed. *)
AllocateWorkers ==
  /\ ProjectFound
  /\ workers' = ~workers
  /\ Overtake("role")
  /\ UNCHANGED <<projectVars, taskVars>>

(* Their commits, which may come late: nothing is asked again, except that  *)
(* the project was activated once.  A reset that has read an open project   *)
(* leaves its status alone, whatever it is by then.                         *)
Close ==
  /\ status # "draft"
  /\ status' = "done"
  /\ Overtake("close")
  /\ UNCHANGED <<deleted, named, reviewRequired, aoi, boundary, taskVars, workers>>

Reset ==
  /\ status # "draft"
  /\ status' \in {status, "open"}
  /\ UNCHANGED <<deleted, named, reviewRequired, aoi, boundary, taskVars, workers,
                 req>>

(* A failure before the COMMIT, and the rollback. *)
Abort(s) ==
  /\ ~Idle(s)
  /\ req' = [req EXCEPT ![s] = NoRequest]
  /\ UNCHANGED dbVars

(* create: a named draft, with or without an AOI. *)
Init ==
  /\ status = "draft"
  /\ deleted = FALSE
  /\ named = TRUE
  /\ reviewRequired \in BOOLEAN
  /\ aoi \in Aois \cup {NULL}
  /\ boundary = NULL
  /\ batches = {}
  /\ saves = 0
  /\ keyRow = [k \in Keys |-> NULL]
  /\ workers \in BOOLEAN
  /\ req = [s \in Slots |-> NoRequest]

Read(s) ==
  \/ \E review, name \in BOOLEAN \cup {NULL} : Patch(s, review, name)
  \/ \E a \in Aois : UploadAoi(s, a)
  \/ DeleteAoi(s)
  \/ \E b \in Bodies, k \in Keys \cup {NULL} : Save(s, b, k)
  \/ Activate(s)
  \/ SoftDelete(s)

Write(s) ==
  \/ PatchCommit(s)
  \/ DeleteTasks(s)
  \/ WriteAoi(s)
  \/ SaveCommit(s)
  \/ ActivateCommit(s)
  \/ SoftDeleteCommit(s)

Others == AllocateWorkers \/ Close \/ Reset

Next ==
  \/ \E s \in Slots : Read(s) \/ Write(s) \/ Abort(s)
  \/ Others

Spec == Init /\ [][Next]_vars

-----------------------------------------------------------------------------

(* Every variable has its type. *)
TypeOK ==
  /\ status \in {"draft", "open", "done"}
  /\ deleted \in BOOLEAN
  /\ named \in BOOLEAN
  /\ reviewRequired \in BOOLEAN
  /\ aoi \in Aois \cup {NULL}
  /\ boundary \in Sources \cup {NULL}
  /\ batches \in SUBSET Batch
  /\ saves \in 0..MaxSaves
  /\ keyRow \in [Keys -> KeyRow \cup {NULL}]
  /\ workers \in BOOLEAN
  /\ req \in [Slots -> Request]

(* Slot s ends a request of this kind that was overtaken by one of these. *)
EndsOvertaken(s, op, by) ==
  /\ req[s].op = op
  /\ req'[s] = NoRequest
  /\ req[s].overtaken \cap by # {}

(* The saved tasks lie inside the AOI the project has now and are of the      *)
(* source it names, unless a new AOI committed between the save's reads and   *)
(* its writes, or the save between the DELETE and the UPDATE of a new AOI.    *)
SavedFitsAoi ==
  \A b \in batches :
    \/ "aoi" \in b.overtaken
    \/ deleted
    \/ aoi # NULL /\ <<b.body, aoi>> \in Fits /\ boundary = SourceOf[b.body]

(* However saves overlap, a project never holds the tasks of two of them.     *)
OneBatch == \A b, c \in batches : b = c

(* A save that is retried, in flight or after its answer was lost, inserts    *)
(* nothing a second time: a recorded key stays as it is, and no tasks are     *)
(* inserted under it again, not even after a new AOI has wiped the first.     *)
RetryInsertsNothing ==
  [][\A k \in Keys : keyRow[k] # NULL =>
       /\ keyRow'[k] = keyRow[k]
       /\ \A b \in batches' : b.key = k => b.id = keyRow[k].batch]_vars

(* A project opens with everything activate asks for, unless the activation   *)
(* itself was overtaken.                                                      *)
OpenedSetUp ==
  [][status = "draft" /\ status' = "open" =>
       \/ named' /\ aoi' # NULL /\ batches' # {} /\ workers' /\ ~deleted'
       \/ \E s \in Slots : EndsOvertaken(s, "activate", Overtakers)]_vars

(* Tasks of an activated project, and with them what has been mapped, go only *)
(* with the project itself, or by an AOI request that was overtaken by the    *)
(* activation.                                                                *)
WorkIsKept ==
  [][/\ status # "draft"
     /\ \E b \in batches : \A c \in batches' : c.id # b.id
     => \/ deleted'
        \/ \E s \in Slots : EndsOvertaken(s, "write_aoi", {"activate"})]_vars

(* After activation review_required stands, and after the close the name too, *)
(* unless a patch was overtaken by that very step, or by another patch that   *)
(* was and that it sets right again.                                          *)
SettingsStand ==
  [][\/ status # "draft" /\ reviewRequired' # reviewRequired
     \/ status = "done" /\ named' # named
     => \E s \in Slots : EndsOvertaken(s, "patch", Overtakers)]_vars

(* A deleted project has no tasks, unless a save was overtaken by the delete. *)
DeletedIsEmpty ==
  deleted => \A b \in batches : "delete" \in b.overtaken

=============================================================================

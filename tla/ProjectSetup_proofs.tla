------------------------ MODULE ProjectSetup_proofs -------------------------
(***************************************************************************)
(* Proofs about ProjectSetup, for any number of requests in flight and any *)
(* AOIs, bodies and keys: what a request has read still holds when it      *)
(* writes, unless one of the commits it is tagged with came in between.    *)
(***************************************************************************)
EXTENDS ProjectSetup, TLAPS

USE FitsType, SourceOfType, MaxSavesType, NullIsNothing

(* A save still fits the AOI, in a project that is there. *)
FreshSave(r) ==
  r.op = "save" =>
    /\ r.body \in Bodies
    /\ "aoi" \in r.overtaken \/ Covered(r.body)
    /\ "delete" \in r.overtaken \/ ~deleted

(* An AOI request still faces a draft. *)
FreshAoi(r) ==
  r.op \in {"delete_tasks", "write_aoi"} =>
    "activate" \in r.overtaken \/ status = "draft"

(* An activation still faces all it has asked for. *)
FreshActivate(r) ==
  r.op = "activate" => r.overtaken # {} \/ (SetUp /\ ~deleted)

(* A patch still changes nothing that stands. *)
FreshPatch(r) ==
  r.op = "patch" =>
    \/ r.overtaken # {}
    \/ /\ status # "done"
       /\ r.review \in {NULL, reviewRequired} \/ status = "draft"

Fresh(r) == FreshSave(r) /\ FreshAoi(r) /\ FreshActivate(r) /\ FreshPatch(r)

(* The tasks of a recorded key are those of its record. *)
KeyTellsBatch ==
  \A b \in batches : b.key \in Keys =>
    keyRow[b.key] = [body |-> b.body, batch |-> b.id]

SetupInv ==
  /\ TypeOK
  /\ \A s \in Slots : Fresh(req[s])
  /\ SavedFitsAoi
  /\ OneBatch
  /\ DeletedIsEmpty
  /\ KeyTellsBatch

-----------------------------------------------------------------------------
(* Requests and the tags they collect. *)

LEMMA IdleIsFresh == NoRequest \in Request /\ Fresh(NoRequest)
  BY DEF NoRequest, Request, Ops, Fresh, FreshSave, FreshAoi, FreshActivate,
         FreshPatch

LEMMA MindsFacts ==
  /\ \A op \in Ops : Minds(op) \subseteq Overtakers
  /\ Minds("save") = {"aoi", "delete"}
  /\ Minds("delete_tasks") = {"activate"}
  /\ Minds("write_aoi") = {"activate"}
  /\ Minds("activate") = {"aoi", "patch", "role", "delete"}
  /\ Minds("patch") = {"activate", "close", "patch"}
  BY DEF Minds, Ops, Overtakers

LEMMA OvertakenFields ==
  ASSUME NEW r \in Request, NEW by
  PROVE  /\ Overtaken(r, by) \in Request
         /\ Overtaken(r, by).op = r.op
         /\ Overtaken(r, by).body = r.body
         /\ Overtaken(r, by).review = r.review
         /\ Overtaken(r, by).overtaken = r.overtaken \cup (Minds(r.op) \cap {by})
<1> DEFINE ov == r.overtaken \cup (Minds(r.op) \cap {by})
<1>1. Minds(r.op) \subseteq Overtakers
  BY MindsFacts DEF Request
<1>2. ov \in SUBSET Overtakers
  BY <1>1 DEF Request
<1>3. Overtaken(r, by) = [r EXCEPT !.overtaken = ov]
  BY DEF Overtaken, Request
<1> HIDE DEF ov
<1>4. /\ Overtaken(r, by) \in Request
      /\ Overtaken(r, by).op = r.op
      /\ Overtaken(r, by).body = r.body
      /\ Overtaken(r, by).review = r.review
      /\ Overtaken(r, by).overtaken = ov
  BY <1>2, <1>3 DEF Request
<1> QED
  BY <1>4 DEF ov

(* Requests stay fresh if a commit tags what it makes stale. *)
LEMMA CommitKeepsFresh ==
  ASSUME TypeOK, \A t \in Slots : Fresh(req[t]), NEW s \in Slots, NEW kind,
         Commits(s, kind),
         \A r \in Request : Fresh(r) => Fresh(Overtaken(r, kind))'
  PROVE  req' \in [Slots -> Request] /\ (\A t \in Slots : Fresh(req[t]))'
<1>1. \A t \in Slots : req[t] \in Request
  BY DEF TypeOK
<1>2. req' = [t \in Slots |-> IF t = s THEN NoRequest ELSE Overtaken(req[t], kind)]
  BY DEF Commits
<1>3. \A t \in Slots : req'[t] \in Request
  BY <1>1, <1>2, IdleIsFresh, OvertakenFields
<1>4. ASSUME NEW t \in Slots PROVE Fresh(req[t])'
  <2>1. CASE t = s
    <3>1. req'[t] = NoRequest
      BY <1>2, <2>1
    <3> QED
      BY <3>1 DEF NoRequest, Fresh, FreshSave, FreshAoi, FreshActivate, FreshPatch
  <2>2. CASE t # s
    <3>1. PICK r \in Request : r = req[t]
      BY <1>1
    <3>2. Fresh(r)
      BY <3>1
    <3>3. Fresh(Overtaken(r, kind))'
      BY <3>2
    <3>4. req'[t] = Overtaken(r, kind)
      BY <1>2, <2>2, <3>1
    <3> QED
      BY <3>3, <3>4 DEF Fresh, FreshSave, FreshAoi, FreshActivate, FreshPatch
  <2> QED
    BY <2>1, <2>2
<1> QED
  BY <1>2, <1>3, <1>4

-----------------------------------------------------------------------------
(* Init, and the steps in which one request moves and nothing is written. *)

LEMMA SetupInit == Init => SetupInv
<1> SUFFICES ASSUME Init PROVE SetupInv
  OBVIOUS
<1>1. TypeOK
  <2>1. req \in [Slots -> Request] /\ keyRow \in [Keys -> KeyRow \cup {NULL}]
    BY IdleIsFresh DEF Init
  <2>2. saves \in 0..MaxSaves /\ batches \in SUBSET Batch
    BY DEF Init
  <2> QED
    BY <2>1, <2>2 DEF Init, TypeOK
<1>2. \A s \in Slots : Fresh(req[s])
  BY IdleIsFresh DEF Init
<1>3. batches = {} /\ ~deleted
  BY DEF Init
<1> QED
  BY <1>1, <1>2, <1>3 DEF SetupInv, SavedFitsAoi, OneBatch, DeletedIsEmpty,
     KeyTellsBatch

LEMMA OwnMove ==
  ASSUME SetupInv, NEW s \in Slots, NEW r \in Request, Fresh(r),
         req' = [req EXCEPT ![s] = r], UNCHANGED dbVars
  PROVE  SetupInv'
<1>1. TypeOK'
  BY DEF SetupInv, TypeOK, dbVars, projectVars, taskVars
<1>2. ASSUME NEW t \in Slots PROVE Fresh(req[t])'
  <2>1. PICK q \in Request : q = req'[t] /\ Fresh(q)
    BY DEF SetupInv, TypeOK
  <2> QED
    BY <2>1 DEF Fresh, FreshSave, FreshAoi, FreshActivate, FreshPatch, Covered,
       SetUp, dbVars, projectVars, taskVars
<1>3. SavedFitsAoi' /\ OneBatch' /\ DeletedIsEmpty' /\ KeyTellsBatch'
  BY DEF SetupInv, SavedFitsAoi, OneBatch, DeletedIsEmpty, KeyTellsBatch,
     dbVars, projectVars, taskVars
<1> QED
  BY <1>1, <1>2, <1>3 DEF SetupInv

LEMMA PatchReads ==
  ASSUME SetupInv, NEW s \in Slots, NEW review \in BOOLEAN \cup {NULL},
         NEW name \in BOOLEAN \cup {NULL}, Patch(s, review, name)
  PROVE  SetupInv'
<1> DEFINE r == [NoRequest EXCEPT !.op = "patch", !.review = review, !.name = name]
<1>1. r \in Request /\ r.op = "patch" /\ r.review = review
  BY DEF NoRequest, Request, Ops
<1>2. Fresh(r)
  BY <1>1 DEF Fresh, FreshSave, FreshAoi, FreshActivate, FreshPatch, Patch, Patchable
<1> QED
  BY <1>1, <1>2, OwnMove DEF Patch, Begin

LEMMA AoiReads ==
  ASSUME SetupInv, NEW s \in Slots,
         (\E a \in Aois : UploadAoi(s, a)) \/ DeleteAoi(s)
  PROVE  SetupInv'
<1>1. CASE \E a \in Aois : UploadAoi(s, a)
  <2>1. PICK a \in Aois : UploadAoi(s, a)
    BY <1>1
  <2> DEFINE r == [NoRequest EXCEPT !.op = "delete_tasks", !.aoi = a]
  <2>2. r \in Request /\ r.op = "delete_tasks"
    BY DEF NoRequest, Request, Ops
  <2>3. Fresh(r)
    BY <2>1, <2>2 DEF Fresh, FreshSave, FreshAoi, FreshActivate, FreshPatch,
       UploadAoi, AoiMayChange, InDraft
  <2> QED
    BY <2>1, <2>2, <2>3, OwnMove DEF UploadAoi, Begin
<1>2. CASE DeleteAoi(s)
  <2> DEFINE r == [NoRequest EXCEPT !.op = "delete_tasks"]
  <2>2. r \in Request /\ r.op = "delete_tasks"
    BY DEF NoRequest, Request, Ops
  <2>3. Fresh(r)
    BY <1>2, <2>2 DEF Fresh, FreshSave, FreshAoi, FreshActivate, FreshPatch,
       DeleteAoi, AoiMayChange, InDraft
  <2> QED
    BY <1>2, <2>2, <2>3, OwnMove DEF DeleteAoi, Begin
<1> QED
  BY <1>1, <1>2

LEMMA SaveReads ==
  ASSUME SetupInv, NEW s \in Slots, NEW b \in Bodies, NEW k \in Keys \cup {NULL},
         Save(s, b, k)
  PROVE  SetupInv'
<1> DEFINE r == [NoRequest EXCEPT !.op = "save", !.body = b, !.key = k]
<1>1. r \in Request /\ r.op = "save" /\ r.body = b
  BY DEF NoRequest, Request, Ops
<1>2. Fresh(r)
  BY <1>1 DEF Fresh, FreshSave, FreshAoi, FreshActivate, FreshPatch, Save, InDraft,
     ProjectFound
<1> QED
  BY <1>1, <1>2, OwnMove DEF Save, Begin

LEMMA ActivateReads ==
  ASSUME SetupInv, NEW s \in Slots, Activate(s)
  PROVE  SetupInv'
<1> DEFINE r == [NoRequest EXCEPT !.op = "activate"]
<1>1. r \in Request /\ r.op = "activate"
  BY DEF NoRequest, Request, Ops
<1>2. Fresh(r)
  BY <1>1 DEF Fresh, FreshSave, FreshAoi, FreshActivate, FreshPatch, Activate,
     InDraft, ProjectFound
<1> QED
  BY <1>1, <1>2, OwnMove DEF Activate, Begin

LEMMA DeleteReads ==
  ASSUME SetupInv, NEW s \in Slots, SoftDelete(s)
  PROVE  SetupInv'
<1> DEFINE r == [NoRequest EXCEPT !.op = "soft_delete"]
<1>1. r \in Request /\ r.op = "soft_delete"
  BY DEF NoRequest, Request, Ops
<1>2. Fresh(r)
  BY <1>1 DEF Fresh, FreshSave, FreshAoi, FreshActivate, FreshPatch
<1> QED
  BY <1>1, <1>2, OwnMove DEF SoftDelete, Begin

LEMMA AbortStep ==
  ASSUME SetupInv, NEW s \in Slots, Abort(s)
  PROVE  SetupInv'
  BY IdleIsFresh, OwnMove DEF Abort

LEMMA DeleteTasksStep ==
  ASSUME SetupInv, NEW s \in Slots, DeleteTasks(s)
  PROVE  SetupInv'
<1> DEFINE r == [req[s] EXCEPT !.op = "write_aoi", !.wiped = batches]
<1>1. req[s] \in Request /\ batches \in SUBSET Batch /\ req \in [Slots -> Request]
  BY DEF SetupInv, TypeOK
<1>2. r \in Request /\ r.op = "write_aoi" /\ r.overtaken = req[s].overtaken
  BY <1>1 DEF Request, Ops
<1>3. req' = [req EXCEPT ![s] = r]
  BY <1>1 DEF DeleteTasks
<1>4. Fresh(r)
  BY <1>2 DEF SetupInv, Fresh, FreshSave, FreshAoi, FreshActivate, FreshPatch,
     DeleteTasks
<1> QED
  BY <1>2, <1>3, <1>4, OwnMove DEF DeleteTasks

-----------------------------------------------------------------------------
(* The commits. *)

LEMMA PatchStep ==
  ASSUME SetupInv, NEW s \in Slots, PatchCommit(s)
  PROVE  SetupInv'
<1>1. req[s] \in Request /\ req \in [Slots -> Request]
  BY DEF SetupInv, TypeOK
<1>2. UNCHANGED <<status, deleted, aoi, boundary, taskVars, workers>>
  BY DEF PatchCommit
<1>3. named' \in BOOLEAN /\ reviewRequired' \in BOOLEAN
  BY <1>1 DEF PatchCommit, Updated, SetupInv, TypeOK, Request
<1>4. ASSUME NEW r \in Request, Fresh(r) PROVE Fresh(Overtaken(r, "patch"))'
  <2> DEFINE q == Overtaken(r, "patch")
  <2>1. /\ q.op = r.op /\ q.body = r.body /\ q.review = r.review
        /\ q.overtaken = r.overtaken \cup (Minds(r.op) \cap {"patch"})
    BY OvertakenFields
  <2>2. q.op \in {"patch", "activate"} => q.overtaken # {}
    BY <2>1, MindsFacts
  <2>3. FreshSave(q)' /\ FreshAoi(q)'
    BY <1>2, <1>4, <2>1 DEF Fresh, FreshSave, FreshAoi, Covered
  <2>4. FreshActivate(q)' /\ FreshPatch(q)'
    BY <2>2 DEF FreshActivate, FreshPatch
  <2> QED
    BY <2>3, <2>4 DEF Fresh
<1>5. req' \in [Slots -> Request] /\ (\A t \in Slots : Fresh(req[t]))'
  BY <1>4, CommitKeepsFresh DEF SetupInv, PatchCommit
<1>6. TypeOK'
  BY <1>2, <1>3, <1>5 DEF SetupInv, TypeOK, taskVars
<1>7. SavedFitsAoi' /\ OneBatch' /\ DeletedIsEmpty' /\ KeyTellsBatch'
  BY <1>2 DEF SetupInv, SavedFitsAoi, OneBatch, DeletedIsEmpty, KeyTellsBatch,
     taskVars
<1> QED
  BY <1>5, <1>6, <1>7 DEF SetupInv

(* What a batch the wipe has missed becomes. *)
LEMMA WipeFacts ==
  ASSUME batches \in SUBSET Batch, NEW wiped
  PROVE  /\ Wipe(wiped) \in SUBSET Batch
         /\ \A b \in Wipe(wiped) :
              /\ "aoi" \in b.overtaken
              /\ \E c \in batches :
                   /\ b.id = c.id /\ b.body = c.body /\ b.key = c.key
                   /\ b.overtaken = c.overtaken \cup {"aoi"}
                   /\ b = [c EXCEPT !.overtaken = @ \cup {"aoi"}]
<1>1. ASSUME NEW c \in batches, NEW b, b = [c EXCEPT !.overtaken = @ \cup {"aoi"}]
      PROVE  /\ b \in Batch
             /\ b.id = c.id /\ b.body = c.body /\ b.key = c.key
             /\ b.overtaken = c.overtaken \cup {"aoi"}
  <2> DEFINE ov == c.overtaken \cup {"aoi"}
  <2>1. c \in Batch /\ ov \in SUBSET Overtakers
    BY DEF Batch, Overtakers
  <2>2. b = [c EXCEPT !.overtaken = ov]
    BY <1>1, <2>1 DEF Batch
  <2> HIDE DEF ov
  <2>3. b \in Batch /\ b.id = c.id /\ b.body = c.body /\ b.key = c.key
          /\ b.overtaken = ov
    BY <2>1, <2>2 DEF Batch
  <2> QED
    BY <2>3 DEF ov
<1>2. \A b \in Wipe(wiped) :
        \E c \in batches : b = [c EXCEPT !.overtaken = @ \cup {"aoi"}]
  BY DEF Wipe
<1> QED
  BY <1>1, <1>2

LEMMA WriteAoiStep ==
  ASSUME SetupInv, NEW s \in Slots, WriteAoi(s)
  PROVE  SetupInv'
<1>1. req[s] \in Request /\ batches \in SUBSET Batch /\ req \in [Slots -> Request]
  BY DEF SetupInv, TypeOK
<1>2. /\ batches' = Wipe(req[s].wiped) /\ aoi' = req[s].aoi /\ boundary' = NULL
      /\ UNCHANGED <<status, deleted, named, reviewRequired, saves, keyRow,
                     workers>>
      /\ Commits(s, "aoi")
  BY DEF WriteAoi
<1>3. ASSUME NEW r \in Request, Fresh(r) PROVE Fresh(Overtaken(r, "aoi"))'
  BY <1>2, <1>3, OvertakenFields, MindsFacts
     DEF Fresh, FreshSave, FreshAoi, FreshActivate, FreshPatch, Covered, SetUp
<1>4. req' \in [Slots -> Request] /\ (\A t \in Slots : Fresh(req[t]))'
  BY <1>2, <1>3, CommitKeepsFresh DEF SetupInv
<1>5. batches' \in SUBSET Batch
  BY <1>1, <1>2, WipeFacts
<1>6. TypeOK'
  BY <1>1, <1>2, <1>4, <1>5 DEF SetupInv, TypeOK, Request
<1>7. SavedFitsAoi'
  BY <1>1, <1>2, WipeFacts DEF SavedFitsAoi
<1>8. OneBatch'
  <2> SUFFICES ASSUME NEW b \in batches', NEW c \in batches' PROVE b = c
    BY DEF OneBatch
  <2>1. PICK b0 \in batches : b = [b0 EXCEPT !.overtaken = @ \cup {"aoi"}]
    BY <1>1, <1>2, WipeFacts
  <2>2. PICK c0 \in batches : c = [c0 EXCEPT !.overtaken = @ \cup {"aoi"}]
    BY <1>1, <1>2, WipeFacts
  <2>3. b0 = c0
    BY DEF SetupInv, OneBatch
  <2> QED
    BY <2>1, <2>2, <2>3
<1>9. DeletedIsEmpty'
  BY <1>1, <1>2, WipeFacts DEF SetupInv, DeletedIsEmpty
<1>10. KeyTellsBatch'
  <2> SUFFICES ASSUME NEW b \in batches', b.key \in Keys
               PROVE  keyRow[b.key] = [body |-> b.body, batch |-> b.id]
    BY <1>2 DEF KeyTellsBatch
  <2>1. PICK c \in batches : b.id = c.id /\ b.body = c.body /\ b.key = c.key
    BY <1>1, <1>2, WipeFacts
  <2> QED
    BY <2>1 DEF SetupInv, KeyTellsBatch
<1> QED
  BY <1>4, <1>6, <1>7, <1>8, <1>9, <1>10 DEF SetupInv

(* What the insert of a save adds. *)
LEMMA SaveFacts ==
  ASSUME SetupInv, NEW s \in Slots, SaveCommit(s)
  PROVE  /\ req[s] \in Request /\ req[s].body \in Bodies
         /\ batches = {} /\ saves + 1 \in Ids
         /\ batches' = {[id |-> saves + 1, body |-> req[s].body, key |-> req[s].key,
                         overtaken |-> req[s].overtaken]}
         /\ req[s].key \in Keys => keyRow[req[s].key] = NULL
         /\ \A k \in Keys : keyRow'[k] = IF k = req[s].key
                                         THEN [body |-> req[s].body,
                                               batch |-> saves + 1]
                                         ELSE keyRow[k]
<1>1. req[s] \in Request /\ saves \in 0..MaxSaves
  BY DEF SetupInv, TypeOK
<1>2. req[s].body \in Bodies
  BY DEF SetupInv, Fresh, FreshSave, SaveCommit
<1>3. batches = {} /\ (req[s].key \in Keys => keyRow[req[s].key] = NULL)
  BY DEF SaveCommit, Insertable
<1>4. saves + 1 \in Ids
  BY <1>1 DEF SaveCommit, Ids
<1> QED
  BY <1>1, <1>2, <1>3, <1>4 DEF SaveCommit

LEMMA SaveStep ==
  ASSUME SetupInv, NEW s \in Slots, SaveCommit(s)
  PROVE  SetupInv'
<1> DEFINE new == [id |-> saves + 1, body |-> req[s].body, key |-> req[s].key,
                   overtaken |-> req[s].overtaken]
<1>1. /\ req[s] \in Request /\ req[s].body \in Bodies /\ saves + 1 \in Ids
      /\ batches = {} /\ batches' = {new}
  BY SaveFacts
<1>2. /\ boundary' = SourceOf[req[s].body] /\ saves' = saves + 1
      /\ UNCHANGED <<status, deleted, named, reviewRequired, aoi, workers>>
      /\ Commits(s, "save")
  BY DEF SaveCommit
<1>3. new \in Batch
  BY <1>1 DEF Batch, Request
<1>4. ASSUME NEW r \in Request, Fresh(r) PROVE Fresh(Overtaken(r, "save"))'
  BY <1>1, <1>2, <1>4, OvertakenFields, MindsFacts
     DEF Fresh, FreshSave, FreshAoi, FreshActivate, FreshPatch, Covered, SetUp
<1>5. req' \in [Slots -> Request] /\ (\A t \in Slots : Fresh(req[t]))'
  BY <1>2, <1>4, CommitKeepsFresh DEF SetupInv
<1>6. keyRow' \in [Keys -> KeyRow \cup {NULL}]
  BY <1>1 DEF SaveCommit, SetupInv, TypeOK, KeyRow
<1>7. TypeOK'
  <2>1. boundary' \in Sources \cup {NULL} /\ saves' \in 0..MaxSaves
    BY <1>1, <1>2 DEF Ids, Sources
  <2> QED
    BY <1>1, <1>2, <1>3, <1>5, <1>6, <2>1 DEF SetupInv, TypeOK
<1>8. new.body = req[s].body /\ new.overtaken = req[s].overtaken
        /\ new.key = req[s].key /\ new.id = saves + 1
  OBVIOUS
<1>9. FreshSave(req[s]) /\ req[s].op = "save"
  BY DEF SetupInv, Fresh, SaveCommit
<1> HIDE DEF new
<1>10. SavedFitsAoi'
  BY <1>1, <1>2, <1>8, <1>9 DEF SavedFitsAoi, FreshSave, Covered
<1>11. OneBatch'
  BY <1>1 DEF OneBatch
<1>12. DeletedIsEmpty'
  BY <1>1, <1>2, <1>8, <1>9 DEF DeletedIsEmpty, FreshSave
<1>13. KeyTellsBatch'
  BY <1>1, <1>8, SaveFacts DEF KeyTellsBatch
<1> QED
  BY <1>5, <1>7, <1>10, <1>11, <1>12, <1>13 DEF SetupInv

LEMMA ActivateStep ==
  ASSUME SetupInv, NEW s \in Slots, ActivateCommit(s)
  PROVE  SetupInv'
<1>1. /\ status' = "open"
      /\ UNCHANGED <<deleted, named, reviewRequired, aoi, boundary, taskVars, workers>>
      /\ Commits(s, "activate")
  BY DEF ActivateCommit
<1>2. ASSUME NEW r \in Request, Fresh(r) PROVE Fresh(Overtaken(r, "activate"))'
  BY <1>1, <1>2, OvertakenFields, MindsFacts
     DEF Fresh, FreshSave, FreshAoi, FreshActivate, FreshPatch, Covered, SetUp,
         taskVars
<1>3. req' \in [Slots -> Request] /\ (\A t \in Slots : Fresh(req[t]))'
  BY <1>1, <1>2, CommitKeepsFresh DEF SetupInv
<1>4. TypeOK'
  BY <1>1, <1>3 DEF SetupInv, TypeOK, taskVars
<1>5. SavedFitsAoi' /\ OneBatch' /\ DeletedIsEmpty' /\ KeyTellsBatch'
  BY <1>1 DEF SetupInv, SavedFitsAoi, OneBatch, DeletedIsEmpty, KeyTellsBatch,
     taskVars
<1> QED
  BY <1>3, <1>4, <1>5 DEF SetupInv

LEMMA SoftDeleteStep ==
  ASSUME SetupInv, NEW s \in Slots, SoftDeleteCommit(s)
  PROVE  SetupInv'
<1>1. /\ deleted' = TRUE /\ batches' = {}
      /\ UNCHANGED <<status, named, reviewRequired, aoi, boundary, saves, keyRow,
                     workers>>
      /\ Commits(s, "delete")
  BY DEF SoftDeleteCommit, KeptTasks
<1>2. ASSUME NEW r \in Request, Fresh(r) PROVE Fresh(Overtaken(r, "delete"))'
  BY <1>1, <1>2, OvertakenFields, MindsFacts
     DEF Fresh, FreshSave, FreshAoi, FreshActivate, FreshPatch, Covered, SetUp
<1>3. req' \in [Slots -> Request] /\ (\A t \in Slots : Fresh(req[t]))'
  BY <1>1, <1>2, CommitKeepsFresh DEF SetupInv
<1>4. TypeOK'
  BY <1>1, <1>3 DEF SetupInv, TypeOK
<1>5. SavedFitsAoi' /\ OneBatch' /\ DeletedIsEmpty' /\ KeyTellsBatch'
  BY <1>1 DEF SavedFitsAoi, OneBatch, DeletedIsEmpty, KeyTellsBatch
<1> QED
  BY <1>3, <1>4, <1>5 DEF SetupInv

(* A step of somebody outside the slots that writes nothing the batches are *)
(* told by, and tags what it makes stale.                                   *)
LEMMA OtherMove ==
  ASSUME SetupInv, NEW kind, Overtake(kind),
         \A r \in Request : Fresh(r) => Fresh(Overtaken(r, kind))',
         status' \in {"draft", "open", "done"}, workers' \in BOOLEAN,
         UNCHANGED <<deleted, named, reviewRequired, aoi, boundary, taskVars>>
  PROVE  SetupInv'
<1>1. \A t \in Slots : req[t] \in Request
  BY DEF SetupInv, TypeOK
<1>2. req' = [t \in Slots |-> Overtaken(req[t], kind)]
  BY DEF Overtake
<1>3. req' \in [Slots -> Request]
  BY <1>1, <1>2, OvertakenFields
<1>4. ASSUME NEW t \in Slots PROVE Fresh(req[t])'
  <2>1. PICK r \in Request : r = req[t] /\ Fresh(r)
    BY <1>1 DEF SetupInv
  <2>2. Fresh(Overtaken(r, kind))' /\ req'[t] = Overtaken(r, kind)
    BY <1>2, <2>1
  <2> QED
    BY <2>2 DEF Fresh, FreshSave, FreshAoi, FreshActivate, FreshPatch
<1>5. TypeOK'
  BY <1>3 DEF SetupInv, TypeOK, taskVars
<1>6. SavedFitsAoi' /\ OneBatch' /\ DeletedIsEmpty' /\ KeyTellsBatch'
  BY DEF SetupInv, SavedFitsAoi, OneBatch, DeletedIsEmpty, KeyTellsBatch, taskVars
<1> QED
  BY <1>4, <1>5, <1>6 DEF SetupInv

LEMMA OthersStep ==
  ASSUME SetupInv, Others
  PROVE  SetupInv'
<1>1. CASE AllocateWorkers
  <2>1. ASSUME NEW r \in Request, Fresh(r) PROVE Fresh(Overtaken(r, "role"))'
    BY <1>1, <2>1, OvertakenFields, MindsFacts
       DEF Fresh, FreshSave, FreshAoi, FreshActivate, FreshPatch, Covered, SetUp,
           AllocateWorkers, projectVars, taskVars
  <2>2. status' \in {"draft", "open", "done"} /\ workers' \in BOOLEAN
    BY <1>1 DEF AllocateWorkers, projectVars, SetupInv, TypeOK
  <2> QED
    BY <1>1, <2>1, <2>2, OtherMove DEF AllocateWorkers, projectVars
<1>2. CASE Close
  <2>1. ASSUME NEW r \in Request, Fresh(r) PROVE Fresh(Overtaken(r, "close"))'
    BY <1>2, <2>1, OvertakenFields, MindsFacts
       DEF Fresh, FreshSave, FreshAoi, FreshActivate, FreshPatch, Covered, SetUp,
           Close, taskVars
  <2>2. status' \in {"draft", "open", "done"} /\ workers' \in BOOLEAN
    BY <1>2 DEF Close, SetupInv, TypeOK
  <2> QED
    BY <1>2, <2>1, <2>2, OtherMove DEF Close
<1>3. CASE Reset
  <2>1. /\ status # "draft" /\ status' \in {status, "open"}
        /\ UNCHANGED <<deleted, named, reviewRequired, aoi, boundary, batches,
                       saves, keyRow, workers, req>>
    BY <1>3 DEF Reset, taskVars
  <2>2. (\A t \in Slots : Fresh(req[t]))'
    BY <2>1 DEF SetupInv, Fresh, FreshSave, FreshAoi, FreshActivate, FreshPatch,
       Covered, SetUp
  <2> QED
    BY <2>1, <2>2 DEF SetupInv, TypeOK, SavedFitsAoi, OneBatch, DeletedIsEmpty,
       KeyTellsBatch
<1> QED
  BY <1>1, <1>2, <1>3 DEF Others

LEMMA ReadStep ==
  ASSUME SetupInv, NEW s \in Slots, Read(s)
  PROVE  SetupInv'
  BY PatchReads, AoiReads, SaveReads, ActivateReads, DeleteReads DEF Read

LEMMA WriteStep ==
  ASSUME SetupInv, NEW s \in Slots, Write(s)
  PROVE  SetupInv'
  BY PatchStep, DeleteTasksStep, WriteAoiStep, SaveStep, ActivateStep,
     SoftDeleteStep DEF Write

LEMMA SetupNext == SetupInv /\ [Next]_vars => SetupInv'
<1> SUFFICES ASSUME SetupInv, [Next]_vars PROVE SetupInv'
  OBVIOUS
<1>1. CASE \E s \in Slots : Read(s) \/ Write(s) \/ Abort(s)
  BY <1>1, ReadStep, WriteStep, AbortStep
<1>2. CASE Others
  BY <1>2, OthersStep
<1>3. CASE UNCHANGED vars
  BY <1>3 DEF vars, SetupInv, TypeOK, SavedFitsAoi, OneBatch, DeletedIsEmpty,
     KeyTellsBatch, Fresh, FreshSave, FreshAoi, FreshActivate, FreshPatch,
     Covered, SetUp
<1> QED
  BY <1>1, <1>2, <1>3 DEF Next

-----------------------------------------------------------------------------

(* SetupInv: what a request in flight has read still holds unless it is      *)
(* tagged otherwise, for every handler of a project that is set up.          *)
THEOREM SetupSafety == Spec => []SetupInv
  BY SetupInit, SetupNext, PTL DEF Spec

(* Every variable of ProjectSetup keeps its type. *)
THEOREM SetupTypeCorrect == Spec => []TypeOK
<1>1. SetupInv => TypeOK
  BY DEF SetupInv
<1> QED
  BY <1>1, SetupSafety, PTL

(* The saved tasks fit the AOI and its source, however save and upload_aoi   *)
(* overlap, unless one overtook the other.                                   *)
THEOREM SavedTasksFit == Spec => []SavedFitsAoi
<1>1. SetupInv => SavedFitsAoi
  BY DEF SetupInv
<1> QED
  BY <1>1, SetupSafety, PTL

(* However saves overlap, a project never holds the tasks of two of them.    *)
THEOREM SavedOnce == Spec => []OneBatch
<1>1. SetupInv => OneBatch
  BY DEF SetupInv
<1> QED
  BY <1>1, SetupSafety, PTL

(* soft_delete leaves no tasks, unless it overtook a save.                   *)
THEOREM DeletedEmpty == Spec => []DeletedIsEmpty
<1>1. SetupInv => DeletedIsEmpty
  BY DEF SetupInv
<1> QED
  BY <1>1, SetupSafety, PTL

-----------------------------------------------------------------------------
(* Action properties: first, who writes what. *)

LEMMA WhoWrites ==
  ASSUME [Next]_vars
  PROVE  /\ \/ batches' = batches /\ keyRow' = keyRow
            \/ \E s \in Slots : WriteAoi(s) \/ SaveCommit(s) \/ SoftDeleteCommit(s)
         /\ \/ status' = status
            \/ \E s \in Slots : ActivateCommit(s)
            \/ Close \/ Reset
         /\ \/ named' = named /\ reviewRequired' = reviewRequired
            \/ \E s \in Slots : PatchCommit(s)
<1>1. ASSUME NEW s \in Slots, Read(s) PROVE UNCHANGED dbVars
  BY <1>1 DEF Read, Patch, UploadAoi, DeleteAoi, Save, Activate, SoftDelete, Begin
<1>2. ASSUME NEW s \in Slots, DeleteTasks(s) \/ Abort(s) PROVE UNCHANGED dbVars
  BY <1>2 DEF DeleteTasks, Abort
<1>3. CASE \E s \in Slots : Read(s) \/ DeleteTasks(s) \/ Abort(s)
  BY <1>1, <1>2, <1>3 DEF dbVars, projectVars, taskVars
<1>4. CASE \E s \in Slots : PatchCommit(s)
  BY <1>4 DEF PatchCommit, taskVars
<1>5. CASE \E s \in Slots : WriteAoi(s)
  BY <1>5 DEF WriteAoi
<1>6. CASE \E s \in Slots : SaveCommit(s)
  BY <1>6 DEF SaveCommit
<1>7. CASE \E s \in Slots : ActivateCommit(s)
  BY <1>7 DEF ActivateCommit, taskVars
<1>8. CASE \E s \in Slots : SoftDeleteCommit(s)
  BY <1>8 DEF SoftDeleteCommit
<1>9. CASE Others
  BY <1>9 DEF Others, AllocateWorkers, Close, Reset, projectVars, taskVars
<1>10. CASE UNCHANGED vars
  BY <1>10 DEF vars
<1> QED
  BY <1>3, <1>4, <1>5, <1>6, <1>7, <1>8, <1>9, <1>10 DEF Next, Write

LEMMA CommitIdles ==
  ASSUME NEW s \in Slots, NEW kind, Commits(s, kind)
  PROVE  req'[s] = NoRequest
  BY DEF Commits

(* A retried save inserts nothing twice, whatever overlaps it.               *)
THEOREM RetriesInsertNothing == Spec => RetryInsertsNothing
<1>1. SetupInv /\ [Next]_vars
        => [\A k \in Keys : keyRow[k] # NULL =>
              /\ keyRow'[k] = keyRow[k]
              /\ \A b \in batches' : b.key = k => b.id = keyRow[k].batch]_vars
  <2> SUFFICES ASSUME SetupInv, [Next]_vars, NEW k \in Keys, keyRow[k] # NULL
               PROVE  /\ keyRow'[k] = keyRow[k]
                      /\ \A b \in batches' : b.key = k => b.id = keyRow[k].batch
    OBVIOUS
  <2>1. ASSUME NEW b \in batches, b.key = k PROVE b.id = keyRow[k].batch
    <3>1. keyRow[k] = [body |-> b.body, batch |-> b.id]
      BY <2>1 DEF SetupInv, KeyTellsBatch
    <3> QED
      BY <3>1
  <2>2. CASE batches' = batches /\ keyRow' = keyRow
    BY <2>1, <2>2
  <2>3. CASE \E s \in Slots : WriteAoi(s)
    <3>1. PICK s \in Slots : WriteAoi(s)
      BY <2>3
    <3>2. keyRow' = keyRow /\ batches' = Wipe(req[s].wiped) /\ batches \in SUBSET Batch
      BY <3>1 DEF WriteAoi, SetupInv, TypeOK
    <3> QED
      BY <2>1, <3>2, WipeFacts
  <2>4. CASE \E s \in Slots : SaveCommit(s)
    <3>1. PICK s \in Slots : SaveCommit(s)
      BY <2>4
    <3>2. k # req[s].key /\ keyRow'[k] = keyRow[k]
      BY <3>1, SaveFacts
    <3>3. ASSUME NEW b \in batches' PROVE b.key = req[s].key
      <4>1. b = [id |-> saves + 1, body |-> req[s].body, key |-> req[s].key,
                 overtaken |-> req[s].overtaken]
        BY <3>1, SaveFacts
      <4> QED
        BY <4>1
    <3> QED
      BY <3>2, <3>3
  <2>5. CASE \E s \in Slots : SoftDeleteCommit(s)
    BY <2>5 DEF SoftDeleteCommit, KeptTasks
  <2> QED
    BY <2>2, <2>3, <2>4, <2>5, WhoWrites
<1> QED
  BY <1>1, SetupSafety, PTL DEF Spec, RetryInsertsNothing

(* A project opens with all activate asks for, unless that was overtaken.    *)
THEOREM OpensSetUp == Spec => OpenedSetUp
<1>1. SetupInv /\ [Next]_vars
        => [status = "draft" /\ status' = "open" =>
              \/ named' /\ aoi' # NULL /\ batches' # {} /\ workers' /\ ~deleted'
              \/ \E s \in Slots : EndsOvertaken(s, "activate", Overtakers)]_vars
  <2> SUFFICES ASSUME SetupInv, [Next]_vars, status = "draft", status' = "open"
               PROVE  \/ named' /\ aoi' # NULL /\ batches' # {} /\ workers' /\ ~deleted'
                      \/ \E s \in Slots : EndsOvertaken(s, "activate", Overtakers)
    OBVIOUS
  <2>1. PICK s \in Slots : ActivateCommit(s)
    BY WhoWrites DEF Close, Reset
  <2>2. FreshActivate(req[s]) /\ req[s].op = "activate" /\ req[s] \in Request
    BY <2>1 DEF SetupInv, TypeOK, Fresh, ActivateCommit
  <2>3. CASE req[s].overtaken # {}
    <3>1. req[s].overtaken \cap Overtakers # {}
      BY <2>2, <2>3 DEF Request
    <3> QED
      BY <2>1, <2>2, <3>1, CommitIdles DEF EndsOvertaken, ActivateCommit
  <2>4. CASE SetUp /\ ~deleted
    BY <2>1, <2>4 DEF SetUp, ActivateCommit, taskVars
  <2> QED
    BY <2>2, <2>3, <2>4 DEF FreshActivate
<1> QED
  BY <1>1, SetupSafety, PTL DEF Spec, OpenedSetUp

(* Mapped tasks go only with the project, or by an overtaken AOI request.    *)
THEOREM WorkKept == Spec => WorkIsKept
<1>1. SetupInv /\ [Next]_vars
        => [/\ status # "draft"
            /\ \E b \in batches : \A c \in batches' : c.id # b.id
            => \/ deleted'
               \/ \E s \in Slots : EndsOvertaken(s, "write_aoi", {"activate"})]_vars
  <2> SUFFICES ASSUME SetupInv, [Next]_vars, status # "draft",
                      NEW b \in batches, \A c \in batches' : c.id # b.id
               PROVE  \/ deleted'
                      \/ \E s \in Slots : EndsOvertaken(s, "write_aoi", {"activate"})
    OBVIOUS
  <2>1. CASE batches' = batches
    BY <2>1
  <2>2. CASE \E s \in Slots : WriteAoi(s)
    <3>1. PICK s \in Slots : WriteAoi(s)
      BY <2>2
    <3>2. req[s].op = "write_aoi" /\ FreshAoi(req[s])
      BY <3>1 DEF SetupInv, Fresh, WriteAoi
    <3>3. "activate" \in req[s].overtaken
      BY <3>2 DEF FreshAoi
    <3> QED
      BY <3>1, <3>2, <3>3, CommitIdles DEF EndsOvertaken, WriteAoi
  <2>3. CASE \E s \in Slots : SaveCommit(s)
    BY <2>3, SaveFacts
  <2>4. CASE \E s \in Slots : SoftDeleteCommit(s)
    BY <2>4 DEF SoftDeleteCommit
  <2> QED
    BY <2>1, <2>2, <2>3, <2>4, WhoWrites
<1> QED
  BY <1>1, SetupSafety, PTL DEF Spec, WorkIsKept

(* Settings that are to stand change only by an overtaken patch.             *)
THEOREM SettingsStay == Spec => SettingsStand
<1>1. SetupInv /\ [Next]_vars
        => [\/ status # "draft" /\ reviewRequired' # reviewRequired
            \/ status = "done" /\ named' # named
            => \E s \in Slots : EndsOvertaken(s, "patch", Overtakers)]_vars
  <2> SUFFICES ASSUME SetupInv, [Next]_vars,
                      \/ status # "draft" /\ reviewRequired' # reviewRequired
                      \/ status = "done" /\ named' # named
               PROVE  \E s \in Slots : EndsOvertaken(s, "patch", Overtakers)
    OBVIOUS
  <2>1. PICK s \in Slots : PatchCommit(s)
    BY WhoWrites
  <2>2. FreshPatch(req[s]) /\ req[s].op = "patch" /\ req[s] \in Request
    BY <2>1 DEF SetupInv, TypeOK, Fresh, PatchCommit
  <2>3. req[s].overtaken # {}
    BY <2>1, <2>2 DEF FreshPatch, PatchCommit, Updated
  <2>4. req[s].overtaken \cap Overtakers # {}
    BY <2>2, <2>3 DEF Request
  <2> QED
    BY <2>1, <2>2, <2>4, CommitIdles DEF EndsOvertaken, PatchCommit
<1> QED
  BY <1>1, SetupSafety, PTL DEF Spec, SettingsStand
=============================================================================

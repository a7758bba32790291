------------------------ MODULE UserInfoCache_proofs ------------------------
(***************************************************************************)
(* Proofs about UserInfoCache, for any number of tokens and of requests in *)
(* flight: the types, and that races are the only way to a stale           *)
(* permission or to a cached token the OSM database does not accept.       *)
(***************************************************************************)
EXTENDS UserInfoCache, TLAPS

USE NullIsNoToken

(* What a request in flight remembers: its token, and the one it drops. *)
Shape(r) ==
  /\ r.op \notin {"none", "evict"} => r.token \in Tokens
  /\ r.op = "revoke" => r.old \in Tokens

(* A validation past its reads holds the role as it is, or was overtaken. *)
ReadHolds(r) ==
  r.op \in {"mirror", "store"} /\ r.role # role => "role" \in r.overtaken

(* A validation about to store has its token live, or was overtaken. *)
MirrorHolds(r) ==
  r.op = "store" /\ osmToken[r.token] # "active" => "token" \in r.overtaken

CacheInv ==
  /\ TypeOK
  /\ \A s \in Slots : Shape(req[s]) /\ ReadHolds(req[s]) /\ MirrorHolds(req[s])
  /\ StaleOnlyByRace
  /\ CutOffOnlyByRace

LEMMA CacheInit == Init => CacheInv
  BY DEF Init, CacheInv, TypeOK, Request, NoRequest, Ops, RoleRow, NoEntry,
         Shape, ReadHolds, MirrorHolds, StaleOnlyByRace, CutOffOnlyByRace, Cached

(* What a cached entry is. *)
LEMMA EntryFacts ==
  ASSUME TypeOK, Cached
  PROVE  cache \in Entry /\ cache.token \in Tokens
  BY DEF TypeOK, Cached, Entry

(* Setting one field of a request. *)
LEMMA SetOp ==
  ASSUME NEW r \in Request, NEW o \in Ops, NEW q, q = [r EXCEPT !.op = o]
  PROVE  /\ q \in Request /\ q.op = o /\ q.token = r.token /\ q.old = r.old
         /\ q.role = r.role /\ q.overtaken = r.overtaken
  BY DEF Request

LEMMA SetOvertaken ==
  ASSUME NEW r \in Request, NEW ov \in SUBSET {"role", "token"},
         NEW q, q = [r EXCEPT !.overtaken = ov]
  PROVE  /\ q \in Request /\ q.op = r.op /\ q.token = r.token /\ q.old = r.old
         /\ q.role = r.role /\ q.overtaken = ov
  BY DEF Request

-----------------------------------------------------------------------------
(* The steps of a validation. *)

(* A step in which only slot s moves, and no row is written or entry stored. *)
LEMMA OwnMove ==
  ASSUME CacheInv, NEW s \in Slots, NEW r \in Request,
         Shape(r), ReadHolds(r), MirrorHolds(r),
         req[s].op \notin {"drop", "evict"},
         req' = [req EXCEPT ![s] = r], UNCHANGED <<role, cache, osmToken>>
  PROVE  CacheInv'
<1>1. TypeOK'
  BY DEF CacheInv, TypeOK
<1>2. \A x \in Slots : req'[x] = IF x = s THEN r ELSE req[x]
  BY DEF CacheInv, TypeOK
<1>3. \A x \in Slots : (Shape(req[x]) /\ ReadHolds(req[x]) /\ MirrorHolds(req[x]))'
  BY <1>2 DEF CacheInv, Shape, ReadHolds, MirrorHolds
<1>4. \A x \in Slots : req[x].op \in {"drop", "evict"} => req'[x] = req[x]
  BY <1>2
<1>5. StaleOnlyByRace' /\ CutOffOnlyByRace'
  BY <1>4 DEF CacheInv, StaleOnlyByRace, CutOffOnlyByRace, Cached
<1> QED
  BY <1>1, <1>3, <1>5 DEF CacheInv

LEMMA IdleFits ==
  NoRequest \in Request /\ Shape(NoRequest) /\ ReadHolds(NoRequest)
    /\ MirrorHolds(NoRequest)
  BY DEF NoRequest, Request, Ops, RoleRow, Shape, ReadHolds, MirrorHolds

LEMMA StartStep ==
  ASSUME CacheInv, NEW s \in Slots, NEW k \in Tokens,
         CacheMiss(s, k) \/ Rotated(s, k)
  PROVE  CacheInv'
<1>1. req[s].op = "none"
  BY DEF CacheMiss, Rotated, Idle, NoRequest
<1>2. CASE CacheMiss(s, k)
  <2> DEFINE r == [NoRequest EXCEPT !.op = "fetch", !.token = k]
  <2>1. r \in Request /\ Shape(r) /\ ReadHolds(r) /\ MirrorHolds(r)
    BY DEF NoRequest, Request, Ops, RoleRow, Shape, ReadHolds, MirrorHolds
  <2>2. req' = [req EXCEPT ![s] = r] /\ UNCHANGED <<role, cache, osmToken>>
    BY <1>2 DEF CacheMiss
  <2> QED
    BY <1>1, <2>1, <2>2, OwnMove
<1>3. CASE Rotated(s, k)
  <2> DEFINE r == [NoRequest EXCEPT !.op = "revoke", !.token = k, !.old = cache.token]
  <2>1. cache.token \in Tokens
    BY <1>3, EntryFacts DEF CacheInv, Rotated
  <2>2. r \in Request /\ Shape(r) /\ ReadHolds(r) /\ MirrorHolds(r)
    BY <2>1 DEF NoRequest, Request, Ops, RoleRow, Shape, ReadHolds, MirrorHolds
  <2>3. req' = [req EXCEPT ![s] = r] /\ UNCHANGED <<role, cache, osmToken>>
    BY <1>3 DEF Rotated
  <2> QED
    BY <1>1, <2>2, <2>3, OwnMove
<1> QED
  BY <1>2, <1>3

LEMMA RevokeStep ==
  ASSUME CacheInv, NEW s \in Slots, RevokeOld(s) \/ RevokeFails(s)
  PROVE  CacheInv'
<1>1. req[s].op = "revoke" /\ req[s].old \in Tokens /\ req[s].token \in Tokens
  BY DEF RevokeOld, RevokeFails, CacheInv, Shape
<1>2. req[s] \in Request /\ req \in [Slots -> Request]
  BY DEF CacheInv, TypeOK
<1>3. UNCHANGED <<role, cache>>
  BY DEF RevokeOld, RevokeFails
<1>4. osmToken' \in [Tokens -> {"none", "active", "revoked"}]
  BY <1>1 DEF RevokeOld, RevokeFails, CacheInv, TypeOK
<1>5. PICK w \in {"token", "none"} :
        /\ MovesTo(s, "drop", w)
        /\ w = "none" => osmToken' = osmToken
        /\ \A k \in Tokens \ {req[s].old} : osmToken'[k] = osmToken[k]
  BY <1>1 DEF RevokeOld, RevokeFails, CacheInv, TypeOK
<1>6. req'[s] = [req[s] EXCEPT !.op = "drop"]
  BY <1>5 DEF MovesTo
<1>7. ASSUME NEW x \in Slots, x # s
      PROVE  req'[x] = [req[x] EXCEPT !.overtaken = OvertakenBy(s, w, x)]
  BY <1>5, <1>7 DEF MovesTo
<1>8. ASSUME NEW x \in Slots
      PROVE  OvertakenBy(s, w, x) \in SUBSET {"role", "token"}
             /\ req[x].overtaken \subseteq OvertakenBy(s, w, x)
  BY <1>2, <1>5 DEF OvertakenBy, Request
<1>o. ASSUME NEW x \in Slots, x # s
      PROVE  /\ req'[x] \in Request
             /\ req'[x].op = req[x].op /\ req'[x].token = req[x].token
             /\ req'[x].old = req[x].old /\ req'[x].role = req[x].role
             /\ req'[x].overtaken = OvertakenBy(s, w, x)
  <2> DEFINE ov == OvertakenBy(s, w, x)
  <2>1. req'[x] = [req[x] EXCEPT !.overtaken = ov]
    BY <1>7, <1>o
  <2>2. req[x] \in Request /\ ov \in SUBSET {"role", "token"}
    BY <1>2, <1>8
  <2> HIDE DEF ov
  <2>3. /\ req'[x] \in Request
        /\ req'[x].op = req[x].op /\ req'[x].token = req[x].token
        /\ req'[x].old = req[x].old /\ req'[x].role = req[x].role
        /\ req'[x].overtaken = ov
    BY <2>1, <2>2, SetOvertaken, SMTT(30)
  <2> QED
    BY <2>3 DEF ov
<1>9. req' \in [Slots -> Request]
  <2>1. req'[s] \in Request
    BY <1>2, <1>6, SetOp DEF Ops
  <2>2. \A x \in Slots : req'[x] \in Request
    BY <1>o, <2>1
  <2> QED
    BY <1>5, <2>2 DEF MovesTo
<1>10. ASSUME NEW x \in Slots
       PROVE  (Shape(req[x]) /\ ReadHolds(req[x]) /\ MirrorHolds(req[x]))'
  <2>1. CASE x = s
    BY <1>1, <1>2, <1>6, <2>1 DEF Shape, ReadHolds, MirrorHolds, Request
  <2>2. CASE x # s
    <3>1. /\ req'[x].op = req[x].op /\ req'[x].token = req[x].token
          /\ req'[x].old = req[x].old /\ req'[x].role = req[x].role
          /\ req'[x].overtaken = OvertakenBy(s, w, x)
      BY <1>o, <2>2
    <3>2. Shape(req[x])' /\ ReadHolds(req[x])'
      BY <1>3, <1>8, <3>1 DEF CacheInv, Shape, ReadHolds
    <3>3. MirrorHolds(req[x])'
      <4>1. CASE req[x].op = "store" /\ req[x].token = req[s].old /\ w = "token"
        BY <3>1, <4>1 DEF MirrorHolds, OvertakenBy
      <4>2. CASE req[x].op = "store" /\ ~(req[x].token = req[s].old /\ w = "token")
        <5>1. req[x].token \in Tokens /\ MirrorHolds(req[x])
          BY <4>2 DEF CacheInv, Shape
        <5>2. osmToken'[req[x].token] = osmToken[req[x].token]
          BY <1>5, <4>2, <5>1
        <5> QED
          BY <1>8, <3>1, <5>1, <5>2 DEF MirrorHolds
      <4>3. CASE req[x].op # "store"
        BY <3>1, <4>3 DEF MirrorHolds
      <4> QED
        BY <4>1, <4>2, <4>3
    <3> QED
      BY <3>2, <3>3
  <2> QED
    BY <2>1, <2>2
<1>11. StaleOnlyByRace'
  <2>1. \A x \in Slots : req[x].op = "evict" => req'[x].op = "evict"
    BY <1>1, <1>o
  <2> QED
    BY <1>3, <2>1 DEF CacheInv, StaleOnlyByRace, Cached
<1>12. CutOffOnlyByRace'
  <2>1. req'[s].op = "drop"
    BY <1>2, <1>6 DEF Request
  <2> QED
    BY <2>1 DEF CutOffOnlyByRace
<1> QED
  BY <1>3, <1>4, <1>9, <1>10, <1>11, <1>12 DEF CacheInv, TypeOK

(* A step that leaves no entry cached, writes no row, and after which every  *)
(* slot is where it was or where it may be.                                  *)
LEMMA EmptiesCache ==
  ASSUME CacheInv, cache' = NoEntry, UNCHANGED <<role, osmToken>>,
         req' \in [Slots -> Request],
         \A x \in Slots : \/ req'[x] = req[x]
                          \/ Shape(req'[x]) /\ ReadHolds(req'[x]) /\ MirrorHolds(req'[x])
  PROVE  CacheInv'
<1>1. TypeOK'
  BY DEF CacheInv, TypeOK
<1>2. \A x \in Slots : (Shape(req[x]) /\ ReadHolds(req[x]) /\ MirrorHolds(req[x]))'
  BY DEF CacheInv, Shape, ReadHolds, MirrorHolds
<1>3. StaleOnlyByRace' /\ CutOffOnlyByRace'
  BY DEF StaleOnlyByRace, CutOffOnlyByRace, Cached
<1> QED
  BY <1>1, <1>2, <1>3 DEF CacheInv

LEMMA DropStep ==
  ASSUME CacheInv, NEW s \in Slots, DropEntry(s) \/ DropKeyError(s)
  PROVE  CacheInv'
<1>1. req \in [Slots -> Request] /\ req[s].op = "drop"
  BY DEF CacheInv, TypeOK, DropEntry, DropKeyError
<1>2. cache' = NoEntry /\ UNCHANGED <<role, osmToken>>
  BY DEF DropEntry, DropKeyError, Dropped, Cached
<1>3. CASE DropEntry(s)
  <2> DEFINE r == [req[s] EXCEPT !.op = "fetch", !.old = NULL]
  <2>1. req[s].token \in Tokens /\ req[s] \in Request
    BY <1>1 DEF CacheInv, Shape
  <2>2. r \in Request /\ Shape(r) /\ ReadHolds(r) /\ MirrorHolds(r)
    BY <2>1 DEF Request, Ops, Shape, ReadHolds, MirrorHolds
  <2>3. req' = [req EXCEPT ![s] = r]
    BY <1>1, <1>3 DEF DropEntry, Request
  <2> HIDE DEF r
  <2>4. req' \in [Slots -> Request] /\ \A x \in Slots : req'[x] = req[x] \/ req'[x] = r
    BY <1>1, <2>2, <2>3
  <2> QED
    BY <1>2, <2>2, <2>4, EmptiesCache
<1>4. CASE DropKeyError(s)
  <2>1. req' \in [Slots -> Request]
        /\ \A x \in Slots : req'[x] = req[x] \/ req'[x] = NoRequest
    BY <1>1, <1>4, IdleFits DEF DropKeyError, Done
  <2> QED
    BY <1>2, <2>1, IdleFits, EmptiesCache
<1> QED
  BY <1>3, <1>4

LEMMA FetchStep ==
  ASSUME CacheInv, NEW s \in Slots, Fetch(s) \/ FetchFails(s) \/ MirrorFails(s)
  PROVE  CacheInv'
<1>1. req[s] \in Request /\ req \in [Slots -> Request] /\ Shape(req[s])
      /\ ReadHolds(req[s]) /\ role \in RoleRow
  BY DEF CacheInv, TypeOK
<1>2. CASE Fetch(s)
  <2> DEFINE r == [req[s] EXCEPT !.op = "mirror", !.role = role]
  <2>1. r \in Request /\ Shape(r) /\ ReadHolds(r) /\ MirrorHolds(r)
    BY <1>1, <1>2 DEF Fetch, RoleRead, Request, Ops, Shape, ReadHolds, MirrorHolds
  <2>2. req' = [req EXCEPT ![s] = r]
    BY <1>1, <1>2 DEF Fetch, RoleRead, Request
  <2> QED
    BY <1>2, <2>1, <2>2, OwnMove DEF Fetch
<1>3. CASE FetchFails(s)
  BY <1>3, OwnMove, IdleFits DEF FetchFails, Done
<1>4. CASE MirrorFails(s)
  <2> DEFINE r == [req[s] EXCEPT !.op = "store", !.overtaken = @ \cup {"token"}]
  <2>1. r \in Request /\ Shape(r) /\ ReadHolds(r) /\ MirrorHolds(r)
    BY <1>1, <1>4 DEF MirrorFails, Request, Ops, Shape, ReadHolds, MirrorHolds
  <2>2. req' = [req EXCEPT ![s] = r]
    BY <1>1, <1>4 DEF MirrorFails, Request
  <2> QED
    BY <1>4, <2>1, <2>2, OwnMove DEF MirrorFails
<1> QED
  BY <1>2, <1>3, <1>4

LEMMA MirrorStep ==
  ASSUME CacheInv, NEW s \in Slots, Mirror(s)
  PROVE  CacheInv'
<1> DEFINE r == [req[s] EXCEPT !.op = "store"]
<1>1. req[s] \in Request /\ req \in [Slots -> Request] /\ Shape(req[s])
      /\ ReadHolds(req[s]) /\ req[s].op = "mirror" /\ req[s].token \in Tokens
  BY DEF CacheInv, TypeOK, Mirror, Shape
<1>2. UNCHANGED <<role, cache>>
      /\ osmToken' = [osmToken EXCEPT ![req[s].token] = "active"]
  BY DEF Mirror, Mirrored
<1>3. /\ osmToken' \in [Tokens -> {"none", "active", "revoked"}]
      /\ \A k \in Tokens : osmToken'[k] = osmToken[k] \/ osmToken'[k] = "active"
      /\ osmToken'[req[s].token] = "active"
  BY <1>1, <1>2 DEF CacheInv, TypeOK
<1>4. r \in Request /\ r.op = "store" /\ r.token = req[s].token
      /\ r.role = req[s].role /\ r.overtaken = req[s].overtaken
  BY <1>1 DEF Request, Ops
<1>5. req' = [req EXCEPT ![s] = r]
  BY <1>1 DEF Mirror, Request
<1> HIDE DEF r
<1>6. req' \in [Slots -> Request]
      /\ \A x \in Slots : req'[x] = IF x = s THEN r ELSE req[x]
  BY <1>1, <1>4, <1>5
<1>7. ASSUME NEW x \in Slots
      PROVE  (Shape(req[x]) /\ ReadHolds(req[x]) /\ MirrorHolds(req[x]))'
  <2>1. CASE x = s
    BY <1>1, <1>2, <1>3, <1>4, <1>6, <2>1 DEF Shape, ReadHolds, MirrorHolds
  <2>2. CASE x # s
    <3>1. req'[x] = req[x] /\ Shape(req[x]) /\ ReadHolds(req[x]) /\ MirrorHolds(req[x])
      BY <1>6, <2>2 DEF CacheInv
    <3> QED
      BY <1>2, <1>3, <3>1 DEF Shape, ReadHolds, MirrorHolds
  <2> QED
    BY <2>1, <2>2
<1>8. \A x \in Slots : req[x].op \in {"drop", "evict"} => req'[x] = req[x]
  BY <1>1, <1>6
<1>9. StaleOnlyByRace'
  BY <1>2, <1>8 DEF CacheInv, StaleOnlyByRace, Cached
<1>10. CutOffOnlyByRace'
  <2>1. Cached => cache.token \in Tokens
    BY EntryFacts DEF CacheInv
  <2> QED
    BY <1>2, <1>3, <1>8, <2>1 DEF CacheInv, CutOffOnlyByRace, Cached
<1> QED
  BY <1>2, <1>3, <1>6, <1>7, <1>9, <1>10 DEF CacheInv, TypeOK

LEMMA StoreStep ==
  ASSUME CacheInv, NEW s \in Slots, Store(s)
  PROVE  CacheInv'
<1>1. req[s] \in Request /\ req \in [Slots -> Request] /\ req[s].op = "store"
      /\ req[s].token \in Tokens /\ ReadHolds(req[s]) /\ MirrorHolds(req[s])
  BY DEF CacheInv, TypeOK, Store, Shape
<1>2. /\ UNCHANGED <<role, osmToken>>
      /\ cache' = [token |-> req[s].token, role |-> req[s].role,
                   overtaken |-> req[s].overtaken]
  BY DEF Store, Stored
<1>3. cache' \in Entry
  BY <1>1, <1>2 DEF Entry, Request
<1>4. req' \in [Slots -> Request]
      /\ \A x \in Slots : req'[x] = IF x = s THEN NoRequest ELSE req[x]
  BY <1>1, IdleFits DEF Store, Done
<1>5. \A x \in Slots : (Shape(req[x]) /\ ReadHolds(req[x]) /\ MirrorHolds(req[x]))'
  BY <1>2, <1>4, IdleFits DEF CacheInv, Shape, ReadHolds, MirrorHolds
<1>6. StaleOnlyByRace' /\ CutOffOnlyByRace'
  BY <1>1, <1>2 DEF StaleOnlyByRace, CutOffOnlyByRace, ReadHolds, MirrorHolds
<1> QED
  BY <1>2, <1>3, <1>4, <1>5, <1>6 DEF CacheInv, TypeOK

-----------------------------------------------------------------------------
(* The steps of a request that changes the role, and of the cache itself. *)

LEMMA WriteRoleStep ==
  ASSUME CacheInv, NEW s \in Slots, NEW r0 \in RoleRow, WritesRole(s, r0)
  PROVE  CacheInv'
<1>1. req \in [Slots -> Request] /\ req[s] = NoRequest
  BY DEF CacheInv, TypeOK, WritesRole, Idle
<1>2. role' = r0 /\ UNCHANGED <<cache, osmToken>>
  BY DEF WritesRole
<1>3. req'[s] = [NoRequest EXCEPT !.op = "evict"]
  BY DEF WritesRole, Evicts
<1>4. ASSUME NEW x \in Slots, x # s
      PROVE  req'[x] = [req[x] EXCEPT !.overtaken = OvertakenBy(s, "role", x)]
  BY <1>4 DEF WritesRole
<1>5. ASSUME NEW x \in Slots
      PROVE  /\ OvertakenBy(s, "role", x) \in SUBSET {"role", "token"}
             /\ req[x].overtaken \subseteq OvertakenBy(s, "role", x)
             /\ req[x].op \in {"mirror", "store"} => "role" \in OvertakenBy(s, "role", x)
  BY <1>1 DEF OvertakenBy, Request
<1>o. ASSUME NEW x \in Slots, x # s
      PROVE  /\ req'[x] \in Request
             /\ req'[x].op = req[x].op /\ req'[x].token = req[x].token
             /\ req'[x].old = req[x].old /\ req'[x].role = req[x].role
             /\ req'[x].overtaken = OvertakenBy(s, "role", x)
  <2> DEFINE ov == OvertakenBy(s, "role", x)
  <2>1. req'[x] = [req[x] EXCEPT !.overtaken = ov]
    BY <1>4, <1>o
  <2>2. req[x] \in Request /\ ov \in SUBSET {"role", "token"}
    BY <1>1, <1>5
  <2> HIDE DEF ov
  <2>3. /\ req'[x] \in Request
        /\ req'[x].op = req[x].op /\ req'[x].token = req[x].token
        /\ req'[x].old = req[x].old /\ req'[x].role = req[x].role
        /\ req'[x].overtaken = ov
    BY <2>1, <2>2, SetOvertaken, SMTT(30)
  <2> QED
    BY <2>3 DEF ov
<1>6. req' \in [Slots -> Request]
  <2>1. req'[s] \in Request
    BY <1>3 DEF NoRequest, Request, Ops, RoleRow
  <2>2. \A x \in Slots : req'[x] \in Request
    BY <1>o, <2>1
  <2> QED
    BY <2>2 DEF WritesRole
<1>7. ASSUME NEW x \in Slots
      PROVE  (Shape(req[x]) /\ ReadHolds(req[x]) /\ MirrorHolds(req[x]))'
  <2>1. CASE x = s
    BY <1>3, <2>1 DEF NoRequest, Shape, ReadHolds, MirrorHolds
  <2>2. CASE x # s
    <3>1. /\ req'[x].op = req[x].op /\ req'[x].token = req[x].token
          /\ req'[x].old = req[x].old /\ req'[x].role = req[x].role
          /\ req'[x].overtaken = OvertakenBy(s, "role", x)
      BY <1>o, <2>2
    <3> QED
      BY <1>2, <1>5, <3>1 DEF CacheInv, Shape, ReadHolds, MirrorHolds
  <2> QED
    BY <2>1, <2>2
<1>8. StaleOnlyByRace'
  BY <1>3 DEF StaleOnlyByRace, NoRequest
<1>9. CutOffOnlyByRace'
  <2>1. \A x \in Slots : req[x].op = "drop" => req'[x].op = "drop"
    BY <1>1, <1>o DEF NoRequest
  <2> QED
    BY <1>2, <2>1 DEF CacheInv, CutOffOnlyByRace, Cached
<1> QED
  BY <1>2, <1>6, <1>7, <1>8, <1>9 DEF CacheInv, TypeOK

LEMMA EmptyingStep ==
  ASSUME CacheInv, (\E s \in Slots : EvictUser(s)) \/ Expire \/ Restart
  PROVE  CacheInv'
<1>1. req \in [Slots -> Request]
  BY DEF CacheInv, TypeOK
<1>2. cache' = NoEntry /\ UNCHANGED <<role, osmToken>>
  BY DEF EvictUser, Expire, Restart
<1>3. req' \in [Slots -> Request]
      /\ \A x \in Slots : req'[x] = req[x] \/ req'[x] = NoRequest
  BY <1>1, IdleFits DEF EvictUser, Expire, Restart, Done
<1> QED
  BY <1>2, <1>3, IdleFits, EmptiesCache

LEMMA CacheStep == CacheInv /\ [Next]_vars => CacheInv'
<1> SUFFICES ASSUME CacheInv, [Next]_vars PROVE CacheInv'
  OBVIOUS
<1>1. ASSUME NEW s \in Slots, Validate(s) PROVE CacheInv'
  BY <1>1, StartStep, RevokeStep, DropStep, FetchStep, MirrorStep, StoreStep
     DEF Validate
<1>2. ASSUME NEW s \in Slots, ChangeRole(s) PROVE CacheInv'
  BY <1>2, WriteRoleStep, EmptyingStep
     DEF ChangeRole, AssignMemberRole, RemoveMemberRole, RoleRow
<1>3. ASSUME Expire \/ Restart PROVE CacheInv'
  BY <1>3, EmptyingStep
<1>4. CASE UNCHANGED vars
  BY <1>4 DEF vars, CacheInv, TypeOK, Shape, ReadHolds, MirrorHolds,
              StaleOnlyByRace, CutOffOnlyByRace, Cached
<1> QED
  BY <1>1, <1>2, <1>3, <1>4 DEF Next

(* CacheInv is an invariant of the cache, whatever overlaps. *)
THEOREM CacheSafety == Spec => []CacheInv
<1> QED
  BY CacheInit, CacheStep, PTL DEF Spec

(* Every variable of the cache has its type. *)
THEOREM CacheTypeCorrect == Spec => []TypeOK
<1>1. CacheInv => TypeOK
  BY DEF CacheInv
<1> QED
  BY <1>1, CacheSafety, PTL

(* validate_token serves a role other than the one in the database only when *)
(* an eviction is still to come or the role was written during its reads.    *)
THEOREM OnlyRacesStale == Spec => []StaleOnlyByRace
<1>1. CacheInv => StaleOnlyByRace
  BY DEF CacheInv
<1> QED
  BY <1>1, CacheSafety, PTL

(* A cached token is dead in the OSM database only when a rotation is about  *)
(* to drop it or its own mirror was revoked or failed before it was stored.  *)
THEOREM OnlyRacesCutOff == Spec => []CutOffOnlyByRace
<1>1. CacheInv => CutOffOnlyByRace
  BY DEF CacheInv
<1> QED
  BY <1>1, CacheSafety, PTL

=============================================================================

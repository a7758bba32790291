-------------------------- MODULE LockLease_proofs --------------------------
(***************************************************************************)
(* The properties of LockLease, for any users, locks, requests, timeouts   *)
(* and bound on time.  LeaseInv says what a request in flight still knows  *)
(* of the row it read: whose it is, that the expiry it computed lies after *)
(* the row's start, and, until it is overtaken, that the row is as read.   *)
(***************************************************************************)
EXTENDS LockLease, TLAPS

RowOK(l) ==
  locks[l].state # "free" =>
    /\ locks[l].user \in Users
    /\ locks[l].lockedAt <= now
    /\ locks[l].expires > locks[l].lockedAt

TakesOK(s) ==
  req[s].op = "lock" =>
    /\ req[s].user \in Users
    /\ req[s].lockedAt <= now
    /\ req[s].expires > req[s].lockedAt

AimsOK(s) ==
  req[s].op \in {"extend", "renew", "release"} =>
    /\ req[s].lock \in LockIds
    /\ locks[req[s].lock].state # "free"
    /\ ~req[s].overtaken => locks[req[s].lock].state = "active"

MovesOK(s) ==
  req[s].op \in {"extend", "renew"} =>
    /\ req[s].user = locks[req[s].lock].user
    /\ req[s].expires > locks[req[s].lock].lockedAt
    /\ req[s].op = "extend" /\ ~req[s].overtaken =>
         req[s].expires > locks[req[s].lock].expires

LeaseInv ==
  /\ TypeOK
  /\ \A l \in LockIds : RowOK(l)
  /\ \A s \in Slots : TakesOK(s) /\ AimsOK(s) /\ MovesOK(s)

(* The times a request adds up are naturals. *)
LEMMA TimesAreNat ==
  ASSUME LeaseInv
  PROVE  /\ now \in Nat /\ timeout \in Nat \ {0} /\ now + timeout \in Nat
         /\ \A l \in LockIds : locks[l].expires + timeout \in Nat
<1>1. timeout \in Nat \ {0} /\ now \in Nat
  BY TimeoutsArePositive, MaxTimeType DEF LeaseInv, TypeOK
<1>2. \A l \in LockIds : locks[l].expires \in Nat
  BY DEF LeaseInv, TypeOK, LockRow
<1>. QED BY <1>1, <1>2

THEOREM LeaseInit == Init => LeaseInv
<1>. SUFFICES ASSUME Init PROVE LeaseInv OBVIOUS
<1>1. TypeOK
  BY TimeoutsArePositive, MaxTimeType DEF Init, TypeOK, Free, NoRequest, LockRow, Request, Ops
<1>2. \A l \in LockIds : RowOK(l)
  BY DEF Init, RowOK, Free
<1>3. \A s \in Slots : TakesOK(s) /\ AimsOK(s) /\ MovesOK(s)
  BY DEF Init, TakesOK, AimsOK, MovesOK, NoRequest
<1>. QED BY <1>1, <1>2, <1>3 DEF LeaseInv

(* A request that begins to take a lock, or computes an expiry for a lock it *)
(* holds, or aims at an active lock to release it.                           *)
LEMMA BeginLock ==
  ASSUME LeaseInv, NEW s \in Slots, NEW u \in Users, Lock(s, u)
  PROVE  LeaseInv'
<1>. DEFINE r == [NoRequest EXCEPT !.op = "lock", !.user = u, !.lockedAt = now,
                                   !.expires = now + timeout]
<1>0. now \in Nat /\ timeout \in Nat \ {0} /\ now + timeout \in Nat
  BY TimesAreNat
<1>1. /\ r.op = "lock" /\ r.user = u /\ r.lockedAt = now /\ r.expires = now + timeout
      /\ r \in Request
  BY <1>0 DEF NoRequest, Request, Ops
<1>2. req' = [req EXCEPT ![s] = r] /\ UNCHANGED <<now, timeout, locks>>
  BY DEF Lock, Begin
<1>. HIDE DEF r
<1>3. TypeOK'
  BY <1>1, <1>2 DEF LeaseInv, TypeOK
<1>4. \A l \in LockIds : RowOK(l)'
  BY <1>2 DEF LeaseInv, RowOK
<1>5. \A t \in Slots : req'[t] = IF t = s THEN r ELSE req[t]
  BY <1>2 DEF LeaseInv, TypeOK
<1>6. \A t \in Slots : (TakesOK(t) /\ AimsOK(t) /\ MovesOK(t))'
  <2>. SUFFICES ASSUME NEW t \in Slots PROVE (TakesOK(t) /\ AimsOK(t) /\ MovesOK(t))'
    OBVIOUS
  <2>1. CASE t = s
    <3>1. req'[t] = r BY <2>1, <1>5
    <3>2. TakesOK(t)' BY <3>1, <1>0, <1>1, <1>2 DEF TakesOK
    <3>3. AimsOK(t)' /\ MovesOK(t)' BY <3>1, <1>1 DEF AimsOK, MovesOK
    <3>. QED BY <3>2, <3>3
  <2>2. CASE t # s
    BY <2>2, <1>5, <1>2 DEF LeaseInv, TakesOK, AimsOK, MovesOK
  <2>. QED BY <2>1, <2>2
<1>. QED BY <1>3, <1>4, <1>6 DEF LeaseInv

LEMMA BeginSetsExpiry ==
  ASSUME LeaseInv, NEW s \in Slots, NEW u \in Users, NEW l \in LockIds,
         Extend(s, u, l) \/ Renew(s, u, l)
  PROVE  LeaseInv'
<1>0. now \in Nat /\ timeout \in Nat \ {0} /\ now + timeout \in Nat
      /\ locks[l].expires \in Nat /\ locks[l].lockedAt \in Nat
      /\ locks[l].expires + timeout \in Nat
  BY TimesAreNat DEF LeaseInv, TypeOK, LockRow
<1>1. PICK op \in {"extend", "renew"}, e \in Nat :
        /\ SetsExpiry(s, op, u, l, e)
        /\ op = "extend" => e = locks[l].expires + timeout
        /\ op = "renew" => e = now + timeout
  BY <1>0 DEF Extend, Renew, Extended, Renewed
<1>. DEFINE r == [NoRequest EXCEPT !.op = op, !.user = u, !.lock = l, !.expires = e]
<1>2. /\ r.op = op /\ r.user = u /\ r.lock = l /\ r.expires = e /\ r.overtaken = FALSE
      /\ r \in Request
  BY <1>1 DEF NoRequest, Request, Ops
<1>3. /\ req' = [req EXCEPT ![s] = r] /\ UNCHANGED <<now, timeout, locks>>
      /\ locks[l].state = "active" /\ locks[l].user = u
  BY <1>1 DEF SetsExpiry, Begin, Held, Active
<1>. HIDE DEF r
<1>4. /\ e > locks[l].lockedAt
      /\ op = "extend" => e > locks[l].expires
  BY <1>0, <1>1, <1>3 DEF LeaseInv, RowOK
<1>5. TypeOK'
  BY <1>2, <1>3 DEF LeaseInv, TypeOK
<1>6. \A k \in LockIds : RowOK(k)'
  BY <1>3 DEF LeaseInv, RowOK
<1>7. \A t \in Slots : req'[t] = IF t = s THEN r ELSE req[t]
  BY <1>3 DEF LeaseInv, TypeOK
<1>8. \A t \in Slots : (TakesOK(t) /\ AimsOK(t) /\ MovesOK(t))'
  <2>. SUFFICES ASSUME NEW t \in Slots PROVE (TakesOK(t) /\ AimsOK(t) /\ MovesOK(t))'
    OBVIOUS
  <2>1. CASE t = s
    <3>1. req'[t] = r BY <2>1, <1>7
    <3>2. TakesOK(t)' BY <3>1, <1>1, <1>2 DEF TakesOK
    <3>3. AimsOK(t)' BY <3>1, <1>2, <1>3 DEF AimsOK
    <3>4. MovesOK(t)' BY <3>1, <1>2, <1>3, <1>4 DEF MovesOK
    <3>. QED BY <3>2, <3>3, <3>4
  <2>2. CASE t # s
    BY <2>2, <1>7, <1>3 DEF LeaseInv, TakesOK, AimsOK, MovesOK
  <2>. QED BY <2>1, <2>2
<1>. QED BY <1>5, <1>6, <1>8 DEF LeaseInv

LEMMA BeginRelease ==
  ASSUME LeaseInv, NEW s \in Slots, NEW l \in LockIds, Release(s, l)
  PROVE  LeaseInv'
<1>. DEFINE r == [NoRequest EXCEPT !.op = "release", !.lock = l]
<1>1. r.op = "release" /\ r.lock = l /\ r.overtaken = FALSE /\ r \in Request
  BY DEF NoRequest, Request, Ops
<1>2. /\ req' = [req EXCEPT ![s] = r] /\ UNCHANGED <<now, timeout, locks>>
      /\ locks[l].state = "active"
  BY DEF Release, Begin, Active
<1>. HIDE DEF r
<1>3. TypeOK'
  BY <1>1, <1>2 DEF LeaseInv, TypeOK
<1>4. \A k \in LockIds : RowOK(k)'
  BY <1>2 DEF LeaseInv, RowOK
<1>5. \A t \in Slots : req'[t] = IF t = s THEN r ELSE req[t]
  BY <1>2 DEF LeaseInv, TypeOK
<1>6. \A t \in Slots : (TakesOK(t) /\ AimsOK(t) /\ MovesOK(t))'
  BY <1>1, <1>2, <1>5 DEF LeaseInv, TakesOK, AimsOK, MovesOK
<1>. QED BY <1>3, <1>4, <1>6 DEF LeaseInv

(* A commit that writes row l, a row that keeps its holder and its start and *)
(* does not become free or active again, or a new one.                       *)
LEMMA CommitKeeps ==
  ASSUME LeaseInv, NEW s \in Slots, NEW l \in LockIds, NEW row \in LockRow,
         Commit(s, l, row),
         row.state # "free", row.user \in Users, row.lockedAt <= now,
         row.expires > row.lockedAt,
         locks[l].state # "free" =>
           row.user = locks[l].user /\ row.lockedAt = locks[l].lockedAt
  PROVE  LeaseInv'
<1>1. /\ locks' = [locks EXCEPT ![l] = row]
      /\ req' = [t \in Slots |->
                   IF t = s THEN NoRequest
                   ELSE IF req[t].lock = l THEN [req[t] EXCEPT !.overtaken = TRUE]
                   ELSE req[t]]
      /\ UNCHANGED <<now, timeout>>
  BY DEF Commit
<1>2. \A k \in LockIds : locks'[k] = IF k = l THEN row ELSE locks[k]
  BY <1>1 DEF LeaseInv, TypeOK
<1>3. \A t \in Slots :
        /\ req'[t] \in Request
        /\ \/ req'[t].op = "none"
           \/ /\ req'[t].op = req[t].op /\ req'[t].user = req[t].user
              /\ req'[t].lock = req[t].lock /\ req'[t].lockedAt = req[t].lockedAt
              /\ req'[t].expires = req[t].expires
              /\ IF req[t].lock = l THEN req'[t].overtaken = TRUE
                 ELSE req'[t].overtaken = req[t].overtaken
  <2>. SUFFICES ASSUME NEW t \in Slots
                PROVE /\ req'[t] \in Request
                      /\ \/ req'[t].op = "none"
                         \/ /\ req'[t].op = req[t].op /\ req'[t].user = req[t].user
                            /\ req'[t].lock = req[t].lock
                            /\ req'[t].lockedAt = req[t].lockedAt
                            /\ req'[t].expires = req[t].expires
                            /\ IF req[t].lock = l THEN req'[t].overtaken = TRUE
                               ELSE req'[t].overtaken = req[t].overtaken
    OBVIOUS
  <2>0. req[t] \in Request BY DEF LeaseInv, TypeOK
  <2>1. CASE t = s
    BY <2>1, <1>1 DEF NoRequest, Request, Ops
  <2>2. CASE t # s /\ req[t].lock = l
    <3>1. req'[t] = [req[t] EXCEPT !.overtaken = TRUE] BY <2>2, <1>1
    <3>. QED BY <3>1, <2>0, <2>2 DEF Request
  <2>3. CASE t # s /\ req[t].lock # l
    BY <2>0, <2>3, <1>1
  <2>. QED BY <2>1, <2>2, <2>3
<1>4. TypeOK'
  BY <1>1, <1>3 DEF LeaseInv, TypeOK
<1>5. \A k \in LockIds : RowOK(k)'
  BY <1>1, <1>2 DEF LeaseInv, RowOK
<1>6. \A t \in Slots : TakesOK(t)'
  BY <1>1, <1>3 DEF LeaseInv, TakesOK
<1>7. \A t \in Slots : AimsOK(t)'
  BY <1>2, <1>3 DEF LeaseInv, AimsOK
<1>8. \A t \in Slots : MovesOK(t)'
  <2>. SUFFICES ASSUME NEW t \in Slots, req'[t].op \in {"extend", "renew"}
                PROVE  MovesOK(t)'
    BY DEF MovesOK
  <2>1. /\ AimsOK(t) /\ MovesOK(t) /\ req[t].op = req'[t].op
    BY <1>3 DEF LeaseInv
  <2>2. req[t].lock \in LockIds /\ locks[req[t].lock].state # "free"
    BY <2>1 DEF AimsOK
  <2>3. CASE req[t].lock = l
    BY <2>1, <2>2, <2>3, <1>2, <1>3 DEF MovesOK
  <2>4. CASE req[t].lock # l
    BY <2>1, <2>2, <2>4, <1>2, <1>3 DEF MovesOK
  <2>. QED BY <2>3, <2>4
<1>. QED BY <1>4, <1>5, <1>6, <1>7, <1>8 DEF LeaseInv

LEMMA LockCommitKeeps ==
  ASSUME LeaseInv, NEW s \in Slots, LockCommit(s)
  PROVE  LeaseInv'
<1>. DEFINE row == [state |-> "active", user |-> req[s].user,
                    lockedAt |-> req[s].lockedAt, expires |-> req[s].expires]
<1>1. PICK l \in LockIds : locks[l] = Free /\ Commit(s, l, row)
  BY DEF LockCommit
<1>2. /\ req[s].user \in Users /\ req[s].lockedAt <= now
      /\ req[s].expires > req[s].lockedAt
  BY DEF LeaseInv, TakesOK, LockCommit
<1>3. row \in LockRow
  BY <1>2 DEF LeaseInv, TypeOK, Request, LockRow
<1>. QED BY <1>1, <1>2, <1>3, CommitKeeps DEF Free

LEMMA SetExpiryCommitKeeps ==
  ASSUME LeaseInv, NEW s \in Slots, SetExpiryCommit(s)
  PROVE  LeaseInv'
<1>. DEFINE l == req[s].lock
            row == [locks[l] EXCEPT !.expires = req[s].expires]
<1>1. l \in LockIds /\ locks[l].state # "free" /\ locks[l] \in LockRow
  BY DEF LeaseInv, AimsOK, SetExpiryCommit, TypeOK
<1>2. req[s].expires > locks[l].lockedAt /\ req[s].expires \in Nat
  BY DEF LeaseInv, MovesOK, SetExpiryCommit, TypeOK, Request
<1>3. Commit(s, l, row)
  BY DEF SetExpiryCommit, Target
<1>4. /\ row \in LockRow /\ row.state = locks[l].state /\ row.user = locks[l].user
      /\ row.lockedAt = locks[l].lockedAt /\ row.expires = req[s].expires
  BY <1>1, <1>2 DEF LockRow
<1>5. locks[l].user \in Users /\ locks[l].lockedAt <= now
  BY <1>1 DEF LeaseInv, RowOK
<1>. HIDE DEF l, row
<1>. QED BY <1>1, <1>2, <1>3, <1>4, <1>5, CommitKeeps

LEMMA ReleaseCommitKeeps ==
  ASSUME LeaseInv, NEW s \in Slots, ReleaseCommit(s)
  PROVE  LeaseInv'
<1>. DEFINE l == req[s].lock
            row == [locks[l] EXCEPT !.state = "released"]
<1>1. l \in LockIds /\ locks[l].state # "free" /\ locks[l] \in LockRow
  BY DEF LeaseInv, AimsOK, ReleaseCommit, TypeOK
<1>2. Commit(s, l, row)
  BY DEF ReleaseCommit
<1>3. /\ row \in LockRow /\ row.state = "released" /\ row.user = locks[l].user
      /\ row.lockedAt = locks[l].lockedAt /\ row.expires = locks[l].expires
  BY <1>1 DEF LockRow
<1>4. /\ locks[l].user \in Users /\ locks[l].lockedAt <= now
      /\ locks[l].expires > locks[l].lockedAt
  BY <1>1 DEF LeaseInv, RowOK
<1>. HIDE DEF l, row
<1>. QED BY <1>1, <1>2, <1>3, <1>4, CommitKeeps

LEMMA AbortKeeps ==
  ASSUME LeaseInv, NEW s \in Slots, Abort(s)
  PROVE  LeaseInv'
<1>1. req' = [req EXCEPT ![s] = NoRequest] /\ UNCHANGED <<now, timeout, locks>>
  BY DEF Abort, Done
<1>2. NoRequest \in Request /\ NoRequest.op = "none"
  BY DEF NoRequest, Request, Ops
<1>3. \A t \in Slots : req'[t] = IF t = s THEN NoRequest ELSE req[t]
  BY <1>1 DEF LeaseInv, TypeOK
<1>4. TypeOK'
  BY <1>1, <1>2 DEF LeaseInv, TypeOK
<1>5. \A l \in LockIds : RowOK(l)'
  BY <1>1 DEF LeaseInv, RowOK
<1>6. \A t \in Slots : (TakesOK(t) /\ AimsOK(t) /\ MovesOK(t))'
  BY <1>1, <1>2, <1>3 DEF LeaseInv, TakesOK, AimsOK, MovesOK
<1>. QED BY <1>4, <1>5, <1>6 DEF LeaseInv

(* Time passes and the timeout changes without touching a row or a request. *)
LEMMA ClockKeeps ==
  ASSUME LeaseInv, Tick \/ \E t \in Accepted : PatchTimeout(t)
  PROVE  LeaseInv'
<1>1. UNCHANGED <<locks, req>> /\ now' \in 0..MaxTime /\ now' >= now /\ timeout' \in Timeouts
  BY MaxTimeType DEF Tick, PatchTimeout, Accepted, LeaseInv, TypeOK
<1>2. now \in Nat BY TimesAreNat
<1>3. now' \in Nat BY <1>1, MaxTimeType
<1>4. TypeOK'
  BY <1>1 DEF LeaseInv, TypeOK
<1>5. \A l \in LockIds : RowOK(l)'
  <2>. SUFFICES ASSUME NEW l \in LockIds PROVE RowOK(l)' OBVIOUS
  <2>1. RowOK(l) /\ locks[l].lockedAt \in Nat BY DEF LeaseInv, TypeOK, LockRow
  <2>. QED BY <2>1, <1>1, <1>2, <1>3 DEF RowOK
<1>6. \A s \in Slots : TakesOK(s)'
  <2>. SUFFICES ASSUME NEW s \in Slots PROVE TakesOK(s)' OBVIOUS
  <2>1. TakesOK(s) /\ req[s].lockedAt \in Nat BY DEF LeaseInv, TypeOK, Request
  <2>. QED BY <2>1, <1>1, <1>2, <1>3 DEF TakesOK
<1>7. \A s \in Slots : AimsOK(s)' /\ MovesOK(s)'
  BY <1>1 DEF LeaseInv, AimsOK, MovesOK
<1>. QED BY <1>4, <1>5, <1>6, <1>7 DEF LeaseInv

THEOREM LeaseStep == LeaseInv /\ [Next]_vars => LeaseInv'
<1>. SUFFICES ASSUME LeaseInv, [Next]_vars PROVE LeaseInv' OBVIOUS
<1>1. ASSUME NEW s \in Slots, NEW u \in Users, Lock(s, u) PROVE LeaseInv'
  BY <1>1, BeginLock
<1>2. ASSUME NEW s \in Slots, NEW u \in Users, NEW l \in LockIds,
             Extend(s, u, l) \/ Renew(s, u, l)
      PROVE  LeaseInv'
  BY <1>2, BeginSetsExpiry
<1>3. ASSUME NEW s \in Slots, NEW l \in LockIds, Release(s, l) PROVE LeaseInv'
  BY <1>3, BeginRelease
<1>4. ASSUME NEW s \in Slots, LockCommit(s) PROVE LeaseInv'
  BY <1>4, LockCommitKeeps
<1>5. ASSUME NEW s \in Slots, SetExpiryCommit(s) PROVE LeaseInv'
  BY <1>5, SetExpiryCommitKeeps
<1>6. ASSUME NEW s \in Slots, ReleaseCommit(s) PROVE LeaseInv'
  BY <1>6, ReleaseCommitKeeps
<1>7. ASSUME NEW s \in Slots, Abort(s) PROVE LeaseInv'
  BY <1>7, AbortKeeps
<1>8. CASE Tick \/ \E t \in Accepted : PatchTimeout(t)
  BY <1>8, ClockKeeps
<1>9. CASE UNCHANGED vars
  BY <1>9 DEF vars, LeaseInv, TypeOK, RowOK, TakesOK, AimsOK, MovesOK
<1>. QED BY <1>1, <1>2, <1>3, <1>4, <1>5, <1>6, <1>7, <1>8, <1>9 DEF Next

(* Every request, whatever overtakes it, works with the row it read. *)
THEOREM LeaseSafety == Spec => []LeaseInv
BY LeaseInit, LeaseStep, PTL DEF Spec

(* Every variable has its type. *)
THEOREM LeaseTypeCorrect == Spec => []TypeOK
<1>1. LeaseInv => TypeOK BY DEF LeaseInv
<1>. QED BY <1>1, LeaseSafety, PTL

(* A lock's expiry is always later than its start. *)
THEOREM LeasesStandOut == Spec => []LeaseStandsOut
<1>1. LeaseInv => LeaseStandsOut BY DEF LeaseInv, RowOK, LeaseStandsOut
<1>. QED BY <1>1, LeaseSafety, PTL

-----------------------------------------------------------------------------
(* What a step that changes a row is: a commit of some slot, to its row.     *)

RowChange(s, l) ==
  \/ req[s].op = "lock" /\ locks[l].state = "free"
  \/ /\ req[s].op \in {"extend", "renew"} /\ req[s].lock = l
     /\ req'[s] = NoRequest
     /\ locks'[l] = [locks[l] EXCEPT !.expires = req[s].expires]
  \/ /\ req[s].op = "release" /\ req[s].lock = l
     /\ locks'[l] = [locks[l] EXCEPT !.state = "released"]

LEMMA RowsChangeByCommit ==
  ASSUME LeaseInv, [Next]_vars, NEW l \in LockIds, locks'[l] # locks[l]
  PROVE  \E s \in Slots : RowChange(s, l)
<1>1. ASSUME NEW s \in Slots, LockCommit(s) PROVE RowChange(s, l)
  <2>1. PICK k \in LockIds, row \in {[state |-> "active", user |-> req[s].user,
                lockedAt |-> req[s].lockedAt, expires |-> req[s].expires]} :
          locks[k] = Free /\ locks' = [locks EXCEPT ![k] = row] /\ req[s].op = "lock"
    BY <1>1 DEF LockCommit, Commit
  <2>2. k = l BY <2>1 DEF LeaseInv, TypeOK
  <2>. QED BY <2>1, <2>2 DEF RowChange, Free
<1>2. ASSUME NEW s \in Slots, SetExpiryCommit(s) PROVE RowChange(s, l)
  <2>1. /\ req[s].op \in {"extend", "renew"} /\ req[s].lock \in LockIds
        /\ locks' = [locks EXCEPT ![req[s].lock] =
                       [locks[req[s].lock] EXCEPT !.expires = req[s].expires]]
        /\ req'[s] = NoRequest
    BY <1>2 DEF SetExpiryCommit, Commit, Target, LeaseInv, AimsOK
  <2>2. req[s].lock = l BY <2>1 DEF LeaseInv, TypeOK
  <2>3. locks'[l] = [locks[l] EXCEPT !.expires = req[s].expires]
    BY <2>1, <2>2 DEF LeaseInv, TypeOK
  <2>. QED BY <2>1, <2>2, <2>3 DEF RowChange
<1>3. ASSUME NEW s \in Slots, ReleaseCommit(s) PROVE RowChange(s, l)
  <2>1. /\ req[s].op = "release" /\ req[s].lock \in LockIds
        /\ locks' = [locks EXCEPT ![req[s].lock] =
                       [locks[req[s].lock] EXCEPT !.state = "released"]]
    BY <1>3 DEF ReleaseCommit, Commit, LeaseInv, AimsOK
  <2>2. req[s].lock = l BY <2>1 DEF LeaseInv, TypeOK
  <2>3. locks'[l] = [locks[l] EXCEPT !.state = "released"]
    BY <2>1, <2>2 DEF LeaseInv, TypeOK
  <2>. QED BY <2>1, <2>2, <2>3 DEF RowChange
<1>4. ASSUME NEW s \in Slots, NEW u \in Users,
             Lock(s, u) \/ \E k \in LockIds : Extend(s, u, k) \/ Renew(s, u, k)
      PROVE  FALSE
  BY <1>4 DEF Lock, Extend, Renew, SetsExpiry, Begin
<1>5. ASSUME NEW s \in Slots, Abort(s) \/ \E k \in LockIds : Release(s, k) PROVE FALSE
  BY <1>5 DEF Abort, Release, Begin
<1>6. ~Tick /\ ~(\E t \in Accepted : PatchTimeout(t)) /\ ~UNCHANGED vars
  BY DEF Tick, PatchTimeout, vars
<1>. QED BY <1>1, <1>2, <1>3, <1>4, <1>5, <1>6 DEF Next

(* An expiry changes only by a request of the one who took the lock. *)
THEOREM HolderMoves == Spec => OnlyHolderMoves
<1>1. LeaseInv /\ [Next]_vars =>
        [\A l \in LockIds : locks[l].state # "free" /\ locks'[l].expires # locks[l].expires
           => \E s \in Slots : MovesExpiry(s, l) /\ req[s].user = locks[l].user]_vars
  <2>. SUFFICES ASSUME LeaseInv, [Next]_vars, NEW l \in LockIds,
                       locks[l].state # "free", locks'[l].expires # locks[l].expires
                PROVE  \E s \in Slots : MovesExpiry(s, l) /\ req[s].user = locks[l].user
    OBVIOUS
  <2>1. PICK s \in Slots : RowChange(s, l)
    BY RowsChangeByCommit
  <2>2. locks[l] \in LockRow BY DEF LeaseInv, TypeOK
  <2>3. req[s].op \in {"extend", "renew"} /\ req[s].lock = l /\ req'[s] = NoRequest
    BY <2>1, <2>2 DEF RowChange, LockRow
  <2>4. req[s].user = locks[l].user
    BY <2>3 DEF LeaseInv, MovesOK
  <2>. QED BY <2>3, <2>4 DEF MovesExpiry
<1>. QED BY <1>1, LeaseSafety, PTL DEF Spec, OnlyHolderMoves

(* A released lock changes only by a request its release overtook. *)
THEOREM HistoryKept == Spec => HistoryStands
<1>1. LeaseInv /\ [Next]_vars =>
        [\A l \in LockIds : locks[l].state = "released" /\ locks'[l] # locks[l]
           => \E s \in Slots : req[s].lock = l /\ req[s].overtaken]_vars
  <2>. SUFFICES ASSUME LeaseInv, [Next]_vars, NEW l \in LockIds,
                       locks[l].state = "released", locks'[l] # locks[l]
                PROVE  \E s \in Slots : req[s].lock = l /\ req[s].overtaken
    OBVIOUS
  <2>1. PICK s \in Slots : RowChange(s, l)
    BY RowsChangeByCommit
  <2>2. req[s].op \in {"extend", "renew", "release"} /\ req[s].lock = l
    BY <2>1 DEF RowChange
  <2>. QED BY <2>2 DEF LeaseInv, AimsOK
<1>. QED BY <1>1, LeaseSafety, PTL DEF Spec, HistoryStands

(* An expiry moves back only by a renewal or an overtaken extension. *)
THEOREM MovesBackByRenewal == Spec => BackByRenewal
<1>1. LeaseInv /\ [Next]_vars =>
        [\A l \in LockIds : locks[l].state # "free" /\ locks'[l].expires < locks[l].expires
           => \E s \in Slots : /\ MovesExpiry(s, l)
                               /\ req[s].op = "renew" \/ req[s].overtaken]_vars
  <2>. SUFFICES ASSUME LeaseInv, [Next]_vars, NEW l \in LockIds,
                       locks[l].state # "free", locks'[l].expires < locks[l].expires
                PROVE  \E s \in Slots : /\ MovesExpiry(s, l)
                                        /\ req[s].op = "renew" \/ req[s].overtaken
    OBVIOUS
  <2>1. locks[l] \in LockRow /\ locks[l].expires \in Nat BY DEF LeaseInv, TypeOK, LockRow
  <2>2. locks'[l].expires # locks[l].expires BY <2>1
  <2>3. PICK s \in Slots : RowChange(s, l)
    BY <2>2, RowsChangeByCommit
  <2>4. /\ req[s].op \in {"extend", "renew"} /\ req[s].lock = l /\ req'[s] = NoRequest
        /\ locks'[l].expires = req[s].expires
    BY <2>1, <2>2, <2>3 DEF RowChange, LockRow
  <2>5. req[s].op = "extend" /\ ~req[s].overtaken => req[s].expires > locks[l].expires
    BY <2>4 DEF LeaseInv, MovesOK
  <2>6. req[s].expires \in Nat BY DEF LeaseInv, TypeOK, Request
  <2>7. req[s].op = "renew" \/ req[s].overtaken
    BY <2>1, <2>4, <2>5, <2>6
  <2>. QED BY <2>2, <2>4, <2>7 DEF MovesExpiry
<1>. QED BY <1>1, LeaseSafety, PTL DEF Spec, BackByRenewal

=============================================================================

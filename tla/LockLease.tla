----------------------------- MODULE LockLease ------------------------------
(***************************************************************************)
(* expires_at of the locks of one task: set when a lock is taken, pushed   *)
(* out by extend_lock from where it stands, set anew by a submission with  *)
(* done = false from the time of the submission, and left to history when  *)
(* the lock is released.  Nothing acts on it: no lock is released for      *)
(* having expired.                                                         *)
(*                                                                         *)
(* As in TaskWorkflow a handler reads in one step and commits in another,  *)
(* here the expiry it has computed.  Who may lock is TaskWorkflow's        *)
(* subject.  Times are hours of one clock: the process writes naive local  *)
(* times and strips the zone from what it reads back, which is the same    *)
(* only where process and database both run in UTC.                        *)
(***************************************************************************)
EXTENDS Naturals

CONSTANTS
  Users,
  LockIds,     \* primary keys of tasking_locks: bounds the locks ever taken
  Slots,       \* requests in flight at once
  Timeouts,    \* values lock_timeout_hours is given
  MaxTime,     \* bound: the clock and the expiries computed stop here
  NULL

ASSUME TimeoutsArePositive == Timeouts \subseteq Nat \ {0} /\ Timeouts # {}
ASSUME MaxTimeType == MaxTime \in Nat
ASSUME NullIsNobody == NULL \notin Users \cup LockIds

VARIABLES
  now,
  timeout,   \* tasking_projects.lock_timeout_hours
  locks,     \* tasking_locks, rows of the task
  req        \* per slot, what the request in flight has computed

vars == <<now, timeout, locks, req>>

(* lockedAt and expires are kept by released rows too. *)
LockRow == [state : {"free", "active", "released"},
            user : Users \cup {NULL},
            lockedAt : Nat,
            expires : Nat]
Free == [state |-> "free", user |-> NULL, lockedAt |-> 0, expires |-> 0]

(* overtaken is not in the code: another request has written the row since   *)
(* this one read it.                                                         *)
Ops == {"none", "lock", "extend", "renew", "release"}
Request == [op : Ops,
            user : Users \cup {NULL},
            lock : LockIds \cup {NULL},
            lockedAt : Nat,
            expires : Nat,
            overtaken : BOOLEAN]
NoRequest == [op |-> "none", user |-> NULL, lock |-> NULL, lockedAt |-> 0,
              expires |-> 0, overtaken |-> FALSE]

Idle(s) == req[s] = NoRequest
Done(s) == req' = [req EXCEPT ![s] = NoRequest]

Begin(s, r) ==
  /\ Idle(s)
  /\ req' = [req EXCEPT ![s] = r]
  /\ UNCHANGED <<now, timeout, locks>>

(* _get_active_lock. *)
Active(l) == locks[l].state = "active"
MutHeld(l, u) == locks[l].user = u

Held(l, u) == Active(l) /\ locks[l].user = u

NoneActive == \A l \in LockIds : ~Active(l)

(* The commit of s writes row l and is done: the others that read it are late. *)
Commit(s, l, row) ==
  /\ locks' = [locks EXCEPT ![l] = row]
  /\ req' = [t \in Slots |->
               IF t = s THEN NoRequest
               ELSE IF req[t].lock = l THEN [req[t] EXCEPT !.overtaken = TRUE]
               ELSE req[t]]
  /\ UNCHANGED <<now, timeout>>

-----------------------------------------------------------------------------

(* lock_task: the lease runs from the time the request read the clock. *)
Lock(s, u) ==
  /\ NoneActive
  /\ now + timeout <= MaxTime
  /\ Begin(s, [NoRequest EXCEPT !.op = "lock", !.user = u, !.lockedAt = now,
                                !.expires = now + timeout])

LockCommit(s) ==
  /\ req[s].op = "lock"
  /\ NoneActive
  /\ \E l \in LockIds :
       /\ locks[l] = Free
       /\ Commit(s, l, [state |-> "active", user |-> req[s].user,
                        lockedAt |-> req[s].lockedAt, expires |-> req[s].expires])

(* The unique index refuses a second active lock; any request may also fail  *)
(* before its COMMIT, and leaves nothing.                                    *)
Abort(s) ==
  /\ ~Idle(s)
  /\ Done(s)
  /\ UNCHANGED <<now, timeout, locks>>

MutExtended(l) == now + timeout

(* extend_lock: from the expiry read, not from now. *)
Extended(l) == locks[l].expires + timeout

MutRenewed == now

(* submit with done = false: from the time of the submission. *)
Renewed == now + timeout

(* Both are for the holder of the active lock. *)
SetsExpiry(s, op, u, l, expires) ==
  /\ Held(l, u)
  /\ expires <= MaxTime
  /\ Begin(s, [NoRequest EXCEPT !.op = op, !.user = u, !.lock = l,
                                !.expires = expires])

Extend(s, u, l) == SetsExpiry(s, "extend", u, l, Extended(l))
Renew(s, u, l) == SetsExpiry(s, "renew", u, l, Renewed)

MutTarget(s) ==
  IF NoneActive THEN req[s].lock ELSE CHOOSE l \in LockIds : Active(l)

(* WHERE id = the id read: the row it was, whatever has become of it. *)
Target(s) == req[s].lock

SetExpiryCommit(s) ==
  /\ req[s].op \in {"extend", "renew"}
  /\ Commit(s, Target(s), [locks[Target(s)] EXCEPT !.expires = req[s].expires])

(* unlock_task by the holder or a lead, reset_task, a finished submission. *)
Release(s, l) ==
  /\ Active(l)
  /\ Begin(s, [NoRequest EXCEPT !.op = "release", !.lock = l])

ReleaseCommit(s) ==
  /\ req[s].op = "release"
  /\ Commit(s, req[s].lock, [locks[req[s].lock] EXCEPT !.state = "released"])

MutAccepted == Timeouts \cup {0}

(* At least an hour, at most thirty days. *)
Accepted == Timeouts

(* The project's patch, whatever the locks. *)
PatchTimeout(t) ==
  /\ timeout' = t
  /\ UNCHANGED <<now, locks, req>>

Tick ==
  /\ now < MaxTime
  /\ now' = now + 1
  /\ UNCHANGED <<timeout, locks, req>>

Init ==
  /\ now = 0
  /\ timeout \in Timeouts
  /\ locks = [l \in LockIds |-> Free]
  /\ req = [s \in Slots |-> NoRequest]

Next ==
  \/ \E s \in Slots :
       \/ \E u \in Users : Lock(s, u) \/ \E l \in LockIds : Extend(s, u, l) \/ Renew(s, u, l)
       \/ \E l \in LockIds : Release(s, l)
       \/ LockCommit(s)
       \/ SetExpiryCommit(s)
       \/ ReleaseCommit(s)
       \/ Abort(s)
  \/ \E t \in Accepted : PatchTimeout(t)
  \/ Tick

Spec == Init /\ [][Next]_vars

-----------------------------------------------------------------------------

(* Every variable has its type. *)
TypeOK ==
  /\ now \in 0..MaxTime
  /\ timeout \in Timeouts
  /\ locks \in [LockIds -> LockRow]
  /\ req \in [Slots -> Request]

(* What a lock is promised when it is taken is never taken back: its expiry  *)
(* is always later than its start, whatever requests extend, renew, patch    *)
(* the timeout and overtake each other.                                      *)
LeaseStandsOut ==
  \A l \in LockIds : locks[l].state # "free" => locks[l].expires > locks[l].lockedAt

(* Slot s commits an expiry that is not the row's. *)
MovesExpiry(s, l) ==
  /\ req[s].op \in {"extend", "renew"}
  /\ req'[s] = NoRequest
  /\ locks'[l].expires # locks[l].expires

(* Nobody's lease is moved by another's request: the expiry of a lock, held  *)
(* or released, changes only by a request of the one who took it.            *)
OnlyHolderMoves ==
  [][\A l \in LockIds : locks[l].state # "free" /\ locks'[l].expires # locks[l].expires
       => \E s \in Slots : MovesExpiry(s, l) /\ req[s].user = locks[l].user]_vars

(* The history of a released lock is changed only by a request its release   *)
(* overtook.                                                                 *)
HistoryStands ==
  [][\A l \in LockIds : locks[l].state = "released" /\ locks'[l] # locks[l]
       => \E s \in Slots : req[s].lock = l /\ req[s].overtaken]_vars

(* An expiry moves back only by a renewal, which counts from the submission  *)
(* and may undo what extensions had added, or by an extension that another   *)
(* request overtook.                                                         *)
BackByRenewal ==
  [][\A l \in LockIds : locks[l].state # "free" /\ locks'[l].expires < locks[l].expires
       => \E s \in Slots :
            /\ MovesExpiry(s, l)
            /\ req[s].op = "renew" \/ req[s].overtaken]_vars

=============================================================================

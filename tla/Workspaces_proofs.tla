------------------------- MODULE Workspaces_proofs --------------------------
(***************************************************************************)
(* The properties of Workspaces for any users, points of contact and       *)
(* number of requests.  LifeInv adds to them what a validation still knows *)
(* of what it has read, and that a writer tells whom it ought to.  A step  *)
(* is quiet (it moves one request on), a write, or an eviction.            *)
(***************************************************************************)
EXTENDS Workspaces, TLAPS

RoleRead(s) ==
  req[s].op = "store" =>
    req[s].entry.role = roles[req[s].by] \/ "role" \in req[s].entry.untold

ListingRead(s) ==
  req[s].op \in {"roles", "store"} =>
    (req[s].entry.listed <=> phase = "there") \/ "listing" \in req[s].entry.untold

HasCaller(r) == r.op \in {"fetch", "roles", "store", "ready"} => r.by \in Users

SlotOK(s) == HasCaller(req[s]) /\ RoleRead(s) /\ ListingRead(s) /\ req[s].told = req[s].due

RoleTold(u) == cache[u].role = roles[u] \/ "role" \in cache[u].untold
ListingTold(u) ==
  (cache[u].listed <=> phase = "there") \/ "listing" \in cache[u].untold

EntryOK(u) == cache[u] # NULL /\ ~WillEvict(u) => RoleTold(u) /\ ListingTold(u)

PermissionsOK == (\A s \in Slots : SlotOK(s)) /\ (\A u \in Users : EntryOK(u))

LifeInv == TypeOK /\ PermissionsOK /\ StraysExplained

LEMMA NullNoEntry == NULL \notin Entry /\ NULL \notin Users
BY NullIsNoValue

LEMMA OutdatedIs ==
  ASSUME NEW e \in Entry, NEW what \in {"role", "listing"}
  PROVE  /\ Outdated(e, what) \in Entry
         /\ Outdated(e, what).role = e.role
         /\ Outdated(e, what).listed = e.listed
         /\ Outdated(e, what).untold = e.untold \cup {what}
<1>. DEFINE w == e.untold \cup {what}
<1>1. e.untold \in SUBSET {"role", "listing"} /\ w \in SUBSET {"role", "listing"}
  BY DEF Entry
<1>2. Outdated(e, what) = [e EXCEPT !.untold = w]
  BY DEF Outdated, Entry
<1>. HIDE DEF w
<1>3. [e EXCEPT !.untold = w] \in Entry
  BY <1>1 DEF Entry
<1>4. /\ [e EXCEPT !.untold = w].role = e.role
      /\ [e EXCEPT !.untold = w].listed = e.listed
      /\ [e EXCEPT !.untold = w].untold = w
  BY DEF Entry
<1>. QED BY <1>2, <1>3, <1>4 DEF w

LEMMA BlankIsEntry == Blank \in Entry /\ NoRequest \in Request
<1>1. Blank \in Entry BY DEF Blank, Entry, RoleRow
<1>2. NoRequest \in Request BY <1>1 DEF NoRequest, Request, Ops, RoleRow
<1>. QED BY <1>1, <1>2

LEMMA HeldIs ==
  ASSUME NEW e \in Entry
  PROVE  Held(e) \in Entry
BY DEF Held, Entry

LEMMA SetOutIs ==
  ASSUME NEW op \in Ops, NEW row \in RoleRow, NEW told \in SUBSET Users,
         NEW due \in SUBSET Users
  PROVE  /\ SetOut(op, row, told, due) \in Request
         /\ SetOut(op, row, told, due).op = op
         /\ SetOut(op, row, told, due).told = told
         /\ SetOut(op, row, told, due).due = due
BY BlankIsEntry DEF SetOut, NoRequest, Request, RoleRow

LEMMA OnwardIs ==
  ASSUME TypeOK, NEW s \in Slots, NEW op \in Ops
  PROVE  /\ Onward(s, op) \in Request
         /\ Onward(s, op).op = op
         /\ Onward(s, op).told = req[s].told
         /\ Onward(s, op).due = req[s].due
BY DEF TypeOK, Onward, Request, RoleRow

-----------------------------------------------------------------------------
(* A quiet step moves one request on: if the request was going to evict      *)
(* somebody it still is, and what it has read is as it is stored.            *)
LEMMA QuietKeeps ==
  ASSUME LifeInv, NEW s \in Slots, NEW r \in Request,
         req' = [req EXCEPT ![s] = r],
         UNCHANGED <<phase, roles, cache, strays>>, settings' \in BOOLEAN,
         req[s].op \in Evicting =>
           req[s].op # "clear" /\ r.op \in Evicting /\ r.told = req[s].told,
         HasCaller(r), r.told = r.due,
         r.op = "store" => r.entry.role = roles[r.by] \/ "role" \in r.entry.untold,
         r.op \in {"roles", "store"} =>
           (r.entry.listed <=> phase = "there") \/ "listing" \in r.entry.untold
  PROVE  LifeInv'
<1>1. \A t \in Slots : req'[t] = IF t = s THEN r ELSE req[t]
  BY DEF LifeInv, TypeOK
<1>2. TypeOK'
  BY DEF LifeInv, TypeOK
<1>3. \A t \in Slots : SlotOK(t)'
  BY <1>1 DEF LifeInv, PermissionsOK, SlotOK, RoleRead, ListingRead
<1>4. \A u \in Users : WillEvict(u) => WillEvict(u)'
  BY <1>1 DEF WillEvict
<1>5. \A u \in Users : EntryOK(u)'
  BY <1>4 DEF LifeInv, PermissionsOK, EntryOK, RoleTold, ListingTold
<1>6. StraysExplained'
  <2>. SUFFICES ASSUME phase = "gone", \A t \in Slots : req'[t].op # "clear"
                PROVE  Holders \subseteq strays
    BY DEF StraysExplained, Holders
  <2>1. \A t \in Slots : req[t].op # "clear"
    BY <1>1 DEF Evicting
  <2>. QED BY <2>1 DEF LifeInv, StraysExplained
<1>. QED BY <1>2, <1>3, <1>5, <1>6 DEF LifeInv, PermissionsOK

(* Done is quiet, where nobody was to be evicted. *)
LEMMA DoneKeeps ==
  ASSUME LifeInv, NEW s \in Slots, req[s].op \notin Evicting, Done(s),
         UNCHANGED <<phase, roles, cache, strays>>, settings' \in BOOLEAN
  PROVE  LifeInv'
<1>1. /\ NoRequest \in Request /\ NoRequest.op = "none"
      /\ NoRequest.told = NoRequest.due /\ HasCaller(NoRequest)
  BY BlankIsEntry DEF NoRequest, HasCaller
<1>2. req' = [req EXCEPT ![s] = NoRequest]
  BY DEF Done
<1>. QED BY <1>1, <1>2, QuietKeeps

LEMMA ValidationKeeps ==
  ASSUME LifeInv, NEW s \in Slots,
         \/ \E u \in Users : Hit(s, u) \/ Miss(s, u)
         \/ ReadListing(s) \/ ReadRoles(s) \/ AnswerOnly(s)
  PROVE  LifeInv'
<1>0. /\ req[s] \in Request /\ req[s].entry \in Entry /\ SlotOK(s)
      /\ req[s].op \in Ops /\ settings \in BOOLEAN
  BY DEF LifeInv, TypeOK, Request, PermissionsOK
<1>1. ASSUME NEW u \in Users, Hit(s, u) PROVE LifeInv'
  <2>. DEFINE r == [NoRequest EXCEPT !.op = "ready", !.by = u, !.entry = Held(cache[u])]
  <2>1. cache[u] \in Entry BY <1>1 DEF Hit, LifeInv, TypeOK
  <2>2. /\ r \in Request /\ r.op = "ready" /\ r.by = u /\ r.told = {} /\ r.due = {}
    BY <2>1, HeldIs, BlankIsEntry DEF NoRequest, Request, Ops
  <2>3. req' = [req EXCEPT ![s] = r] /\ UNCHANGED <<phase, settings, roles, cache, strays>>
    BY <1>1 DEF Hit
  <2>4. req[s].op = "none"
    <3>1. req[s] = NoRequest BY <1>1 DEF Hit, Idle
    <3>2. NoRequest.op = "none" BY DEF NoRequest
    <3>. QED BY <3>1, <3>2
  <2>. HIDE DEF r
  <2>. QED BY <2>2, <2>3, <2>4, <1>0, QuietKeeps DEF HasCaller, Evicting
<1>2. ASSUME NEW u \in Users, Miss(s, u) PROVE LifeInv'
  <2>. DEFINE r == [NoRequest EXCEPT !.op = "fetch", !.by = u]
  <2>2. /\ r \in Request /\ r.op = "fetch" /\ r.by = u /\ r.told = {} /\ r.due = {}
    BY BlankIsEntry DEF NoRequest, Request, Ops
  <2>3. req' = [req EXCEPT ![s] = r] /\ UNCHANGED <<phase, settings, roles, cache, strays>>
    BY <1>2 DEF Miss
  <2>4. req[s].op = "none"
    <3>1. req[s] = NoRequest BY <1>2 DEF Miss, Idle
    <3>2. NoRequest.op = "none" BY DEF NoRequest
    <3>. QED BY <3>1, <3>2
  <2>. HIDE DEF r
  <2>. QED BY <2>2, <2>3, <2>4, <1>0, QuietKeeps DEF HasCaller, Evicting
<1>3. ASSUME ReadListing(s) PROVE LifeInv'
  <2>. DEFINE e == [req[s].entry EXCEPT !.listed = (phase = "there")]
              r == [req[s] EXCEPT !.op = "roles", !.entry = e]
  <2>1. e \in Entry /\ (e.listed <=> phase = "there")
    BY <1>0 DEF Entry
  <2>2. req' = [req EXCEPT ![s].op = "roles", ![s].entry.listed = (phase = "there")]
        /\ req[s].op = "fetch" /\ UNCHANGED <<phase, settings, roles, cache, strays>>
    BY <1>3 DEF ReadListing
  <2>3. req' = [req EXCEPT ![s] = r]
    BY <2>2, <1>0 DEF LifeInv, TypeOK, Request
  <2>. HIDE DEF e
  <2>4. /\ r \in Request /\ r.op = "roles" /\ r.by = req[s].by /\ r.entry = e
        /\ r.told = req[s].told /\ r.due = req[s].due
    BY <2>1, <1>0 DEF Request, Ops
  <2>. HIDE DEF r
  <2>5. r.by \in Users /\ r.told = r.due
    BY <2>2, <2>4, <1>0 DEF SlotOK, HasCaller
  <2>. QED BY <2>1, <2>2, <2>3, <2>4, <2>5, <1>0, QuietKeeps DEF HasCaller, Evicting
<1>4. ASSUME ReadRoles(s) PROVE LifeInv'
  <2>0. req[s].by \in Users /\ roles[req[s].by] \in RoleRow /\ ListingRead(s)
    BY <1>4, <1>0 DEF ReadRoles, SlotOK, HasCaller, LifeInv, TypeOK
  <2>. DEFINE e == [req[s].entry EXCEPT !.role = roles[req[s].by]]
              r == [req[s] EXCEPT !.op = "store", !.entry = e]
  <2>1. /\ e \in Entry /\ e.role = roles[req[s].by]
        /\ e.listed = req[s].entry.listed /\ e.untold = req[s].entry.untold
    BY <1>0, <2>0 DEF Entry
  <2>2. req' = [req EXCEPT ![s].op = "store", ![s].entry.role = roles[req[s].by]]
        /\ req[s].op = "roles" /\ UNCHANGED <<phase, settings, roles, cache, strays>>
    BY <1>4 DEF ReadRoles
  <2>3. req' = [req EXCEPT ![s] = r]
    BY <2>2, <1>0 DEF LifeInv, TypeOK, Request
  <2>. HIDE DEF e
  <2>4. /\ r \in Request /\ r.op = "store" /\ r.by = req[s].by /\ r.entry = e
        /\ r.told = req[s].told /\ r.due = req[s].due
    BY <2>1, <1>0 DEF Request, Ops
  <2>. HIDE DEF r
  <2>5. r.by \in Users /\ r.told = r.due
    BY <2>0, <2>4, <1>0 DEF SlotOK
  <2>6. (r.entry.listed <=> phase = "there") \/ "listing" \in r.entry.untold
    BY <2>0, <2>1, <2>2, <2>4 DEF ListingRead
  <2>7. r.entry.role = roles[r.by]
    BY <2>1, <2>4
  <2>. QED BY <2>2, <2>3, <2>4, <2>5, <2>6, <2>7, <1>0, QuietKeeps DEF HasCaller, Evicting
<1>5. ASSUME AnswerOnly(s) PROVE LifeInv'
  BY <1>0, <1>5, DoneKeeps DEF AnswerOnly, Evicting
<1>. QED BY <1>1, <1>2, <1>3, <1>4, <1>5

(* What a handler does before it writes, or instead. *)
LEMMA HandlerKeeps ==
  ASSUME LifeInv, NEW s \in Slots,
         \/ Announce(s) \/ BeginDelete(s) \/ DeleteFails(s)
         \/ \E u \in Users, r \in Grantable : BeginGrant(s, u, r)
         \/ \E u \in Users : BeginRevoke(s, u)
         \/ RevokeFails(s) \/ SaveSettings(s)
  PROVE  LifeInv'
<1>0. req[s] \in Request /\ SlotOK(s) /\ settings \in BOOLEAN
  BY DEF LifeInv, TypeOK, PermissionsOK
<1>1. ASSUME Announce(s) PROVE LifeInv'
  <2>. DEFINE r == Onward(s, "evict")
  <2>1. r \in Request /\ r.op = "evict" /\ r.told = req[s].told /\ r.due = req[s].due
    BY OnwardIs DEF Ops, Evicting, LifeInv
  <2>2. req' = [req EXCEPT ![s] = r] /\ req[s].op = "announce"
        /\ UNCHANGED <<phase, settings, roles, cache, strays>>
    BY <1>1 DEF Announce, Proceed
  <2>. HIDE DEF r
  <2>. QED BY <2>1, <2>2, <1>0, QuietKeeps DEF HasCaller, Evicting, SlotOK
<1>2. ASSUME NEW op \in {"delete", "grant", "revoke"}, NEW row \in RoleRow,
             NEW told \in SUBSET Users,
             Proceed(s, SetOut(op, row, told, told)), req[s].op = "ready",
             UNCHANGED <<phase, settings, roles, cache, strays>>
      PROVE  LifeInv'
  <2>. DEFINE r == SetOut(op, row, told, told)
  <2>0. op \in Ops
    BY DEF Ops
  <2>1. r \in Request /\ r.op = op /\ r.told = told /\ r.due = told
    BY ONLY <2>0, SetOutIs
  <2>2. req' = [req EXCEPT ![s] = r]
    BY <1>2 DEF Proceed
  <2>. HIDE DEF r
  <2>. QED BY <2>1, <2>2, <1>0, <1>2, QuietKeeps DEF HasCaller, Evicting
<1>3. ASSUME BeginDelete(s) PROVE LifeInv'
  BY <1>2, <1>3 DEF BeginDelete, IsLead, ListMembers, Holders, RoleRow
<1>4. ASSUME NEW u \in Users, NEW r \in Grantable, BeginGrant(s, u, r) PROVE LifeInv'
  BY <1>2, <1>4 DEF BeginGrant, MayWriteRole, IsLead, Grantable, RoleRow
<1>5. ASSUME NEW u \in Users, BeginRevoke(s, u) PROVE LifeInv'
  BY <1>2, <1>5 DEF BeginRevoke, MayWriteRole, IsLead, RoleRow
<1>6. ASSUME DeleteFails(s) \/ RevokeFails(s) \/ SaveSettings(s) PROVE LifeInv'
  BY <1>0, <1>6, DoneKeeps DEF DeleteFails, RevokeFails, SaveSettings, IsLead, Evicting
<1>. QED BY <1>1, <1>3, <1>4, <1>5, <1>6

-----------------------------------------------------------------------------
(* A write changes the roles of some users or, for all, the listing, and     *)
(* leaves the request with those it ought to tell still to evict.            *)
LEMMA WritesKeep ==
  ASSUME LifeInv, NEW s \in Slots, NEW what \in {"role", "listing"},
         NEW users \in SUBSET Users, NEW next \in Request,
         Writes(s, what, users, next),
         next.op \in Evicting, next.told = next.due,
         req[s].op \in Evicting => next.told = req[s].told,
         what = "role" =>
           phase' = phase /\ \A u \in Users \ users : roles'[u] = roles[u],
         what = "listing" => roles' = roles /\ users = Users
  PROVE  /\ cache' \in [Users -> Entry \cup {NULL}]
         /\ req' \in [Slots -> Request]
         /\ \A t \in Slots : req'[t].op = IF t = s THEN next.op ELSE req[t].op
         /\ PermissionsOK'
<1>1. /\ \A u \in Users : cache'[u] = IF cache[u] # NULL /\ u \in users \ next.due
                                      THEN Outdated(cache[u], what) ELSE cache[u]
      /\ \A t \in Slots : req'[t] = IF t = s THEN next
                                    ELSE IF HasRead(t, what) /\ req[t].by \in users
                                    THEN [req[t] EXCEPT !.entry = Outdated(@, what)]
                                    ELSE req[t]
      /\ DOMAIN cache' = Users /\ DOMAIN req' = Slots
      /\ cache' = [u \in Users |-> cache'[u]]
      /\ req' = [t \in Slots |-> req'[t]]
  BY DEF Writes
<1>2. \A u \in Users : cache[u] # NULL => cache[u] \in Entry
  BY DEF LifeInv, TypeOK
<1>3. cache' \in [Users -> Entry \cup {NULL}]
  <2>1. \A u \in Users : cache'[u] \in Entry \cup {NULL}
    BY <1>1, <1>2, OutdatedIs
  <2>. QED BY <2>1, <1>1
<1>4. ASSUME NEW t \in Slots, t # s, HasRead(t, what), req[t].by \in users
      PROVE  /\ req'[t] \in Request
             /\ req'[t].entry = Outdated(req[t].entry, what)
             /\ req'[t].op = req[t].op /\ req'[t].by = req[t].by
             /\ req'[t].told = req[t].told /\ req'[t].due = req[t].due
  <2>1. req[t] \in Request /\ req[t].entry \in Entry
    BY DEF LifeInv, TypeOK, Request
  <2>. DEFINE e == Outdated(req[t].entry, what)
  <2>2. e \in Entry BY <2>1, OutdatedIs
  <2>3. req'[t] = [req[t] EXCEPT !.entry = e]
    BY <1>1, <1>4, <2>1
  <2>. HIDE DEF e
  <2>4. /\ req'[t] \in Request /\ req'[t].entry = e
        /\ req'[t].op = req[t].op /\ req'[t].by = req[t].by
        /\ req'[t].told = req[t].told /\ req'[t].due = req[t].due
    BY <2>1, <2>2, <2>3 DEF Request
  <2>. QED BY <2>4 DEF e
<1>5. ASSUME NEW t \in Slots, t # s, ~(HasRead(t, what) /\ req[t].by \in users)
      PROVE  req'[t] = req[t]
  BY <1>1, <1>5
<1>6. \A t \in Slots : req'[t] \in Request
  <2>. SUFFICES ASSUME NEW t \in Slots PROVE req'[t] \in Request OBVIOUS
  <2>1. CASE t = s BY <2>1, <1>1
  <2>2. CASE t # s BY <2>2, <1>4, <1>5 DEF LifeInv, TypeOK
  <2>. QED BY <2>1, <2>2
<1>7. \A t \in Slots : req'[t].op = IF t = s THEN next.op ELSE req[t].op
  BY <1>1, <1>4, <1>5
<1>8. ASSUME NEW t \in Slots PROVE SlotOK(t)'
  <2>0. SlotOK(t) /\ req[t] \in Request /\ req[t].entry \in Entry
    BY DEF LifeInv, PermissionsOK, TypeOK, Request
  <2>1. CASE t = s
    BY <2>1, <1>1 DEF SlotOK, HasCaller, RoleRead, ListingRead, Evicting
  <2>2. CASE t # s /\ HasRead(t, what) /\ req[t].by \in users
    <3>1. /\ req'[t].entry.role = req[t].entry.role
          /\ req'[t].entry.listed = req[t].entry.listed
          /\ req'[t].entry.untold = req[t].entry.untold \cup {what}
          /\ req'[t].op = req[t].op /\ req'[t].by = req[t].by
          /\ req'[t].told = req[t].told /\ req'[t].due = req[t].due
      BY <2>2, <1>4, <2>0, OutdatedIs
    <3>2. RoleRead(t)'
      <4>1. CASE what = "role" BY <4>1, <3>1 DEF RoleRead
      <4>2. CASE what = "listing" BY <4>2, <3>1, <2>0 DEF RoleRead, SlotOK
      <4>. QED BY <4>1, <4>2
    <3>3. ListingRead(t)'
      <4>1. CASE what = "listing" BY <4>1, <3>1 DEF ListingRead
      <4>2. CASE what = "role" BY <4>2, <3>1, <2>0 DEF ListingRead, SlotOK
      <4>. QED BY <4>1, <4>2
    <3>. QED BY <3>1, <3>2, <3>3, <2>0 DEF SlotOK, HasCaller
  <2>3. CASE t # s /\ ~(HasRead(t, what) /\ req[t].by \in users)
    <3>1. req'[t] = req[t] BY <2>3, <1>5
    <3>2. RoleRead(t)'
      <4>1. SUFFICES ASSUME req[t].op = "store" PROVE RoleRead(t)'
        BY <3>1 DEF RoleRead
      <4>2. req[t].by \in Users BY <4>1, <2>0 DEF SlotOK, HasCaller
      <4>3. roles'[req[t].by] = roles[req[t].by]
        BY <4>1, <4>2, <2>3 DEF HasRead
      <4>. QED BY <3>1, <4>3, <2>0 DEF RoleRead, SlotOK
    <3>3. ListingRead(t)'
      <4>1. SUFFICES ASSUME req[t].op \in {"roles", "store"} PROVE ListingRead(t)'
        BY <3>1 DEF ListingRead
      <4>2. req[t].by \in Users BY <4>1, <2>0 DEF SlotOK, HasCaller
      <4>3. phase' = phase
        BY <4>1, <4>2, <2>3 DEF HasRead
      <4>. QED BY <3>1, <4>3, <2>0 DEF ListingRead, SlotOK
    <3>. QED BY <3>1, <3>2, <3>3, <2>0 DEF SlotOK
  <2>. QED BY <2>1, <2>2, <2>3
<1>9. ASSUME NEW u \in Users PROVE EntryOK(u)'
  <2>. SUFFICES ASSUME cache'[u] # NULL, ~WillEvict(u)'
                PROVE  RoleTold(u)' /\ ListingTold(u)'
    BY DEF EntryOK
  <2>1. u \notin next.due /\ ~WillEvict(u)
    <3>1. u \notin next.told BY <1>1 DEF WillEvict
    <3>2. ASSUME NEW t \in Slots, req[t].op \in Evicting, u \in req[t].told PROVE FALSE
      <4>1. CASE t = s BY <4>1, <3>1, <3>2
      <4>2. CASE t # s
        <5>1. req'[t].op = req[t].op /\ req'[t].told = req[t].told
          BY <4>2, <1>4, <1>5
        <5>. QED BY <5>1, <3>2 DEF WillEvict
      <4>. QED BY <4>1, <4>2
    <3>. QED BY <3>1, <3>2 DEF WillEvict
  <2>2. cache[u] \in Entry /\ RoleTold(u) /\ ListingTold(u)
    BY <2>1, <1>1, <1>2 DEF LifeInv, PermissionsOK, EntryOK
  <2>3. CASE u \in users
    <3>1. cache'[u] = Outdated(cache[u], what)
      BY <2>1, <2>2, <2>3, <1>1, NullNoEntry
    <3>2. /\ cache'[u].role = cache[u].role /\ cache'[u].listed = cache[u].listed
          /\ cache'[u].untold = cache[u].untold \cup {what}
      BY <3>1, <2>2, OutdatedIs
    <3>3. RoleTold(u)'
      <4>1. CASE what = "role" BY <4>1, <3>2 DEF RoleTold
      <4>2. CASE what = "listing" BY <4>2, <3>2, <2>2 DEF RoleTold
      <4>. QED BY <4>1, <4>2
    <3>4. ListingTold(u)'
      <4>1. CASE what = "listing" BY <4>1, <3>2 DEF ListingTold
      <4>2. CASE what = "role" BY <4>2, <3>2, <2>2 DEF ListingTold
      <4>. QED BY <4>1, <4>2
    <3>. QED BY <3>3, <3>4
  <2>4. CASE u \notin users
    <3>1. cache'[u] = cache[u] /\ what = "role" BY <2>4, <1>1
    <3>. QED BY <3>1, <2>2, <2>4 DEF RoleTold, ListingTold
  <2>. QED BY <2>3, <2>4
<1>. QED BY <1>1, <1>3, <1>6, <1>7, <1>8, <1>9 DEF PermissionsOK

LEMMA CreateKeeps ==
  ASSUME LifeInv, NEW s \in Slots, Create(s)
  PROVE  LifeInv'
<1>. DEFINE u == req[s].by
            next == SetOut("assign", NULL, {u}, {u})
<1>1. u \in Users
  BY DEF Create, LifeInv, PermissionsOK, SlotOK, HasCaller
<1>2. /\ next \in Request /\ next.op = "assign" /\ next.told = {u} /\ next.due = {u}
  BY <1>1, SetOutIs DEF Ops, Evicting, RoleRow
<1>3. /\ Writes(s, "listing", Users, next) /\ req[s].op = "ready"
      /\ phase' = "there" /\ UNCHANGED <<settings, roles, strays>>
  BY DEF Create
<1>. HIDE DEF next
<1>4. /\ cache' \in [Users -> Entry \cup {NULL}]
      /\ req' \in [Slots -> Request]
      /\ PermissionsOK'
  BY <1>2, <1>3, WritesKeep DEF Evicting
<1>5. TypeOK' /\ StraysExplained'
  BY <1>3, <1>4 DEF LifeInv, TypeOK, StraysExplained
<1>. QED BY <1>4, <1>5 DEF LifeInv

LEMMA AssignRowKeeps ==
  ASSUME LifeInv, NEW s \in Slots, NEW r \in RoleRow,
         NEW next \in {"announce", "evict"},
         req[s].op \in {"assign", "grant"}, AssignRow(s, r, next),
         UNCHANGED <<phase, settings>>
  PROVE  LifeInv'
<1>0. /\ req[s] \in Request /\ req[s].told \in SUBSET Users /\ SlotOK(s)
      /\ roles \in [Users -> RoleRow]
  BY DEF LifeInv, TypeOK, Request, PermissionsOK
<1>1. PICK u \in req[s].told :
        /\ roles' = [roles EXCEPT ![u] = r]
        /\ strays' = IF phase = "gone" THEN strays \cup {u} ELSE strays
        /\ Writes(s, "role", {u}, Onward(s, next))
  BY DEF AssignRow
<1>2. u \in Users BY <1>0
<1>. DEFINE n == Onward(s, next)
<1>3. n \in Request /\ n.op = next /\ n.told = req[s].told /\ n.due = n.told
  BY <1>0, OnwardIs DEF Ops, Evicting, LifeInv, SlotOK
<1>4. Writes(s, "role", {u}, n)
  BY <1>1
<1>. HIDE DEF n
<1>5. \A v \in Users \ {u} : roles'[v] = roles[v]
  BY <1>0, <1>1
<1>6. /\ cache' \in [Users -> Entry \cup {NULL}]
      /\ req' \in [Slots -> Request]
      /\ \A t \in Slots : req'[t].op = IF t = s THEN n.op ELSE req[t].op
      /\ PermissionsOK'
  BY <1>2, <1>3, <1>4, <1>5, WritesKeep DEF Evicting
<1>7. TypeOK'
  BY <1>0, <1>1, <1>2, <1>6 DEF LifeInv, TypeOK
<1>8. StraysExplained'
  <2>. SUFFICES ASSUME phase = "gone", \A t \in Slots : req'[t].op # "clear",
                       NEW v \in Users, roles'[v] # NULL
                PROVE  v \in strays'
    BY DEF StraysExplained, Holders
  <2>1. \A t \in Slots : req[t].op # "clear" BY <1>6
  <2>2. Holders \subseteq strays BY <2>1 DEF LifeInv, StraysExplained
  <2>. QED BY <2>2, <1>1, <1>5 DEF Holders
<1>. QED BY <1>6, <1>7, <1>8 DEF LifeInv

LEMMA DeleteKeeps ==
  ASSUME LifeInv, NEW s \in Slots, Delete(s)
  PROVE  LifeInv'
<1>0. SlotOK(s) BY DEF LifeInv, PermissionsOK
<1>. DEFINE n == Onward(s, "clear")
<1>1. n \in Request /\ n.op = "clear" /\ n.told = req[s].told /\ n.due = n.told
  BY <1>0, OnwardIs DEF Ops, Evicting, LifeInv, SlotOK
<1>2. /\ Writes(s, "listing", Users, n) /\ req[s].op = "delete"
      /\ phase' = "gone" /\ UNCHANGED <<settings, roles, strays>>
  BY DEF Delete
<1>. HIDE DEF n
<1>3. /\ cache' \in [Users -> Entry \cup {NULL}]
      /\ req' \in [Slots -> Request]
      /\ \A t \in Slots : req'[t].op = IF t = s THEN n.op ELSE req[t].op
      /\ PermissionsOK'
  BY <1>1, <1>2, WritesKeep DEF Evicting
<1>4. TypeOK' BY <1>2, <1>3 DEF LifeInv, TypeOK
<1>5. StraysExplained' BY <1>1, <1>3 DEF StraysExplained
<1>. QED BY <1>3, <1>4, <1>5 DEF LifeInv

LEMMA ClearRolesKeeps ==
  ASSUME LifeInv, NEW s \in Slots, ClearRoles(s)
  PROVE  LifeInv'
<1>0. SlotOK(s) BY DEF LifeInv, PermissionsOK
<1>. DEFINE n == Onward(s, "evict")
<1>1. n \in Request /\ n.op = "evict" /\ n.told = req[s].told /\ n.due = n.told
  BY <1>0, OnwardIs DEF Ops, Evicting, LifeInv, SlotOK
<1>2. /\ Writes(s, "role", Holders, n) /\ req[s].op = "clear" /\ strays' = {}
      /\ roles' = [u \in Users |-> NULL] /\ UNCHANGED <<phase, settings>>
  BY DEF ClearRoles, Cleared
<1>. HIDE DEF n
<1>3. Holders \in SUBSET Users /\ \A u \in Users \ Holders : roles'[u] = roles[u]
  BY <1>2 DEF Holders
<1>4. /\ cache' \in [Users -> Entry \cup {NULL}]
      /\ req' \in [Slots -> Request]
      /\ PermissionsOK'
  BY <1>1, <1>2, <1>3, WritesKeep DEF Evicting
<1>5. TypeOK' BY <1>2, <1>4 DEF LifeInv, TypeOK, RoleRow
<1>6. StraysExplained' BY <1>2 DEF StraysExplained, Holders
<1>. QED BY <1>4, <1>5, <1>6 DEF LifeInv

LEMMA RevokeKeeps ==
  ASSUME LifeInv, NEW s \in Slots, Revoke(s)
  PROVE  LifeInv'
<1>0. /\ req[s].told \in SUBSET Users /\ SlotOK(s) /\ roles \in [Users -> RoleRow]
  BY DEF LifeInv, TypeOK, Request, PermissionsOK
<1>1. PICK u \in req[s].told :
        /\ roles' = [roles EXCEPT ![u] = NULL]
        /\ strays' = strays \ {u}
        /\ Writes(s, "role", {u}, Onward(s, "evict"))
  BY DEF Revoke
<1>2. u \in Users /\ req[s].op = "revoke" /\ UNCHANGED <<phase, settings>>
  BY <1>0 DEF Revoke
<1>. DEFINE n == Onward(s, "evict")
<1>3. n \in Request /\ n.op = "evict" /\ n.told = req[s].told /\ n.due = n.told
  BY <1>0, OnwardIs DEF Ops, Evicting, LifeInv, SlotOK
<1>4. Writes(s, "role", {u}, n)
  BY <1>1
<1>. HIDE DEF n
<1>5. \A v \in Users \ {u} : roles'[v] = roles[v]
  BY <1>0, <1>1
<1>6. /\ cache' \in [Users -> Entry \cup {NULL}]
      /\ req' \in [Slots -> Request]
      /\ \A t \in Slots : req'[t].op = IF t = s THEN n.op ELSE req[t].op
      /\ PermissionsOK'
  BY <1>2, <1>3, <1>4, <1>5, WritesKeep DEF Evicting
<1>7. TypeOK'
  BY <1>0, <1>1, <1>2, <1>6 DEF LifeInv, TypeOK, RoleRow
<1>8. StraysExplained'
  <2>. SUFFICES ASSUME phase = "gone", \A t \in Slots : req'[t].op # "clear",
                       NEW v \in Users, roles'[v] # NULL
                PROVE  v \in strays'
    BY <1>2 DEF StraysExplained, Holders
  <2>1. \A t \in Slots : req[t].op # "clear" BY <1>2, <1>6
  <2>2. Holders \subseteq strays BY <2>1 DEF LifeInv, StraysExplained
  <2>3. v # u BY <1>0, <1>1, <1>2
  <2>. QED BY <2>2, <2>3, <1>1, <1>5 DEF Holders
<1>. QED BY <1>6, <1>7, <1>8 DEF LifeInv

-----------------------------------------------------------------------------
(* Steps that touch the cache alone. *)

LEMMA StoreKeeps ==
  ASSUME LifeInv, NEW s \in Slots, Store(s)
  PROVE  LifeInv'
<1>. DEFINE u == req[s].by
            e == req[s].entry
            r == [req[s] EXCEPT !.op = "ready", !.entry = Held(e)]
<1>0. /\ req[s] \in Request /\ e \in Entry /\ SlotOK(s) /\ req[s].op = "store"
      /\ Held(e) \in Entry
  BY HeldIs DEF Store, LifeInv, TypeOK, PermissionsOK, Request
<1>1. u \in Users BY <1>0 DEF SlotOK, HasCaller
<1>2. /\ cache' = [cache EXCEPT ![u] = e]
      /\ UNCHANGED <<phase, settings, roles, strays>>
  BY DEF Store
<1>3. req' = [req EXCEPT ![s] = r]
  BY <1>0 DEF Store, LifeInv, TypeOK, Request
<1>4. /\ r \in Request /\ r.op = "ready" /\ r.by = u
      /\ r.told = req[s].told /\ r.due = req[s].due
  BY <1>0 DEF Request, Ops
<1>. HIDE DEF r
<1>5. \A t \in Slots : req'[t] = IF t = s THEN r ELSE req[t]
  BY <1>3 DEF LifeInv, TypeOK
<1>6. \A v \in Users : cache'[v] = IF v = u THEN e ELSE cache[v]
  BY <1>1, <1>2 DEF LifeInv, TypeOK
<1>7. TypeOK'
  BY <1>0, <1>1, <1>2, <1>3, <1>4 DEF LifeInv, TypeOK
<1>8. \A t \in Slots : SlotOK(t)'
  <2>1. ASSUME NEW t \in Slots, t = s PROVE SlotOK(t)'
    BY <2>1, <1>0, <1>1, <1>4, <1>5 DEF SlotOK, HasCaller, RoleRead, ListingRead
  <2>2. ASSUME NEW t \in Slots, t # s PROVE SlotOK(t)'
    BY <2>2, <1>2, <1>5 DEF LifeInv, PermissionsOK, SlotOK, RoleRead, ListingRead
  <2>. QED BY <2>1, <2>2
<1>9. \A v \in Users : WillEvict(v) => WillEvict(v)'
  BY <1>0, <1>5 DEF WillEvict, Evicting
<1>10. \A v \in Users : EntryOK(v)'
  <2>. SUFFICES ASSUME NEW v \in Users, cache'[v] # NULL, ~WillEvict(v)'
                PROVE  RoleTold(v)' /\ ListingTold(v)'
    BY DEF EntryOK
  <2>1. CASE v = u
    <3>1. cache'[v] = e BY <2>1, <1>6
    <3>. QED BY <3>1, <2>1, <1>0, <1>2 DEF SlotOK, RoleRead, ListingRead, RoleTold, ListingTold
  <2>2. CASE v # u
    <3>1. cache'[v] = cache[v] BY <2>2, <1>6
    <3>. QED BY <3>1, <1>2, <1>9 DEF LifeInv, PermissionsOK, EntryOK, RoleTold, ListingTold
  <2>. QED BY <2>1, <2>2
<1>11. StraysExplained'
  <2>1. (\A t \in Slots : req'[t].op # "clear") => \A t \in Slots : req[t].op # "clear"
    BY <1>0, <1>5
  <2>. QED BY <2>1, <1>2 DEF LifeInv, StraysExplained, Holders
<1>. QED BY <1>7, <1>8, <1>10, <1>11 DEF LifeInv, PermissionsOK

(* A request ends, with the entries of the users it had to tell gone, or     *)
(* marked; what it leaves of the others is as it was.                        *)
LEMMA EndKeeps ==
  ASSUME LifeInv, NEW s \in Slots, Done(s),
         UNCHANGED <<phase, settings, roles>>,
         cache' \in [Users -> Entry \cup {NULL}],
         \A u \in Users :
           \/ cache'[u] = NULL
           \/ cache'[u] = cache[u] /\ ~(req[s].op \in Evicting /\ u \in req[s].told)
           \/ cache'[u].untold = {"role", "listing"},
         strays' \subseteq Users,
         req[s].op = "clear" => strays' = Holders,
         req[s].op # "clear" => strays' = strays
  PROVE  LifeInv'
<1>1. \A t \in Slots : req'[t] = IF t = s THEN NoRequest ELSE req[t]
  BY DEF Done, LifeInv, TypeOK
<1>2. NoRequest \in Request /\ NoRequest.op = "none" /\ NoRequest.told = NoRequest.due
  BY BlankIsEntry DEF NoRequest
<1>3. TypeOK'
  BY <1>2 DEF Done, LifeInv, TypeOK
<1>4. \A t \in Slots : SlotOK(t)'
  <2>1. ASSUME NEW t \in Slots, t = s PROVE SlotOK(t)'
    BY <2>1, <1>1, <1>2 DEF SlotOK, HasCaller, RoleRead, ListingRead
  <2>2. ASSUME NEW t \in Slots, t # s PROVE SlotOK(t)'
    BY <2>2, <1>1 DEF LifeInv, PermissionsOK, SlotOK, RoleRead, ListingRead
  <2>. QED BY <2>1, <2>2
<1>5. ASSUME NEW u \in Users PROVE EntryOK(u)'
  <2>. SUFFICES ASSUME cache'[u] # NULL, ~WillEvict(u)'
                PROVE  RoleTold(u)' /\ ListingTold(u)'
    BY DEF EntryOK
  <2>1. CASE cache'[u].untold = {"role", "listing"}
    BY <2>1 DEF RoleTold, ListingTold
  <2>2. CASE cache'[u] = cache[u] /\ ~(req[s].op \in Evicting /\ u \in req[s].told)
    <3>1. ~WillEvict(u) BY <2>2, <1>1 DEF WillEvict
    <3>. QED BY <2>2, <3>1 DEF LifeInv, PermissionsOK, EntryOK, RoleTold, ListingTold
  <2>. QED BY <2>1, <2>2
<1>6. StraysExplained'
  <2>1. CASE req[s].op = "clear"
    BY <2>1 DEF StraysExplained, Holders
  <2>2. CASE req[s].op # "clear"
    <3>1. (\A t \in Slots : req'[t].op # "clear") => \A t \in Slots : req[t].op # "clear"
      BY <1>1, <2>2
    <3>. QED BY <3>1, <2>2 DEF LifeInv, StraysExplained, Holders
  <2>. QED BY <2>1, <2>2
<1>. QED BY <1>3, <1>4, <1>5, <1>6 DEF LifeInv, PermissionsOK

LEMMA EvictKeeps ==
  ASSUME LifeInv, NEW s \in Slots, Evict(s)
  PROVE  LifeInv'
<1>1. /\ cache' = [u \in Users |-> IF u \in req[s].told THEN NULL ELSE cache[u]]
      /\ Done(s) /\ req[s].op = "evict" /\ UNCHANGED <<phase, settings, roles, strays>>
  BY DEF Evict, Evicts
<1>2. cache' \in [Users -> Entry \cup {NULL}] /\ strays \subseteq Users
  BY <1>1 DEF LifeInv, TypeOK
<1>3. \A u \in Users : cache'[u] = NULL \/ (cache'[u] = cache[u] /\ u \notin req[s].told)
  BY <1>1
<1>. QED BY <1>1, <1>2, <1>3, EndKeeps

LEMMA DieKeeps ==
  ASSUME LifeInv, NEW s \in Slots, Die(s)
  PROVE  LifeInv'
<1>. DEFINE marked(u) == cache[u] # NULL /\ u \in req[s].told /\ req[s].op \in Evicting
            lost(u) == [cache[u] EXCEPT !.untold = {"role", "listing"}]
<1>1. /\ cache' = [u \in Users |-> IF marked(u) THEN lost(u) ELSE cache[u]]
      /\ strays' = (IF req[s].op = "clear" THEN Holders ELSE strays)
      /\ Done(s) /\ UNCHANGED <<phase, settings, roles>>
  BY DEF Die
<1>2. \A u \in Users : cache[u] \in Entry \cup {NULL}
  BY DEF LifeInv, TypeOK
<1>3. \A u \in Users : cache[u] # NULL =>
        lost(u) \in Entry /\ lost(u).untold = {"role", "listing"}
  BY <1>2 DEF Entry
<1>. HIDE DEF lost
<1>4. cache' \in [Users -> Entry \cup {NULL}]
  BY <1>1, <1>2, <1>3
<1>5. \A u \in Users :
        \/ cache'[u] = NULL
        \/ cache'[u] = cache[u] /\ ~(req[s].op \in Evicting /\ u \in req[s].told)
        \/ cache'[u].untold = {"role", "listing"}
  <2>. SUFFICES ASSUME NEW u \in Users
                PROVE \/ cache'[u] = NULL
                      \/ cache'[u] = cache[u] /\ ~(req[s].op \in Evicting /\ u \in req[s].told)
                      \/ cache'[u].untold = {"role", "listing"}
    OBVIOUS
  <2>1. CASE marked(u) BY <2>1, <1>1, <1>3
  <2>2. CASE ~marked(u) BY <2>2, <1>1
  <2>. QED BY <2>1, <2>2
<1>6. strays' \subseteq Users
  BY <1>1 DEF LifeInv, TypeOK, Holders
<1>. QED BY <1>1, <1>4, <1>5, <1>6, EndKeeps

LEMMA ExpireKeeps ==
  ASSUME LifeInv, NEW u \in Users, Expire(u)
  PROVE  LifeInv'
<1>1. cache' = [cache EXCEPT ![u] = NULL] /\ UNCHANGED <<phase, settings, roles, strays, req>>
  BY DEF Expire
<1>2. \A v \in Users : cache'[v] = IF v = u THEN NULL ELSE cache[v]
  BY <1>1 DEF LifeInv, TypeOK
<1>3. TypeOK' BY <1>1 DEF LifeInv, TypeOK
<1>4. \A s \in Slots : SlotOK(s)'
  BY <1>1 DEF LifeInv, PermissionsOK, SlotOK, RoleRead, ListingRead
<1>5. \A v \in Users : EntryOK(v)'
  BY <1>1, <1>2 DEF LifeInv, PermissionsOK, EntryOK, WillEvict, RoleTold, ListingTold
<1>6. StraysExplained' BY <1>1 DEF LifeInv, StraysExplained, Holders
<1>. QED BY <1>3, <1>4, <1>5, <1>6 DEF LifeInv, PermissionsOK

-----------------------------------------------------------------------------

THEOREM LifeInit == Init => LifeInv
<1>. SUFFICES ASSUME Init PROVE LifeInv OBVIOUS
<1>1. TypeOK
  BY BlankIsEntry DEF Init, TypeOK, RoleRow
<1>2. \A s \in Slots : SlotOK(s)
  BY DEF Init, SlotOK, HasCaller, RoleRead, ListingRead, NoRequest
<1>3. \A u \in Users : EntryOK(u)
  BY DEF Init, EntryOK
<1>4. StraysExplained BY DEF Init, StraysExplained
<1>. QED BY <1>1, <1>2, <1>3, <1>4 DEF LifeInv, PermissionsOK

THEOREM LifeStep == LifeInv /\ [Next]_vars => LifeInv'
<1>. SUFFICES ASSUME LifeInv, [Next]_vars PROVE LifeInv' OBVIOUS
<1>1. ASSUME NEW s \in Slots, Validate(s) PROVE LifeInv'
  BY <1>1, ValidationKeeps, StoreKeeps DEF Validate
<1>2. ASSUME NEW s \in Slots, AssignCreator(s) \/ Grant(s) PROVE LifeInv'
  <2>1. CASE AssignCreator(s)
    BY <2>1, AssignRowKeeps DEF AssignCreator, RoleRow, WorkspaceRoles
  <2>2. CASE Grant(s)
    <3>1. req[s].row \in RoleRow BY DEF LifeInv, TypeOK, Request
    <3>. QED BY <2>2, <3>1, AssignRowKeeps DEF Grant
  <2>. QED BY <1>2, <2>1, <2>2
<1>3. ASSUME NEW s \in Slots, Handle(s) PROVE LifeInv'
  BY <1>2, <1>3, HandlerKeeps, CreateKeeps, DeleteKeeps, ClearRolesKeeps, RevokeKeeps,
     EvictKeeps DEF Handle
<1>4. ASSUME NEW s \in Slots, Die(s) PROVE LifeInv'
  BY <1>4, DieKeeps
<1>5. ASSUME NEW u \in Users, Expire(u) PROVE LifeInv'
  BY <1>5, ExpireKeeps
<1>6. CASE UNCHANGED vars
  BY <1>6 DEF vars, LifeInv, TypeOK, PermissionsOK, SlotOK, RoleRead, ListingRead,
       EntryOK, WillEvict, RoleTold, ListingTold, StraysExplained, Holders
<1>. QED BY <1>1, <1>3, <1>4, <1>5, <1>6 DEF Next

(* The inductive invariant of a workspace's life. *)
THEOREM LifeSafety == Spec => []LifeInv
BY LifeInit, LifeStep, PTL DEF Spec

(* Every variable has its type. *)
THEOREM LifeTypeCorrect == Spec => []TypeOK
<1>1. LifeInv => TypeOK BY DEF LifeInv
<1>. QED BY <1>1, LifeSafety, PTL

(* Roles left behind by a deletion are explained by its death or a race. *)
THEOREM RolesGoWithWorkspace == Spec => []StraysExplained
<1>1. LifeInv => StraysExplained BY DEF LifeInv
<1>. QED BY <1>1, LifeSafety, PTL

(* Cached permissions are current but for those never told. *)
THEOREM PermissionsCurrent == Spec => []EntriesCurrent
<1>1. LifeInv => EntriesCurrent
  BY DEF LifeInv, PermissionsOK, EntryOK, RoleTold, ListingTold, EntriesCurrent
<1>. QED BY <1>1, LifeSafety, PTL

(* No role comes back to a workspace that is gone and clean. *)
THEOREM NoRoleComesBack == Spec => GoneStaysClean
<1>1. LifeInv /\ [Next]_vars =>
        [phase = "gone" /\ Holders = {} /\ (\A s \in Slots : req[s].op \notin {"assign", "grant"})
           => \A s \in Slots : req'[s].op # "grant" /\ roles' = roles]_vars
  <2>. SUFFICES ASSUME LifeInv, Next, phase = "gone", Holders = {},
                       \A s \in Slots : req[s].op \notin {"assign", "grant"}
                PROVE  \A t \in Slots : req'[t].op # "grant" /\ roles' = roles
    BY DEF vars
  <2>0. /\ \A u \in Users : roles[u] = NULL
        /\ roles = [u \in Users |-> NULL] /\ req \in [Slots -> Request]
    BY DEF Holders, LifeInv, TypeOK
  <2>1. ASSUME NEW s \in Slots, NEW r, r.op # "grant", req' = [req EXCEPT ![s] = r]
        PROVE  \A t \in Slots : req'[t].op # "grant"
    BY <2>0, <2>1
  <2>2. ASSUME NEW s \in Slots, NEW what, NEW users, NEW r, r.op # "grant",
               Writes(s, what, users, r)
        PROVE  \A t \in Slots : req'[t].op # "grant"
    <3>. SUFFICES ASSUME NEW t \in Slots PROVE req'[t].op # "grant" OBVIOUS
    <3>. DEFINE e == Outdated(req[t].entry, what)
    <3>1. req[t] \in Request BY <2>0
    <3>2. req'[t] = r \/ req'[t] = [req[t] EXCEPT !.entry = e] \/ req'[t] = req[t]
      BY <2>2 DEF Writes
    <3>. HIDE DEF e
    <3>3. [req[t] EXCEPT !.entry = e].op = req[t].op BY <3>1 DEF Request
    <3>. QED BY <3>2, <3>3, <2>2
  <2>3. /\ NoRequest.op = "none"
        /\ \A s \in Slots, op \in Ops : Onward(s, op).op = op
        /\ \A op \in Ops, row \in RoleRow, told, due \in SUBSET Users :
             SetOut(op, row, told, due).op = op
    BY OnwardIs, SetOutIs DEF NoRequest, LifeInv
  <2>4. ASSUME NEW s \in Slots, Validate(s)
        PROVE  \A t \in Slots : req'[t].op # "grant" /\ roles' = roles
    <3>1. ASSUME NEW u \in Users, Hit(s, u) \/ Miss(s, u)
          PROVE  \A t \in Slots : req'[t].op # "grant" /\ roles' = roles
      <4>. DEFINE h == [NoRequest EXCEPT !.op = "ready", !.by = u, !.entry = Held(cache[u])]
                  m == [NoRequest EXCEPT !.op = "fetch", !.by = u]
      <4>1. h.op = "ready" /\ m.op = "fetch"
        BY DEF NoRequest
      <4>2. (req' = [req EXCEPT ![s] = h] \/ req' = [req EXCEPT ![s] = m]) /\ roles' = roles
        BY <3>1 DEF Hit, Miss
      <4>. HIDE DEF h, m
      <4>. QED BY <4>1, <4>2, <2>1
    <3>2. ASSUME ReadListing(s) \/ ReadRoles(s) \/ Store(s)
          PROVE  \A t \in Slots : req'[t].op # "grant" /\ roles' = roles
      BY <3>2, <2>0 DEF ReadListing, ReadRoles, Store, Request
    <3>3. ASSUME AnswerOnly(s)
          PROVE  \A t \in Slots : req'[t].op # "grant" /\ roles' = roles
      BY <3>3, <2>1, <2>3 DEF AnswerOnly, Done
    <3>. QED BY <2>4, <3>1, <3>2, <3>3 DEF Validate
  <2>5. ASSUME NEW s \in Slots, Handle(s)
        PROVE  \A t \in Slots : req'[t].op # "grant" /\ roles' = roles
    <3>1. ~Create(s) /\ ~AssignCreator(s) /\ ~Grant(s) /\ ~SaveSettings(s)
          /\ \A u \in Users : ~BeginRevoke(s, u) /\ \A r \in Grantable : ~BeginGrant(s, u, r)
      BY DEF Create, AssignCreator, Grant, SaveSettings, BeginGrant, BeginRevoke, MayWriteRole
    <3>2. ~Revoke(s)
      <4>1. req[s].told \in SUBSET Users BY <2>0 DEF Request
      <4>. QED BY <4>1, <2>0 DEF Revoke
    <3>3. ASSUME Announce(s) \/ BeginDelete(s)
          PROVE  \A t \in Slots : req'[t].op # "grant" /\ roles' = roles
      <4>1. Onward(s, "evict").op = "evict"
        BY <2>3 DEF Ops, Evicting
      <4>2. SetOut("delete", NULL, Holders, Holders).op = "delete"
        BY <2>3 DEF Ops, RoleRow, Holders
      <4>. QED BY <3>3, <4>1, <4>2, <2>1 DEF Announce, BeginDelete, ListMembers, Proceed
    <3>4. ASSUME Delete(s)
          PROVE  \A t \in Slots : req'[t].op # "grant" /\ roles' = roles
      BY <3>4 DEF Delete, Deletable
    <3>5. ASSUME ClearRoles(s)
          PROVE  \A t \in Slots : req'[t].op # "grant" /\ roles' = roles
      <4>1. Onward(s, "evict").op = "evict"
        BY <2>3 DEF Ops, Evicting
      <4>. QED BY <3>5, <4>1, <2>0, <2>2 DEF ClearRoles, Cleared
    <3>6. ASSUME DeleteFails(s) \/ RevokeFails(s) \/ Evict(s)
          PROVE  \A t \in Slots : req'[t].op # "grant" /\ roles' = roles
      <4>1. req' = [req EXCEPT ![s] = NoRequest] /\ roles' = roles
        BY <3>6 DEF DeleteFails, RevokeFails, Evict, Evicts, Done
      <4>2. NoRequest.op # "grant" BY <2>3
      <4>. QED BY <4>1, <4>2, <2>1
    <3>. QED BY <2>5, <3>1, <3>2, <3>3, <3>4, <3>5, <3>6 DEF Handle
  <2>6. ASSUME NEW s \in Slots, Die(s)
        PROVE  \A t \in Slots : req'[t].op # "grant" /\ roles' = roles
    BY <2>6, <2>1, <2>3 DEF Die, Done
  <2>7. ASSUME NEW u \in Users, Expire(u)
        PROVE  \A t \in Slots : req'[t].op # "grant" /\ roles' = roles
    BY <2>7 DEF Expire
  <2>. QED BY <2>4, <2>5, <2>6, <2>7 DEF Next
<1>. QED BY <1>1, LifeSafety, PTL DEF Spec, GoneStaysClean

-----------------------------------------------------------------------------
(* The gate of the proxy, for any ids.  Where every place that names a       *)
(* workspace agrees, the one resolved is what they name.                     *)

LEMMA ResolvedIsNamed ==
  ASSUME NEW c \in Call
  PROVE  /\ Resolved(c) = NULL <=> Named(c) = {}
         /\ Resolved(c) # NULL /\ (\A x, y \in Named(c) : x = y) => Named(c) = {Resolved(c)}
BY DEF Resolved, Named

LEMMA MismatchIs ==
  ASSUME NEW c \in Call
  PROVE  Mismatch(c) <=> ~(\A x, y \in Named(c) : x = y)
BY DEF Mismatch, Named

LEMMA CallsName ==
  ASSUME NEW c \in Call
  PROVE  /\ c.path \in Paths /\ c.method \in Methods /\ c.subject \in Ids
         /\ c.prefix \in Ids \cup {NULL}
         /\ c.header \in Ids \cup {NULL, "malformed"}
         /\ c.basic \in Ids \cup {NULL, "malformed"}
BY DEF Call

LEMMA SentOnIs ==
  ASSUME NEW u \in Caller, NEW c \in Call, NEW row \in Rows, NEW validator \in BOOLEAN
  PROVE  /\ SentOn(u, c, row, validator).status = "sent" <=> (NewChangeset(c) => row # "gone")
         /\ SentOn(u, c, row, validator).status = "sent" =>
              /\ SentOn(u, c, row, validator).workspace = Resolved(c)
              /\ SentOn(u, c, row, validator).tagged <=>
                   NewChangeset(c) /\ row = "flagged" /\ Contributes(u, c, validator)
BY DEF SentOn, Answer

(* The proxy's gate sends on exactly the calls it is meant to.               *)
LEMMA GateIsMeant ==
  ASSUME NEW u \in Caller, NEW c \in Call, NEW row \in Rows, NEW validator \in BOOLEAN
  PROVE  SendsWhatIsMeant(u, c, row, validator)
<1>. DEFINE a == Gate(u, c, row, validator)
<1>0. u.listed \in SUBSET Ids BY DEF Caller
<1>1. CASE BasicRefused(c)
  <2>1. a.status = "401" BY <1>1 DEF Gate, Answer
  <2>2. ~Meant(u, c, row)
    BY <1>0, <1>1, CallsName, NotIds DEF BasicRefused, Meant, Named
  <2>. QED BY <2>1, <2>2 DEF SendsWhatIsMeant
<1>2. CASE ~BasicRefused(c) /\ (c.path = "native" \/ c.header = "malformed" \/ Mismatch(c))
  <2>1. a.status \in {"404", "400"} BY <1>2 DEF Gate, Answer
  <2>2. ~Meant(u, c, row)
    BY <1>0, <1>2, MismatchIs, CallsName, NotIds DEF Meant, Named
  <2>. QED BY <2>1, <2>2 DEF SendsWhatIsMeant
<1>3. CASE /\ ~BasicRefused(c) /\ c.path # "native" /\ c.header # "malformed"
           /\ ~Mismatch(c) /\ Resolved(c) # NULL
  <2>1. Named(c) = {Resolved(c)} /\ \A x, y \in Named(c) : x = y
    BY <1>3, MismatchIs, ResolvedIsNamed
  <2>2. CASE Resolved(c) \in u.listed
    <3>1. a = SentOn(u, c, row, validator) BY <1>3, <2>2 DEF Gate
    <3>2. Meant(u, c, row) <=> (NewChangeset(c) => row # "gone")
      BY <1>3, <2>1, <2>2 DEF Meant
    <3>3. {Resolved(c)} \ {NULL} = Named(c)
      BY <1>3, <2>1
    <3>4. Contributes(u, c, validator) <=> Named(c) \cap u.leads = {} /\ ~validator
      BY <2>1 DEF Contributes
    <3>. QED BY <3>1, <3>2, <3>3, <3>4, SentOnIs DEF SendsWhatIsMeant
  <2>3. CASE Resolved(c) \notin u.listed
    <3>1. a.status = "403" BY <1>3, <2>3 DEF Gate, Answer
    <3>2. ~Meant(u, c, row) BY <2>1, <2>3 DEF Meant
    <3>. QED BY <3>1, <3>2 DEF SendsWhatIsMeant
  <2>. QED BY <2>2, <2>3
<1>4. CASE /\ ~BasicRefused(c) /\ c.path # "native" /\ c.header # "malformed"
           /\ ~Mismatch(c) /\ Resolved(c) = NULL
  <2>1. Named(c) = {} BY <1>4, ResolvedIsNamed
  <2>2. Meant(u, c, row) <=> (NewChangeset(c) => row # "gone")
                              /\ Tenantless(c) /\ Authorize(u, c)
    BY <1>4, <2>1, CallsName DEF Meant, Tenantless, Authorize, Methods
  <2>3. NewChangeset(c) => ~Tenantless(c)
    BY DEF NewChangeset, Tenantless
  <2>4. a = IF ~Tenantless(c) THEN Answer("400")
            ELSE IF Authorize(u, c) THEN Answer("sent") ELSE Answer("403")
    BY <1>4 DEF Gate
  <2>5. CASE Tenantless(c) /\ Authorize(u, c)
    <3>1. a.status = "sent" /\ a.workspace = NULL /\ ~a.tagged
      BY <2>4, <2>5 DEF Answer
    <3>. QED BY <2>1, <2>2, <2>3, <2>5, <3>1 DEF SendsWhatIsMeant
  <2>6. CASE ~(Tenantless(c) /\ Authorize(u, c))
    <3>1. a.status \in {"400", "403"} BY <2>4, <2>6 DEF Answer
    <3>. QED BY <2>2, <2>6, <3>1 DEF SendsWhatIsMeant
  <2>. QED BY <2>5, <2>6
<1>. QED BY <1>1, <1>2, <1>3, <1>4

(* The proxy's gate sends on what it is meant to for every caller a request  *)
(* can be.                                                                   *)
THEOREM GateServesAll == Spec => []GateServes
<1>1. \A u \in Caller : <<u, TRUE>> \in Service
  <2>. SUFFICES ASSUME NEW u \in Caller PROVE <<u, TRUE>> \in Service OBVIOUS
  <2>. DEFINE does == \A c \in Call, row \in Rows, validator \in BOOLEAN :
                        SendsWhatIsMeant(u, c, row, validator)
  <2>1. does BY GateIsMeant
  <2>2. <<u, does>> \in Service BY DEF Service
  <2>3. does = TRUE BY <2>1
  <2>. HIDE DEF does
  <2>. QED BY <2>2, <2>3
<1>2. \A s \in Slots : CallerOf(s) \in Caller
  BY HereIsAnId DEF CallerOf, Caller
<1>3. GateServes
  BY <1>1, <1>2 DEF GateServes
<1>. QED BY <1>3, PTL

=============================================================================

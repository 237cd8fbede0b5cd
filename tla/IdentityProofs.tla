----------------------------- MODULE IdentityProofs ----------------------------
(****************************************************************************)
(* Theorems about accounts, the catalog and the listings, for any number of *)
(* accounts, categories, rows and requests.                                 *)
(*                                                                          *)
(* That an administrator remains is inductive by itself: the guarded        *)
(* statements read what they lock. That a role change ends the sessions     *)
(* begun before it rests on SessionsDated: what carries a version carries   *)
(* the number of role changes it has seen, and the account's version counts *)
(* them. The memory that hashes take is a sum over the slots taken.         *)
(*                                                                          *)
(* What the administrators do to the catalog, in statements that others     *)
(* overlap, leaves every reference in it whole. That a move that was        *)
(* checked in the tree it is written to closes no circle rests on what the  *)
(* recursive query finds: Up is shown to have its defining equation at      *)
(* every height, by induction over the numbers, and a circle would be met   *)
(* within the depth that the walk is cut off at.                            *)
(*                                                                          *)
(* A walk through a listing rests on Walked: what was returned is not below *)
(* the cursor, and what stayed listed was returned or lies below it. How    *)
(* many rows a page skips, and in which order, is counted by ranks.         *)
(****************************************************************************)
EXTENDS Identity, Catalog, Feed, CountingTheorems, FiniteSetTheorems, TLAPS

\* A registration makes a session that has seen nothing.
Dated(h) == h.version = h.seen /\ (h.step = "register" => h.version = 0)

\* token_version counts the role changes, and whoever carries a version carries their
\* number.
SessionsDated ==
  /\ \A u \in Users : tokenVersion[u] = roleChanges[u]
  /\ \A u \in Users : account[u] = "absent" => roleChanges[u] = 0
  /\ \A p \in pairs : p.version = p.seen
  /\ \A r \in Requests : Dated(request[r])

IdentityInv == IdentityTypeOK /\ ActiveAdminExists /\ SessionsDated

\* What a request holds is somebody's.
LEMMA NobodyHeld == Users # {} => Nobody \in Held
<1> SUFFICES ASSUME Users # {} PROVE Nobody \in Held
  OBVIOUS
<1>1. (CHOOSE u \in Users : TRUE) \in Users
  OBVIOUS
<1>. QED  BY <1>1 DEF Nobody, Held, Steps, Roles

\* The first administrator is there.
LEMMA IdentityInitInv == IdentityInit => IdentityInv
<1> SUFFICES ASSUME IdentityInit PROVE IdentityInv
  OBVIOUS
<1>1. Nobody \in Held
  BY NobodyHeld DEF IdentityInit
<1>2. IdentityTypeOK
  BY <1>1, VersionAssumption DEF IdentityInit, IdentityTypeOK, Pair
<1>3. ActiveAdminExists
  BY DEF IdentityInit, ActiveAdminExists, ActiveAdmins
<1>4. Dated(Nobody)
  BY DEF Nobody, Dated
<1>5. SessionsDated
  BY <1>4 DEF IdentityInit, SessionsDated
<1>. QED  BY <1>2, <1>3, <1>5 DEF IdentityInv

\* The row that a request reads is well typed, and dated.
LEMMA ReadsHeld ==
  ASSUME IdentityInv, NEW u \in Users, NEW step \in Steps \ {"register"}
  PROVE  /\ GetByID(u, step) \in Held
         /\ Dated(GetByID(u, step))
         /\ GetByID(u, step).user = u /\ GetByID(u, step).step = step
BY VersionAssumption DEF IdentityInv, IdentityTypeOK, SessionsDated, Dated, GetByID, Held

\* A request ends, or holds what is well typed and dated.
LEMMA HoldsStep ==
  ASSUME IdentityInv, NEW r \in Requests, NEW h \in Held, Dated(h),
         request' = [request EXCEPT ![r] = h]
  PROVE  request' \in [Requests -> Held] /\ \A q \in Requests : Dated(request[q])'
BY DEF IdentityInv, IdentityTypeOK, SessionsDated

\* A request that ends carries nothing.
LEMMA EndStep ==
  ASSUME IdentityInv, NEW r \in Requests, End(r)
  PROVE  request' \in [Requests -> Held] /\ \A q \in Requests : Dated(request[q])'
<1>1. Nobody \in Held /\ Dated(Nobody)
  BY NobodyHeld DEF Nobody, Dated, IdentityInv, ActiveAdminExists, ActiveAdmins
<1>. QED  BY <1>1, HoldsStep DEF End

\* Tokens are made of what is dated.
LEMMA PairsStep ==
  ASSUME IdentityInv, NEW h \in Held, h.version = h.seen, BuildTokenPair(h)
  PROVE  pairs' \in SUBSET Pair /\ \A p \in pairs' : p.version = p.seen
<1>1. [user |-> h.user, version |-> h.version, seen |-> h.seen] \in Pair
  BY DEF Pair, Held
<1>. QED  BY <1>1 DEF IdentityInv, IdentityTypeOK, SessionsDated, BuildTokenPair

\* The rows and the clients' tokens, when no statement writes them.
LEMMA RowsKept ==
  ASSUME IdentityInv, UNCHANGED <<rowVars, roleChanges>>,
         request' \in [Requests -> Held], \A q \in Requests : Dated(request[q])',
         pairs' \in SUBSET Pair, \A p \in pairs' : p.version = p.seen,
         hashing' \subseteq Requests
  PROVE  IdentityInv'
BY DEF IdentityInv, IdentityTypeOK, SessionsDated, ActiveAdminExists, ActiveAdmins, IsActiveAdmin, rowVars

\* A request that only changes what it holds.
LEMMA HoldingKept ==
  ASSUME IdentityInv, UNCHANGED <<rowVars, roleChanges, pairs>>, hashing' \subseteq Requests,
         request' \in [Requests -> Held], \A q \in Requests : Dated(request[q])'
  PROVE  IdentityInv'
<1>1. pairs' \in SUBSET Pair /\ \A p \in pairs' : p.version = p.seen
  BY DEF IdentityInv, IdentityTypeOK, SessionsDated
<1>. QED  BY <1>1, RowsKept

\* A guarded update leaves an active administrator: the account it is about, or another.
LEMMA UpdateKeepsAdmin ==
  ASSUME IdentityInv, NEW u \in Users, NEW newRole \in Roles, NEW newActive \in BOOLEAN,
         CanUpdate(u, newRole, newActive), UpdateGuarded(u, newRole, newActive)
  PROVE  ActiveAdminExists'
<1> USE DEF IdentityInv, IdentityTypeOK, ActiveAdminExists, ActiveAdmins, IsActiveAdmin, UpdateGuarded
<1>1. \A v \in Users \ {u} : IsActiveAdmin(v) => IsActiveAdmin(v)'
  OBVIOUS
<1>2. CASE role[u] # "admin" \/ ~IsActiveAdmin(u)
  BY <1>1, <1>2
<1>3. CASE newRole = "admin" /\ newActive
  <2>1. IsActiveAdmin(u)'
    BY <1>3 DEF CanUpdate, Found
  <2>. QED  BY <2>1
<1>4. CASE \E v, w \in ActiveAdmins : v # w
  <2>1. PICK v \in ActiveAdmins : v # u
    BY <1>4
  <2>. QED  BY <1>1, <2>1
<1>. QED  BY <1>2, <1>3, <1>4 DEF CanUpdate

\* So does a guarded delete.
LEMMA DeleteKeepsAdmin ==
  ASSUME IdentityInv, NEW u \in Users, CanDelete(u), DeleteRow(u)
  PROVE  ActiveAdminExists'
<1> USE DEF IdentityInv, IdentityTypeOK, ActiveAdminExists, ActiveAdmins, IsActiveAdmin, DeleteRow
<1>1. \A v \in Users \ {u} : IsActiveAdmin(v) => IsActiveAdmin(v)'
  OBVIOUS
<1>2. PICK v \in ActiveAdmins : v # u
  BY DEF CanDelete
<1>. QED  BY <1>1, <1>2

-----------------------------------------------------------------------------
\* What a request does before it has a token.
LEMMA HashStepInv ==
  ASSUME IdentityInv, NEW r \in Requests, HashStep(r)
  PROVE  IdentityInv'
<1>1. hashing \subseteq Requests /\ request[r] \in Held /\ Dated(request[r])
  BY DEF IdentityInv, IdentityTypeOK, SessionsDated
<1>2. Nobody \in Held /\ Dated(Nobody)
  BY NobodyHeld DEF Nobody, Dated, IdentityInv, ActiveAdminExists, ActiveAdmins
<1>3. ASSUME NEW u \in Users, LoginRead(r, u) PROVE IdentityInv'
  <2>1. GetByID(u, "login") \in Held /\ Dated(GetByID(u, "login"))
    BY ReadsHeld DEF Steps
  <2>2. [Nobody EXCEPT !.step = "unknown"] \in Held
        /\ Dated([Nobody EXCEPT !.step = "unknown"])
    BY <1>2 DEF Held, Steps, Dated, Nobody
  <2>3. GetByEmail(u) \in Held /\ Dated(GetByEmail(u))
    BY <2>1, <2>2 DEF GetByEmail
  <2>4. request' \in [Requests -> Held] /\ \A q \in Requests : Dated(request[q])'
    BY <1>3, <2>3, HoldsStep DEF LoginRead
  <2>. QED  BY <1>1, <1>3, <2>4, HoldingKept DEF LoginRead
<1>4. ASSUME NEW u \in Users, RegisterStart(r, u) PROVE IdentityInv'
  <2>1. [Nobody EXCEPT !.step = "register", !.user = u] \in Held
        /\ Dated([Nobody EXCEPT !.step = "register", !.user = u])
    BY <1>2 DEF Held, Steps, Dated, Nobody
  <2>2. request' \in [Requests -> Held] /\ \A q \in Requests : Dated(request[q])'
    BY <1>4, <2>1, HoldsStep DEF RegisterStart
  <2>. QED  BY <1>1, <1>4, <2>2, HoldingKept DEF RegisterStart
<1>5. CASE TakeSlot(r)
  <2>1. request' \in [Requests -> Held] /\ \A q \in Requests : Dated(request[q])'
    BY <1>5 DEF TakeSlot, IdentityInv, IdentityTypeOK, SessionsDated
  <2>. QED  BY <1>1, <1>5, <2>1, HoldingKept DEF TakeSlot
<1>6. CASE GiveUp(r)
  BY <1>1, <1>6, EndStep, HoldingKept DEF GiveUp
<1>7. CASE LoginEnd(r)
  <2>1. request' \in [Requests -> Held] /\ \A q \in Requests : Dated(request[q])'
    BY <1>7, EndStep DEF LoginEnd
  <2>2. UNCHANGED pairs \/ BuildTokenPair(request[r])
    BY <1>7 DEF LoginEnd
  <2>3. pairs' \in SUBSET Pair /\ \A p \in pairs' : p.version = p.seen
    BY <1>1, <2>2, PairsStep DEF IdentityInv, IdentityTypeOK, SessionsDated, Dated
  <2>. QED  BY <1>1, <1>7, <2>1, <2>3, RowsKept DEF LoginEnd
<1>8. CASE RegisterEnd(r)
  <2> DEFINE u == request[r].user
  <2>1. u \in Users
    BY <1>1 DEF Held
  <2>2. request' \in [Requests -> Held] /\ \A q \in Requests : Dated(request[q])'
    BY <1>8, EndStep DEF RegisterEnd
  <2>3. CASE UNCHANGED <<rowVars, pairs>>
    BY <1>1, <1>8, <2>2, <2>3, HoldingKept DEF RegisterEnd
  <2>4. CASE InsertUser(u) /\ BuildTokenPair([request[r] EXCEPT !.seen = roleChanges[u]])
    <3>1. roleChanges' = roleChanges /\ hashing' \subseteq Requests
      BY <1>1, <1>8 DEF RegisterEnd
    <3>2. account[u] = "absent" /\ roleChanges[u] = 0 /\ tokenVersion' = [tokenVersion EXCEPT ![u] = 0]
      BY <2>1, <2>4 DEF InsertUser, IdentityInv, SessionsDated
    <3>3. [request[r] EXCEPT !.seen = roleChanges[u]] \in Held
          /\ [request[r] EXCEPT !.seen = roleChanges[u]].version = [request[r] EXCEPT !.seen = roleChanges[u]].seen
      BY <1>1, <1>8, <3>2 DEF RegisterEnd, At, Dated, Held
    <3>4. pairs' \in SUBSET Pair /\ \A p \in pairs' : p.version = p.seen
      BY <2>4, <3>3, PairsStep
    <3>5. ActiveAdminExists'
      BY <2>4, <3>2 DEF InsertUser, IdentityInv, IdentityTypeOK, ActiveAdminExists, ActiveAdmins, IsActiveAdmin
    <3>6. /\ account' \in [Users -> {"absent", "live", "deleted"}] /\ role' \in [Users -> Roles]
          /\ active' \in [Users -> BOOLEAN] /\ tokenVersion' \in [Users -> 0..MaxVersion]
      BY <2>1, <2>4, VersionAssumption DEF InsertUser, IdentityInv, IdentityTypeOK, Roles
    <3>7. \A v \in Users : tokenVersion'[v] = roleChanges[v] /\ (account'[v] = "absent" => roleChanges[v] = 0)
      BY <2>1, <2>4, <3>2 DEF InsertUser, IdentityInv, IdentityTypeOK, SessionsDated
    <3>. QED  BY <2>2, <3>1, <3>4, <3>5, <3>6, <3>7 DEF IdentityInv, IdentityTypeOK, SessionsDated
  <2>. QED  BY <1>8, <2>3, <2>4 DEF RegisterEnd
<1>. QED  BY <1>3, <1>4, <1>5, <1>6, <1>7, <1>8 DEF HashStep

\* Sessions: a pair for a pair, and a request let in.
LEMMA SessionStepInv ==
  ASSUME IdentityInv, NEW r \in Requests, SessionStep(r)
  PROVE  IdentityInv'
<1>1. ASSUME NEW p \in pairs, NEW step \in {"idle", "identified"}, ActiveProfile(p)
      PROVE  LET h == [GetByID(p.user, step) EXCEPT !.seen = p.seen] IN h \in Held /\ Dated(h) /\ h.version = h.seen
  <2>1. p \in Pair /\ p.version = p.seen
    BY DEF IdentityInv, IdentityTypeOK, SessionsDated
  <2>2. GetByID(p.user, step) \in Held
    BY <2>1, ReadsHeld DEF Steps, Pair
  <2>3. GetByID(p.user, step).version = p.seen /\ GetByID(p.user, step).step # "register"
    BY <1>1, <2>1 DEF ActiveProfile, GetByID
  <2>. QED  BY <2>1, <2>2, <2>3 DEF Held, Pair, Dated
<1>2. ASSUME NEW p \in pairs, Refresh(r, p) PROVE IdentityInv'
  <2>1. pairs' \in SUBSET Pair /\ \A q \in pairs' : q.version = q.seen
    BY <1>1, <1>2, PairsStep DEF Refresh
  <2>2. request' = request /\ hashing' = hashing /\ UNCHANGED <<rowVars, roleChanges>>
    BY <1>2 DEF Refresh
  <2>. QED  BY <2>1, <2>2, RowsKept DEF IdentityInv, IdentityTypeOK, SessionsDated
<1>3. ASSUME NEW p \in pairs, Authenticate(r, p) PROVE IdentityInv'
  <2>1. request' \in [Requests -> Held] /\ \A q \in Requests : Dated(request[q])'
    BY <1>1, <1>3, HoldsStep DEF Authenticate
  <2>2. hashing' \subseteq Requests /\ UNCHANGED <<rowVars, roleChanges, pairs>>
    BY <1>3 DEF Authenticate, IdentityInv, IdentityTypeOK
  <2>. QED  BY <2>1, <2>2, HoldingKept
<1>. QED  BY <1>2, <1>3, HashStepInv DEF SessionStep

\* What an administrator does: reads change what a request holds, writes a row.
LEMMA AdminStepInv ==
  ASSUME IdentityInv, NEW r \in Requests, AdminStep(r)
  PROVE  IdentityInv'
<1>1. /\ hashing \subseteq Requests /\ request[r] \in Held /\ Dated(request[r])
      /\ request[r].user \in Users /\ request[r].role \in Roles /\ request[r].active \in BOOLEAN
      /\ pairs \in SUBSET Pair /\ \A p \in pairs : p.version = p.seen
  BY DEF IdentityInv, IdentityTypeOK, SessionsDated, Held
<1>2. ASSUME NEW u \in Users, NEW step \in {"update", "role", "delete"}
      PROVE  GetByID(u, step) \in Held /\ Dated(GetByID(u, step)) /\ GetByID(u, step).step # "register"
  BY ReadsHeld DEF Steps
<1>3. ASSUME NEW u \in Users, NEW b \in BOOLEAN, AdminUpdateRead(r, u, b) PROVE IdentityInv'
  <2>1. LET h == [GetByID(u, "update") EXCEPT !.active = b] IN h \in Held /\ Dated(h)
    BY <1>2 DEF Held, Dated
  <2>2. request' \in [Requests -> Held] /\ \A q \in Requests : Dated(request[q])'
    BY <1>3, <2>1, HoldsStep DEF AdminUpdateRead
  <2>. QED  BY <1>1, <1>3, <2>2, HoldingKept DEF AdminUpdateRead
<1>4. ASSUME NEW u \in Users, NEW x \in Roles, UpdateRoleRead(r, u, x) PROVE IdentityInv'
  <2>1. LET h == [GetByID(u, "role") EXCEPT !.role = x] IN h \in Held /\ Dated(h)
    BY <1>2 DEF Held, Dated
  <2>2. request' \in [Requests -> Held] /\ \A q \in Requests : Dated(request[q])'
    BY <1>4, <2>1, HoldsStep DEF UpdateRoleRead
  <2>. QED  BY <1>1, <1>4, <2>2, HoldingKept DEF UpdateRoleRead
<1>5. ASSUME NEW u \in Users, DeleteRead(r, u) PROVE IdentityInv'
  <2>1. request' \in [Requests -> Held] /\ \A q \in Requests : Dated(request[q])'
    BY <1>2, <1>5, HoldsStep DEF DeleteRead
  <2>. QED  BY <1>1, <1>5, <2>1, HoldingKept DEF DeleteRead
<1>6. ASSUME NEW u \in Users, NEW x \in Roles, NEW b \in BOOLEAN,
             CanUpdate(u, x, b), UpdateGuarded(u, x, b), UNCHANGED <<pairs, hashing, roleChanges>>,
             request' \in [Requests -> Held], \A q \in Requests : Dated(request[q])'
      PROVE  IdentityInv'
  <2>1. ActiveAdminExists'
    BY <1>6, UpdateKeepsAdmin
  <2>. QED  BY <1>6, <2>1 DEF UpdateGuarded, IdentityInv, IdentityTypeOK, SessionsDated
<1>7. CASE AdminUpdate(r)
  <2>1. request' \in [Requests -> Held] /\ \A q \in Requests : Dated(request[q])'
    BY <1>7, EndStep DEF AdminUpdate
  <2>. QED  BY <1>1, <1>6, <1>7, <2>1, HoldingKept DEF AdminUpdate
<1>8. CASE UpdateRole(r)
  <2>1. request' = [request EXCEPT ![r] = [request[r] EXCEPT !.step = "revoke"]] \/ End(r)
    BY <1>8 DEF UpdateRole
  <2>2. [request[r] EXCEPT !.step = "revoke"] \in Held /\ Dated([request[r] EXCEPT !.step = "revoke"])
    BY <1>1 DEF Held, Steps, Dated
  <2>3. request' \in [Requests -> Held] /\ \A q \in Requests : Dated(request[q])'
    BY <2>1, <2>2, HoldsStep, EndStep
  <2>. QED  BY <1>1, <1>6, <1>8, <2>3, HoldingKept DEF UpdateRole
<1>9. CASE RevokeTokens(r)
  <2>1. request' \in [Requests -> Held] /\ \A q \in Requests : Dated(request[q])'
    BY <1>9, EndStep DEF RevokeTokens
  <2>2. CASE UNCHANGED <<rowVars, roleChanges>>
    BY <1>1, <1>9, <2>1, <2>2, HoldingKept DEF RevokeTokens
  <2> DEFINE u == request[r].user
  <2>3. CASE Found(u) /\ IncrementTokenVersion(u) /\ roleChanges' = [roleChanges EXCEPT ![u] = @ + 1]
    <3>1. /\ tokenVersion' = [tokenVersion EXCEPT ![u] = @ + 1] /\ UNCHANGED <<account, role, active>>
          /\ account[u] = "live" /\ tokenVersion[u] < MaxVersion /\ UNCHANGED <<pairs, hashing>>
      BY <1>9, <2>3 DEF RevokeTokens, IncrementTokenVersion, Found
    <3>2. tokenVersion[u] \in 0..MaxVersion /\ roleChanges[u] = tokenVersion[u]
      BY <1>1 DEF IdentityInv, IdentityTypeOK, SessionsDated
    <3>3. tokenVersion' \in [Users -> 0..MaxVersion] /\ roleChanges' \in [Users -> 0..MaxVersion]
      BY <1>1, <2>3, <3>1, <3>2, VersionAssumption DEF IdentityInv, IdentityTypeOK
    <3>4. \A v \in Users : tokenVersion'[v] = roleChanges'[v] /\ (account'[v] = "absent" => roleChanges'[v] = 0)
      BY <1>1, <2>3, <3>1, <3>2 DEF IdentityInv, IdentityTypeOK, SessionsDated
    <3>5. ActiveAdminExists'
      BY <3>1 DEF IdentityInv, ActiveAdminExists, ActiveAdmins, IsActiveAdmin
    <3>. QED  BY <1>1, <2>1, <3>1, <3>3, <3>4, <3>5 DEF IdentityInv, IdentityTypeOK, SessionsDated
  <2>. QED  BY <1>9, <2>2, <2>3 DEF RevokeTokens
<1>10. CASE DeleteUser(r)
  <2>1. request' \in [Requests -> Held] /\ \A q \in Requests : Dated(request[q])'
    BY <1>10, EndStep DEF DeleteUser
  <2> DEFINE u == request[r].user
  <2>2. CASE UNCHANGED rowVars
    BY <1>1, <1>10, <2>1, <2>2, HoldingKept DEF DeleteUser
  <2>3. CASE CanDelete(u) /\ DeleteRow(u)
    <3>1. ActiveAdminExists'
      BY <1>1, <2>3, DeleteKeepsAdmin
    <3>2. UNCHANGED <<pairs, hashing, roleChanges>>
      BY <1>10 DEF DeleteUser
    <3>. QED  BY <1>1, <2>1, <2>3, <3>1, <3>2 DEF DeleteRow, IdentityInv, IdentityTypeOK, SessionsDated
  <2>. QED  BY <1>10, <2>2, <2>3 DEF DeleteUser
<1>. QED  BY <1>3, <1>4, <1>5, <1>7, <1>8, <1>9, <1>10 DEF AdminStep

\* Every step.
LEMMA IdentityStepInv ==
  ASSUME IdentityInv, [IdentityNext]_identityVars
  PROVE  IdentityInv'
<1>1. ASSUME NEW r \in Requests, Answer(r) \/ Abandon(r) PROVE IdentityInv'
  BY <1>1, EndStep, HoldingKept DEF Answer, Abandon, IdentityInv, IdentityTypeOK
<1>2. ASSUME NEW p \in pairs, Expire(p) PROVE IdentityInv'
  BY <1>2, RowsKept DEF Expire, IdentityInv, IdentityTypeOK, SessionsDated
<1>3. CASE UNCHANGED identityVars
  BY <1>3, HoldingKept DEF identityVars, rowVars, IdentityInv, IdentityTypeOK, SessionsDated
<1>. QED  BY <1>1, <1>2, <1>3, SessionStepInv, AdminStepInv DEF IdentityNext

\* The invariant that both theorems rest on.
LEMMA IdentityInvariant == IdentitySpec => []IdentityInv
BY IdentityInitInv, IdentityStepInv, PTL DEF IdentitySpec

\* Accounts, sessions and requests have their types.
THEOREM IdentityTypeOKHolds == IdentitySpec => []IdentityTypeOK
<1>1. IdentityInv => IdentityTypeOK
  BY DEF IdentityInv
<1>. QED  BY <1>1, IdentityInvariant, PTL

\* Whatever administrators do to each other at the same time, from rows read before, an
\* active administrator remains (activeAdminsCTE, UpdateGuarded, Delete).
THEOREM ActiveAdminExistsHolds == IdentitySpec => []ActiveAdminExists
<1>1. IdentityInv => ActiveAdminExists
  BY DEF IdentityInv
<1>. QED  BY <1>1, IdentityInvariant, PTL

-----------------------------------------------------------------------------
\* There are as many hashes under way as there are slots, at most.
SlotsHeld == IsFiniteSet(hashing) /\ Cardinality(hashing) <= Slots

\* A slot is taken when one is free, and given back.
LEMMA SlotSteps ==
  ASSUME [IdentityNext]_identityVars
  PROVE  \/ UNCHANGED hashing
         \/ \E r \in Requests : TakeSlot(r)
         \/ \E r \in Requests : r \in hashing /\ hashing' = hashing \ {r}
<1>1. ASSUME NEW r \in Requests, HashStep(r)
      PROVE  UNCHANGED hashing \/ TakeSlot(r) \/ (r \in hashing /\ hashing' = hashing \ {r})
  BY <1>1 DEF HashStep, LoginRead, RegisterStart, GiveUp, LoginEnd, RegisterEnd
<1>2. ASSUME NEW r \in Requests, AdminStep(r) \/ Answer(r) \/ Abandon(r)  PROVE UNCHANGED hashing
  BY <1>2 DEF AdminStep, Answer, Abandon, AdminUpdateRead, UpdateRoleRead, DeleteRead, AdminUpdate,
     UpdateRole, RevokeTokens, DeleteUser
<1>3. ASSUME NEW r \in Requests, NEW p \in pairs, Refresh(r, p) \/ Authenticate(r, p)
      PROVE  UNCHANGED hashing
  BY <1>3 DEF Refresh, Authenticate
<1>4. ASSUME NEW p \in pairs, Expire(p)  PROVE UNCHANGED hashing
  BY <1>4 DEF Expire
<1>5. CASE UNCHANGED identityVars
  BY <1>5 DEF identityVars
<1>. QED  BY <1>1, <1>2, <1>3, <1>4, <1>5 DEF IdentityNext, SessionStep

\* A slot is taken only while one is free, and given back once.
LEMMA SlotsHeldStep ==
  ASSUME SlotsHeld, [IdentityNext]_identityVars  PROVE SlotsHeld'
<1>1. CASE UNCHANGED hashing
  BY <1>1 DEF SlotsHeld
<1>2. ASSUME NEW r \in Requests, TakeSlot(r)  PROVE SlotsHeld'
  <2>1. IsFiniteSet(hashing \cup {r}) /\ Cardinality(hashing \cup {r}) = Cardinality(hashing) + 1
    BY <1>2, FS_AddElement DEF SlotsHeld, TakeSlot
  <2>2. Cardinality(hashing) \in Nat /\ Slots \in Nat
    BY FS_CardinalityType, SlotsAssumption DEF SlotsHeld
  <2>. QED  BY <1>2, <2>1, <2>2 DEF SlotsHeld, TakeSlot
<1>3. ASSUME NEW r \in hashing, hashing' = hashing \ {r}  PROVE SlotsHeld'
  <2>1. IsFiniteSet(hashing \ {r}) /\ Cardinality(hashing \ {r}) = Cardinality(hashing) - 1
    BY FS_RemoveElement DEF SlotsHeld
  <2>2. Cardinality(hashing) \in Nat /\ Slots \in Nat
    BY FS_CardinalityType, SlotsAssumption DEF SlotsHeld
  <2>. QED  BY <1>3, <2>1, <2>2 DEF SlotsHeld
<1>. QED  BY <1>1, <1>2, <1>3, SlotSteps

\* One hash takes what a stored hash may ask for, or what a new one takes.
LEMMA OneHashBounded ==
  ASSUME IdentityTypeOK, NEW r \in Requests
  PROVE  HashMemory(r) \in Nat /\ HashMemory(r) <= MaxStoredMemory
<1>1. request[r].user \in Users
  BY DEF IdentityTypeOK, Held
<1>2. Stored[request[r].user] \in HashParams \cup {Foreign}
  BY <1>1, StoredAssumption
<1>3. CASE Supported(request[r].user)
  <2>1. Stored[request[r].user].memory \in Nat
    BY <1>2, <1>3 DEF Supported, HashParams
  <2>. QED  BY <1>3, <2>1, ArgonAssumption DEF Supported, HashMemory
<1>4. CASE ~Supported(request[r].user)
  BY <1>4, ArgonAssumption DEF HashMemory
<1>. QED  BY <1>3, <1>4

\* At first nobody computes a hash.
LEMMA SlotsHeldInit == IdentityInit => SlotsHeld
BY FS_EmptySet, SlotsAssumption DEF IdentityInit, SlotsHeld

\* As many hashes as there are slots take no more than that many of the largest.
LEMMA HeldSlotsFit ==
  ASSUME IdentityInv, SlotsHeld  PROVE HashMemoryBounded
<1> DEFINE f == [r \in hashing |-> HashMemory(r)]
           Total == SumFunctionOnSet(f, hashing)
<1>1. \A r \in hashing : f[r] \in Int /\ f[r] <= MaxStoredMemory
  BY OneHashBounded DEF IdentityInv, IdentityTypeOK
<1>2. MaxStoredMemory \in Nat /\ Slots \in Nat /\ Cardinality(hashing) \in Nat
  BY ArgonAssumption, SlotsAssumption, FS_CardinalityType DEF SlotsHeld
<1> HIDE DEF f
<1>3. Total \in Int /\ Total <= Cardinality(hashing) * MaxStoredMemory
  BY <1>1, <1>2, SumBounded, SumInt DEF SlotsHeld
<1> HIDE DEF Total
<1>4. /\ Cardinality(hashing) * MaxStoredMemory \in Nat /\ Slots * MaxStoredMemory \in Nat
      /\ Cardinality(hashing) * MaxStoredMemory <= Slots * MaxStoredMemory
  BY <1>2, ProductMonotone DEF SlotsHeld
<1>5. Total <= Slots * MaxStoredMemory
  BY <1>2, <1>3, <1>4
<1>. QED  BY <1>5 DEF HashMemoryBounded, Total, f

\* Whatever hashes are stored and however many callers wait, the hashes under way take no
\* more memory than the slots allow (withHashSlot, maxStoredMemory).
THEOREM HashMemoryBoundedHolds == IdentitySpec => []HashMemoryBounded
<1>. QED  BY IdentityInvariant, IdentityInitInv, IdentityStepInv, SlotsHeldInit, SlotsHeldStep, HeldSlotsFit, PTL
          DEF IdentitySpec

-----------------------------------------------------------------------------
\* A request gets its identity from the middleware, and nowhere else.
LEMMA IdentifiedByMiddleware ==
  ASSUME IdentityInv, IdentityNext, NEW r \in Requests, At(r, "idle"), request'[r].step = "identified"
  PROVE  \E p \in pairs : Authenticate(r, p)
<1>1. request \in [Requests -> Held] /\ request[r].step = "idle"
  BY DEF IdentityInv, IdentityTypeOK, At
<1>2. ~UNCHANGED request
  BY <1>1
<1>3. ASSUME NEW q \in Requests, NEW h, request' = [request EXCEPT ![q] = h] PROVE q = r /\ h.step = "identified"
  BY <1>1, <1>3
<1>4. ASSUME NEW q \in Requests, End(q) PROVE FALSE
  <2>1. Nobody.step # "identified"
    BY DEF Nobody
  <2>. QED  BY <1>3, <1>4, <2>1 DEF End
<1>5. ASSUME NEW q \in Requests, SessionStep(q) PROVE \E p \in pairs : Authenticate(r, p)
  <2>1. ASSUME NEW u \in Users, LoginRead(q, u) PROVE FALSE
    <3>1. GetByEmail(u).step # "identified"
      BY NobodyHeld DEF GetByEmail, GetByID, Held, Nobody
    <3>. QED  BY <1>3, <2>1, <3>1 DEF LoginRead
  <2>2. ASSUME NEW u \in Users, RegisterStart(q, u) PROVE FALSE
    <3>1. [Nobody EXCEPT !.step = "register", !.user = u].step # "identified"
      BY DEF Nobody
    <3>. QED  BY <1>3, <2>2, <3>1 DEF RegisterStart
  <2>3. ~HashStep(q)
    BY <1>2, <1>4, <2>1, <2>2 DEF HashStep, TakeSlot, GiveUp, LoginEnd, RegisterEnd
  <2>4. ASSUME NEW p \in pairs, Refresh(q, p) PROVE FALSE
    BY <1>2, <2>4 DEF Refresh
  <2>5. ASSUME NEW p \in pairs, Authenticate(q, p) PROVE q = r
    BY <1>3, <2>5 DEF Authenticate
  <2>. QED  BY <1>5, <2>3, <2>4, <2>5 DEF SessionStep
<1>6. ASSUME NEW q \in Requests, AdminStep(q) PROVE FALSE
  <2>1. ASSUME NEW u \in Users, NEW step \in {"update", "role", "delete"}, NEW h \in {request'[q]},
               request' = [request EXCEPT ![q] = h], h.step = step PROVE FALSE
    BY <1>3, <2>1
  <2>2. ASSUME NEW u \in Users PROVE /\ \A b \in BOOLEAN : [GetByID(u, "update") EXCEPT !.active = b].step = "update"
                                     /\ \A x \in Roles : [GetByID(u, "role") EXCEPT !.role = x].step = "role"
                                     /\ GetByID(u, "delete").step = "delete"
    BY DEF GetByID
  <2>3. ASSUME NEW u \in Users, NEW b \in BOOLEAN, AdminUpdateRead(q, u, b) PROVE FALSE
    BY <1>3, <2>2, <2>3 DEF AdminUpdateRead
  <2>4. ASSUME NEW u \in Users, NEW x \in Roles, UpdateRoleRead(q, u, x) PROVE FALSE
    BY <1>3, <2>2, <2>4 DEF UpdateRoleRead
  <2>5. ASSUME NEW u \in Users, DeleteRead(q, u) PROVE FALSE
    BY <1>3, <2>2, <2>5 DEF DeleteRead
  <2>6. ASSUME UpdateRole(q) PROVE FALSE
    <3>1. request' = [request EXCEPT ![q] = [request[q] EXCEPT !.step = "revoke"]] \/ End(q)
      BY <2>6 DEF UpdateRole
    <3>2. [request[q] EXCEPT !.step = "revoke"].step # "identified"
      BY <1>1 DEF Held
    <3>. QED  BY <1>3, <1>4, <3>1, <3>2
  <2>. QED  BY <1>4, <1>6, <2>3, <2>4, <2>5, <2>6 DEF AdminStep, AdminUpdate, RevokeTokens, DeleteUser
<1>7. ASSUME NEW q \in Requests, Answer(q) \/ Abandon(q) PROVE FALSE
  BY <1>4, <1>7 DEF Answer, Abandon
<1>8. ASSUME NEW p \in pairs, Expire(p) PROVE FALSE
  BY <1>2, <1>8 DEF Expire
<1>. QED  BY <1>5, <1>6, <1>7, <1>8 DEF IdentityNext

\* Who is let in has seen every role change of the account, and the account lives.
LEMMA LetInKnows ==
  ASSUME IdentityInv, NEW r \in Requests, NEW p \in pairs, Authenticate(r, p)
  PROVE  request'[r].seen = roleChanges[request'[r].user] /\ account[request'[r].user] = "live"
<1>1. p.user \in Users /\ p.version = p.seen /\ p.version = tokenVersion[p.user] /\ account[p.user] = "live"
  BY DEF Authenticate, ActiveProfile, Found, IdentityInv, IdentityTypeOK, SessionsDated, Pair
<1>2. request'[r] = [GetByID(p.user, "identified") EXCEPT !.seen = p.seen]
  BY DEF Authenticate, IdentityInv, IdentityTypeOK
<1>3. request'[r].user = p.user /\ request'[r].seen = p.seen
  BY <1>2 DEF GetByID
<1>. QED  BY <1>1, <1>3 DEF IdentityInv, SessionsDated

\* No statement touches a deleted row.
LEMMA DeletedRowsStay ==
  ASSUME IdentityInv, IdentityNext, NEW u \in Users, account[u] = "deleted"
  PROVE  account'[u] = "deleted" /\ role'[u] = role[u] /\ active'[u] = active[u]
<1> USE DEF IdentityInv, IdentityTypeOK
<1>1. ASSUME UNCHANGED rowVars PROVE account'[u] = "deleted" /\ role'[u] = role[u] /\ active'[u] = active[u]
  BY <1>1 DEF rowVars
<1>2. ASSUME NEW v \in Users, InsertUser(v)
      PROVE  account'[u] = "deleted" /\ role'[u] = role[u] /\ active'[u] = active[u]
  BY <1>2 DEF InsertUser
<1>3. ASSUME NEW v \in Users, NEW x, NEW b, CanUpdate(v, x, b), UpdateGuarded(v, x, b)
      PROVE  account'[u] = "deleted" /\ role'[u] = role[u] /\ active'[u] = active[u]
  BY <1>3 DEF CanUpdate, Found, UpdateGuarded
<1>4. \A r \in Requests : request[r].user \in Users
  BY DEF Held
<1>5. ASSUME NEW r \in Requests, RegisterEnd(r)
      PROVE  account'[u] = "deleted" /\ role'[u] = role[u] /\ active'[u] = active[u]
  BY <1>1, <1>2, <1>4, <1>5 DEF RegisterEnd
<1>6. ASSUME NEW r \in Requests, SessionStep(r)
      PROVE  account'[u] = "deleted" /\ role'[u] = role[u] /\ active'[u] = active[u]
  BY <1>1, <1>5, <1>6 DEF SessionStep, HashStep, LoginRead, RegisterStart, TakeSlot, GiveUp, LoginEnd, Refresh, Authenticate
<1>7. ASSUME NEW r \in Requests, AdminStep(r)
      PROVE  account'[u] = "deleted" /\ role'[u] = role[u] /\ active'[u] = active[u]
  <2>1. CASE AdminUpdate(r) \/ UpdateRole(r)
    BY <1>1, <1>3, <1>4, <2>1 DEF AdminUpdate, UpdateRole
  <2>2. CASE RevokeTokens(r)
    <3>1. account' = account /\ role' = role /\ active' = active
      BY <2>2 DEF RevokeTokens, IncrementTokenVersion, rowVars
    <3>. QED  BY <3>1
  <2>3. CASE DeleteUser(r)
    <3>1. CASE UNCHANGED rowVars
      BY <3>1 DEF rowVars
    <3>2. CASE CanDelete(request[r].user) /\ DeleteRow(request[r].user)
      BY <1>4, <3>2 DEF DeleteRow
    <3>. QED  BY <2>3, <3>1, <3>2 DEF DeleteUser
  <2>. QED  BY <1>1, <1>7, <2>1, <2>2, <2>3 DEF AdminStep, AdminUpdateRead, UpdateRoleRead, DeleteRead
<1>. QED  BY <1>1, <1>6, <1>7 DEF IdentityNext, Answer, Abandon, Expire

\* Who is let in, and whose session is renewed, has seen every role change.
Revokes ==
  \A r \in Requests :
    /\ At(r, "idle") /\ request'[r].step = "identified" => request'[r].seen = roleChanges[request'[r].user]
    /\ \A p \in pairs : Refresh(r, p) => p.seen = roleChanges[p.user]

\* In every step.
LEMMA StepRevokes ==
  ASSUME IdentityInv, IdentityNext  PROVE Revokes
<1>1. ASSUME NEW r \in Requests, At(r, "idle"), request'[r].step = "identified"
      PROVE  request'[r].seen = roleChanges[request'[r].user]
  BY <1>1, IdentifiedByMiddleware, LetInKnows
<1>2. ASSUME NEW r \in Requests, NEW p \in pairs, Refresh(r, p) PROVE p.seen = roleChanges[p.user]
  BY <1>2 DEF Refresh, ActiveProfile, IdentityInv, IdentityTypeOK, SessionsDated, Pair
<1>. QED  BY <1>1, <1>2 DEF Revokes

\* A deleted account is not changed, and nobody is let in as its user.
GoneStays ==
  \A u \in Users : account[u] = "deleted" =>
    /\ account'[u] = "deleted" /\ role'[u] = role[u] /\ active'[u] = active[u]
    /\ \A r \in Requests : At(r, "idle") /\ request'[r].step = "identified" => request'[r].user # u

\* In every step.
LEMMA StepKeepsGone ==
  ASSUME IdentityInv, IdentityNext  PROVE GoneStays
<1>1. ASSUME NEW r \in Requests, At(r, "idle"), request'[r].step = "identified"
      PROVE  account[request'[r].user] = "live"
  BY <1>1, IdentifiedByMiddleware, LetInKnows
<1>. QED  BY <1>1, DeletedRowsStay DEF GoneStays

\* A role change that returned success has ended the sessions begun before it, and an
\* account that was deleted stays deleted and out (token_version, RevokeTokens,
\* ActiveProfile, deleted_at).
THEOREM RevokedStaysOutHolds == IdentitySpec => RevokedStaysOut
<1>1. IdentityInv /\ [IdentityNext]_identityVars => [Revokes]_identityVars /\ [GoneStays]_identityVars
  BY StepRevokes, StepKeepsGone
<1>. QED  BY <1>1, IdentityInvariant, PTL
          DEF IdentitySpec, RevokedStaysOut, RoleChangeRevokes, DeletedForGood, Revokes, GoneStays

(****************************************************************************)
(* The catalogue.                                                           *)
(****************************************************************************)
\* What the recursive query has found after its first n rows.
Climbs(tree, start, up, S) ==
  \A n \in S : up[n] = IF n <= 1 THEN start ELSE UNION {tree[c] : c \in up[n - 1]}

\* Two climbs from one start agree, row by row.
LEMMA OneClimb ==
  ASSUME NEW tree, NEW start, NEW f, NEW g, NEW m \in Nat,
         Climbs(tree, start, f, 0..m), Climbs(tree, start, g, 0..m)
  PROVE  \A n \in 0..m : f[n] = g[n]
<1>. DEFINE T == {n \in Nat : n <= m => f[n] = g[n]}
<1>1. 0 \in T
  <2>1. 0 \in 0..m /\ 0 <= 1
    OBVIOUS
  <2>2. f[0] = start /\ g[0] = start
    BY <2>1 DEF Climbs
  <2>. QED  BY <2>2
<1>2. ASSUME NEW n \in Nat, n \in T  PROVE n + 1 \in T
  <2>. SUFFICES ASSUME n + 1 <= m  PROVE f[n + 1] = g[n + 1]
    OBVIOUS
  <2>1. f[n] = g[n] /\ n + 1 \in 0..m /\ (n + 1) - 1 = n
    BY <1>2
  <2>. QED  BY <2>1 DEF Climbs
<1>3. \A n \in Nat : n \in T
  <2>. HIDE DEF T
  <2>. QED  BY <1>1, <1>2, NumberInduction
<1>. QED  BY <1>3

\* There is a climb of any height.
LEMMA ClimbsAnyHeight ==
  ASSUME NEW tree, NEW start
  PROVE  \A m \in Nat : \E f : Climbs(tree, start, f, 0..m)
<1>. DEFINE T == {m \in Nat : \E f : Climbs(tree, start, f, 0..m)}
<1>1. 0 \in T
  <2>1. Climbs(tree, start, [n \in {0} |-> start], 0..0)
    BY DEF Climbs
  <2>. QED  BY <2>1
<1>2. ASSUME NEW m \in Nat, m \in T  PROVE m + 1 \in T
  <2>1. PICK f : Climbs(tree, start, f, 0..m)
    BY <1>2
  <2>. DEFINE g == [n \in 0..(m + 1) |-> IF n <= m THEN f[n]
                                         ELSE IF n <= 1 THEN start ELSE UNION {tree[c] : c \in f[n - 1]}]
  <2>2. ASSUME NEW n \in 0..(m + 1)
        PROVE  g[n] = IF n <= 1 THEN start ELSE UNION {tree[c] : c \in g[n - 1]}
    <3>1. CASE n <= 1
      <4>1. n \in 0..m => f[n] = start
        BY <2>1, <3>1 DEF Climbs
      <4>2. g[n] = start
        BY <3>1, <4>1
      <4>. HIDE DEF g
      <4>. QED  BY <3>1, <4>2
    <3>2. CASE n > 1
      <4>1. n - 1 \in 0..m /\ ~(n <= 1)
        BY <3>2
      <4>2. g[n - 1] = f[n - 1]
        BY <4>1
      <4>3. g[n] = UNION {tree[c] : c \in f[n - 1]}
        <5>1. CASE n <= m
          <6>1. n \in 0..m
            BY <5>1
          <6>. QED  BY <2>1, <4>1, <5>1, <6>1 DEF Climbs
        <5>2. CASE ~(n <= m)
          BY <4>1, <5>2
        <5>. QED  BY <5>1, <5>2
      <4>. HIDE DEF g
      <4>. QED  BY <4>1, <4>2, <4>3
    <3>. QED  BY <3>1, <3>2
  <2>3. Climbs(tree, start, g, 0..(m + 1))
    <3>. HIDE DEF g
    <3>. QED  BY <2>2 DEF Climbs
  <2>. QED  BY <2>3
<1>3. \A m \in Nat : m \in T
  <2>. HIDE DEF T
  <2>. QED  BY <1>1, <1>2, NumberInduction
<1>. QED  BY <1>3

\* The recursive query that Up names does what its definition says, at every row.
LEMMA UpClimbs ==
  ASSUME NEW tree, NEW start
  PROVE  Climbs(tree, start, Up(tree, start), Nat)
<1>. DEFINE G(m) == CHOOSE f : Climbs(tree, start, f, 0..m)
            f == [n \in Nat |-> G(n)[n]]
            Step(up) == [n \in Nat |-> IF n <= 1 THEN start ELSE UNION {tree[c] : c \in up[n - 1]}]
<1>1. ASSUME NEW m \in Nat  PROVE Climbs(tree, start, G(m), 0..m)
  BY ClimbsAnyHeight
<1>2. ASSUME NEW n \in Nat
      PROVE  f[n] = IF n <= 1 THEN start ELSE UNION {tree[c] : c \in f[n - 1]}
  <2>1. f[n] = G(n)[n] /\ n \in 0..n
    BY SMT
  <2>2. CASE n <= 1
    <3>1. Climbs(tree, start, G(n), 0..n)
      BY <1>1
    <3>. HIDE DEF G, f
    <3>. QED  BY <2>1, <2>2, <3>1 DEF Climbs
  <2>3. CASE n > 1
    <3>1. n - 1 \in Nat /\ ~(n <= 1) /\ n - 1 \in 0..n /\ n - 1 \in 0..(n - 1)
      BY <2>3
    <3>2. f[n - 1] = G(n - 1)[n - 1]
      BY <3>1
    <3>3. Climbs(tree, start, G(n), 0..n) /\ Climbs(tree, start, G(n - 1), 0..(n - 1))
      BY <1>1, <3>1
    <3>. HIDE DEF G, f
    <3>4. Climbs(tree, start, G(n), 0..(n - 1))
      <4>1. 0..(n - 1) \subseteq 0..n
        OBVIOUS
      <4>. QED  BY <3>3, <4>1 DEF Climbs
    <3>5. G(n)[n - 1] = G(n - 1)[n - 1]
      BY <3>1, <3>3, <3>4, OneClimb
    <3>6. G(n)[n] = UNION {tree[c] : c \in G(n)[n - 1]}
      BY <2>1, <3>1, <3>3 DEF Climbs
    <3>. QED  BY <2>1, <3>1, <3>2, <3>5, <3>6
  <2>. QED  BY <2>2, <2>3
<1>3. f = Step(f)
  <2>1. f = [n \in Nat |-> f[n]]
    OBVIOUS
  <2>. HIDE DEF f
  <2>. QED  BY <1>2, <2>1
<1>4. Up(tree, start) = (CHOOSE up : up = Step(up))
  BY Zenon DEF Up
<1>5. PICK up : up = Up(tree, start)
  OBVIOUS
<1>6. up = Step(up)
  <2>. HIDE DEF Step, f
  <2>. QED  BY <1>3, <1>4, <1>5
<1>7. Climbs(tree, start, up, Nat)
  BY <1>6 DEF Climbs
<1>. QED  BY <1>5, <1>7

Parents(tree, S) == UNION {tree[c] : c \in S}

\* One category has the parents it has.
LEMMA ParentsOfOne == \A tree, c : Parents(tree, {c}) = tree[c]
BY Zenon DEF Parents

\* The walk begins at the start, and goes on with the parents of who was there.
LEMMA Walk ==
  ASSUME NEW tree, NEW start
  PROVE  /\ Up(tree, start)[1] = start
         /\ \A k \in Nat \ {0} : Up(tree, start)[k + 1] = Parents(tree, Up(tree, start)[k])
<1>1. PICK up : up = Up(tree, start)
  OBVIOUS
<1>2. Climbs(tree, start, up, Nat)
  BY <1>1, UpClimbs
<1>3. up[1] = start
  <2>1. 1 \in Nat /\ 1 <= 1
    OBVIOUS
  <2>. QED  BY <1>2, <2>1 DEF Climbs
<1>4. ASSUME NEW k \in Nat \ {0}  PROVE up[k + 1] = Parents(tree, up[k])
  <2>1. k + 1 \in Nat /\ ~(k + 1 <= 1) /\ (k + 1) - 1 = k
    OBVIOUS
  <2>. QED  BY <1>2, <2>1 DEF Climbs, Parents
<1>. QED  BY <1>1, <1>3, <1>4

\* A walk that has ended does not begin again.
LEMMA WalkEnds ==
  ASSUME NEW tree, NEW start, NEW n \in Nat \ {0}, Up(tree, start)[n] = {}, NEW m \in Nat, n <= m
  PROVE  Up(tree, start)[m] = {}
<1>1. PICK up : up = Up(tree, start)
  OBVIOUS
<1>. DEFINE T == {k \in Nat : n <= k => up[k] = {}}
<1>2. \A k \in Nat \ {0} : up[k + 1] = Parents(tree, up[k])
  BY <1>1, Walk
<1>3. 0 \in T
  OBVIOUS
<1>4. ASSUME NEW k \in Nat, k \in T  PROVE k + 1 \in T
  <2>1. CASE n <= k
    <3>1. up[k] = {} /\ k # 0
      BY <1>4, <2>1
    <3>2. up[k + 1] = {}
      BY <1>2, <3>1 DEF Parents
    <3>. QED  BY <3>2
  <2>2. CASE n = k + 1
    BY <1>1, <2>2
  <2>. QED  BY <2>1, <2>2
<1>5. \A k \in Nat : k \in T
  <2>. HIDE DEF T
  <2>. QED  BY <1>3, <1>4, NumberInduction
<1>. QED  BY <1>1, <1>5

\* A walk is the same in a tree that differs only where it does not go.
Agree(tree, other, start, n) ==
  \A k \in Nat \ {0} : k < n => \A c \in Up(tree, start)[k] : other[c] = tree[c]

\* A change that a walk does not meet does not change what it finds.
LEMMA SameWalk ==
  ASSUME NEW tree, NEW other, NEW start, NEW n \in Nat \ {0}, Agree(tree, other, start, n)
  PROVE  Up(other, start)[n] = Up(tree, start)[n]
<1>1. PICK up : up = Up(tree, start)
  OBVIOUS
<1>2. PICK us : us = Up(other, start)
  OBVIOUS
<1>. DEFINE T == {k \in Nat \ {0} : k <= n => us[k] = up[k]}
<1>3. us[1] = up[1]
  BY <1>1, <1>2, Walk
<1>4. ASSUME NEW k \in Nat \ {0}, k \in T, k + 1 <= n  PROVE us[k + 1] = up[k + 1]
  <2>1. us[k] = up[k] /\ k < n
    BY <1>4
  <2>2. \A c \in up[k] : other[c] = tree[c]
    BY <1>1, <2>1 DEF Agree
  <2>3. up[k + 1] = Parents(tree, up[k]) /\ us[k + 1] = Parents(other, us[k])
    BY <1>1, <1>2, Walk
  <2>4. Parents(tree, up[k]) = Parents(other, us[k])
    BY <2>1, <2>2 DEF Parents
  <2>. QED  BY <2>3, <2>4
<1>5. 1 \in T /\ \A k \in Nat \ {0} : k \in T => k + 1 \in T
  BY <1>3, <1>4
<1>6. \A k \in Nat \ {0} : k \in T
  <2>. HIDE DEF T
  <2>. QED  BY <1>5, CountingInduction
<1>. QED  BY <1>1, <1>2, <1>6

\* The walk from the parent is the walk from the category, one step ahead.
LEMMA WalkOn ==
  ASSUME NEW tree, NEW c, NEW p, p = tree[c], NEW s, s = {c}, NEW k \in Nat \ {0}
  PROVE  Up(tree, p)[k] = Up(tree, s)[k + 1]
<1>1. PICK up : up = Up(tree, s)
  OBVIOUS
<1>2. PICK on : p = tree[c] /\ on = Up(tree, p)
  OBVIOUS
<1>. DEFINE T == {n \in Nat \ {0} : on[n] = up[n + 1]}
<1>3. \A n \in Nat \ {0} : up[n + 1] = Parents(tree, up[n]) /\ on[n + 1] = Parents(tree, on[n])
  BY <1>1, <1>2, Walk
<1>4. up[1] = {c} /\ on[1] = p
  BY <1>1, <1>2, Walk
<1>5. on[1] = up[1 + 1]
  <2>1. up[1 + 1] = Parents(tree, {c})
    BY <1>3, <1>4
  <2>. QED  BY <1>2, <1>4, <2>1, ParentsOfOne
<1>6. ASSUME NEW n \in Nat \ {0}, on[n] = up[n + 1]  PROVE on[n + 1] = up[(n + 1) + 1]
  <2>1. n + 1 \in Nat \ {0}
    OBVIOUS
  <2>. QED  BY <1>3, <1>6, <2>1
<1>7. \A n \in Nat \ {0} : n \in T
  <2>1. 1 \in T /\ \A n \in Nat \ {0} : n \in T => n + 1 \in T
    BY <1>5, <1>6
  <2>. HIDE DEF T
  <2>. QED  BY <2>1, CountingInduction
<1>. QED  BY <1>1, <1>2, <1>7

\* There is never more than one category on the way.
LEMMA WalkShape ==
  ASSUME NEW tree \in [Categories -> AtMostOne], NEW start \in AtMostOne
  PROVE  \A k \in Nat \ {0} : Up(tree, start)[k] \in AtMostOne
<1>1. PICK up : up = Up(tree, start)
  OBVIOUS
<1>. DEFINE T == {k \in Nat \ {0} : up[k] \in AtMostOne}
<1>2. 1 \in T
  BY <1>1, Walk
<1>3. ASSUME NEW k \in Nat \ {0}, up[k] \in AtMostOne  PROVE up[k + 1] \in AtMostOne
  <2>1. up[k + 1] = Parents(tree, up[k])
    BY <1>1, Walk
  <2>2. CASE up[k] = {}
    BY <2>1, <2>2 DEF AtMostOne, Parents
  <2>3. ASSUME NEW d \in Categories, up[k] = {d}  PROVE up[k + 1] \in AtMostOne
    <3>1. up[k + 1] = tree[d]
      BY <2>1, <2>3 DEF Parents
    <3>. QED  BY <3>1
  <2>. QED  BY <1>3, <2>2, <2>3 DEF AtMostOne
<1>4. \A k \in Nat \ {0} : k \in T
  <2>1. \A k \in Nat \ {0} : k \in T => k + 1 \in T
    BY <1>3
  <2>. HIDE DEF T
  <2>. QED  BY <1>2, <2>1, CountingInduction
<1>. QED  BY <1>1, <1>4

\* What a circle passes has its parent in the circle.
Ring(tree, S) == \A c \in S : tree[c] # {} /\ tree[c] \subseteq S

\* A category above itself is on a ring.
LEMMA CircleIsRing ==
  ASSUME NEW tree \in [Categories -> AtMostOne], NEW c \in Categories, NEW n \in Nat \ {0},
         c \in Up(tree, tree[c])[n]
  PROVE  LET passed == UNION {Up(tree, {c})[k] : k \in 1..n} IN
         passed \subseteq Categories /\ c \in passed /\ Ring(tree, passed)
<1>1. PICK up : up = Up(tree, {c})
  OBVIOUS
<1>. DEFINE S == UNION {up[k] : k \in 1..n}
<1>2. up[1] = {c} /\ \A k \in Nat \ {0} : up[k + 1] = Parents(tree, up[k])
  BY <1>1, Walk
<1>3. c \in up[n + 1]
  BY <1>1, WalkOn
<1>4. \A k \in Nat \ {0} : up[k] \in AtMostOne
  BY <1>1, WalkShape DEF AtMostOne
<1>5. \A k \in 1..(n + 1) : up[k] # {}
  <2>. SUFFICES ASSUME NEW k \in 1..(n + 1), up[k] = {}  PROVE FALSE
    OBVIOUS
  <2>1. k \in Nat \ {0} /\ n + 1 \in Nat /\ k <= n + 1
    OBVIOUS
  <2>2. up[n + 1] = {}
    BY <1>1, <2>1, WalkEnds
  <2>. QED  BY <1>3, <2>2
<1>6. up[n + 1] = up[1]
  <2>1. up[n + 1] \in AtMostOne
    BY <1>4
  <2>. QED  BY <1>2, <1>3, <2>1 DEF AtMostOne
<1>7. ASSUME NEW k \in 1..n, NEW x \in up[k]  PROVE tree[x] # {} /\ tree[x] \subseteq S
  <2>1. up[k] = {x}
    <3>1. up[k] \in AtMostOne
      BY <1>4
    <3>. QED  BY <1>7, <3>1 DEF AtMostOne
  <2>2. tree[x] = up[k + 1]
    <3>1. Parents(tree, {x}) = up[k + 1]
      BY <1>2, <2>1
    <3>. QED  BY <3>1, ParentsOfOne
  <2>3. tree[x] # {}
    BY <1>5, <2>2
  <2>4. CASE k < n
    <3>1. k + 1 \in 1..n
      BY <2>4
    <3>. QED  BY <2>2, <2>3, <3>1
  <2>5. CASE k = n
    <3>1. 1 \in 1..n
      OBVIOUS
    <3>2. up[k + 1] = up[1]
      BY <1>6, <2>5
    <3>. QED  BY <2>2, <2>3, <3>1, <3>2
  <2>. QED  BY <2>4, <2>5
<1>8. S \subseteq Categories
  BY <1>4 DEF AtMostOne
<1>9. c \in S
  <2>1. 1 \in 1..n
    OBVIOUS
  <2>. QED  BY <1>2, <2>1
<1>10. Ring(tree, S)
  BY <1>7 DEF Ring
<1>. QED  BY <1>1, <1>8, <1>9, <1>10

\* A walk in a ring never ends.
LEMMA NoWayOut ==
  ASSUME NEW tree, NEW S, Ring(tree, S), NEW c \in S
  PROVE  \A k \in Nat \ {0} : Up(tree, {c})[k] # {}
<1>1. PICK up : up = Up(tree, {c})
  OBVIOUS
<1>. DEFINE T == {k \in Nat \ {0} : up[k] # {} /\ up[k] \subseteq S}
<1>2. up[1] = {c} /\ \A k \in Nat \ {0} : up[k + 1] = Parents(tree, up[k])
  BY <1>1, Walk
<1>3. 1 \in T
  BY <1>2
<1>4. ASSUME NEW k \in Nat \ {0}, k \in T  PROVE k + 1 \in T
  <2>1. up[k] # {} /\ up[k] \subseteq S /\ up[k + 1] = Parents(tree, up[k])
    BY <1>2, <1>4
  <2>2. \A d \in up[k] : tree[d] # {} /\ tree[d] \subseteq S
    BY <2>1 DEF Ring
  <2>3. up[k + 1] # {} /\ up[k + 1] \subseteq S
    BY <2>1, <2>2 DEF Parents
  <2>. QED  BY <2>3
<1>5. \A k \in Nat \ {0} : k \in T
  <2>. HIDE DEF T
  <2>. QED  BY <1>3, <1>4, CountingInduction
<1>. QED  BY <1>1, <1>5

\* A move puts a circle into a tree only if the category moved is on it.
LEMMA CirclesPassTheMoved ==
  ASSUME NEW tree \in [Categories -> AtMostOne], IsTree(tree), NEW self \in Categories, NEW p \in AtMostOne,
         NEW c \in Categories, InCircle([tree EXCEPT ![self] = p], c)
  PROVE  \E S \in SUBSET Categories : self \in S /\ Ring([tree EXCEPT ![self] = p], S)
<1>1. PICK moved : moved = [tree EXCEPT ![self] = p]
  OBVIOUS
<1>2. moved \in [Categories -> AtMostOne] /\ \A d \in Categories \ {self} : moved[d] = tree[d]
  BY <1>1
<1>3. Cardinality(Categories) \in Nat
  BY CatalogAssumption, FS_CardinalityType
<1>4. PICK n \in Nat \ {0} : n \in 1..Cardinality(Categories) /\ c \in Up(moved, moved[c])[n]
  BY <1>1, <1>3 DEF InCircle
<1>6. PICK S : S = UNION {Up(moved, {c})[k] : k \in 1..n}
  OBVIOUS
<1>7. S \subseteq Categories /\ c \in S /\ Ring(moved, S)
  BY <1>2, <1>4, <1>6, CircleIsRing
<1>8. self \in S
  <2>. SUFFICES ASSUME self \notin S  PROVE FALSE
    OBVIOUS
  <2>. PICK s : s = {c}
    OBVIOUS
  <2>. PICK m \in Nat \ {0} : m = n + 1
    OBVIOUS
  <2>1. Agree(moved, tree, s, m)
    <3>. SUFFICES ASSUME NEW k \in Nat \ {0}, k < m, NEW d \in Up(moved, s)[k]  PROVE tree[d] = moved[d]
      BY DEF Agree
    <3>1. k \in 1..n
      OBVIOUS
    <3>2. d \in S
      BY <1>6, <3>1
    <3>. QED  BY <1>2, <1>7, <3>2
  <2>2. Up(tree, s)[m] = Up(moved, s)[m]
    BY <2>1, SameWalk
  <2>3. Up(tree, tree[c])[n] = Up(tree, s)[m]
    <3>. PICK p0 : p0 = tree[c]
      OBVIOUS
    <3>. QED  BY WalkOn
  <2>4. Up(moved, moved[c])[n] = Up(moved, s)[m]
    <3>. PICK p0 : p0 = moved[c]
      OBVIOUS
    <3>. QED  BY WalkOn
  <2>5. c \in Up(tree, tree[c])[n]
    BY <1>4, <2>2, <2>3, <2>4
  <2>. QED  BY <1>4, <2>5 DEF IsTree, InCircle
<1>. QED  BY <1>1, <1>7, <1>8

\* A walk that was counted ends within the depth it was counted to.
LEMMA CountedWalkEnds ==
  ASSUME NEW start, AncestorDepth(start) + 1 <= MaxDepth
  PROVE  Up(parent, start)[MaxDepth] = {}
<1>1. PICK up : up = Up(parent, start)
  OBVIOUS
<1>2. PICK S : S = {n \in 1..(MaxDepth + 1) : up[n] # {}}
  OBVIOUS
<1>. SUFFICES ASSUME up[MaxDepth] # {}  PROVE FALSE
  BY <1>1
<1>3. 1..MaxDepth \subseteq S
  <2>. SUFFICES ASSUME NEW n \in 1..MaxDepth, up[n] = {}  PROVE FALSE
    BY <1>2, CatalogAssumption
  <2>. QED  BY <1>1, WalkEnds, CatalogAssumption
<1>4. IsFiniteSet(S)
  <2>1. IsFiniteSet(1..(MaxDepth + 1)) /\ S \subseteq 1..(MaxDepth + 1)
    BY <1>2, FS_Interval, CatalogAssumption
  <2>. QED  BY <2>1, FS_Subset
<1>5. PICK D : D = 1..MaxDepth
  OBVIOUS
<1>6. MaxDepth <= Cardinality(S) /\ Cardinality(S) \in Nat
  <2>1. Cardinality(D) = MaxDepth
    BY <1>5, FS_Interval, CatalogAssumption
  <2>2. Cardinality(D) <= Cardinality(S)
    BY <1>3, <1>4, <1>5, FS_Subset
  <2>. QED  BY <1>4, <2>1, <2>2, FS_CardinalityType
<1>7. AncestorDepth(start) = Cardinality(S)
  BY <1>1, <1>2 DEF AncestorDepth
<1>. QED  BY <1>6, <1>7, CatalogAssumption

\* So a move whose parent passed the checks, in the tree as it is, keeps a tree that is not
\* too deep.
LEMMA ValidMoveKeepsTree ==
  ASSUME parent \in [Categories -> AtMostOne], IsTree(parent), NEW self \in Categories, NEW p \in AtMostOne,
         p # {} => ValidParent(p, self)
  PROVE  LET moved == [parent EXCEPT ![self] = p] IN
         IsTree(moved) /\ Up(moved, {self})[MaxDepth + 1] = {}
<1>1. PICK moved : moved = [parent EXCEPT ![self] = p]
  OBVIOUS
<1>2. \A d \in Categories : d # self => moved[d] = parent[d]
  BY <1>1
<1>3. moved[self] = p
  BY <1>1
<1>4. Up(moved, p)[MaxDepth] = {}
  <2>1. CASE p = {}
    BY <2>1, Walk, WalkEnds, CatalogAssumption
  <2>2. CASE p # {}
    <3>1. \A k \in 1..(MaxDepth + 1) : self \notin Up(parent, p)[k]
      BY <2>2 DEF ValidParent, FormsCycle
    <3>2. \A k \in Nat \ {0} : Up(parent, p)[k] \subseteq Categories
      BY WalkShape DEF AtMostOne
    <3>3. Agree(parent, moved, p, MaxDepth)
      BY <1>2, <3>1, <3>2, CatalogAssumption DEF Agree
    <3>4. Up(moved, p)[MaxDepth] = Up(parent, p)[MaxDepth]
      BY <3>3, SameWalk, CatalogAssumption
    <3>5. Up(parent, p)[MaxDepth] = {}
      BY <2>2, CountedWalkEnds DEF ValidParent
    <3>. QED  BY <3>4, <3>5
  <2>. QED  BY <2>1, <2>2
<1>5. Up(moved, {self})[MaxDepth + 1] = {}
  <2>1. PICK s : s = {self}
    OBVIOUS
  <2>2. Up(moved, p)[MaxDepth] = Up(moved, s)[MaxDepth + 1]
    BY <1>3, <2>1, WalkOn, CatalogAssumption
  <2>. QED  BY <1>4, <2>1, <2>2
<1>6. IsTree(moved)
  <2>. SUFFICES ASSUME NEW c \in Categories, InCircle(moved, c)  PROVE FALSE
    BY DEF IsTree
  <2>1. PICK S \in SUBSET Categories : self \in S /\ Ring(moved, S)
    BY <1>1, CirclesPassTheMoved
  <2>. QED  BY <1>5, <2>1, NoWayOut, CatalogAssumption
<1>. QED  BY <1>1, <1>5, <1>6

\* What a request may be about to write: nothing but categories.
EditorSteps == {"idle", "create", "update", "create_checked", "update_checked", "delete"}
Desks == [step : EditorSteps, category : Categories, parent : AtMostOne, fresh : BOOLEAN]
ProductRows == [state : {"absent", "live", "deleted"}, category : AtMostOne, published : BOOLEAN]

\* Who has checked a parent in the tree as it is has found it valid.
FreshWalks ==
  \A e \in Editors :
    editor[e].fresh /\ editor[e].parent # {} => ValidParent(editor[e].parent, editor[e].category)

CatalogInv == CatalogTypeOK /\ NoOrphans /\ FreshWalks

\* A request at rest has the type of a request.
LEMMA DeskType == Desk \in [step : {"idle"}, category : Categories, parent : {{}}, fresh : {FALSE}]
BY CatalogAssumption DEF Desk

\* What is valid depends on the tree alone.
LEMMA SameChecks ==
  ASSUME UNCHANGED parent
  PROVE  \A p, c : ValidParent(p, c)' <=> ValidParent(p, c)
BY DEF ValidParent, AncestorDepth, FormsCycle

\* A parent that is no longer listed is not valid.
LEMMA ValidIsListed ==
  ASSUME NEW p \in AtMostOne, NEW c, ValidParent(p \cap listed, c)
  PROVE  p \cap listed = p
<1>. SUFFICES ASSUME p \cap listed = {}  PROVE FALSE
  BY DEF AtMostOne
<1>1. AncestorDepth({}) > 0
  BY DEF ValidParent
<1>2. PICK up : up = Up(parent, {})
  OBVIOUS
<1>3. \A n \in 1..(MaxDepth + 1) : up[n] = {}
  BY <1>2, Walk, WalkEnds, CatalogAssumption
<1>4. {n \in 1..(MaxDepth + 1) : up[n] # {}} = {}
  BY <1>3
<1>5. AncestorDepth({}) = 0
  BY <1>2, <1>4, FS_EmptySet DEF AncestorDepth
<1>. QED  BY <1>1, <1>5

\* At first there is nothing to refer to, and nothing that refers.
LEMMA CatalogInitInv == CatalogInit => CatalogInv
<1>1. Desk \in Desks
  BY DeskType DEF Desks, EditorSteps, AtMostOne
<1>2. Unlisted \in ProductRows /\ Unlisted.category = {}
  BY DEF Unlisted, ProductRows, AtMostOne
<1>3. CatalogInit => CatalogTypeOK
  BY <1>1, <1>2 DEF CatalogInit, CatalogTypeOK, Desks, EditorSteps, ProductRows, AtMostOne
<1>4. CatalogInit => NoOrphans
  BY <1>2 DEF CatalogInit, NoOrphans
<1>5. CatalogInit => FreshWalks
  BY DeskType DEF CatalogInit, FreshWalks
<1>. QED  BY <1>3, <1>4, <1>5 DEF CatalogInv

\* Requests that read, walk or give up keep their types.
LEMMA EditorStep ==
  ASSUME CatalogInv, NEW e \in Editors, NEW d \in Desks, editor' = [editor EXCEPT ![e] = d],
         d.fresh /\ d.parent # {} => ValidParent(d.parent, d.category),
         UNCHANGED <<listed, parent, product, level, drafts>>
  PROVE  CatalogInv'
<1>1. CatalogTypeOK' /\ NoOrphans'
  BY DEF CatalogInv, CatalogTypeOK, NoOrphans, Desks, EditorSteps
<1>2. FreshWalks'
  BY SameChecks DEF FreshWalks, CatalogInv, CatalogTypeOK
<1>. QED  BY <1>1, <1>2 DEF CatalogInv

\* Whoever writes the tree makes the walks of the others old.
LEMMA WrittenDesks ==
  ASSUME CatalogInv, NEW e \in Editors, PutDownAfterWrite(e)
  PROVE  editor' \in [Editors -> Desks] /\ FreshWalks'
<1>1. \A f \in Editors : [editor[f] EXCEPT !.fresh = FALSE] \in Desks /\ ~[editor[f] EXCEPT !.fresh = FALSE].fresh
  BY DEF CatalogInv, CatalogTypeOK, Desks, EditorSteps
<1>2. Desk \in Desks /\ ~Desk.fresh
  BY DeskType DEF Desks, EditorSteps, AtMostOne
<1>. QED  BY <1>1, <1>2 DEF PutDownAfterWrite, FreshWalks

\* The foreign keys stop an insert or a move under a category that is gone, and a delete of
\* one that is referred to.
LEMMA CategoryWrites ==
  ASSUME CatalogInv, NEW e \in Editors, InsertCategory(e) \/ UpdateCategory(e) \/ DeleteCategory(e)
  PROVE  CatalogInv'
<1>1. editor' \in [Editors -> Desks] /\ FreshWalks' /\ UNCHANGED <<product, level, drafts>>
  BY WrittenDesks DEF InsertCategory, UpdateCategory, DeleteCategory
<1>2. PICK c \in Categories, above \in AtMostOne : c = editor[e].category /\ above = editor[e].parent
  BY DEF CatalogInv, CatalogTypeOK
<1>3. CASE InsertCategory(e) \/ UpdateCategory(e)
  <2>1. /\ above \subseteq listed /\ listed' = listed \cup {c}
        /\ parent' = [parent EXCEPT ![c] = above]
    BY <1>2, <1>3 DEF InsertCategory, UpdateCategory, ReferencesParent
  <2>. QED  BY <1>1, <2>1 DEF CatalogInv, CatalogTypeOK, NoOrphans, Desks, EditorSteps, AtMostOne
<1>4. CASE DeleteCategory(e)
  <2>1. /\ listed' = listed \ {c} /\ parent' = [parent EXCEPT ![c] = {}]
        /\ \A d \in listed : c \notin parent[d]
        /\ \A p \in CatalogProducts : c \notin product[p].category
    BY <1>2, <1>4 DEF DeleteCategory, Referenced
  <2>. QED  BY <1>1, <2>1 DEF CatalogInv, CatalogTypeOK, NoOrphans, Desks, EditorSteps, AtMostOne
<1>. QED  BY <1>3, <1>4

\* So they do for products.
LEMMA ProductWrites ==
  ASSUME CatalogInv, NEW p \in CatalogProducts, NEW row \in ProductRows, row.category \subseteq listed,
         product' = [product EXCEPT ![p] = row], UNCHANGED <<listed, parent, level, editor>>, drafts' \subseteq drafts
  PROVE  CatalogInv'
<1>1. CatalogTypeOK' /\ NoOrphans'
  BY DEF CatalogInv, CatalogTypeOK, NoOrphans, ProductRows
<1>2. FreshWalks'
  BY SameChecks DEF FreshWalks, CatalogInv
<1>. QED  BY <1>1, <1>2 DEF CatalogInv

\* No statement of an administrator leaves an orphan.
LEMMA CatalogStepInv == CatalogInv /\ [CatalogNext]_catalogVars => CatalogInv'
<1>. SUFFICES ASSUME CatalogInv, [CatalogNext]_catalogVars  PROVE CatalogInv'
  OBVIOUS
<1>0. UNCHANGED <<parent, editor>> => FreshWalks'
  BY SameChecks DEF FreshWalks, CatalogInv
<1>1. ASSUME NEW e \in Editors, EditCategory(e)  PROVE CatalogInv'
  <2>1. ASSUME NEW c \in Categories, NEW p \in AtMostOne, StartCreate(e, c, p) \/ StartUpdate(e, c, p)
        PROVE  CatalogInv'
    <3>1. PICK step \in EditorSteps, above \in AtMostOne :
            editor' = [editor EXCEPT ![e] = [step |-> step, category |-> c, parent |-> above, fresh |-> FALSE]]
      BY <2>1 DEF StartCreate, StartUpdate, EditorSteps, CatalogInv, CatalogTypeOK
    <3>2. [step |-> step, category |-> c, parent |-> above, fresh |-> FALSE] \in Desks
      BY DEF Desks
    <3>. QED  BY <2>1, <3>1, <3>2, EditorStep DEF StartCreate, StartUpdate
  <2>2. ASSUME NEW c \in Categories, StartDelete(e, c)  PROVE CatalogInv'
    <3>1. [Desk EXCEPT !.step = "delete", !.category = c] \in Desks
          /\ ~[Desk EXCEPT !.step = "delete", !.category = c].fresh
      BY DeskType DEF Desks, EditorSteps, AtMostOne
    <3>. QED  BY <2>2, <3>1, EditorStep DEF StartDelete
  <2>3. CASE CheckParent(e)
    <3>1. CheckedStep(editor[e].step) \in EditorSteps
      BY DEF CheckedStep, EditorSteps
    <3>2. PICK step \in EditorSteps : step = CheckedStep(editor[e].step)
      BY <3>1
    <3>. DEFINE d == [[editor[e] EXCEPT !.step = step] EXCEPT !.fresh = TRUE]
    <3>3. d \in Desks /\ d.parent = editor[e].parent /\ d.category = editor[e].category
      BY DEF CatalogInv, CatalogTypeOK, Desks, EditorSteps
    <3>4. editor' = [editor EXCEPT ![e] = d]
      BY <2>3, <3>2 DEF CheckParent, CatalogInv, CatalogTypeOK
    <3>. HIDE DEF d
    <3>5. d.parent # {} => ValidParent(d.parent, d.category)
      <4>1. d.parent # {} => ValidParent(d.parent \cap listed, d.category)
        BY <2>3, <3>3 DEF CheckParent
      <4>2. d.parent \in AtMostOne
        BY <3>3 DEF Desks
      <4>. QED  BY <4>1, <4>2, ValidIsListed
    <3>. QED  BY <2>3, <3>3, <3>4, <3>5, EditorStep DEF CheckParent
  <2>4. CASE InsertCategory(e) \/ UpdateCategory(e) \/ DeleteCategory(e)
    BY <2>4, CategoryWrites
  <2>5. CASE EditFails(e)
    <3>1. Desk \in Desks /\ ~Desk.fresh
      BY DeskType DEF Desks, EditorSteps, AtMostOne
    <3>. QED  BY <2>5, <3>1, EditorStep DEF EditFails, PutDown
  <2>. QED  BY <1>1, <2>1, <2>2, <2>3, <2>4, <2>5 DEF EditCategory
<1>2. ASSUME NEW p \in CatalogProducts, EditProduct(p)  PROVE CatalogInv'
  <2>1. ASSUME NEW c \in AtMostOne, NEW published \in BOOLEAN, CreateProduct(p, c, published)
        PROVE  CatalogInv'
    <3>1. [state |-> "live", category |-> c, published |-> published] \in ProductRows
      BY DEF ProductRows
    <3>. QED  BY <2>1, <3>1, ProductWrites DEF CreateProduct, ReferencesParent
  <2>2. ASSUME NEW c \in AtMostOne, NEW published \in BOOLEAN, ReadForUpdate(p, c, published)
        PROVE  CatalogInv'
    BY <1>0, <2>2 DEF ReadForUpdate, CatalogInv, CatalogTypeOK, NoOrphans
  <2>3. CASE EnsureProductLevel(p)
    BY <1>0, <2>3 DEF EnsureProductLevel, CatalogInv, CatalogTypeOK, NoOrphans
  <2>4. CASE DeleteProduct(p)
    <3>1. [product[p] EXCEPT !.state = "deleted"] \in ProductRows
          /\ [product[p] EXCEPT !.state = "deleted"].category \subseteq listed
      BY DEF CatalogInv, CatalogTypeOK, NoOrphans, ProductRows
    <3>2. product' = [product EXCEPT ![p] = [product[p] EXCEPT !.state = "deleted"]]
      BY <2>4 DEF DeleteProduct, CatalogInv, CatalogTypeOK
    <3>. QED  BY <2>4, <3>1, <3>2, ProductWrites DEF DeleteProduct
  <2>5. ASSUME NEW d \in drafts, d.product = p, UpdateProduct(d)  PROVE CatalogInv'
    <3>. DEFINE row == [[product[p] EXCEPT !.category = d.category] EXCEPT !.published = d.published]
    <3>1. d.category \in AtMostOne /\ d.published \in BOOLEAN /\ d.category \subseteq listed
      BY <2>5 DEF UpdateProduct, ReferencesParent, CatalogInv, CatalogTypeOK
    <3>2. row \in ProductRows /\ row.category \subseteq listed
      BY <3>1 DEF CatalogInv, CatalogTypeOK, ProductRows
    <3>3. product' = [product EXCEPT ![p] = row]
      BY <2>5 DEF UpdateProduct, CatalogInv, CatalogTypeOK
    <3>. HIDE DEF row
    <3>. QED  BY <2>5, <3>2, <3>3, ProductWrites DEF UpdateProduct
  <2>6. ASSUME NEW d \in drafts, UpdateProductFails(d)  PROVE CatalogInv'
    BY <1>0, <2>6 DEF UpdateProductFails, CatalogInv, CatalogTypeOK, NoOrphans
  <2>. QED  BY <1>2, <2>1, <2>2, <2>3, <2>4, <2>5, <2>6 DEF EditProduct
<1>3. CASE UNCHANGED catalogVars
  BY <1>0, <1>3 DEF catalogVars, CatalogInv, CatalogTypeOK, NoOrphans
<1>. QED  BY <1>1, <1>2, <1>3 DEF CatalogNext, EditTree, EditProducts

\* Nothing refers to a category that is gone, although references are looked up and counted
\* in statements before the one that writes (category.Delete, Update, product.Create).
THEOREM NoOrphansHolds == CatalogSpec => []NoOrphans
<1>1. CatalogInv => NoOrphans
  BY DEF CatalogInv
<1>. QED  BY <1>1, CatalogInitInv, CatalogStepInv, PTL DEF CatalogSpec


\* Who writes what was checked in the tree as it is keeps it a tree.
LEMMA FreshMovesKeepTree == CatalogInv => CheckedMovesKeepTree
<1>. SUFFICES ASSUME CatalogInv, NEW e \in Editors, editor[e].fresh, IsTree(parent)
              PROVE  LET moved == [parent EXCEPT ![editor[e].category] = editor[e].parent] IN
                     /\ IsTree(moved)
                     /\ Up(moved, {editor[e].category})[MaxDepth + 1] = {} \/ editor[e].parent = {}
  BY DEF CheckedMovesKeepTree
<1>1. PICK self \in Categories, p \in AtMostOne : self = editor[e].category /\ p = editor[e].parent
  BY DEF CatalogInv, CatalogTypeOK
<1>2. p # {} => ValidParent(p, self)
  BY <1>1 DEF CatalogInv, FreshWalks
<1>3. parent \in [Categories -> AtMostOne]
  BY DEF CatalogInv, CatalogTypeOK
<1>. QED  BY <1>1, <1>2, <1>3, ValidMoveKeepsTree

\* The types of the catalogue.
THEOREM CatalogTypeOKHolds == CatalogSpec => []CatalogTypeOK
<1>1. CatalogInv => CatalogTypeOK
  BY DEF CatalogInv
<1>. QED  BY <1>1, CatalogInitInv, CatalogStepInv, PTL DEF CatalogSpec

\* The category tree stays whole, and a move whose parent was checked in the tree it is written
\* to closes no circle and goes no deeper than MaxDepth, although the walk is cut off
\* (ValidateParentDepth, AncestorDepthAndCycle).
THEOREM TreeKeptHolds == CatalogSpec => []TreeKept
<1>1. CatalogInv => TreeKept
  BY FreshMovesKeepTree DEF CatalogInv, TreeKept
<1>. QED  BY <1>1, CatalogInitInv, CatalogStepInv, PTL DEF CatalogSpec

-----------------------------------------------------------------------------
\* Newest first is a strict order of the rows.
NewerThan == {k \in RowIds \X RowIds : Newer(Key(k[1]), Key(k[2]))}

\* Any rows are in that order, each after those that are newer.
LEMMA NewestFirst ==
  ASSUME FeedTypeOK, NEW S, S \subseteq RowIds
  PROVE  /\ IsFiniteSet(S) /\ Ordered(NewerThan, S)
         /\ \A r \in S : Before(NewerThan, S, r) = {q \in S : Newer(Key(q), Key(r))}
<1>1. IsFiniteSet(S)
  BY FS_Subset, FeedAssumption
<1>2. \A r \in S : created[r] \in Nat /\ r \in Nat
  BY FeedAssumption DEF FeedTypeOK
<1>3. \A q, r \in S : <<q, r>> \in NewerThan <=> created[q] > created[r] \/ (created[q] = created[r] /\ q > r)
  BY DEF NewerThan, Newer, Key
<1>4. \A q, r \in S : Newer(Key(q), Key(r)) <=> <<q, r>> \in NewerThan
  BY DEF NewerThan
<1>5. Ordered(NewerThan, S)
  BY <1>2, <1>3 DEF Ordered
<1>. QED  BY <1>1, <1>4, <1>5 DEF Before

\* A page has as many rows as it may, or all of them, and whatever is newer than a row of it.
LEMMA NewestOnes ==
  ASSUME FeedTypeOK, NEW S, S \subseteq RowIds, NEW n \in Nat
  PROVE  /\ Newest(S, n) \subseteq S
         /\ n <= Cardinality(S) => Cardinality(Newest(S, n)) = n
         /\ Cardinality(S) <= n => Newest(S, n) = S
         /\ \A r \in S, o \in Newest(S, n) : ~Newer(Key(o), Key(r)) => r \in Newest(S, n)
<1>1. Newest(S, n) = {x \in S : Cardinality(Before(NewerThan, S, x)) < n}
  BY NewestFirst DEF Newest
<1>2. ASSUME NEW r \in S, NEW o \in Newest(S, n), ~Newer(Key(o), Key(r))  PROVE r \in Newest(S, n)
  <2>1. r = o \/ <<r, o>> \in NewerThan
    BY <1>1, <1>2, NewestFirst DEF Ordered, NewerThan
  <2>2. CASE <<r, o>> \in NewerThan
    <3>1. Cardinality(Before(NewerThan, S, r)) < Cardinality(Before(NewerThan, S, o))
      BY <1>1, <2>2, NewestFirst, RankMonotone
    <3>2. Cardinality(Before(NewerThan, S, r)) \in Nat /\ Cardinality(Before(NewerThan, S, o)) \in Nat
      BY <1>1, NewestFirst, Ranks, FS_CardinalityType
    <3>. QED  BY <1>1, <3>1, <3>2
  <2>. QED  BY <1>2, <2>1, <2>2
<1>3. /\ n <= Cardinality(S) => Cardinality(Newest(S, n)) = n
      /\ Cardinality(S) <= n => Newest(S, n) = S
  BY <1>1, NewestFirst, FirstOnes
<1>. QED  BY <1>1, <1>2, <1>3

\* The last row of a page is on it.
LEMMA OldestOne ==
  ASSUME FeedTypeOK, NEW S, S \subseteq RowIds, S # {}
  PROVE  Oldest(S) \in S /\ \A q \in S : ~Newer(Key(Oldest(S)), Key(q))
<1>1. IsFiniteSet(S) /\ Ordered(NewerThan, S)
  BY NewestFirst
<1>2. Cardinality(S) \in Nat /\ Cardinality(S) # 0
  BY <1>1, FS_CardinalityType, FS_EmptySet
<1>3. PICK r \in S : Cardinality(Before(NewerThan, S, r)) = Cardinality(S) - 1
  BY <1>1, <1>2, Ranks
<1>4. ASSUME NEW q \in S, Newer(Key(r), Key(q))  PROVE FALSE
  <2>1. <<r, q>> \in NewerThan
    BY <1>4 DEF NewerThan
  <2>2. Cardinality(Before(NewerThan, S, q)) <= Cardinality(S) - 1
        /\ Cardinality(Before(NewerThan, S, q)) \in Nat
    BY <1>1, Ranks
  <2>. QED  BY <1>1, <1>2, <1>3, <2>1, <2>2, RankMonotone
<1>. QED  BY <1>4 DEF Oldest

\* Where a walk stands: what it returned is not below the cursor, and what stayed listed was
\* returned or lies below it.
Walked ==
  /\ stayed \subseteq Listed
  /\ ~finished => \A r \in returned : cursor # {} /\ \A k \in cursor : ~Newer(k, Key(r))
  /\ cursor # {} => \A r \in stayed \ BelowCursor : r \in returned
  /\ finished => stayed \subseteq returned

FeedInv == FeedTypeOK /\ Walked

\* What is listed are rows.
LEMMA ListedRows == FeedTypeOK => Listed \subseteq RowIds /\ BelowCursor \subseteq Listed
BY DEF FeedTypeOK, Listings, Listed, ListPublished, ListReviews, ListOrders, ListWishlist, ListNotifications,
   Shown, Present, BelowCursor

\* The page is the newest of what lies below the cursor.
LEMMA PageOf ==
  ASSUME FeedTypeOK
  PROVE  /\ PageRows \subseteq BelowCursor
         /\ ~HasMore => PageRows = BelowCursor
         /\ HasMore => /\ Oldest(PageRows) \in PageRows
                       /\ \A r \in PageRows : ~Newer(Key(Oldest(PageRows)), Key(r))
                       /\ \A r \in BelowCursor : ~Newer(Key(Oldest(PageRows)), Key(r)) => r \in PageRows
<1>1. PICK B : B = BelowCursor
  OBVIOUS
<1>2. PICK F : F = Newest(B, PageLimit + 1)
  OBVIOUS
<1>3. PICK P : P = Newest(F, PageLimit)
  OBVIOUS
<1>4. F = Fetched /\ P = PageRows
  BY <1>1, <1>2, <1>3 DEF Fetched, PageRows
<1>5. B \subseteq RowIds /\ PageLimit \in Nat /\ PageLimit > 0
  BY <1>1, ListedRows, FeedAssumption
<1>6. F \subseteq B /\ F \subseteq RowIds /\ P \subseteq F /\ P \subseteq RowIds
  <2>1. PageLimit + 1 \in Nat
    BY <1>5
  <2>2. F \subseteq B
    BY <1>2, <1>5, <2>1, NewestOnes
  <2>3. P \subseteq F
    BY <1>3, <1>5, <2>2, NewestOnes
  <2>. QED  BY <1>5, <2>2, <2>3
<1>7. Cardinality(B) \in Nat /\ Cardinality(F) \in Nat
  BY <1>5, <1>6, NewestFirst, FS_CardinalityType
<1>8. ASSUME ~HasMore  PROVE P = B
  <2>1. Cardinality(F) <= PageLimit
    BY <1>4, <1>5, <1>7, <1>8 DEF HasMore
  <2>2. Cardinality(B) <= PageLimit + 1
    BY <1>2, <1>5, <1>7, <2>1, NewestOnes
  <2>3. F = B
    BY <1>2, <1>5, <2>2, NewestOnes
  <2>. QED  BY <1>3, <1>5, <1>6, <2>1, <2>3, NewestOnes
<1>9. ASSUME HasMore
      PROVE  /\ Oldest(P) \in P
             /\ \A r \in P : ~Newer(Key(Oldest(P)), Key(r))
             /\ \A r \in B : ~Newer(Key(Oldest(P)), Key(r)) => r \in P
  <2>1. Cardinality(F) > PageLimit
    BY <1>4, <1>9 DEF HasMore
  <2>2. Cardinality(P) = PageLimit
    BY <1>3, <1>5, <1>6, <1>7, <2>1, NewestOnes
  <2>3. P # {}
    BY <1>5, <2>2, FS_EmptySet
  <2>4. PICK o : o = Oldest(P)
    OBVIOUS
  <2>5. o \in P /\ \A r \in P : ~Newer(Key(o), Key(r))
    BY <1>6, <2>3, <2>4, OldestOne
  <2>6. ASSUME NEW r \in B, ~Newer(Key(o), Key(r))  PROVE r \in P
    <3>1. r \in F
      BY <1>2, <1>5, <1>6, <2>5, <2>6, NewestOnes
    <3>. QED  BY <1>3, <1>5, <1>6, <2>5, <2>6, <3>1, NewestOnes
  <2>. QED  BY <2>4, <2>5, <2>6
<1>. QED  BY <1>1, <1>4, <1>6, <1>8, <1>9

\* A row's key is one of a cursor.
LEMMA KeyType ==
  ASSUME FeedTypeOK, NEW r \in RowIds
  PROVE  Key(r) \in (0..MaxTime) \X RowIds /\ Cardinality({Key(r)}) = 1
BY FS_Singleton DEF FeedTypeOK, Key

\* The next page.
LEMMA NextPageInv == ASSUME FeedInv, NextPage  PROVE FeedInv'
<1> USE DEF FeedInv
<1>1. /\ UNCHANGED <<listing, rowState, created, clock, stayed>> /\ ~finished
      /\ Listed' = Listed /\ \A r : Key(r)' = Key(r)
  BY DEF NextPage, Listed, ListPublished, ListReviews, ListOrders, ListWishlist, ListNotifications,
     Shown, Present, Key
<1>2. stayed \subseteq Listed /\ Listed \subseteq RowIds /\ BelowCursor \subseteq Listed
  BY ListedRows DEF Walked
<1>3. PICK P : P = PageRows
  OBVIOUS
<1>4. P \subseteq BelowCursor /\ returned' = returned \cup P
  BY <1>3, PageOf DEF NextPage
<1>5. ASSUME NEW r \in stayed, r \notin BelowCursor  PROVE r \in returned
  <2>1. CASE cursor = {}
    BY <1>2, <1>5, <2>1 DEF BelowCursor
  <2>. QED  BY <1>5, <2>1 DEF Walked
<1>6. CASE ~HasMore
  <2>1. cursor' = cursor /\ finished' = TRUE /\ P = BelowCursor
    BY <1>3, <1>6, PageOf DEF NextPage
  <2>2. stayed \subseteq returned'
    BY <1>4, <1>5, <2>1
  <2>3. FeedTypeOK'
    BY <1>1, <1>2, <1>4, <2>1 DEF FeedTypeOK
  <2>. QED  BY <1>1, <1>2, <2>1, <2>2, <2>3 DEF Walked
<1>7. CASE HasMore
  <2>1. PICK o : o = Oldest(P)
    OBVIOUS
  <2>2. /\ o \in P /\ \A r \in P : ~Newer(Key(o), Key(r))
        /\ \A r \in BelowCursor : ~Newer(Key(o), Key(r)) => r \in P
    BY <1>3, <1>7, <2>1, PageOf
  <2>3. cursor' = {Key(o)} /\ finished' = FALSE
    BY <1>3, <1>7, <2>1 DEF NextPage, NextCursor
  <2>4. o \in RowIds
    BY <1>2, <1>4, <2>2
  <2>5. FeedTypeOK'
    <3>1. cursor' \in SUBSET ((0..MaxTime) \X RowIds) /\ Cardinality(cursor') <= 1
      BY <2>3, <2>4, KeyType
    <3>2. returned' \subseteq RowIds
      BY <1>2, <1>4 DEF FeedTypeOK
    <3>. QED  BY <1>1, <2>3, <3>1, <3>2 DEF FeedTypeOK
  <2>6. ASSUME NEW r \in returned'  PROVE ~Newer(Key(o), Key(r))
    <3>1. CASE r \in P
      BY <2>2, <3>1
    <3>2. CASE r \in returned
      <4>1. PICK k \in cursor : Newer(k, Key(o)) /\ ~Newer(k, Key(r))
        BY <1>1, <1>4, <2>2, <3>2 DEF Walked, BelowCursor
      <4>2. k[1] \in Nat /\ k[2] \in Nat /\ created[o] \in Nat /\ created[r] \in Nat /\ o \in Nat /\ r \in Nat
        <5>1. k \in (0..MaxTime) \X RowIds /\ r \in RowIds
          BY <3>2 DEF FeedTypeOK
        <5>2. k[1] \in 0..MaxTime /\ k[2] \in RowIds /\ created[o] \in 0..MaxTime /\ created[r] \in 0..MaxTime
          BY <2>4, <5>1 DEF FeedTypeOK
        <5>3. r \in RowIds
          BY <5>1
        <5>4. 0..MaxTime \subseteq Nat /\ RowIds \subseteq Nat
          BY FeedAssumption
        <5>. QED  BY <2>4, <5>2, <5>3, <5>4
      <4>. QED  BY <4>1, <4>2 DEF Newer, Key
    <3>. QED  BY <1>4, <3>1, <3>2
  <2>7. ASSUME NEW r \in stayed, ~Newer(Key(o), Key(r))  PROVE r \in returned'
    BY <1>4, <1>5, <2>2, <2>7
  <2>8. \A r \in stayed : r \notin BelowCursor' => ~Newer(Key(o), Key(r))
    BY <1>1, <1>2, <2>3 DEF BelowCursor
  <2>. QED  BY <1>1, <1>2, <2>3, <2>5, <2>6, <2>7, <2>8 DEF Walked
<1>. QED  BY <1>6, <1>7

\* What happens to the rows meanwhile: the keys of what stayed are what they were, and the
\* key of what was returned does not fall.
LEMMA RowsChange ==
  ASSUME FeedInv, FeedTypeOK', UNCHANGED <<cursor, returned, finished>>, Stay,
         \A r \in RowIds : created'[r] >= created[r],
         \A r \in stayed \cap Listed' : created'[r] = created[r]
  PROVE  FeedInv'
<1> USE DEF FeedInv
<1>1. stayed' = stayed \cap Listed'
  BY DEF Stay
<1>2. \A r \in stayed' : r \in Listed /\ r \in RowIds /\ created'[r] = created[r]
  BY <1>1, ListedRows DEF Walked
<1>3. ASSUME NEW r \in stayed', r \notin BelowCursor'  PROVE r \notin BelowCursor
  <2>1. PICK k \in cursor : ~Newer(k, Key(r)')
    BY <1>1, <1>3 DEF BelowCursor
  <2>2. Key(r)' = Key(r)
    BY <1>2 DEF Key
  <2>. QED  BY <2>1, <2>2 DEF BelowCursor
<1>4. ASSUME NEW r \in returned, NEW k \in cursor, ~Newer(k, Key(r))  PROVE ~Newer(k, Key(r)')
  <2>1. /\ k[1] \in Nat /\ k[2] \in Nat /\ created[r] \in Nat /\ created'[r] \in Nat /\ r \in Nat
        /\ created'[r] >= created[r]
    <3>1. k \in (0..MaxTime) \X RowIds /\ r \in RowIds
      BY DEF FeedTypeOK
    <3>2. k[1] \in 0..MaxTime /\ k[2] \in RowIds /\ created[r] \in 0..MaxTime /\ created'[r] \in 0..MaxTime
      BY <3>1 DEF FeedTypeOK
    <3>3. r \in RowIds
      BY <3>1
    <3>4. 0..MaxTime \subseteq Nat /\ RowIds \subseteq Nat
      BY FeedAssumption
    <3>. QED  BY <3>2, <3>3, <3>4
  <2>. QED  BY <1>4, <2>1 DEF Newer, Key
<1>5. (cursor # {} => \A r \in stayed \ BelowCursor : r \in returned)'
  BY <1>1, <1>3 DEF Walked
<1>6. (~finished => \A r \in returned : cursor # {} /\ \A k \in cursor : ~Newer(k, Key(r)))'
  BY <1>4 DEF Walked
<1>. QED  BY <1>1, <1>5, <1>6 DEF Walked

\* Every step of a reader or of the listing keeps the invariant.
LEMMA FeedStepInv == ASSUME FeedInv, [FeedNext]_feedVars  PROVE FeedInv'
<1>1. CASE NextPage
  BY <1>1, NextPageInv
<1>2. CASE PassTime
  <2>1. FeedTypeOK'
    BY <1>2, FeedAssumption DEF FeedInv, FeedTypeOK, PassTime
  <2>. QED  BY <1>2, <2>1 DEF FeedInv, PassTime, Walked, BelowCursor, Listed, ListPublished, ListReviews,
            ListOrders, ListWishlist, ListNotifications, Shown, Present, Key
<1>3. ASSUME NEW r \in RowIds, RemoveRow(r) \/ ToggleRow(r)  PROVE FeedInv'
  <2>1. FeedTypeOK'
    BY <1>3 DEF FeedInv, FeedTypeOK, RemoveRow, ToggleRow, Stay
  <2>2. \A q \in RowIds : created'[q] = created[q] /\ created[q] \in Nat
    BY <1>3 DEF FeedInv, FeedTypeOK, RemoveRow, ToggleRow
  <2>. QED  BY <1>3, <2>1, <2>2, RowsChange DEF RemoveRow, ToggleRow, FeedInv, FeedTypeOK
<1>4. ASSUME NEW r \in RowIds, NEW t \in 0..MaxTime, InsertRow(r, t)  PROVE FeedInv'
  <2>1. FeedTypeOK'
    BY <1>4 DEF FeedInv, FeedTypeOK, InsertRow, Stay
  <2>2. \A q \in RowIds : created'[q] >= created[q] /\ (q # r => created'[q] = created[q])
    BY <1>4 DEF FeedInv, FeedTypeOK, InsertRow
  <2>3. r \notin stayed
    BY <1>4 DEF InsertRow, FeedInv, Walked, FeedTypeOK, Listings, Listed, ListPublished, ListReviews, ListOrders,
       ListWishlist, ListNotifications, Shown, Present
  <2>. QED  BY <1>4, <2>1, <2>2, <2>3, RowsChange DEF InsertRow, FeedInv, FeedTypeOK
<1>5. CASE UNCHANGED feedVars
  BY <1>5 DEF feedVars, FeedInv, FeedTypeOK, Walked, BelowCursor, Listed, ListPublished, ListReviews,
     ListOrders, ListWishlist, ListNotifications, Shown, Present, Key
<1>. QED  BY <1>1, <1>2, <1>3, <1>4, <1>5 DEF FeedNext

\* No page has been read at first.
LEMMA FeedInitInv == FeedInit => FeedInv
<1>. SUFFICES ASSUME FeedInit  PROVE FeedInv
  OBVIOUS
<1>1. created \in [RowIds -> 0..MaxTime] /\ clock \in 0..MaxTime
  BY FeedAssumption DEF FeedInit
<1>2. cursor \in SUBSET ((0..MaxTime) \X RowIds) /\ Cardinality(cursor) <= 1
  BY FS_EmptySet DEF FeedInit
<1>3. Listed \subseteq RowIds
  BY DEF FeedInit, Listings, Listed, ListPublished, ListReviews, ListOrders, ListWishlist, ListNotifications, Shown, Present
<1>4. FeedTypeOK
  BY <1>1, <1>2, <1>3 DEF FeedInit, FeedTypeOK
<1>. QED  BY <1>4 DEF FeedInit, FeedInv, Walked

\* So it holds for good.
LEMMA FeedInvariant == FeedSpec => []FeedInv
<1>1. FeedInv /\ [FeedNext]_feedVars => FeedInv'
  BY FeedStepInv
<1>. QED  BY <1>1, FeedInitInv, PTL DEF FeedSpec

\* Division, as pages need it.
LEMMA DivMod ==
  ASSUME NEW a \in Nat, NEW z \in Nat \ {0}
  PROVE  /\ a \div z \in Nat /\ a % z \in Nat /\ a % z < z
         /\ a = (a \div z) * z + (a % z)
OBVIOUS

\* There is a page after the n-th exactly when there are rows after it.
LEMMA PagesCount ==
  ASSUME NEW total \in Nat, NEW z \in Nat \ {0}, NEW n \in Nat
  PROVE  /\ TotalPages(total, z) \in Nat
         /\ n < TotalPages(total, z) <=> n * z < total
<1>1. PICK q \in Nat : q = total \div z
  BY DivMod
<1>2. PICK m \in Nat : m = total % z
  BY DivMod
<1>3. m < z /\ total = q * z + m
  BY <1>1, <1>2, DivMod
<1>4. TotalPages(total, z) = q + (IF m > 0 THEN 1 ELSE 0)
  BY <1>1, <1>2 DEF TotalPages
<1>5. q * z \in Nat /\ n * z \in Nat /\ z \in Nat
  BY ProductMonotone
<1>6. CASE n < q
  <2>1. (n + 1) * z <= q * z
    BY <1>6, <1>5, ProductMonotone
  <2>2. (n + 1) * z = n * z + z
    BY <1>5
  <2>. QED  BY <1>3, <1>4, <1>5, <1>6, <2>1, <2>2
<1>7. CASE n = q
  BY <1>3, <1>4, <1>5, <1>7
<1>8. CASE n > q
  <2>1. (q + 1) * z <= n * z
    BY <1>8, <1>5, ProductMonotone
  <2>2. (q + 1) * z = q * z + z
    BY <1>5
  <2>. QED  BY <1>3, <1>4, <1>5, <1>8, <2>1, <2>2
<1>. QED  BY <1>6, <1>7, <1>8

\* The pages of an unchanging list with distinct instants.
LEMMA OffsetPagesHold == FeedTypeOK => OffsetPagesCover
<1>. SUFFICES ASSUME FeedTypeOK, NEW z \in 1..Cardinality(RowIds),
                     \A q, r \in Present : created[q] = created[r] => q = r
              PROVE  LET total == Cardinality(Present)  pages == 1..TotalPages(total, z) IN
                     /\ UNION {OffsetPage(Present, n, z) : n \in pages} = Present
                     /\ \A n \in pages : HasNext(n, z, total) <=> OffsetPage(Present, n + 1, z) # {}
  BY DEF OffsetPagesCover
<1>. DEFINE R == {k \in Present \X Present : created[k[1]] > created[k[2]]}
<1>1. PICK S : S = Present
  OBVIOUS
<1>2. IsFiniteSet(S) /\ S \subseteq RowIds
  BY <1>1, FS_Subset, FeedAssumption DEF Present
<1>3. PICK N \in Nat : N = Cardinality(S)
  BY <1>2, FS_CardinalityType
<1>4. z \in Nat \ {0}
  BY FeedAssumption, FS_CardinalityType
<1>5. \A q \in S : created[q] \in Nat
  BY <1>2 DEF FeedTypeOK
<1>6. \A q, r \in S : <<q, r>> \in R <=> created[q] > created[r]
  BY <1>1
<1>7. Ordered(R, S)
  BY <1>1, <1>5, <1>6 DEF Ordered
<1>8. \A r \in S : Rank(S, r) = Cardinality(Before(R, S, r))
  BY <1>6 DEF Rank, Before
<1>. HIDE DEF R
<1>9. /\ \A r \in S : Rank(S, r) \in 0..(N - 1)
      /\ \A n \in 0..(N - 1) : \E r \in S : Rank(S, r) = n
  BY <1>2, <1>3, <1>7, <1>8, Ranks
<1>10. ASSUME NEW r \in S  PROVE \E n \in 1..TotalPages(N, z) : r \in OffsetPage(S, n, z)
  <2>1. PICK p \in Nat : p = Rank(S, r) /\ p < N
    BY <1>9
  <2>2. PICK n \in Nat : n = p \div z
    BY <1>4, DivMod
  <2>3. n * z \in Nat /\ n * z <= p /\ p < n * z + z
    BY <1>4, <2>2, DivMod, ProductMonotone
  <2>4. n < TotalPages(N, z) /\ TotalPages(N, z) \in Nat
    BY <1>4, <2>1, <2>3, PagesCount
  <2>5. n + 1 \in 1..TotalPages(N, z) /\ Offset(n + 1, z) = n * z
    BY <2>4 DEF Offset
  <2>6. r \in OffsetPage(S, n + 1, z)
    BY <2>1, <2>3, <2>5 DEF OffsetPage
  <2>. QED  BY <2>5, <2>6
<1>11. ASSUME NEW n \in 1..TotalPages(N, z)
       PROVE  HasNext(n, z, N) <=> OffsetPage(S, n + 1, z) # {}
  <2>1. n \in Nat /\ n * z \in Nat /\ (HasNext(n, z, N) <=> n * z < N)
    BY <1>4, PagesCount, ProductMonotone DEF HasNext
  <2>2. Offset(n + 1, z) = n * z
    BY <2>1 DEF Offset
  <2>3. ASSUME n * z < N  PROVE OffsetPage(S, n + 1, z) # {}
    <3>1. PICK r \in S : Rank(S, r) = n * z
      BY <1>9, <2>1, <2>3
    <3>. QED  BY <1>4, <2>1, <2>2, <3>1 DEF OffsetPage
  <2>4. ASSUME NEW r \in OffsetPage(S, n + 1, z)  PROVE n * z < N
    BY <1>9, <2>1, <2>2, <2>4 DEF OffsetPage
  <2>. QED  BY <2>1, <2>3, <2>4
<1>12. UNION {OffsetPage(S, n, z) : n \in 1..TotalPages(N, z)} = S
  BY <1>10 DEF OffsetPage
<1>. QED  BY <1>1, <1>3, <1>11, <1>12

\* A walk that keeps the invariant misses and repeats nothing.
LEMMA FeedInvIsEnough == FeedInv => PagesComplete
<1>. SUFFICES ASSUME FeedInv  PROVE PagesComplete
  OBVIOUS
<1>1. ASSUME ~finished, NEW r \in BelowCursor, r \in returned  PROVE FALSE
  BY <1>1 DEF FeedInv, Walked, BelowCursor
<1>2. \A r \in stayed \ BelowCursor : cursor # {} => r \in returned
  BY DEF FeedInv, Walked
<1>3. finished => stayed \subseteq returned
  BY DEF FeedInv, Walked
<1>4. EachRowOnce
  BY <1>1, <1>2, <1>3 DEF EachRowOnce
<1>. QED  BY <1>4, OffsetPagesHold DEF FeedInv, PagesComplete

\* Who walks a list to its end has seen it all: by cursors, whatever is inserted, withdrawn
\* or removed between two pages, for any number of rows and any page size (KeysetCursor,
\* CursorPage); by offsets, when the list stays as it is (NewOffsetPageResult).
THEOREM PagesCompleteHolds == FeedSpec => []PagesComplete
<1>. QED  BY FeedInvIsEnough, FeedInvariant, PTL

\* The listings' variables keep their types.
THEOREM FeedTypeOKHolds == FeedSpec => []FeedTypeOK
<1>1. FeedInv => FeedTypeOK
  BY DEF FeedInv
<1>. QED  BY <1>1, FeedInvariant, PTL
===============================================================================

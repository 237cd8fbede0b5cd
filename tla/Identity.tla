------------------------------- MODULE Identity -------------------------------
(****************************************************************************)
(* Accounts and sessions: features/user (service and postgres repository),  *)
(* features/auth (service, password hashing, jwt tokens) and the middleware *)
(* that authenticates a request.  A statement on the users table is atomic; *)
(* a request is a sequence of such statements, and between two of them      *)
(* other requests run.  An account is its e-mail address, which stays       *)
(* unique when the account is deleted.  Names and telephone numbers are     *)
(* left out.                                                                *)
(****************************************************************************)
EXTENDS Naturals, FiniteSets, Functions

CONSTANTS
  Users,            \* e-mail addresses
  Requests,         \* requests under way at once
  Slots,            \* hashSlots: GOMAXPROCS
  Stored,           \* the parameters of each account's stored hash, or Foreign
  Foreign,          \* a stored hash of another format
  ArgonMemory,      \* argon2Memory, what hashing a new password takes
  MaxStoredMemory,  \* maxStoredMemory
  MaxIterations,    \* maxStoredIterations
  MaxVersion        \* bound on token_version

HashParams == [memory : Nat, iterations : Nat, threads : Nat]

ASSUME SlotsAssumption == Slots \in Nat \ {0}
ASSUME StoredAssumption == Stored \in [Users -> HashParams \cup {Foreign}]
ASSUME ArgonAssumption == ArgonMemory \in Nat /\ MaxStoredMemory \in Nat /\ ArgonMemory <= MaxStoredMemory
ASSUME VersionAssumption == MaxVersion \in Nat

VARIABLES
  account,       \* absent, live, or deleted (deleted_at set)
  role,          \* users.role
  active,        \* users.active
  tokenVersion,  \* users.token_version
  pairs,         \* token pairs in the hands of clients
  request,       \* what each request holds between two statements
  hashing,       \* the requests that occupy a hash slot
  roleChanges    \* history: the role changes of each account that returned success

rowVars == <<account, role, active, tokenVersion>>
identityVars == <<account, role, active, tokenVersion, pairs, request, hashing, roleChanges>>

Roles == {"user", "admin"}

Steps == {"idle", "unknown", "login", "register", "identified",
          "update", "role", "revoke", "delete"}

\* seen dates a session: the role changes completed when the login that began it
\* read the account.  It is history; the code carries only the version.
Held == [step : Steps, user : Users, role : Roles, active : BOOLEAN, version : Nat, seen : Nat]
Pair == [user : Users, version : Nat, seen : Nat]

Nobody == [step |-> "idle", user |-> CHOOSE u \in Users : TRUE, role |-> "user",
           active |-> FALSE, version |-> 0, seen |-> 0]

At(r, step) == request[r].step = step
End(r) == request' = [request EXCEPT ![r] = Nobody]

(****************************************************************************)
(* The repository: one operator per statement.                              *)
(****************************************************************************)
\* SELECT ... WHERE id = $1 AND deleted_at IS NULL: the whole row.
GetByID(u, step) ==
  [step |-> step, user |-> u, role |-> role[u], active |-> active[u],
   version |-> tokenVersion[u], seen |-> roleChanges[u]]

Found(u) == account[u] = "live"

\* GetByEmail, the same by e-mail.
GetByEmail(u) == IF Found(u) THEN GetByID(u, "login") ELSE [Nobody EXCEPT !.step = "unknown"]

IsActiveAdmin(u) == account[u] = "live" /\ role[u] = "admin" /\ active[u]

\* activeAdminsCTE: locked, so that two guarded statements see each other.
ActiveAdmins == {u \in Users : IsActiveAdmin(u)}

CanUpdate_NotLastOnly(u, newRole, newActive) ==
  /\ Found(u)
  /\ \/ role[u] # "admin"
     \/ newRole = "admin" \/ newActive
     \/ ActiveAdmins \ {u} # {}
     \/ ~IsActiveAdmin(u)

CanUpdate(u, newRole, newActive) ==
  /\ Found(u)
  /\ \/ role[u] # "admin"
     \/ newRole = "admin" /\ newActive
     \/ \E v, w \in ActiveAdmins : v # w      \* count(*) > 1
     \/ ~IsActiveAdmin(u)

\* UpdateGuarded writes the whole row as it was read, but for what was changed.
UpdateGuarded(u, newRole, newActive) ==
  /\ role' = [role EXCEPT ![u] = newRole]
  /\ active' = [active EXCEPT ![u] = newActive]
  /\ UNCHANGED <<account, tokenVersion>>

CanDelete(u) ==
  /\ Found(u)
  /\ \/ role[u] # "admin"
     \/ \E v, w \in ActiveAdmins : v # w
     \/ ~IsActiveAdmin(u)

DeleteRow(u) ==
  /\ account' = [account EXCEPT ![u] = "deleted"]
  /\ UNCHANGED <<role, active, tokenVersion>>

IncrementTokenVersion(u) ==
  /\ tokenVersion' = [tokenVersion EXCEPT ![u] = @ + 1]
  /\ UNCHANGED <<account, role, active>>

\* Create: a conflict when the address was ever taken, else an active user.
InsertUser(u) ==
  /\ account[u] = "absent"
  /\ account' = [account EXCEPT ![u] = "live"]
  /\ role' = [role EXCEPT ![u] = "user"]
  /\ active' = [active EXCEPT ![u] = TRUE]
  /\ tokenVersion' = [tokenVersion EXCEPT ![u] = 0]

(****************************************************************************)
(* Tokens.                                                                  *)
(****************************************************************************)
\* BuildTokenPair puts the version of the profile it was given in both tokens.
BuildTokenPair(held) ==
  pairs' = pairs \cup {[user |-> held.user, version |-> held.version, seen |-> held.seen]}

\* A deactivated or deleted account and a revoked version are refused.
ActiveProfile(p) ==
  /\ Found(p.user)
  /\ active[p.user]
  /\ tokenVersion[p.user] = p.version

\* A stored hash within bounds; any other is refused before memory is allocated.
Supported(u) ==
  /\ Stored[u] # Foreign
  /\ Stored[u].iterations \in 1..MaxIterations
  /\ Stored[u].threads >= 1
  /\ Stored[u].memory <= MaxStoredMemory

\* What the hash a request computes allocates.  An unknown address is compared
\* with a dummy hash of the same cost.
HashMemory(r) ==
  IF At(r, "login")
  THEN IF Supported(request[r].user) THEN Stored[request[r].user].memory ELSE 0
  ELSE ArgonMemory

(****************************************************************************)
(* Requests without a token.                                                *)
(****************************************************************************)
\* Login reads the account first; the password is checked against that row.
LoginRead(r, u) ==
  /\ At(r, "idle")
  /\ request' = [request EXCEPT ![r] = GetByEmail(u)]
  /\ UNCHANGED <<rowVars, pairs, hashing, roleChanges>>

RegisterStart(r, u) ==
  /\ At(r, "idle")
  /\ request' = [request EXCEPT ![r] = [Nobody EXCEPT !.step = "register", !.user = u]]
  /\ UNCHANGED <<rowVars, pairs, hashing, roleChanges>>

Hashes(r) == request[r].step \in {"unknown", "login", "register"}

TakeSlot_Unbounded(r) ==
  /\ Hashes(r) /\ r \notin hashing
  /\ hashing' = hashing \cup {r}
  /\ UNCHANGED <<rowVars, pairs, request, roleChanges>>

\* withHashSlot: a place in the channel, or the caller gives up waiting.
TakeSlot(r) ==
  /\ Hashes(r) /\ r \notin hashing
  /\ Cardinality(hashing) < Slots
  /\ hashing' = hashing \cup {r}
  /\ UNCHANGED <<rowVars, pairs, request, roleChanges>>

GiveUp(r) ==
  /\ Hashes(r) /\ r \notin hashing
  /\ End(r)
  /\ UNCHANGED <<rowVars, pairs, hashing, roleChanges>>

\* The hash is done and the slot given back.  A wrong password, an unsupported
\* hash and, only after the comparison, a deactivated account are refused.
LoginEnd(r) ==
  /\ r \in hashing /\ request[r].step \in {"login", "unknown"}
  /\ hashing' = hashing \ {r}
  /\ End(r)
  /\ \/ UNCHANGED pairs
     \/ /\ At(r, "login") /\ Supported(request[r].user) /\ request[r].active
        /\ BuildTokenPair(request[r])
  /\ UNCHANGED <<rowVars, roleChanges>>

RegisterEnd(r) ==
  LET u == request[r].user IN
  /\ r \in hashing /\ At(r, "register")
  /\ hashing' = hashing \ {r}
  /\ End(r)
  /\ \/ InsertUser(u) /\ BuildTokenPair([request[r] EXCEPT !.seen = roleChanges[u]])
     \/ account[u] # "absent" /\ UNCHANGED <<rowVars, pairs>>
  /\ UNCHANGED roleChanges

\* Refresh: a refresh token for a new pair; the session stays the same one.
Refresh(r, p) ==
  /\ At(r, "idle") /\ p \in pairs
  /\ ActiveProfile(p)
  /\ BuildTokenPair([GetByID(p.user, "idle") EXCEPT !.seen = p.seen])
  /\ UNCHANGED <<rowVars, request, hashing, roleChanges>>

Expire(p) ==
  /\ p \in pairs
  /\ pairs' = pairs \ {p}
  /\ UNCHANGED <<rowVars, request, hashing, roleChanges>>

(****************************************************************************)
(* Requests with a token.  The middleware takes the role from the account,  *)
(* not from the token, and the request keeps it to its end.                 *)
(****************************************************************************)
Authenticate(r, p) ==
  /\ At(r, "idle") /\ p \in pairs
  /\ ActiveProfile(p)
  /\ request' = [request EXCEPT ![r] = [GetByID(p.user, "identified") EXCEPT !.seen = p.seen]]
  /\ UNCHANGED <<rowVars, pairs, hashing, roleChanges>>

\* Any other request ends without a trace in the users table.
Answer(r) ==
  /\ At(r, "identified")
  /\ End(r)
  /\ UNCHANGED <<rowVars, pairs, hashing, roleChanges>>

\* RequireRole("admin").
AsAdmin(r) == At(r, "identified") /\ request[r].role = "admin"

\* AdminUpdate, UpdateRole and Delete first read the account they are about.
AdminUpdateRead(r, u, newActive) ==
  /\ AsAdmin(r) /\ Found(u)
  /\ request' = [request EXCEPT ![r] = [GetByID(u, "update") EXCEPT !.active = newActive]]
  /\ UNCHANGED <<rowVars, pairs, hashing, roleChanges>>

UpdateRoleRead(r, u, newRole) ==
  /\ AsAdmin(r) /\ u # request[r].user /\ Found(u)
  /\ request' = [request EXCEPT ![r] = [GetByID(u, "role") EXCEPT !.role = newRole]]
  /\ UNCHANGED <<rowVars, pairs, hashing, roleChanges>>

DeleteRead(r, u) ==
  /\ AsAdmin(r) /\ u # request[r].user /\ Found(u)
  /\ request' = [request EXCEPT ![r] = GetByID(u, "delete")]
  /\ UNCHANGED <<rowVars, pairs, hashing, roleChanges>>

\* The guard may refuse what the read allowed: the last administrator stays.
AdminUpdate(r) ==
  LET h == request[r] IN
  /\ At(r, "update")
  /\ End(r)
  /\ \/ CanUpdate(h.user, h.role, h.active) /\ UpdateGuarded(h.user, h.role, h.active)
     \/ ~CanUpdate(h.user, h.role, h.active) /\ UNCHANGED rowVars
  /\ UNCHANGED <<pairs, hashing, roleChanges>>

UpdateRole(r) ==
  LET h == request[r] IN
  /\ At(r, "role")
  /\ \/ /\ CanUpdate(h.user, h.role, h.active) /\ UpdateGuarded(h.user, h.role, h.active)
        /\ request' = [request EXCEPT ![r].step = "revoke"]
     \/ ~CanUpdate(h.user, h.role, h.active) /\ UNCHANGED rowVars /\ End(r)
  /\ UNCHANGED <<pairs, hashing, roleChanges>>

RevokeTokens_Forgotten(r) ==
  LET u == request[r].user IN
  /\ At(r, "revoke") /\ roleChanges[u] < MaxVersion
  /\ End(r)
  /\ roleChanges' = [roleChanges EXCEPT ![u] = @ + 1]
  /\ UNCHANGED <<rowVars, pairs, hashing>>

\* The second statement of UpdateRole: success is what it returns.
RevokeTokens(r) ==
  LET u == request[r].user IN
  /\ At(r, "revoke") /\ tokenVersion[u] < MaxVersion
  /\ End(r)
  /\ \/ /\ Found(u) /\ IncrementTokenVersion(u)
        /\ roleChanges' = [roleChanges EXCEPT ![u] = @ + 1]
     \/ ~Found(u) /\ UNCHANGED <<rowVars, roleChanges>>
  /\ UNCHANGED <<pairs, hashing>>

DeleteUser(r) ==
  LET u == request[r].user IN
  /\ At(r, "delete")
  /\ End(r)
  /\ \/ CanDelete(u) /\ DeleteRow(u)
     \/ ~CanDelete(u) /\ UNCHANGED rowVars
  /\ UNCHANGED <<pairs, hashing, roleChanges>>

\* The process dies, or the database fails, between two statements of a request.
Abandon(r) ==
  /\ request[r].step \notin {"idle", "unknown", "login", "register"}
  /\ End(r)
  /\ UNCHANGED <<rowVars, pairs, hashing, roleChanges>>

(****************************************************************************)
(* The first administrator is made outside the program (db/seeds).          *)
(****************************************************************************)
IdentityInit ==
  /\ account \in [Users -> {"absent", "live"}]
  /\ role \in [Users -> Roles]
  /\ active \in [Users -> BOOLEAN]
  /\ \E u \in Users : IsActiveAdmin(u)
  /\ \A u \in Users : account[u] = "absent" =>
       /\ role[u] = "user" /\ ~active[u]
       /\ Stored[u] = [memory |-> ArgonMemory, iterations |-> 2, threads |-> 1]
  /\ tokenVersion = [u \in Users |-> 0]
  /\ pairs = {}
  /\ request = [r \in Requests |-> Nobody]
  /\ hashing = {}
  /\ roleChanges = [u \in Users |-> 0]

HashStep(r) ==
  \/ \E u \in Users : LoginRead(r, u) \/ RegisterStart(r, u)
  \/ TakeSlot(r) \/ GiveUp(r) \/ LoginEnd(r) \/ RegisterEnd(r)

SessionStep(r) ==
  \/ HashStep(r)
  \/ \E p \in pairs : Refresh(r, p) \/ Authenticate(r, p)

AdminStep(r) ==
  \/ \E u \in Users :
       \/ \E b \in BOOLEAN : AdminUpdateRead(r, u, b)
       \/ \E x \in Roles : UpdateRoleRead(r, u, x)
       \/ DeleteRead(r, u)
  \/ AdminUpdate(r) \/ UpdateRole(r) \/ RevokeTokens(r) \/ DeleteUser(r)

IdentityNext ==
  \/ \E r \in Requests : SessionStep(r) \/ AdminStep(r) \/ Answer(r) \/ Abandon(r)
  \/ \E p \in pairs : Expire(p)

IdentitySpec == IdentityInit /\ [][IdentityNext]_identityVars

(****************************************************************************)
(* Properties.                                                              *)
(****************************************************************************)
IdentityTypeOK ==
  /\ account \in [Users -> {"absent", "live", "deleted"}]
  /\ role \in [Users -> Roles]
  /\ active \in [Users -> BOOLEAN]
  /\ tokenVersion \in [Users -> 0..MaxVersion]
  /\ roleChanges \in [Users -> 0..MaxVersion]
  /\ pairs \in SUBSET Pair
  /\ request \in [Requests -> Held]
  /\ hashing \in SUBSET Requests

\* Somebody can always administer: whatever administrators do to each other at
\* the same time, from rows read before, one active administrator remains
\* (the guard of UpdateGuarded and Delete).
ActiveAdminExists == ActiveAdmins # {}

\* The memory of all password hashes under way is bounded, whatever the stored
\* hashes ask for (withHashSlot, maxStoredMemory).
HashMemoryBounded ==
  SumFunctionOnSet([r \in hashing |-> HashMemory(r)], hashing) <= Slots * MaxStoredMemory

\* A role change that returned success has ended every session begun before it:
\* neither token of a pair is accepted, and a login that read the account before
\* the change gets tokens that are refused (token_version, ARCHITECTURE.md:221).
RoleChangeRevokes ==
  [][\A r \in Requests :
       /\ At(r, "idle") /\ request'[r].step = "identified" =>
            request'[r].seen = roleChanges[request'[r].user]
       /\ \A p \in pairs : Refresh(r, p) => p.seen = roleChanges[p.user]]_identityVars

\* A deleted account is gone: no request that read it before brings it back,
\* changes it or is let in as it.
DeletedForGood ==
  [][\A u \in Users : account[u] = "deleted" =>
       /\ account'[u] = "deleted" /\ role'[u] = role[u] /\ active'[u] = active[u]
       /\ \A r \in Requests :
            At(r, "idle") /\ request'[r].step = "identified" => request'[r].user # u]_identityVars

\* A session that a role change ended stays ended, and a deleted account stays out,
\* whatever was read before.  Nothing is said of the role itself, which an AdminUpdate
\* that read the row before the change writes back, nor of a change whose revocation
\* failed: it ends no session (AdminUpdate, UpdateRole).
RevokedStaysOut == RoleChangeRevokes /\ DeletedForGood
===============================================================================

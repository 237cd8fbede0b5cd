------------------------------- MODULE RateLimit ------------------------------
(****************************************************************************)
(* The in-process fallback of the rate limiter (platform/web/middleware):   *)
(* fixed windows per caller, kept only while Redis answers with an error,   *)
(* with one shared window for the callers that find the map full.           *)
(*                                                                          *)
(* Instants are ticks from now: a window has expired once its end is before *)
(* now.                                                                     *)
(****************************************************************************)
EXTENDS Integers, FiniteSets, Functions

CONSTANTS
  Callers,   \* identifiers: a user, an address, an IPv6 /64
  Limit,     \* maxRequests
  Window,    \* in ticks
  MaxKeys    \* fallbackMaxKeys

ASSUME RateLimitAssumption ==
  IsFiniteSet(Callers) /\ Limit \in Nat \ {0} /\ Window \in Nat \ {0} /\ MaxKeys \in Nat

VARIABLES
  tracked,      \* the callers that have a window in the map
  count,        \* what each window has admitted
  left,         \* ticks until each window ends; -1 when it has
  overflow,     \* the shared window: count and left
  sinceReclaim, \* ticks since expired windows were last dropped, up to Window
  admitted      \* history: requests admitted in each of the last Window + 1 ticks

limitVars == <<tracked, count, left, overflow, sinceReclaim, admitted>>

Expired(n) == n < 0
Live == {k \in tracked : ~Expired(left[k])}

Admit == admitted' = [admitted EXCEPT ![0] = @ + 1]

(****************************************************************************)
(* fallbackLimiter.allow, by the branch it takes.                           *)
(****************************************************************************)
\* A caller with a window: a new one when the old has ended, a refusal when it is
\* used up.
AllowTracked(k) ==
  /\ k \in tracked
  /\ Expired(left[k]) \/ count[k] < Limit
  /\ count' = [count EXCEPT ![k] = IF Expired(left[k]) THEN 1 ELSE @ + 1]
  /\ left' = [left EXCEPT ![k] = IF Expired(@) THEN Window ELSE @]
  /\ Admit
  /\ UNCHANGED <<tracked, overflow, sinceReclaim>>

\* reclaimExpired, at most once in a window, and only when the map is full.
ReclaimDue == Cardinality(tracked) >= MaxKeys /\ sinceReclaim >= Window

Kept == IF ReclaimDue THEN Live ELSE tracked

Reclaimed == sinceReclaim' = IF ReclaimDue THEN 0 ELSE sinceReclaim

AllowNew(k) ==
  /\ k \notin tracked /\ Cardinality(Kept) < MaxKeys
  /\ Reclaimed
  /\ tracked' = Kept \cup {k}
  /\ count' = [count EXCEPT ![k] = 1]
  /\ left' = [left EXCEPT ![k] = Window]
  /\ Admit
  /\ UNCHANGED overflow

\* allowOverflow: a caller the full map has no room for.  A refusal may still have
\* dropped expired windows.
OverflowWindow == IF Expired(overflow.left) THEN [count |-> 0, left |-> Window] ELSE overflow

OverflowAdmits_Always(w) == TRUE
OverflowAdmits(w) == w.count < Limit * MaxKeys

AllowOverflow(k) ==
  LET w == OverflowWindow IN
  /\ k \notin tracked /\ Cardinality(Kept) >= MaxKeys
  /\ Reclaimed
  /\ tracked' = Kept
  /\ IF OverflowAdmits(w)
     THEN overflow' = [w EXCEPT !.count = @ + 1] /\ Admit
     ELSE overflow' = w /\ UNCHANGED admitted
  /\ UNCHANGED <<count, left>>

LimitTick ==
  /\ left' = [k \in Callers |-> IF Expired(left[k]) THEN -1 ELSE left[k] - 1]
  /\ overflow' = [overflow EXCEPT !.left = IF Expired(@) THEN -1 ELSE @ - 1]
  /\ sinceReclaim' = IF sinceReclaim < Window THEN sinceReclaim + 1 ELSE Window
  /\ admitted' = [t \in 0..Window |-> IF t = 0 THEN 0 ELSE admitted[t - 1]]
  /\ UNCHANGED <<tracked, count>>

LimitInit ==
  /\ tracked = {}
  /\ count = [k \in Callers |-> 0]
  /\ left = [k \in Callers |-> -1]
  /\ overflow = [count |-> 0, left |-> -1]
  /\ sinceReclaim = Window
  /\ admitted = [t \in 0..Window |-> 0]

LimitNext ==
  \/ \E k \in Callers : AllowTracked(k) \/ AllowNew(k) \/ AllowOverflow(k)
  \/ LimitTick

LimitSpec == LimitInit /\ [][LimitNext]_limitVars

-----------------------------------------------------------------------------
LimitTypeOK ==
  /\ tracked \subseteq Callers
  /\ count \in [Callers -> 0..Limit]
  /\ left \in [Callers -> -1..Window]
  /\ overflow \in [count : Nat, left : -1..Window]
  /\ sinceReclaim \in 0..Window
  /\ admitted \in [0..Window -> Nat]
  /\ Cardinality(tracked) <= MaxKeys

\* However many callers come while Redis is away, they get no more through in a
\* window than the windows the map has room for, and one that they share, allow,
\* each of which may end and begin again within it (fallbackLimiter.allow,
\* allowOverflow).
FloodBounded == SumFunctionOnSet(admitted, 0..Window) <= 2 * Limit * (MaxKeys + MaxKeys)
===============================================================================

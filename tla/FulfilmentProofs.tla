--------------------------- MODULE FulfilmentProofs ---------------------------
(****************************************************************************)
(* Theorems about the way of the goods, for any number of customers,        *)
(* products, orders and requests: the cart they are put into, the rows of   *)
(* the stock they are taken from, the parcel and the review. What a request *)
(* has read or locked is used later, so the invariants say what stays true  *)
(* of that; and what was put in, is held or is reserved is counted by sums  *)
(* over the orders.                                                         *)
(****************************************************************************)
EXTENDS Cart, Store, Review, CountingTheorems, FiniteSetTheorems, WellFoundedInduction, TLAPS

(****************************************************************************)
(* Carts.                                                                   *)
(****************************************************************************)
\* Requests, and the lines of a cart, have their types.
CartShape ==
  /\ cartLock \in [Owners -> CartRequests \cup {NoRequest}]
  /\ quantity \in [Owners -> Lines]
  /\ cartReq \in [CartRequests -> [step : CartSteps, owner : Owners, product : CartProducts,
                                   qty : 0..MaxQuantity, snapshot : Lines, key : OrderKeys]]
  /\ \A r \in CartRequests : Working(r, "change") => cartReq[r].qty > 0

\* A request in its transaction has the cart locked, so that a snapshot of it names every
\* line there is until the order is made.
LocksHeld == \A r \in CartRequests : InTransaction(r) => cartLock[Owner(r)] = r

SnapshotsCover ==
  \A r \in CartRequests : Working(r, "snapped") =>
    \A p \in CartProducts : quantity[Owner(r)][p] > 0 => cartReq[r].snapshot[p] > 0

CartInv == CartShape /\ LocksHeld /\ SnapshotsCover

\* A request at rest has the type of a request.
LEMMA NoWorkType ==
  NoWork \in [step : {"idle"}, owner : Owners, product : CartProducts,
              qty : 0..MaxQuantity, snapshot : Lines, key : OrderKeys]
<1>1. NoLines \in Lines
  BY MaxQuantityAssumption DEF NoLines, Lines
<1>. QED  BY <1>1, CartAssumption, MaxQuantityAssumption DEF NoWork

\* At first no request is under way.
LEMMA CartInitInv == CartInit => CartInv
<1>. SUFFICES ASSUME CartInit  PROVE CartInv
  OBVIOUS
<1>1. NoLines \in Lines
  BY MaxQuantityAssumption DEF NoLines, Lines
<1>2. \A r \in CartRequests : cartReq[r] = NoWork /\ cartReq[r].step = "idle"
  BY NoWorkType DEF CartInit
<1>3. CartShape
  BY <1>1, <1>2, NoWorkType DEF CartInit, CartShape, CartSteps, Working
<1>. QED  BY <1>2, <1>3 DEF CartInv, LocksHeld, SnapshotsCover, InTransaction, Working

\* A request that ends, in a transaction or not, leaves the others as they are.
LEMMA StopStep ==
  ASSUME CartInv, NEW r \in CartRequests, Stop(r), quantity' \in [Owners -> Lines],
         \A u \in Owners, p \in CartProducts :
           quantity'[u][p] > 0 /\ quantity[u][p] = 0 => cartLock[u] \in {r, NoRequest},
         \/ cartLock' = cartLock
         \/ InTransaction(r) /\ UnlockCart(Owner(r))
  PROVE  CartInv'
<1>1. \A q \in CartRequests \ {r} : cartReq'[q] = cartReq[q]
  BY DEF CartInv, CartShape, Stop
<1>2. cartReq'[r].step = "idle"
  BY NoWorkType DEF CartInv, CartShape, Stop
<1>3. CartShape'
  <2>1. cartReq' \in [CartRequests -> [step : CartSteps, owner : Owners, product : CartProducts,
                                       qty : 0..MaxQuantity, snapshot : Lines, key : OrderKeys]]
    BY NoWorkType DEF CartInv, CartShape, Stop, CartSteps
  <2>2. cartLock' \in [Owners -> CartRequests \cup {NoRequest}]
    BY DEF CartInv, CartShape, UnlockCart
  <2>. QED  BY <1>1, <1>2, <2>1, <2>2 DEF CartInv, CartShape, Working
<1>4. \A q \in CartRequests \ {r} : InTransaction(q) => cartLock'[Owner(q)] = q
  BY NoRequestAssumption DEF CartInv, CartShape, LocksHeld, UnlockCart, Owner
<1>5. LocksHeld'
  BY <1>1, <1>2, <1>4 DEF LocksHeld, InTransaction, Owner
<1>6. \A q \in CartRequests \ {r} : Working(q, "snapped") => cartLock[Owner(q)] = q /\ Owner(q) \in Owners
  BY DEF CartInv, CartShape, LocksHeld, InTransaction, Working, Owner
<1>7. \A q \in CartRequests \ {r} : Working(q, "snapped") =>
        \A p \in CartProducts : quantity'[Owner(q)][p] > 0 => quantity[Owner(q)][p] > 0
  BY <1>6, NoRequestAssumption DEF CartInv, CartShape, Lines
<1>8. SnapshotsCover'
  BY <1>1, <1>2, <1>7 DEF CartInv, SnapshotsCover, Working, Owner
<1>. QED  BY <1>3, <1>5, <1>8 DEF CartInv

\* What a request on a product is when it begins.
Begun(step, u, p, n) == [NoWork EXCEPT !.step = step, !.owner = u, !.product = p, !.qty = n]

\* The product, the quantity and the owner are those asked for.
LEMMA BegunType ==
  ASSUME NEW step \in {"add", "change"}, NEW u \in Owners, NEW p \in CartProducts, NEW n \in 1..MaxQuantity
  PROVE  /\ Begun(step, u, p, n) \in [step : {"add", "remove", "change", "looked"}, owner : Owners,
              product : CartProducts, qty : 0..MaxQuantity, snapshot : Lines, key : OrderKeys]
         /\ Begun(step, u, p, n).qty > 0
<1>. DEFINE R(s, v, q, m) == [step |-> s, owner |-> v, product |-> q, qty |-> m,
                              snapshot |-> NoWork.snapshot, key |-> NoWork.key]
<1>1. NoWork = R(NoWork.step, NoWork.owner, NoWork.product, NoWork.qty)
  BY NoWorkType
<1>2. [NoWork EXCEPT !.step = step] = R(step, NoWork.owner, NoWork.product, NoWork.qty)
  BY <1>1
<1>3. [R(step, NoWork.owner, NoWork.product, NoWork.qty) EXCEPT !.owner = u]
        = R(step, u, NoWork.product, NoWork.qty)
  OBVIOUS
<1>4. [R(step, u, NoWork.product, NoWork.qty) EXCEPT !.product = p] = R(step, u, p, NoWork.qty)
  OBVIOUS
<1>5. [R(step, u, p, NoWork.qty) EXCEPT !.qty = n] = R(step, u, p, n)
  OBVIOUS
<1>6. Begun(step, u, p, n) = R(step, u, p, n)
  BY <1>2, <1>3, <1>4, <1>5 DEF Begun
<1>. QED  BY <1>6, NoWorkType, MaxQuantityAssumption

\* So does one that starts outside a transaction.
LEMMA BeginStep ==
  ASSUME CartInv, NEW r \in CartRequests, Working(r, "idle"),
         NEW w \in [step : {"add", "remove", "change", "looked"}, owner : Owners, product : CartProducts,
                    qty : 0..MaxQuantity, snapshot : Lines, key : OrderKeys],
         w.step = "change" => w.qty > 0,
         cartReq' = [cartReq EXCEPT ![r] = w], UNCHANGED <<quantity, cartLock>>
  PROVE  CartInv'
<1>1. \A q \in CartRequests \ {r} : cartReq'[q] = cartReq[q]
  BY DEF CartInv, CartShape
<1>2. cartReq'[r] = w
  BY DEF CartInv, CartShape
<1>3. CartShape'
  BY <1>1, <1>2 DEF CartInv, CartShape, CartSteps, Working
<1>4. LocksHeld'
  BY <1>1, <1>2 DEF CartInv, LocksHeld, InTransaction, Owner
<1>5. SnapshotsCover'
  BY <1>1, <1>2 DEF CartInv, SnapshotsCover, Working, Owner
<1>. QED  BY <1>3, <1>4, <1>5 DEF CartInv

\* A request that locks the cart found it free.
LEMMA LockStep ==
  ASSUME CartInv, NEW r \in CartRequests, cartReq[r].step \in {"add", "looked"},
         NEW step \in {"added_lock", "locked"}, Go(r, step),
         cartLock[Owner(r)] = NoRequest, cartLock' = [cartLock EXCEPT ![Owner(r)] = r],
         quantity' = quantity
  PROVE  CartInv'
<1>1. \A q \in CartRequests \ {r} : cartReq'[q] = cartReq[q]
  BY DEF CartInv, CartShape, Go
<1>2. cartReq'[r].step = step /\ cartReq'[r].owner = cartReq[r].owner
  BY DEF CartInv, CartShape, Go
<1>3. CartShape'
  BY <1>1, <1>2 DEF CartInv, CartShape, CartSteps, Working, Go
<1>4. LocksHeld'
  BY <1>1, <1>2, NoRequestAssumption DEF CartInv, CartShape, LocksHeld, InTransaction, Owner
<1>5. SnapshotsCover'
  BY <1>1, <1>2 DEF CartInv, SnapshotsCover, Working, Owner
<1>. QED  BY <1>3, <1>4, <1>5 DEF CartInv

\* In its transaction it counts, or takes a snapshot of all there is.
LEMMA HeldStep ==
  ASSUME CartInv, NEW r \in CartRequests, InTransaction(r), UNCHANGED <<quantity, cartLock>>,
         \/ Go(r, "counted")
         \/ cartReq' = [cartReq EXCEPT ![r].step = "snapped", ![r].snapshot = CartSnapshot(Owner(r))]
  PROVE  CartInv'
<1>0. quantity[Owner(r)] \in Lines
  BY DEF CartInv, CartShape, Owner
<1>1. \A q \in CartRequests \ {r} : cartReq'[q] = cartReq[q]
  BY DEF CartInv, CartShape, Go
<1>2. /\ cartReq'[r].step \in {"counted", "snapped"} /\ cartReq'[r].owner = cartReq[r].owner
      /\ cartReq'[r].step = "snapped" => cartReq'[r].snapshot = quantity[Owner(r)]
      /\ cartReq'[r] \in [step : CartSteps, owner : Owners, product : CartProducts,
                          qty : 0..MaxQuantity, snapshot : Lines, key : OrderKeys]
  <2>1. CASE Go(r, "counted")
    BY <2>1 DEF CartInv, CartShape, CartSteps, Go
  <2>2. CASE cartReq' = [cartReq EXCEPT ![r].step = "snapped", ![r].snapshot = CartSnapshot(Owner(r))]
    <3>1. cartReq'[r] = [cartReq[r] EXCEPT !.step = "snapped", !.snapshot = quantity[Owner(r)]]
      BY <2>2 DEF CartInv, CartShape, CartSnapshot
    <3>. QED  BY <1>0, <3>1 DEF CartInv, CartShape, CartSteps
  <2>. QED  BY <2>1, <2>2
<1>3. CartShape'
  <2>1. DOMAIN cartReq' = CartRequests /\ cartReq' = [q \in CartRequests |-> cartReq'[q]]
    BY DEF CartInv, CartShape, Go
  <2>. QED  BY <1>1, <1>2, <2>1 DEF CartInv, CartShape, Working
<1>4. LocksHeld'
  BY <1>1, <1>2 DEF CartInv, LocksHeld, InTransaction, Owner
<1>5. SnapshotsCover'
  BY <1>1, <1>2 DEF CartInv, SnapshotsCover, Working, Owner
<1>. QED  BY <1>3, <1>4, <1>5 DEF CartInv

\* What the statements do to the lines of the carts.
LEMMA ClearLines ==
  ASSUME CartInv, NEW u \in Owners, ClearItems(u)
  PROVE  /\ quantity' \in [Owners -> Lines]
         /\ \A p \in CartProducts : quantity'[u][p] = 0
         /\ \A v \in Owners \ {u} : quantity'[v] = quantity[v]
BY MaxQuantityAssumption DEF CartInv, CartShape, Lines, ClearItems, NoLines

\* What each request does.
LEMMA RequestTypes ==
  ASSUME CartInv, NEW r \in CartRequests
  PROVE  /\ cartReq[r].owner \in Owners /\ cartReq[r].product \in CartProducts
         /\ cartReq[r].qty \in 0..MaxQuantity
         /\ quantity[cartReq[r].owner][cartReq[r].product] \in 0..MaxQuantity
BY DEF CartInv, CartShape, Lines

\* Adding takes nothing from any line, and touches no other cart.
LEMMA AddCommitWrites ==
  ASSUME CartInv, NEW r \in CartRequests, AddCommit(r)
  PROVE  /\ quantity' \in [Owners -> Lines]
         /\ \A u \in Owners, p \in CartProducts : quantity'[u][p] >= quantity[u][p]
         /\ \A u \in Owners \ {Owner(r)} : quantity'[u] = quantity[u]
<1>. DEFINE u == Owner(r)  p == cartReq[r].product  n == quantity[u][p] + cartReq[r].qty
<1>1. u \in Owners /\ p \in CartProducts /\ n \in 0..MaxQuantity /\ n >= quantity[u][p]
  BY RequestTypes, MaxQuantityAssumption DEF AddCommit, Owner
<1>2. quantity' = [quantity EXCEPT ![u][p] = n]
  BY <1>1 DEF AddCommit, AddItem, Owner
<1>3. /\ quantity' \in [Owners -> Lines]
      /\ quantity'[u][p] = n
      /\ \A v \in Owners, q \in CartProducts : v # u \/ q # p => quantity'[v][q] = quantity[v][q]
  <2>. HIDE DEF u, p, n
  <2>. QED  BY <1>1, <1>2 DEF CartInv, CartShape, Lines
<1>4. \A v \in Owners, q \in CartProducts : quantity[v][q] \in Nat
  BY DEF CartInv, CartShape, Lines
<1>5. \A v \in Owners \ {u} : quantity'[v] = quantity[v]
  BY <1>1, <1>2 DEF CartInv, CartShape
<1>. QED  BY <1>1, <1>3, <1>4, <1>5

\* Removing puts nothing into any line.
LEMMA RemoveWrites ==
  ASSUME CartInv, NEW r \in CartRequests, Remove(r)
  PROVE  /\ quantity' \in [Owners -> Lines]
         /\ \A u \in Owners, p \in CartProducts : quantity'[u][p] \in {0, quantity[u][p]}
<1>. DEFINE u == cartReq[r].owner  p == cartReq[r].product
<1>1. quantity' = [quantity EXCEPT ![u][p] = 0]
  BY DEF Remove, RemoveItem, Owner
<1>2. u \in Owners /\ p \in CartProducts /\ 0 \in 0..MaxQuantity
  BY RequestTypes, MaxQuantityAssumption
<1>3. /\ quantity' \in [Owners -> Lines]
      /\ quantity'[u][p] = 0
      /\ \A v \in Owners, q \in CartProducts : v # u \/ q # p => quantity'[v][q] = quantity[v][q]
  <2>. HIDE DEF u, p
  <2>. QED  BY <1>1, <1>2 DEF CartInv, CartShape, Lines
<1>. QED  BY <1>2, <1>3

\* A change of quantity neither makes a line nor ends one: the row is updated, to at least one.
LEMMA UpdateWrites ==
  ASSUME CartInv, NEW r \in CartRequests, UpdateQuantity(r)
  PROVE  /\ quantity' \in [Owners -> Lines]
         /\ \A u \in Owners, p \in CartProducts : quantity'[u][p] > 0 <=> quantity[u][p] > 0
<1>. DEFINE u == cartReq[r].owner  p == cartReq[r].product
            n == IF p \in InCart(u) THEN cartReq[r].qty ELSE 0
<1>1. cartReq[r].qty > 0
  BY DEF CartInv, CartShape, UpdateQuantity
<1>2. u \in Owners /\ p \in CartProducts /\ n \in 0..MaxQuantity /\ (n > 0 <=> quantity[u][p] > 0)
  BY <1>1, RequestTypes, MaxQuantityAssumption DEF InCart
<1>3. quantity' = [quantity EXCEPT ![u][p] = n]
  BY DEF UpdateQuantity, UpdateItemQuantity, Owner
<1>4. /\ quantity' \in [Owners -> Lines]
      /\ quantity'[u][p] = n
      /\ \A v \in Owners, q \in CartProducts : v # u \/ q # p => quantity'[v][q] = quantity[v][q]
  <2>. HIDE DEF u, p, n
  <2>. QED  BY <1>2, <1>3 DEF CartInv, CartShape, Lines
<1>. HIDE DEF u, p, n
<1>. QED  BY <1>2, <1>4

\* No statement of a request breaks the locking of carts.
LEMMA CartStepInv == CartInv /\ [CartNext]_cartVars => CartInv'
<1>. SUFFICES ASSUME CartInv, [CartNext]_cartVars  PROVE CartInv'
  OBVIOUS
<1>t. quantity \in [Owners -> Lines] /\ \A u \in Owners, p \in CartProducts : quantity[u][p] \in Nat
  BY DEF CartInv, CartShape, Lines
<1>w. NoWork \in [step : {"idle"}, owner : Owners, product : CartProducts,
                   qty : 0..MaxQuantity, snapshot : Lines, key : OrderKeys]
  BY NoWorkType
<1>1. ASSUME NEW r \in CartRequests, NEW u \in Owners, NEW p \in CartProducts, NEW n \in 1..MaxQuantity,
             AddStart(r, u, p, n)
      PROVE  CartInv'
  <2>1. cartReq' = [cartReq EXCEPT ![r] = Begun("add", u, p, n)]
    BY <1>1 DEF AddStart, Begun
  <2>2. Working(r, "idle") /\ UNCHANGED <<quantity, cartLock>>
    BY <1>1 DEF AddStart
  <2>. QED  BY <2>1, <2>2, BegunType, BeginStep
<1>2. ASSUME NEW r \in CartRequests, NEW u \in Owners, NEW p \in CartProducts, NEW n \in 1..MaxQuantity,
             ChangeStart(r, u, p, n)
      PROVE  CartInv'
  <2>1. cartReq' = [cartReq EXCEPT ![r] = Begun("change", u, p, n)]
    BY <1>2 DEF ChangeStart, Begun
  <2>2. Working(r, "idle") /\ UNCHANGED <<quantity, cartLock>>
    BY <1>2 DEF ChangeStart
  <2>. QED  BY <2>1, <2>2, BegunType, BeginStep
<1>3. ASSUME NEW r \in CartRequests, NEW u \in Owners, NEW p \in CartProducts, RemoveStart(r, u, p)
      PROVE  CartInv'
  <2>. DEFINE w == [NoWork EXCEPT !.step = "remove", !.owner = u, !.product = p]
  <2>1. w \in [step : {"add", "remove", "change", "looked"}, owner : Owners, product : CartProducts,
               qty : 0..MaxQuantity, snapshot : Lines, key : OrderKeys] /\ w.step = "remove"
    BY <1>w
  <2>2. Working(r, "idle") /\ cartReq' = [cartReq EXCEPT ![r] = w] /\ UNCHANGED <<quantity, cartLock>>
    BY <1>3 DEF RemoveStart
  <2>. HIDE DEF w
  <2>. QED  BY <2>1, <2>2, BeginStep
<1>4. ASSUME NEW r \in CartRequests, NEW u \in Owners, NEW k \in OrderKeys, PlaceLookup(r, u, k)
      PROVE  CartInv'
  <2>. DEFINE w == [NoWork EXCEPT !.step = "looked", !.owner = u, !.key = k]
  <2>1. w \in [step : {"add", "remove", "change", "looked"}, owner : Owners, product : CartProducts,
               qty : 0..MaxQuantity, snapshot : Lines, key : OrderKeys] /\ w.step = "looked"
    BY <1>w
  <2>2. Working(r, "idle") /\ cartReq' = [cartReq EXCEPT ![r] = w] /\ UNCHANGED <<quantity, cartLock>>
    BY <1>4 DEF PlaceLookup
  <2>. HIDE DEF w
  <2>. QED  BY <2>1, <2>2, BeginStep
<1>5. ASSUME NEW r \in CartRequests, AddLock(r) \/ PlaceLock(r)  PROVE CartInv'
  <2>1. CASE AddLock(r)
    BY <2>1, LockStep DEF AddLock, GetOrCreate, CanUpsert, Working
  <2>2. CASE PlaceLock(r)
    BY <2>2, LockStep DEF PlaceLock, GetCartForLock, Working
  <2>. QED  BY <1>5, <2>1, <2>2
<1>6. ASSUME NEW r \in CartRequests, AddCount(r)  PROVE CartInv'
  <2>1. InTransaction(r) /\ UNCHANGED quantity
    BY <1>6 DEF AddCount, InTransaction, Working
  <2>2. CASE Go(r, "counted") /\ UNCHANGED cartLock
    BY <2>1, <2>2, HeldStep
  <2>3. CASE Stop(r) /\ UnlockCart(Owner(r))
    BY <1>t, <2>1, <2>3, StopStep
  <2>. QED  BY <1>6, <2>2, <2>3 DEF AddCount
<1>7. ASSUME NEW r \in CartRequests, PlaceSnapshot(r)  PROVE CartInv'
  BY <1>7, HeldStep DEF PlaceSnapshot, InTransaction, Working
<1>8. ASSUME NEW r \in CartRequests, AddCommit(r)  PROVE CartInv'
  <2>1. InTransaction(r) /\ Stop(r) /\ UnlockCart(Owner(r)) /\ cartLock[Owner(r)] = r
    BY <1>8 DEF AddCommit, InTransaction, Working, CartInv, LocksHeld
  <2>2. \A u \in Owners, p \in CartProducts :
          quantity'[u][p] > 0 /\ quantity[u][p] = 0 => cartLock[u] \in {r, NoRequest}
    BY <1>8, <1>t, <2>1, AddCommitWrites
  <2>. QED  BY <1>8, <2>1, <2>2, AddCommitWrites, StopStep
<1>9. ASSUME NEW r \in CartRequests, Remove(r)  PROVE CartInv'
  <2>1. Stop(r) /\ cartLock' = cartLock
    BY <1>9 DEF Remove
  <2>2. \A u \in Owners, p \in CartProducts :
          quantity'[u][p] > 0 /\ quantity[u][p] = 0 => cartLock[u] \in {r, NoRequest}
    BY <1>9, <1>t, RemoveWrites
  <2>. QED  BY <1>9, <2>1, <2>2, RemoveWrites, StopStep
<1>10. ASSUME NEW r \in CartRequests, UpdateQuantity(r)  PROVE CartInv'
  <2>1. Stop(r) /\ cartLock' = cartLock
    BY <1>10 DEF UpdateQuantity
  <2>2. \A u \in Owners, p \in CartProducts :
          quantity'[u][p] > 0 /\ quantity[u][p] = 0 => cartLock[u] \in {r, NoRequest}
    BY <1>10, <1>t, UpdateWrites
  <2>. QED  BY <1>10, <2>1, <2>2, UpdateWrites, StopStep
<1>11. ASSUME NEW r \in CartRequests, PlaceOrder(r)  PROVE CartInv'
  <2>1. InTransaction(r) /\ Stop(r) /\ UnlockCart(Owner(r)) /\ ClearItems(Owner(r)) /\ Owner(r) \in Owners
    BY <1>11, RequestTypes DEF PlaceOrder, InTransaction, Working, Owner
  <2>2. quantity' \in [Owners -> Lines]
    BY <2>1, ClearLines
  <2>3. \A u \in Owners, p \in CartProducts : ~(quantity'[u][p] > 0 /\ quantity[u][p] = 0)
    BY <1>t, <2>1, ClearLines
  <2>. QED  BY <2>1, <2>2, <2>3, StopStep
<1>12. ASSUME NEW r \in CartRequests, RollbackCart(r) \/ HangUp(r)  PROVE CartInv'
  <2>1. Stop(r) /\ quantity' = quantity /\ (cartLock' = cartLock \/ (InTransaction(r) /\ UnlockCart(Owner(r))))
    <3>1. CASE RollbackCart(r)
      BY <3>1 DEF RollbackCart, InTransaction
    <3>2. CASE HangUp(r)
      BY <3>2 DEF HangUp
    <3>. QED  BY <1>12, <3>1, <3>2
  <2>. QED  BY <1>t, <2>1, StopStep
<1>13. ASSUME NEW u \in Owners, ClearItems(u), UNCHANGED <<cartLock, cartReq>>  PROVE CartInv'
  <2>1. quantity' \in [Owners -> Lines]
        /\ \A v \in Owners, p \in CartProducts : quantity'[v][p] > 0 => quantity[v][p] > 0
    BY <1>13, <1>t, ClearLines
  <2>2. \A r \in CartRequests : Owner(r) \in Owners
    BY RequestTypes DEF Owner
  <2>3. SnapshotsCover'
    BY <1>13, <2>1, <2>2 DEF CartInv, SnapshotsCover, Working, Owner
  <2>. QED  BY <1>13, <2>1, <2>3 DEF CartInv, CartShape, LocksHeld, InTransaction, Working, Owner
<1>14. CASE UNCHANGED <<quantity, cartLock, cartReq>>
  BY <1>14 DEF CartInv, CartShape, LocksHeld, SnapshotsCover, InTransaction, Working, Owner
<1>15. CASE \E r \in CartRequests : CartStep(r)
  <2>. PICK r \in CartRequests : CartStep(r)
    BY <1>15
  <2>1. CASE \E u \in Owners, p \in CartProducts, n \in 1..MaxQuantity : AddStart(r, u, p, n) \/ ChangeStart(r, u, p, n)
    BY <1>1, <1>2, <2>1
  <2>2. CASE AddLock(r) \/ AddCount(r) \/ AddCommit(r)
    BY <1>5, <1>6, <1>8, <2>2
  <2>3. CASE \E u \in Owners, p \in CartProducts : RemoveStart(r, u, p)
    BY <1>3, <2>3
  <2>4. CASE Remove(r) \/ UpdateQuantity(r)
    BY <1>9, <1>10, <2>4
  <2>5. CASE \E u \in Owners : Clear(r, u)
    BY <1>13, <2>5 DEF Clear
  <2>6. CASE \E u \in Owners : \E k \in OrderKeys : PlaceLookup(r, u, k)
    BY <1>4, <2>6
  <2>7. CASE PlaceLock(r) \/ PlaceSnapshot(r) \/ PlaceOrder(r) \/ RollbackCart(r) \/ HangUp(r)
    BY <1>5, <1>7, <1>11, <1>12, <2>7
  <2>. QED  BY <2>1, <2>2, <2>3, <2>4, <2>5, <2>6, <2>7 DEF CartStep
<1>16. CASE \E p \in CartProducts : TogglePublished(p)
  BY <1>14, <1>16 DEF TogglePublished
<1>. QED  BY <1>14, <1>15, <1>16 DEF CartNext, cartVars

\* So it holds for good.
LEMMA CartInvariant == CartSpec => []CartInv
BY CartInitInv, CartStepInv, PTL DEF CartSpec

\* A line that goes was removed, cleared, or is in the snapshot that is ordered.
Taken(u, p) ==
  \/ \E r \in CartRequests : Remove(r) \/ Clear(r, u)
  \/ \E r \in CartRequests :
       Working(r, "snapped") /\ Owner(r) = u /\ cartReq[r].snapshot[p] > 0

\* Only these statements end a line.
LEMMA LinesAreTaken ==
  ASSUME CartInv, [CartNext]_cartVars, NEW u \in Owners, NEW p \in CartProducts,
         quantity[u][p] > 0, quantity'[u][p] = 0
  PROVE  Taken(u, p)
<1>1. quantity' # quantity
  OBVIOUS
<1>2. PICK r \in CartRequests :
        \/ AddCommit(r) \/ Remove(r) \/ UpdateQuantity(r) \/ PlaceOrder(r)
        \/ \E v \in Owners : Clear(r, v)
  BY <1>1 DEF CartNext, CartStep, cartVars, AddStart, ChangeStart, AddLock, AddCount, RemoveStart, PlaceLookup,
              PlaceLock, PlaceSnapshot, RollbackCart, HangUp, TogglePublished
<1>3. ~UpdateQuantity(r) /\ ~AddCommit(r)
  <2>1. quantity[u][p] \in Nat
    BY DEF CartInv, CartShape, Lines
  <2>. QED  BY <2>1, UpdateWrites, AddCommitWrites
<1>4. CASE Remove(r)
  BY <1>4 DEF Taken
<1>5. CASE PlaceOrder(r)
  <2>1. Working(r, "snapped") /\ ClearItems(Owner(r)) /\ Owner(r) \in Owners
    BY <1>5, RequestTypes DEF PlaceOrder, Owner
  <2>2. Owner(r) = u
    BY <2>1, ClearLines
  <2>. QED  BY <2>1, <2>2 DEF Taken, CartInv, SnapshotsCover
<1>6. ASSUME NEW v \in Owners, Clear(r, v)  PROVE Taken(u, p)
  <2>1. v = u
    BY <1>6, ClearLines DEF Clear
  <2>. QED  BY <1>6, <2>1 DEF Taken
<1>. QED  BY <1>2, <1>3, <1>4, <1>5, <1>6

\* Only an Add and an UpdateQuantity put units on a line, and no Add runs while a
\* placement has the cart.
LEMMA RaisedByUpdate ==
  ASSUME CartInv, [CartNext]_cartVars, NEW u \in Owners, NEW p \in CartProducts,
         quantity'[u][p] > quantity[u][p], NEW q \in CartRequests, Snapped(q, u)
  PROVE  \E r \in CartRequests : UpdateQuantity(r)
<1>1. quantity' # quantity /\ quantity[u][p] \in Nat
  BY DEF CartInv, CartShape, Lines
<1>2. PICK r \in CartRequests :
        \/ AddCommit(r) \/ Remove(r) \/ UpdateQuantity(r) \/ PlaceOrder(r)
        \/ \E v \in Owners : Clear(r, v)
  BY <1>1 DEF CartNext, CartStep, cartVars, AddStart, ChangeStart, AddLock, AddCount, RemoveStart, PlaceLookup,
              PlaceLock, PlaceSnapshot, RollbackCart, HangUp, TogglePublished
<1>3. CASE AddCommit(r)
  <2>1. Owner(r) = u
    BY <1>1, <1>3, AddCommitWrites
  <2>2. cartLock[u] = r /\ cartLock[u] = q
    BY <1>3, <2>1 DEF AddCommit, Snapped, Working, InTransaction, CartInv, LocksHeld
  <2>. QED  BY <1>3, <2>2 DEF AddCommit, Snapped, Working
<1>4. ~Remove(r)
  BY <1>1, RemoveWrites
<1>5. ASSUME NEW v \in Owners, ClearItems(v) PROVE FALSE
  BY <1>1, <1>5, ClearLines
<1>6. ~PlaceOrder(r)
  <2>1. Owner(r) \in Owners
    BY RequestTypes DEF Owner
  <2>. QED  BY <1>5, <2>1 DEF PlaceOrder
<1>. QED  BY <1>2, <1>3, <1>4, <1>5, <1>6 DEF Clear

\* A product leaves a cart by its owner's hand or in an order, and no Add comes between
\* what the order read and what it clears.
THEOREM NothingLostHolds == CartSpec => NothingLost
<1>1. CartInv /\ [CartNext]_cartVars =>
        [\A u \in Owners, p \in CartProducts :
           /\ quantity[u][p] > 0 /\ quantity'[u][p] = 0 =>
                \/ \E r \in CartRequests : Remove(r) \/ Clear(r, u)
                \/ \E r \in CartRequests : Snapped(r, u) /\ cartReq[r].snapshot[p] > 0
           /\ quantity'[u][p] > quantity[u][p] =>
                \/ \E r \in CartRequests : UpdateQuantity(r)
                \/ \A r \in CartRequests : ~Snapped(r, u)]_cartVars
  BY LinesAreTaken, RaisedByUpdate DEF Taken, Snapped
<1>. QED  BY <1>1, CartInvariant, PTL DEF CartSpec, NothingLost

(****************************************************************************)
(* What goes into a cart and out of it.                                     *)
(****************************************************************************)
\* The rest of the state has its types; an addition that was counted has its line or room
\* for it, and the snapshot of a placement is among the units that were asked for and not
\* ordered yet.
AccountsShape ==
  /\ hasCart \in SUBSET Owners /\ published \in SUBSET CartProducts
  /\ ordered \in [Owners -> [OrderKeys -> {{}} \cup {{lines} : lines \in Lines}]]
  /\ asked \in [Owners -> [CartProducts -> 0..MaxAsked]]

\* A request that has counted the lines still finds the room it counted.
RoomKept == \A r \in CartRequests : Working(r, "counted") => HasRoom(Owner(r), cartReq[r].product)

\* What was ordered and what a snapshot is about to order were put in.
SnapshotsAsked ==
  \A r \in CartRequests : Working(r, "snapped") =>
    \A p \in CartProducts : Units(Owner(r), p) + cartReq[r].snapshot[p] <= asked[Owner(r)][p]

UnitsInv == AccountsShape /\ CartExact /\ RoomKept /\ SnapshotsAsked

\* The lines of a cart are finitely many.
LEMMA InCartFinite ==
  ASSUME NEW u \in Owners
  PROVE  IsFiniteSet(InCart(u)) /\ Cardinality(InCart(u)) \in Nat
BY CartAssumption, FS_Subset, FS_CardinalityType DEF InCart

\* Under a key there is one order or none.
LEMMA UnderKey ==
  ASSUME AccountsShape, NEW u \in Owners, NEW p \in CartProducts, NEW k \in OrderKeys
  PROVE  /\ UnitsUnder(u, p, k) \in Nat
         /\ ordered[u][k] = {} => UnitsUnder(u, p, k) = 0
         /\ \A lines \in Lines : ordered[u][k] = {lines} => UnitsUnder(u, p, k) = lines[p]
<1>1. ordered[u][k] \in {{}} \cup {{lines} : lines \in Lines}
  BY DEF AccountsShape
<1>2. ordered[u][k] = {} => UnitsUnder(u, p, k) = 0
  BY SumEmpty DEF UnitsUnder
<1>3. ASSUME NEW lines \in Lines, ordered[u][k] = {lines}  PROVE UnitsUnder(u, p, k) = lines[p] /\ lines[p] \in Nat
  <2>. DEFINE f == [l \in ordered[u][k] |-> l[p]]
  <2>1. f[lines] = lines[p] /\ lines[p] \in Nat /\ UnitsUnder(u, p, k) = SumFunctionOnSet(f, {lines})
    BY <1>3 DEF UnitsUnder, Lines
  <2>. HIDE DEF f
  <2>2. SumFunctionOnSet(f, {lines}) = SumFunctionOnSet(f, {}) + f[lines]
    <3>1. {lines} = {} \cup {lines}
      OBVIOUS
    <3>2. SumFunctionOnSet(f, {} \cup {lines}) = SumFunctionOnSet(f, {}) + f[lines]
      BY <2>1, FS_EmptySet, SumAdd
    <3>. QED  BY <3>1, <3>2
  <2>. QED  BY <2>1, <2>2, SumEmpty
<1>. QED  BY <1>1, <1>2, <1>3

\* What was ordered is a number of units.
LEMMA UnitsNat ==
  ASSUME AccountsShape, NEW u \in Owners, NEW p \in CartProducts
  PROVE  Units(u, p) \in Nat
<1>. DEFINE f == [k \in OrderKeys |-> UnitsUnder(u, p, k)]
<1>1. \A k \in OrderKeys : f[k] \in Nat
  BY UnderKey
<1>2. Units(u, p) = SumFunctionOnSet(f, OrderKeys)
  BY DEF Units
<1>. HIDE DEF f
<1>. QED  BY <1>1, <1>2, CartAssumption, SumNat

\* An order adds the units of its lines to what was ordered, and only its owner's.
LEMMA UnitsOrdered ==
  ASSUME AccountsShape, NEW u \in Owners, NEW k \in OrderKeys, NEW lines \in Lines, ordered[u][k] = {},
         ordered' = [ordered EXCEPT ![u][k] = {lines}]
  PROVE  /\ \A p \in CartProducts : Units(u, p)' = Units(u, p) + lines[p]
         /\ \A v \in Owners \ {u}, p \in CartProducts : Units(v, p)' = Units(v, p)
         /\ ordered' \in [Owners -> [OrderKeys -> {{}} \cup {{l} : l \in Lines}]]
<1>1. /\ ordered' \in [Owners -> [OrderKeys -> {{}} \cup {{l} : l \in Lines}]]
      /\ ordered'[u][k] = {lines}
      /\ \A v \in Owners, j \in OrderKeys : v # u \/ j # k => ordered'[v][j] = ordered[v][j]
  BY DEF AccountsShape
<1>2. ASSUME NEW v \in Owners \ {u}, NEW p \in CartProducts  PROVE Units(v, p)' = Units(v, p)
  <2>1. \A j \in OrderKeys : UnitsUnder(v, p, j)' = UnitsUnder(v, p, j)
    BY <1>1 DEF UnitsUnder
  <2>. QED  BY <2>1 DEF Units
<1>3. ASSUME NEW p \in CartProducts  PROVE Units(u, p)' = Units(u, p) + lines[p]
  <2>. DEFINE f == [j \in OrderKeys |-> UnitsUnder(u, p, j)]
              g == [j \in OrderKeys |-> UnitsUnder(u, p, j)']
  <2>1. \A j \in OrderKeys : f[j] = UnitsUnder(u, p, j) /\ f[j] \in Nat
    BY UnderKey
  <2>2. \A j \in OrderKeys : j # k => g[j] = f[j]
    BY <1>1 DEF UnitsUnder
  <2>3. f[k] = 0
    BY <2>1, UnderKey
  <2>4. g[k] = lines[p]
    <3>1. UnitsUnder(u, p, k)' = SumFunctionOnSet([l \in {lines} |-> l[p]], {lines})
      BY <1>1 DEF UnitsUnder
    <3>. DEFINE h == [l \in {lines} |-> l[p]]
    <3>2. h[lines] = lines[p] /\ lines[p] \in Nat
      BY DEF Lines
    <3>3. SumFunctionOnSet(h, {} \cup {lines}) = SumFunctionOnSet(h, {}) + h[lines]
      <4>. HIDE DEF h
      <4>. QED  BY <3>2, FS_EmptySet, SumAdd
    <3>4. {} \cup {lines} = {lines}
      OBVIOUS
    <3>5. g[k] = SumFunctionOnSet(h, {lines})
      BY <3>1
    <3>. HIDE DEF h, g
    <3>. QED  BY <3>2, <3>3, <3>4, <3>5, SumEmpty
  <2>5. Units(u, p) = SumFunctionOnSet(f, OrderKeys) /\ Units(u, p)' = SumFunctionOnSet(g, OrderKeys)
    BY DEF Units
  <2>6. lines[p] \in Nat
    BY DEF Lines
  <2>. HIDE DEF f, g
  <2>7. \A j \in OrderKeys : f[j] \in Int /\ g[j] \in Int
    BY <2>1, <2>2, <2>4, <2>6
  <2>8. SumFunctionOnSet(g, OrderKeys) = SumFunctionOnSet(f, OrderKeys) - f[k] + g[k]
    BY <2>2, <2>7, CartAssumption, SumUpdate
  <2>9. SumFunctionOnSet(f, OrderKeys) \in Int
    BY <2>7, CartAssumption, SumInt
  <2>. QED  BY <2>3, <2>4, <2>5, <2>6, <2>8, <2>9
<1>. QED  BY <1>1, <1>2, <1>3

\* Where nothing is ordered, nothing is added to what was.
LEMMA UnitsSame ==
  ASSUME ordered' = ordered, NEW u, NEW p
  PROVE  Units(u, p)' = Units(u, p)
BY DEF Units, UnitsUnder

\* A cart whose lines become no more keeps its room.
LEMMA RoomStays ==
  ASSUME NEW C, IsFiniteSet(C), Cardinality(C) <= MaxItems, NEW S \in SUBSET C, NEW p
  PROVE  /\ Cardinality(S) <= MaxItems
         /\ p \in C \/ Cardinality(C) < MaxItems => p \in S \/ Cardinality(S) < MaxItems
<1>1. /\ Cardinality(C) \in Nat /\ MaxItems \in Nat
      /\ IsFiniteSet(S) /\ Cardinality(S) \in Nat /\ Cardinality(S) <= Cardinality(C)
  BY MaxItemsAssumption, FS_Subset, FS_CardinalityType
<1>2. ASSUME p \in C, p \notin S  PROVE Cardinality(S) < MaxItems
  <2>1. S \subseteq C \ {p} /\ IsFiniteSet(C \ {p}) /\ Cardinality(C \ {p}) = Cardinality(C) - 1
    BY <1>2, FS_RemoveElement
  <2>2. Cardinality(S) <= Cardinality(C) - 1
    BY <2>1, FS_Subset
  <2>. QED  BY <1>1, <2>2
<1>. QED  BY <1>1, <1>2

\* A request that acts keeps the accounts if nobody else's count or snapshot is overtaken.
LEMMA AccountsStep ==
  ASSUME CartInv, UnitsInv, AccountsShape',
         \A q \in CartRequests : cartReq'[q] = cartReq[q] \/ cartReq'[q].step \notin {"counted", "snapped"},
         \A u \in Owners, p \in CartProducts : asked[u][p] <= asked'[u][p],
         OrderedOnce', CartBounded',
         \A q \in CartRequests : cartReq'[q] = cartReq[q] /\ Working(q, "snapped") =>
           \A p \in CartProducts : Units(Owner(q), p)' = Units(Owner(q), p),
         \A q \in CartRequests : cartReq'[q] = cartReq[q] /\ Working(q, "counted") =>
           InCart(Owner(q))' \subseteq InCart(Owner(q))
  PROVE  UnitsInv'
<1>1. \A q \in CartRequests : Owner(q) \in Owners /\ cartReq[q].product \in CartProducts
                              /\ \A p \in CartProducts : cartReq[q].snapshot[p] \in Nat
  BY DEF CartInv, CartShape, Owner, Lines
<1>2. RoomKept'
  <2>. SUFFICES ASSUME NEW q \in CartRequests, Working(q, "counted")'
                PROVE  HasRoom(Owner(q), cartReq[q].product)'
    BY DEF RoomKept
  <2>1. cartReq'[q] = cartReq[q] /\ Working(q, "counted")
    BY DEF Working
  <2>2. HasRoom(Owner(q), cartReq[q].product) /\ Cardinality(InCart(Owner(q))) <= MaxItems
    BY <1>1, <2>1 DEF UnitsInv, RoomKept, CartExact, CartBounded
  <2>3. InCart(Owner(q))' \subseteq InCart(Owner(q))
    BY <2>1
  <2>. DEFINE u == cartReq[q].owner
              p == cartReq[q].product
  <2>4. u \in Owners /\ p \in CartProducts /\ InCart(u)' \subseteq InCart(u) /\ Cardinality(InCart(u)) <= MaxItems
        /\ HasRoom(u, p)
    BY <1>1, <2>1, <2>2, <2>3 DEF Owner, InCart
  <2>5. HasRoom(u, p)'
    <3>1. cartReq'[q].owner = cartReq[q].owner /\ cartReq'[q].product = cartReq[q].product
      BY <2>1
    <3>. DEFINE S == {x \in CartProducts : quantity'[u][x] > 0}
    <3>2. S \subseteq InCart(u)
      BY <2>1, <2>3 DEF Owner, InCart
    <3>3. p \in S \/ Cardinality(S) < MaxItems
      <4>1. IsFiniteSet(InCart(u)) /\ S \in SUBSET InCart(u)
        BY <2>4, <3>2, InCartFinite
      <4>2. p \in InCart(u) \/ Cardinality(InCart(u)) < MaxItems
        BY <2>4 DEF HasRoom
      <4>. HIDE DEF S, u, p
      <4>. QED  BY <2>4, <4>1, <4>2, RoomStays
    <3>. QED  BY <3>1, <3>3 DEF HasRoom, InCart
  <2>. QED  BY <2>1, <2>5 DEF Owner, HasRoom, InCart
<1>3. SnapshotsAsked'
  <2>. SUFFICES ASSUME NEW q \in CartRequests, Working(q, "snapped")', NEW p \in CartProducts
                PROVE  (Units(Owner(q), p) + cartReq[q].snapshot[p] <= asked[Owner(q)][p])'
    BY DEF SnapshotsAsked
  <2>1. cartReq'[q] = cartReq[q] /\ Working(q, "snapped") /\ Owner(q)' = Owner(q)
    BY DEF Working, Owner
  <2>2. Units(Owner(q), p) + cartReq[q].snapshot[p] <= asked[Owner(q)][p] /\ Units(Owner(q), p)' = Units(Owner(q), p)
    BY <2>1 DEF UnitsInv, SnapshotsAsked
  <2>3. Units(Owner(q), p) \in Nat
    BY <1>1, UnitsNat DEF UnitsInv
  <2>4. asked[Owner(q)][p] \in Nat /\ asked'[Owner(q)][p] \in Nat
    BY <1>1, MaxAskedAssumption DEF UnitsInv, AccountsShape
  <2>. QED  BY <1>1, <2>1, <2>2, <2>3, <2>4
<1>. QED  BY <1>2, <1>3 DEF UnitsInv, CartExact

\* No more than one request has the lock of a cart.
LEMMA OneInTransaction ==
  ASSUME CartInv, NEW r \in CartRequests, NEW q \in CartRequests, InTransaction(r), InTransaction(q), Owner(r) = Owner(q)
  PROVE  r = q
BY DEF CartInv, LocksHeld

\* Steps that leave the lines, the orders and what was asked for.
LEMMA AccountsQuiet ==
  ASSUME CartInv, UnitsInv, UNCHANGED <<quantity, ordered, asked>>, AccountsShape',
         \A q \in CartRequests : cartReq'[q] = cartReq[q] \/ cartReq'[q].step \notin {"counted", "snapped"}
  PROVE  UnitsInv'
<1>1. OrderedOnce' /\ CartBounded'
  BY DEF UnitsInv, CartExact, OrderedOnce, CartBounded, InCart, Units, UnitsUnder
<1>2. \A u \in Owners, p \in CartProducts : asked[u][p] <= asked'[u][p]
  BY MaxAskedAssumption DEF UnitsInv, AccountsShape
<1>3. \A q \in CartRequests : cartReq'[q] = cartReq[q] =>
         /\ InCart(Owner(q))' \subseteq InCart(Owner(q))
         /\ \A p \in CartProducts : Units(Owner(q), p)' = Units(Owner(q), p)
  BY DEF Owner, InCart, Units, UnitsUnder
<1>. QED  BY <1>1, <1>2, <1>3, AccountsStep

\* What a request works with.
LEMMA CartRequestTypes ==
  ASSUME CartInv, NEW r \in CartRequests
  PROVE  /\ Owner(r) \in Owners /\ cartReq[r].product \in CartProducts /\ cartReq[r].key \in OrderKeys
         /\ cartReq[r].qty \in Nat /\ cartReq[r].snapshot \in Lines
BY MaxQuantityAssumption DEF CartInv, CartShape, Owner

\* What the accounts are made of.
LEMMA AccountTypes ==
  ASSUME CartInv, AccountsShape, NEW u \in Owners, NEW p \in CartProducts
  PROVE  quantity[u][p] \in Nat /\ asked[u][p] \in Nat /\ Units(u, p) \in Nat
<1>1. Units(u, p) \in Nat
  BY UnitsNat
<1>. QED  BY <1>1, MaxQuantityAssumption, MaxAskedAssumption DEF CartInv, CartShape, Lines, AccountsShape

\* An account of units that were asked for stays within its bound.
LEMMA AskTypes ==
  ASSUME AccountsShape, NEW u \in Owners, NEW p \in CartProducts, NEW n \in Nat, Ask(u, p, n)
  PROVE  /\ asked' \in [Owners -> [CartProducts -> 0..MaxAsked]]
         /\ asked'[u][p] = asked[u][p] + n
         /\ \A v \in Owners, q \in CartProducts : v # u \/ q # p => asked'[v][q] = asked[v][q]
<1>1. asked[u][p] \in 0..MaxAsked /\ asked[u][p] + n \in 0..MaxAsked
  BY MaxAskedAssumption DEF Ask, AccountsShape
<1>2. asked' = [asked EXCEPT ![u][p] = asked[u][p] + n]
  BY DEF Ask
<1>. DEFINE m == asked[u][p] + n
<1>3. m \in 0..MaxAsked /\ asked' = [asked EXCEPT ![u][p] = m]
  BY <1>1, <1>2
<1>4. /\ asked' \in [Owners -> [CartProducts -> 0..MaxAsked]] /\ asked'[u][p] = m
      /\ \A v \in Owners, q \in CartProducts : v # u \/ q # p => asked'[v][q] = asked[v][q]
  <2>. HIDE DEF m
  <2>. QED  BY <1>3 DEF AccountsShape
<1>. QED  BY <1>4

\* Every step keeps the types.
LEMMA AccountsKeepTypes ==
  ASSUME CartInv, AccountsShape, [CartNext]_cartVars
  PROVE  AccountsShape'
<1>1. hasCart' \in SUBSET Owners
  <2>1. ASSUME NEW r \in CartRequests, CartStep(r)  PROVE hasCart' \in SUBSET Owners
    BY <2>1, CartRequestTypes
       DEF AccountsShape, CartStep, AddStart, ChangeStart, AddLock, AddCount, AddCommit, RemoveStart, Remove,
           UpdateQuantity, Clear, PlaceLookup, PlaceLock, PlaceSnapshot, PlaceOrder, RollbackCart, HangUp,
           GetOrCreate, GetCartForLock
  <2>. QED  BY <2>1 DEF AccountsShape, CartNext, TogglePublished, cartVars
<1>2. published' \in SUBSET CartProducts
  BY DEF AccountsShape, CartNext, CartStep, cartVars, AddStart, ChangeStart, AddLock, AddCount, AddCommit, RemoveStart,
         Remove, UpdateQuantity, Clear, PlaceLookup, PlaceLock, PlaceSnapshot, PlaceOrder, RollbackCart, HangUp,
         TogglePublished
<1>3. ordered' \in [Owners -> [OrderKeys -> {{}} \cup {{lines} : lines \in Lines}]]
  <2>1. ASSUME NEW r \in CartRequests, PlaceOrder(r)
        PROVE  ordered' \in [Owners -> [OrderKeys -> {{}} \cup {{lines} : lines \in Lines}]]
    BY <2>1, CartRequestTypes, UnitsOrdered DEF PlaceOrder
  <2>2. ASSUME ~ \E r \in CartRequests : PlaceOrder(r)  PROVE ordered' = ordered
    BY <2>2 DEF CartNext, CartStep, cartVars, AddStart, ChangeStart, AddLock, AddCount, AddCommit, RemoveStart, Remove,
                UpdateQuantity, Clear, PlaceLookup, PlaceLock, PlaceSnapshot, RollbackCart, HangUp, TogglePublished
  <2>. QED  BY <2>1, <2>2 DEF AccountsShape
<1>4. asked' \in [Owners -> [CartProducts -> 0..MaxAsked]]
  <2>1. ASSUME NEW r \in CartRequests, AddCommit(r)  PROVE asked' \in [Owners -> [CartProducts -> 0..MaxAsked]]
    BY <2>1, CartRequestTypes, AskTypes DEF AddCommit
  <2>2. ASSUME NEW r \in CartRequests, UpdateQuantity(r)  PROVE asked' \in [Owners -> [CartProducts -> 0..MaxAsked]]
    <3>1. More(Owner(r), cartReq[r].product, cartReq[r].qty) \in Nat
      BY CartRequestTypes, AccountTypes DEF More
    <3>. QED  BY <2>2, <3>1, CartRequestTypes, AskTypes DEF UpdateQuantity
  <2>3. ASSUME ~ \E r \in CartRequests : AddCommit(r) \/ UpdateQuantity(r)  PROVE asked' = asked
    BY <2>3 DEF CartNext, CartStep, cartVars, AddStart, ChangeStart, AddLock, AddCount, RemoveStart, Remove, Clear,
                PlaceLookup, PlaceLock, PlaceSnapshot, PlaceOrder, RollbackCart, HangUp, TogglePublished
  <2>. QED  BY <2>1, <2>2, <2>3 DEF AccountsShape
<1>. QED  BY <1>1, <1>2, <1>3, <1>4 DEF AccountsShape

\* A request that ends with its change made keeps the accounts, if they add up and nobody
\* else's cart gets new lines.
LEMMA AccountsStop ==
  ASSUME CartInv, UnitsInv, AccountsShape', NEW r \in CartRequests, Stop(r) \/ (cartReq' = cartReq /\ Working(r, "idle")),
         \A u \in Owners, p \in CartProducts : asked[u][p] <= asked'[u][p],
         OrderedOnce', CartBounded',
         \A u \in Owners : cartLock[u] # r => InCart(u)' \subseteq InCart(u),
         \A u \in Owners, p \in CartProducts : cartLock[u] # r => Units(u, p)' = Units(u, p)
  PROVE  UnitsInv'
<1>1. /\ \A q \in CartRequests \ {r} : cartReq'[q] = cartReq[q]
      /\ cartReq'[r].step = "idle"
  BY NoWorkType DEF Stop, CartInv, CartShape, Working
<1>2. ASSUME NEW q \in CartRequests \ {r}, InTransaction(q)
      PROVE  /\ InCart(Owner(q))' \subseteq InCart(Owner(q))
             /\ \A p \in CartProducts : Units(Owner(q), p)' = Units(Owner(q), p)
  <2>1. PICK u \in Owners : cartLock[u] # r /\ cartReq'[q].owner = u /\ Owner(q) = u
    BY <1>1, <1>2, CartRequestTypes DEF CartInv, LocksHeld, Owner
  <2>2. Owner(q)' = u
    BY <2>1 DEF Owner
  <2>3. InCart(u)' \subseteq InCart(u) /\ \A p \in CartProducts : Units(u, p)' = Units(u, p)
    BY <2>1
  <2>. QED  BY <2>1, <2>2, <2>3
<1>3. \A q \in CartRequests : Working(q, "snapped") \/ Working(q, "counted") => InTransaction(q)
  BY DEF Working, InTransaction
<1>4. \A q \in CartRequests : cartReq'[q] = cartReq[q] /\ (Working(q, "snapped") \/ Working(q, "counted")) =>
         q # r /\ InTransaction(q)
  BY <1>1, <1>3 DEF Working
<1>. QED  BY <1>1, <1>2, <1>4, AccountsStep

\* No step of a request, or of the administrator of the products, breaks the accounts.
LEMMA AccountsStepInv == CartInv /\ UnitsInv /\ [CartNext]_cartVars => UnitsInv'
<1>. SUFFICES ASSUME CartInv, UnitsInv, [CartNext]_cartVars  PROVE UnitsInv'
  OBVIOUS
<1>s. AccountsShape /\ AccountsShape' /\ OrderedOnce /\ CartBounded
  BY AccountsKeepTypes DEF UnitsInv, CartExact
<1>m. \A u \in Owners, p \in CartProducts : asked[u][p] <= asked[u][p]
  BY <1>s, AccountTypes
<1>1. ASSUME NEW r \in CartRequests, NEW w, cartReq' = [cartReq EXCEPT ![r] = w], UNCHANGED <<quantity, ordered, asked>>,
             w.step \notin {"counted", "snapped"}
      PROVE  UnitsInv'
  <2>1. \A q \in CartRequests : cartReq'[q] = cartReq[q] \/ cartReq'[q].step \notin {"counted", "snapped"}
    BY <1>1 DEF CartInv, CartShape
  <2>. QED  BY <1>1, <1>s, <2>1, AccountsQuiet
<1>2. ASSUME NEW r \in CartRequests, NEW u \in Owners, NEW p \in CartProducts, NEW n \in 1..MaxQuantity,
             AddStart(r, u, p, n) \/ ChangeStart(r, u, p, n) \/ RemoveStart(r, u, p)
      PROVE  UnitsInv'
  <2>1. PICK w : /\ cartReq' = [cartReq EXCEPT ![r] = w] /\ UNCHANGED <<quantity, ordered, asked>>
                 /\ \/ w = [NoWork EXCEPT !.step = "add", !.owner = u, !.product = p, !.qty = n]
                    \/ w = [NoWork EXCEPT !.step = "change", !.owner = u, !.product = p, !.qty = n]
                    \/ w = [NoWork EXCEPT !.step = "remove", !.owner = u, !.product = p]
    BY <1>2 DEF AddStart, ChangeStart, RemoveStart
  <2>2. w.step \in {"add", "change", "remove"}
    BY <2>1, NoWorkType
  <2>. QED  BY <1>1, <2>1, <2>2
<1>3. ASSUME NEW r \in CartRequests, NEW u \in Owners, NEW k \in OrderKeys, PlaceLookup(r, u, k)  PROVE UnitsInv'
  <2>. DEFINE w == [NoWork EXCEPT !.step = "looked", !.owner = u, !.key = k]
  <2>1. w.step = "looked"
    BY NoWorkType
  <2>2. cartReq' = [cartReq EXCEPT ![r] = w] /\ UNCHANGED <<quantity, ordered, asked>>
    BY <1>3 DEF PlaceLookup
  <2>. HIDE DEF w
  <2>. QED  BY <1>1, <2>1, <2>2
<1>4. ASSUME NEW r \in CartRequests, NEW s \in {"added_lock", "locked"}, Go(r, s), UNCHANGED <<quantity, ordered, asked>>
      PROVE  UnitsInv'
  <2>1. cartReq'[r].step = s /\ \A q \in CartRequests \ {r} : cartReq'[q] = cartReq[q]
    BY <1>4 DEF Go, CartInv, CartShape
  <2>. QED  BY <1>4, <1>s, <2>1, AccountsQuiet
<1>5. ASSUME NEW r \in CartRequests, AddLock(r) \/ PlaceLock(r)  PROVE UnitsInv'
  BY <1>4, <1>5 DEF AddLock, PlaceLock
<1>6. ASSUME NEW r \in CartRequests, Stop(r), UNCHANGED <<quantity, ordered, asked>>  PROVE UnitsInv'
  BY <1>1, <1>6, NoWorkType DEF Stop
<1>7. ASSUME NEW r \in CartRequests, RollbackCart(r) \/ HangUp(r)  PROVE UnitsInv'
  BY <1>6, <1>7 DEF RollbackCart, HangUp
<1>8. ASSUME NEW r \in CartRequests, AddCount(r)  PROVE UnitsInv'
  <2>1. CASE Stop(r)
    BY <1>6, <1>8, <2>1 DEF AddCount
  <2>2. CASE HasRoom(Owner(r), cartReq[r].product) /\ Go(r, "counted")
    <3>1. UNCHANGED <<quantity, ordered, asked>>
      BY <1>8 DEF AddCount
    <3>2. /\ \A q \in CartRequests : cartReq'[q].owner = cartReq[q].owner /\ cartReq'[q].product = cartReq[q].product
                                     /\ cartReq'[q].snapshot = cartReq[q].snapshot
          /\ \A q \in CartRequests \ {r} : cartReq'[q].step = cartReq[q].step
          /\ cartReq'[r].step = "counted"
      BY <2>2 DEF Go, CartInv, CartShape
    <3>3. RoomKept'
      BY <2>2, <3>1, <3>2 DEF UnitsInv, RoomKept, HasRoom, InCart, Owner, Working
    <3>4. SnapshotsAsked'
      BY <3>1, <3>2 DEF UnitsInv, SnapshotsAsked, Owner, Working, Units, UnitsUnder
    <3>5. CartExact'
      BY <1>s, <3>1 DEF CartExact, OrderedOnce, CartBounded, InCart, Units, UnitsUnder
    <3>. QED  BY <1>s, <3>3, <3>4, <3>5 DEF UnitsInv
  <2>. QED  BY <1>8, <2>1, <2>2 DEF AddCount
<1>9. ASSUME NEW r \in CartRequests, PlaceSnapshot(r)  PROVE UnitsInv'
  <2>1. UNCHANGED <<quantity, ordered, asked>>
    BY <1>9 DEF PlaceSnapshot
  <2>2. cartReq' = [cartReq EXCEPT ![r].step = "snapped", ![r].snapshot = quantity[Owner(r)]]
    BY <1>9 DEF PlaceSnapshot, CartSnapshot
  <2>3. /\ \A q \in CartRequests \ {r} : cartReq'[q] = cartReq[q]
        /\ cartReq'[r].step = "snapped" /\ cartReq'[r].snapshot = quantity[Owner(r)]
        /\ cartReq'[r].owner = cartReq[r].owner
    <3>1. cartReq'[r] = [cartReq[r] EXCEPT !.step = "snapped", !.snapshot = quantity[Owner(r)]]
      BY <2>2 DEF CartInv, CartShape
    <3>. QED  BY <2>2, <3>1 DEF CartInv, CartShape
  <2>4. RoomKept'
    BY <2>1, <2>3 DEF UnitsInv, RoomKept, HasRoom, InCart, Owner, Working
  <2>5. \A p \in CartProducts : quantity[Owner(r)][p] + Units(Owner(r), p) <= asked[Owner(r)][p]
                                /\ quantity[Owner(r)][p] \in Nat /\ Units(Owner(r), p) \in Nat
    BY <1>s, CartRequestTypes, AccountTypes DEF OrderedOnce
  <2>6. SnapshotsAsked'
    <3>1. \A p \in CartProducts : Units(Owner(r), p) + quantity[Owner(r)][p] <= asked[Owner(r)][p]
      <4>. TAKE p \in CartProducts
      <4>1. Units(Owner(r), p) + quantity[Owner(r)][p] = quantity[Owner(r)][p] + Units(Owner(r), p)
        BY <2>5
      <4>. QED  BY <2>5, <4>1
    <3>2. \A q \in CartRequests \ {r}, p \in CartProducts : Working(q, "snapped") =>
             Units(Owner(q), p) + cartReq[q].snapshot[p] <= asked[Owner(q)][p]
      BY DEF UnitsInv, SnapshotsAsked
    <3>. QED  BY <2>1, <2>3, <3>1, <3>2 DEF SnapshotsAsked, Owner, Working, Units, UnitsUnder
  <2>7. CartExact'
    BY <1>s, <2>1 DEF CartExact, OrderedOnce, CartBounded, InCart, Units, UnitsUnder
  <2>. QED  BY <1>s, <2>4, <2>6, <2>7 DEF UnitsInv
<1>10. ASSUME NEW r \in CartRequests, AddCommit(r)  PROVE UnitsInv'
  <2>0. PICK u \in Owners, p \in CartProducts, n \in Nat :
        /\ Owner(r) = u /\ Working(r, "counted") /\ Stop(r)
        /\ ordered' = ordered /\ Ask(u, p, n) /\ cartLock[u] = r
        /\ quantity' = [quantity EXCEPT ![u][p] = quantity[u][p] + n]
        /\ HasRoom(u, p)
    BY <1>10, CartRequestTypes DEF AddCommit, AddItem, Working, InTransaction, CartInv, LocksHeld, UnitsInv, RoomKept
  <2>1. /\ quantity' = [quantity EXCEPT ![u][p] = quantity'[u][p]] /\ quantity'[u][p] = quantity[u][p] + n
        /\ \A v \in Owners, q \in CartProducts : v # u \/ q # p => quantity'[v][q] = quantity[v][q]
    BY <2>0 DEF CartInv, CartShape, Lines
  <2>2. /\ asked'[u][p] = asked[u][p] + n
        /\ \A v \in Owners, q \in CartProducts : v # u \/ q # p => asked'[v][q] = asked[v][q]
    BY <1>s, <2>0, AskTypes
  <2>3. \A v \in Owners, q \in CartProducts : Units(v, q)' = Units(v, q)
    BY <2>0 DEF Units, UnitsUnder
  <2>4. OrderedOnce' /\ \A v \in Owners, q \in CartProducts : asked[v][q] <= asked'[v][q]
    <3>. SUFFICES ASSUME NEW v \in Owners, NEW q \in CartProducts
                  PROVE  quantity'[v][q] + Units(v, q)' <= asked'[v][q] /\ asked[v][q] <= asked'[v][q]
      BY DEF OrderedOnce
    <3>1. /\ quantity[v][q] \in Nat /\ asked[v][q] \in Nat /\ Units(v, q) \in Nat
          /\ quantity[v][q] + Units(v, q) <= asked[v][q] /\ Units(v, q)' = Units(v, q)
      BY <1>s, <2>3, AccountTypes DEF OrderedOnce
    <3>2. CASE v = u /\ q = p
      BY <2>0, <2>1, <2>2, <3>1, <3>2
    <3>3. CASE v # u \/ q # p
      BY <2>1, <2>2, <3>1, <3>3
    <3>. QED  BY <3>2, <3>3
  <2>5. \A v \in Owners \ {u} : InCart(v)' = InCart(v)
    BY <2>1 DEF InCart
  <2>6. InCart(u)' \subseteq InCart(u) \cup {p}
    BY <2>0, <2>1 DEF InCart
  <2>7. Cardinality(InCart(u)') <= MaxItems
    <3>1. IsFiniteSet(InCart(u)) /\ Cardinality(InCart(u)) \in Nat /\ Cardinality(InCart(u)) <= MaxItems /\ MaxItems \in Nat
      BY <1>s, <2>0, InCartFinite, MaxItemsAssumption DEF CartBounded
    <3>2. IsFiniteSet(InCart(u) \cup {p}) /\ Cardinality(InCart(u) \cup {p}) <= MaxItems
      <4>1. CASE p \in InCart(u)
        <5>1. InCart(u) \cup {p} = InCart(u)
          BY <4>1
        <5>. QED  BY <3>1, <5>1
      <4>2. CASE p \notin InCart(u)
        <5>1. Cardinality(InCart(u)) < MaxItems
          BY <2>0, <4>2 DEF HasRoom
        <5>2. IsFiniteSet(InCart(u) \cup {p}) /\ Cardinality(InCart(u) \cup {p}) = Cardinality(InCart(u)) + 1
          BY <3>1, <4>2, FS_AddElement
        <5>. QED  BY <3>1, <5>1, <5>2
      <4>. QED  BY <4>1, <4>2
    <3>. QED  BY <2>6, <3>1, <3>2, FS_Subset, FS_CardinalityType
  <2>8. CartBounded'
    BY <1>s, <2>5, <2>7 DEF CartBounded
  <2>9. \A v \in Owners : cartLock[v] # r => InCart(v)' \subseteq InCart(v)
    BY <2>0, <2>5
  <2>. QED  BY <1>s, <2>0, <2>3, <2>4, <2>8, <2>9, AccountsStop
<1>11. ASSUME UNCHANGED <<ordered, asked>>, \A u \in Owners, p \in CartProducts : quantity'[u][p] <= quantity[u][p],
              quantity' \in [Owners -> Lines]
       PROVE  /\ OrderedOnce' /\ CartBounded'
              /\ \A u \in Owners : InCart(u)' \subseteq InCart(u)
              /\ \A u \in Owners, p \in CartProducts : Units(u, p)' = Units(u, p)
  <2>1. \A u \in Owners, p \in CartProducts : Units(u, p)' = Units(u, p)
    BY <1>11 DEF Units, UnitsUnder
  <2>2. \A u \in Owners, p \in CartProducts : quantity'[u][p] \in Nat
    BY <1>11, MaxQuantityAssumption DEF Lines
  <2>3. OrderedOnce'
    <3>. SUFFICES ASSUME NEW u \in Owners, NEW p \in CartProducts
                  PROVE  quantity'[u][p] + Units(u, p)' <= asked'[u][p]
      BY DEF OrderedOnce
    <3>1. /\ quantity[u][p] \in Nat /\ asked[u][p] \in Nat /\ Units(u, p) \in Nat
          /\ quantity[u][p] + Units(u, p) <= asked[u][p]
      BY <1>s, AccountTypes DEF OrderedOnce
    <3>. QED  BY <1>11, <2>1, <2>2, <3>1
  <2>4. \A u \in Owners : InCart(u)' \subseteq InCart(u)
    <3>1. \A u \in Owners, p \in CartProducts : quantity'[u][p] > 0 => quantity[u][p] > 0
      BY <1>11, <1>s, <2>2, AccountTypes
    <3>. QED  BY <3>1 DEF InCart
  <2>5. CartBounded'
    BY <1>s, <2>4, InCartFinite, RoomStays DEF CartBounded
  <2>. QED  BY <2>1, <2>3, <2>4, <2>5
<1>12. ASSUME NEW r \in CartRequests, Remove(r) \/ \E u \in Owners : Clear(r, u)  PROVE UnitsInv'
  <2>1. UNCHANGED <<ordered, asked>> /\ (Stop(r) \/ (cartReq' = cartReq /\ Working(r, "idle")))
    BY <1>12 DEF Remove, Clear
  <2>2. quantity' \in [Owners -> Lines] /\ \A u \in Owners, p \in CartProducts : quantity'[u][p] <= quantity[u][p]
    <3>1. ASSUME NEW u \in Owners, NEW p \in CartProducts, RemoveItem(u, p)
          PROVE  quantity' \in [Owners -> Lines] /\ \A v \in Owners, q \in CartProducts : quantity'[v][q] <= quantity[v][q]
      <4>1. 0 \in 0..MaxQuantity /\ quantity' \in [Owners -> Lines]
        BY <3>1, MaxQuantityAssumption DEF RemoveItem, CartInv, CartShape, Lines
      <4>2. \A v \in Owners, q \in CartProducts : quantity'[v][q] = (IF v = u /\ q = p THEN 0 ELSE quantity[v][q])
        BY <3>1 DEF RemoveItem, CartInv, CartShape, Lines
      <4>. QED  BY <1>s, <4>1, <4>2, AccountTypes
    <3>2. ASSUME NEW u \in Owners, ClearItems(u)
          PROVE  quantity' \in [Owners -> Lines] /\ \A v \in Owners, q \in CartProducts : quantity'[v][q] <= quantity[v][q]
      <4>1. /\ quantity' \in [Owners -> Lines]
            /\ \A v \in Owners, q \in CartProducts : quantity'[v][q] = (IF v = u THEN 0 ELSE quantity[v][q])
        BY <3>2, ClearLines
      <4>. QED  BY <1>s, <4>1, AccountTypes
    <3>. QED  BY <1>12, <3>1, <3>2, CartRequestTypes DEF Remove, Clear
  <2>3. /\ OrderedOnce' /\ CartBounded'
        /\ \A u \in Owners : InCart(u)' \subseteq InCart(u)
        /\ \A u \in Owners, p \in CartProducts : Units(u, p)' = Units(u, p)
    BY <1>11, <2>1, <2>2
  <2>. QED  BY <1>m, <1>s, <2>1, <2>3, AccountsStop
<1>13. ASSUME NEW r \in CartRequests, UpdateQuantity(r)  PROVE UnitsInv'
  <2>0. PICK u \in Owners, p \in CartProducts, n \in Nat :
        /\ Owner(r) = u /\ Working(r, "change") /\ Stop(r) /\ ordered' = ordered
        /\ UpdateItemQuantity(u, p, n) /\ Ask(u, p, More(u, p, n))
    BY <1>13, CartRequestTypes DEF UpdateQuantity
  <2>1. \A v \in Owners, q \in CartProducts :
          quantity'[v][q] = (IF v = u /\ q = p THEN IF p \in InCart(u) THEN n ELSE 0 ELSE quantity[v][q])
    BY <2>0 DEF UpdateItemQuantity, CartInv, CartShape, Lines
  <2>2. More(u, p, n) \in Nat
    BY <1>s, AccountTypes DEF More
  <2>3. /\ asked'[u][p] = asked[u][p] + More(u, p, n)
        /\ \A v \in Owners, q \in CartProducts : v # u \/ q # p => asked'[v][q] = asked[v][q]
    BY <1>s, <2>0, <2>2, AskTypes
  <2>4. \A v \in Owners, q \in CartProducts : Units(v, q)' = Units(v, q)
    BY <2>0 DEF Units, UnitsUnder
  <2>5. OrderedOnce' /\ \A v \in Owners, q \in CartProducts : asked[v][q] <= asked'[v][q]
    <3>. SUFFICES ASSUME NEW v \in Owners, NEW q \in CartProducts
                  PROVE  quantity'[v][q] + Units(v, q)' <= asked'[v][q] /\ asked[v][q] <= asked'[v][q]
      BY DEF OrderedOnce
    <3>1. /\ quantity[v][q] \in Nat /\ asked[v][q] \in Nat /\ Units(v, q) \in Nat
          /\ quantity[v][q] + Units(v, q) <= asked[v][q] /\ Units(v, q)' = Units(v, q)
      BY <1>s, <2>4, AccountTypes DEF OrderedOnce
    <3>2. CASE v = u /\ q = p
      <4>1. quantity'[v][q] <= quantity[v][q] + More(u, p, n) /\ quantity'[v][q] \in Nat
        BY <2>1, <3>1, <3>2 DEF More, InCart
      <4>. QED  BY <2>2, <2>3, <3>1, <3>2, <4>1
    <3>3. CASE v # u \/ q # p
      BY <2>1, <2>3, <3>1, <3>3
    <3>. QED  BY <3>2, <3>3
  <2>6. \A v \in Owners : InCart(v)' \subseteq InCart(v)
    <3>1. \A v \in Owners, q \in CartProducts : quantity'[v][q] > 0 => quantity[v][q] > 0
      BY <2>1 DEF InCart
    <3>. QED  BY <3>1 DEF InCart
  <2>7. CartBounded'
    BY <1>s, <2>6, InCartFinite, RoomStays DEF CartBounded
  <2>. QED  BY <1>s, <2>0, <2>4, <2>5, <2>6, <2>7, AccountsStop
<1>14. ASSUME NEW r \in CartRequests, PlaceOrder(r)  PROVE UnitsInv'
  <2>0. PICK u \in Owners, k \in OrderKeys, lines \in Lines :
        /\ Owner(r) = u /\ lines = cartReq[r].snapshot /\ Working(r, "snapped") /\ Stop(r) /\ asked' = asked
        /\ ordered[u][k] = {} /\ ordered' = [ordered EXCEPT ![u][k] = {lines}] /\ ClearItems(u)
    BY <1>14, CartRequestTypes DEF PlaceOrder
  <2>1. /\ \A p \in CartProducts : Units(u, p)' = Units(u, p) + lines[p]
        /\ \A v \in Owners \ {u}, p \in CartProducts : Units(v, p)' = Units(v, p)
    <3>1. AccountsShape /\ ordered[u][k] = {} /\ ordered' = [ordered EXCEPT ![u][k] = {lines}]
      BY <1>s, <2>0
    <3>. QED  BY <3>1, UnitsOrdered
  <2>2. \A v \in Owners, q \in CartProducts : quantity'[v][q] = (IF v = u THEN 0 ELSE quantity[v][q])
    BY <2>0, ClearLines
  <2>3. cartLock[u] = r
    BY <2>0 DEF CartInv, LocksHeld, InTransaction, Working
  <2>4. OrderedOnce'
    <3>. SUFFICES ASSUME NEW v \in Owners, NEW q \in CartProducts
                  PROVE  quantity'[v][q] + Units(v, q)' <= asked'[v][q]
      BY DEF OrderedOnce
    <3>1. /\ quantity[v][q] \in Nat /\ asked[v][q] \in Nat /\ Units(v, q) \in Nat
          /\ quantity[v][q] + Units(v, q) <= asked[v][q]
      BY <1>s, AccountTypes DEF OrderedOnce
    <3>2. CASE v = u
      <4>1. Units(u, q) + lines[q] <= asked[u][q] /\ lines[q] \in Nat
        BY <2>0, MaxQuantityAssumption DEF UnitsInv, SnapshotsAsked, Lines
      <4>. QED  BY <2>0, <2>1, <2>2, <3>1, <3>2, <4>1
    <3>3. CASE v # u
      BY <2>0, <2>1, <2>2, <3>1, <3>3
    <3>. QED  BY <3>2, <3>3
  <2>5. \A v \in Owners : InCart(v)' \subseteq InCart(v)
    <3>1. \A v \in Owners, q \in CartProducts : quantity'[v][q] > 0 => quantity[v][q] > 0
      BY <2>2
    <3>. QED  BY <3>1 DEF InCart
  <2>6. CartBounded'
    BY <1>s, <2>5, InCartFinite, RoomStays DEF CartBounded
  <2>7. /\ \A v \in Owners, p \in CartProducts : asked[v][p] <= asked'[v][p]
        /\ \A v \in Owners, p \in CartProducts : cartLock[v] # r => Units(v, p)' = Units(v, p)
    BY <1>m, <2>0, <2>1, <2>3
  <2>. QED  BY <1>s, <2>0, <2>4, <2>5, <2>6, <2>7, AccountsStop
<1>15. CASE UNCHANGED <<quantity, ordered, asked, cartReq>>
  BY <1>15, <1>s, AccountsQuiet
<1>16. CASE \E r \in CartRequests : CartStep(r)
  <2>. PICK r \in CartRequests : CartStep(r)
    BY <1>16
  <2>1. CASE \E u \in Owners, p \in CartProducts, n \in 1..MaxQuantity : AddStart(r, u, p, n) \/ ChangeStart(r, u, p, n)
    BY <1>2, <2>1
  <2>2. CASE \E u \in Owners, p \in CartProducts : RemoveStart(r, u, p)
    <3>1. 1 \in 1..MaxQuantity
      BY MaxQuantityAssumption
    <3>. QED  BY <1>2, <2>2, <3>1
  <2>3. CASE \E u \in Owners : \E k \in OrderKeys : PlaceLookup(r, u, k)
    BY <1>3, <2>3
  <2>. QED  BY <1>5, <1>7, <1>8, <1>9, <1>10, <1>12, <1>13, <1>14, <2>1, <2>2, <2>3 DEF CartStep
<1>. QED  BY <1>15, <1>16 DEF CartNext, cartVars, TogglePublished

\* At first nothing was asked for, and nothing ordered.
LEMMA AccountsInitInv == CartInit => UnitsInv
<1>. SUFFICES ASSUME CartInit  PROVE UnitsInv
  OBVIOUS
<1>1. \A r \in CartRequests : cartReq[r].step = "idle"
  BY NoWorkType DEF CartInit
<1>2. AccountsShape
  BY MaxAskedAssumption DEF CartInit, AccountsShape, NoLines
<1>3. \A u \in Owners, p \in CartProducts : quantity[u][p] = 0 /\ asked[u][p] = 0 /\ Units(u, p) = 0
  <2>. SUFFICES ASSUME NEW u \in Owners, NEW p \in CartProducts  PROVE Units(u, p) = 0
    BY DEF CartInit, NoLines
  <2>. DEFINE f == [k \in OrderKeys |-> UnitsUnder(u, p, k)]
  <2>1. \A k \in OrderKeys : ordered[u][k] = {}
    BY DEF CartInit
  <2>2. \A k \in OrderKeys : f[k] = 0
    BY <1>2, <2>1, UnderKey
  <2>3. Units(u, p) = SumFunctionOnSet(f, OrderKeys)
    BY DEF Units
  <2>. HIDE DEF f
  <2>. QED  BY <2>2, <2>3, CartAssumption, SumZero
<1>4. CartBounded
  <2>1. \A u \in Owners : InCart(u) = {}
    BY <1>3 DEF InCart
  <2>. QED  BY <2>1, FS_EmptySet, MaxItemsAssumption DEF CartBounded
<1>. QED  BY <1>1, <1>2, <1>3, <1>4 DEF UnitsInv, CartExact, OrderedOnce, RoomKept, SnapshotsAsked, Working

\* A cart holds no more lines than it may, although counting and inserting are two statements,
\* and no unit put into it is ordered twice: the lock on its row is held from the count or the
\* snapshot on, and what the requests without a lock do meanwhile makes no new line.
THEOREM CartExactHolds == CartSpec => []CartExact
<1>1. UnitsInv => CartExact
  BY DEF UnitsInv
<1>. QED  BY <1>1, AccountsInitInv, AccountsStepInv, CartInitInv, CartStepInv, PTL DEF CartSpec

\* Carts, their locks and requests, orders and the units asked for have their types.
THEOREM CartTypeOKHolds == CartSpec => []CartTypeOK
<1>1. CartInv /\ UnitsInv => CartTypeOK
  BY DEF CartInv, CartShape, UnitsInv, AccountsShape, CartTypeOK
<1>. QED  BY <1>1, AccountsInitInv, AccountsStepInv, CartInitInv, CartStepInv, PTL DEF CartSpec

(****************************************************************************)
(* The locks on the rows of the stock and on the orders.                    *)
(****************************************************************************)
\* Among finitely many levels one has the greatest id, and one the least.
LEMMA GreatestLevel ==
  ASSUME NEW S \in SUBSET Products, S # {}
  PROVE  \E p \in S : \A q \in S : q <= p
<1>. DEFINE Above(p) == {q \in S : q > p}
            T == {Above(p) : p \in S}
<1>1. T \subseteq FiniteSubsetsOf(Products) /\ T # {}
  <2>1. \A p \in S : Above(p) \in SUBSET Products
    OBVIOUS
  <2>2. \A p \in S : IsFiniteSet(Above(p))
    BY <2>1, StoreAssumption, FS_Subset
  <2>. QED  BY <2>1, <2>2 DEF FiniteSubsetsOf
<1>2. PICK U \in T : \A V \in T : ~(<<V, U>> \in StrictSubsetOrdering(Products))
  <2>. HIDE DEF T
  <2>. QED  BY <1>1, FS_StrictSubsetOrderingWellFounded, WFMin
<1>3. PICK p \in S : U = Above(p)
  OBVIOUS
<1>4. ASSUME NEW q \in S, ~(q <= p)  PROVE FALSE
  <2>0. S \subseteq Nat
    BY ProductsAssumption
  <2>1. p \in Nat /\ q \in Nat /\ q > p
    BY <2>0, <1>4
  <2>2. q \in U /\ q \notin Above(q)
    BY <2>1, <1>3
  <2>3. Above(q) \subseteq U
    <3>1. \A r \in S : r > q => r > p
      BY <2>0, <2>1
    <3>. QED  BY <3>1, <1>3
  <2>4. <<Above(q), U>> \in StrictSubsetOrdering(Products)
    BY <2>2, <2>3 DEF StrictSubsetOrdering
  <2>. QED  BY <1>2, <2>4
<1>. QED  BY <1>4

\* A finite set of levels that is not empty has a least one.
LEMMA LeastLevel ==
  ASSUME NEW S \in SUBSET Products, S # {}
  PROVE  \E p \in S : \A q \in S : p <= q
<1>. DEFINE Below(p) == {q \in S : q < p}
            T == {Below(p) : p \in S}
<1>1. T \subseteq FiniteSubsetsOf(Products) /\ T # {}
  <2>1. \A p \in S : Below(p) \in SUBSET Products
    OBVIOUS
  <2>2. \A p \in S : IsFiniteSet(Below(p))
    BY <2>1, StoreAssumption, FS_Subset
  <2>. QED  BY <2>1, <2>2 DEF FiniteSubsetsOf
<1>2. PICK U \in T : \A V \in T : ~(<<V, U>> \in StrictSubsetOrdering(Products))
  <2>. HIDE DEF T
  <2>. QED  BY <1>1, FS_StrictSubsetOrderingWellFounded, WFMin
<1>3. PICK p \in S : U = Below(p)
  OBVIOUS
<1>4. ASSUME NEW q \in S, ~(p <= q)  PROVE FALSE
  <2>0. S \subseteq Nat
    BY ProductsAssumption
  <2>1. p \in Nat /\ q \in Nat /\ q < p
    BY <2>0, <1>4
  <2>2. q \in U /\ q \notin Below(q)
    BY <2>1, <1>3
  <2>3. Below(q) \subseteq U
    <3>1. \A r \in S : r < q => r < p
      BY <2>0, <2>1
    <3>. QED  BY <3>1, <1>3
  <2>4. <<Below(q), U>> \in StrictSubsetOrdering(Products)
    BY <2>2, <2>3 DEF StrictSubsetOrdering
  <2>. QED  BY <1>2, <2>4
<1>. QED  BY <1>4

\* Locks are held by transactions, and a transaction under way has an order.
LockTypes ==
  /\ holder \in [Rows -> Transactions \cup {NoTx}]
  /\ tx = [t \in Transactions |-> [op |-> tx[t].op, stage |-> tx[t].stage, order |-> tx[t].order,
                                   discount |-> tx[t].discount, back |-> tx[t].back]]
  /\ \A t \in Transactions : tx[t].stage \in Stages /\ (tx[t].stage # "idle" => tx[t].order \in Orders)

\* The flags of an order match its status, and every product of one that was placed has a
\* level; levels stay.
OrdersKept ==
  /\ OrderTypeOK /\ FlagsMatchStatus
  /\ \A o \in Orders : Placed(o) => Named(Basket[o]) \subseteq leveled

\* So has every product of the order that a transaction is about.
TxStocked == \A t \in Transactions : ~Staged(t, "idle") => Named(Basket[OrderOf(t)]) \subseteq leveled

\* A transaction takes the levels it names in the order of their ids, and nothing before.
LockedInOrder ==
  \A t \in Transactions :
    /\ tx[t].stage \in {"idle", "order"} => \A row \in Rows : ~Holds(t, row)
    /\ Staged(t, "levels") => \A p \in Products : Holds(t, p) => \A q \in Missing(t) : p < q

LocksOnly == LockTypes /\ TxStocked /\ LockedInOrder

LockInv == LocksOnly /\ OrdersKept

\* At first nothing is locked.
LEMMA StoreInitInv == StoreInit => LockInv
<1>. SUFFICES ASSUME StoreInit  PROVE LockInv
  OBVIOUS
<1>1. \A t \in Transactions : tx[t].stage = "idle" /\ \A row \in Rows : holder[row] # t
  BY StoreAssumption DEF StoreInit, Free
<1>2. LockTypes
  <2>1. tx = [t \in Transactions |-> [op |-> tx[t].op, stage |-> tx[t].stage, order |-> tx[t].order,
                                     discount |-> tx[t].discount, back |-> tx[t].back]]
    BY DEF StoreInit, Free
  <2>. QED  BY <1>1, <2>1 DEF StoreInit, LockTypes, Stages
<1>3. OrdersKept
  BY DEF StoreInit, OrderInit, OrdersKept, OrderTypeOK, FlagsMatchStatus, Placed, Payable, Fulfilled, OrderStatuses
<1>. QED  BY <1>1, <1>2, <1>3 DEF LockInv, LocksOnly, TxStocked, LockedInOrder, Staged, Holds

\* The changes of an order that the store makes.
StoreChanges == {ToPaid, ToCancelled, ToRefunded, ToFulfillmentFailedCompensating, ToShipped}

\* None of them makes an order payable again or clears a flag.
LEMMA OrderMoved ==
  ASSUME OrdersKept, NEW o \in Orders, NEW change \in StoreChanges, Apply(o, change), leveled' = leveled
  PROVE  /\ OrdersKept'
         /\ \A u \in Orders \ {o} : status'[u] = status[u] /\ deducted'[u] = deducted[u] /\ reversed'[u] = reversed[u]
         /\ status[o] # "none" /\ status'[o] \notin Payable \cup {"none"}
         /\ deducted'[o] = (deducted[o] \/ change.stock = "deducted")
         /\ reversed'[o] = (reversed[o] \/ change.stock = "reversed")
<1>. USE DEF OrdersKept, OrderTypeOK
<1>1. /\ change.to \in OrderStatuses \ (Payable \cup {"none"}) /\ "none" \notin change.from
      /\ change.to \in Fulfilled => change.stock = "deducted" \/ change.from \subseteq Fulfilled
      /\ change.to \in Fulfilled => change.stock # "reversed" /\ change.from \subseteq Payable \cup Fulfilled
      /\ change.to \in {"cancelled", "expired", "refunded"} => change.stock = "reversed"
  BY DEF StoreChanges, ToPaid, ToCancelled, ToRefunded, ToFulfillmentFailedCompensating, ToShipped, Transition,
         OrderStatuses, Payable, Fulfilled
<1>2. /\ status[o] \in change.from
      /\ status' = [status EXCEPT ![o] = change.to]
      /\ deducted' = [deducted EXCEPT ![o] = deducted[o] \/ change.stock = "deducted"]
      /\ reversed' = [reversed EXCEPT ![o] = reversed[o] \/ change.stock = "reversed"]
  BY DEF Apply, CanApply
<1>3. OrderTypeOK'
  BY <1>1, <1>2
<1>4. /\ status'[o] = change.to /\ deducted'[o] = (deducted[o] \/ change.stock = "deducted")
      /\ reversed'[o] = (reversed[o] \/ change.stock = "reversed")
      /\ \A u \in Orders \ {o} : status'[u] = status[u] /\ deducted'[u] = deducted[u] /\ reversed'[u] = reversed[u]
  BY <1>2
<1>5. FlagsMatchStatus'
  <2>1. ASSUME NEW u \in Orders
        PROVE  /\ status'[u] \in Payable \cup {"none"} => ~deducted'[u] /\ ~reversed'[u]
               /\ status'[u] \in Fulfilled => deducted'[u] /\ ~reversed'[u]
               /\ status'[u] \in {"cancelled", "expired", "refunded"} => reversed'[u]
    BY <1>1, <1>2, <1>4 DEF FlagsMatchStatus
  <2>. QED  BY <2>1 DEF FlagsMatchStatus
<1>6. \A u \in Orders : Placed(u)' => Named(Basket[u])' \subseteq leveled'
  BY <1>1, <1>2, <1>4 DEF Placed, Named
<1>. QED  BY <1>1, <1>2, <1>3, <1>4, <1>5, <1>6

\* Placing makes an order payable whose row was not there.
LEMMA OrderCreated ==
  ASSUME OrdersKept, NEW o \in Orders, CreateOrder(o), leveled' = leveled, Named(Basket[o]) \subseteq leveled
  PROVE  /\ OrdersKept'
         /\ \A u \in Orders \ {o} : status'[u] = status[u]
         /\ status[o] = "none" /\ status'[o] = "awaiting_payment" /\ ~deducted[o] /\ ~reversed[o]
         /\ UNCHANGED <<deducted, reversed>>
BY DEF OrdersKept, OrderTypeOK, FlagsMatchStatus, CreateOrder, Placed, Named, Payable, Fulfilled, OrderStatuses

\* A batch names no product that its order does not.
LEMMA BatchNamed ==
  ASSUME NEW t  PROVE Named(Batch(t)) \subseteq Named(Basket[OrderOf(t)])
BY DEF Named, Batch, NoUnits

\* A transaction that ends lets go of its rows and of nobody else's.
LEMMA FinishLocks ==
  ASSUME LocksOnly, NEW t \in Transactions, Finish(t), leveled' = leveled
  PROVE  LocksOnly'
<1>1. LockTypes'
  BY DEF LocksOnly, LockTypes, Finish, Free, Stages
<1>2. \A u \in Transactions \ {t} : tx'[u] = tx[u] /\ \A row \in Rows : Holds(u, row)' <=> Holds(u, row)
  BY StoreAssumption DEF LocksOnly, LockTypes, Finish, Holds
<1>3. tx'[t].stage = "idle" /\ \A row \in Rows : ~Holds(t, row)'
  BY StoreAssumption DEF LocksOnly, LockTypes, Finish, Free, Holds
<1>4. \A u \in Transactions \ {t} : Missing(u)' = Missing(u)
  BY <1>2 DEF Missing, LevelsOf, Named, Batch, NoUnits, OrderOf, Rows
<1>5. TxStocked'
  BY <1>2, <1>3 DEF LocksOnly, TxStocked, Staged, Named, OrderOf
<1>6. LockedInOrder'
  BY <1>2, <1>3, <1>4 DEF LocksOnly, LockedInOrder, Staged, Rows
<1>. QED  BY <1>1, <1>5, <1>6 DEF LocksOnly

\* What a transaction is when it begins.
BegunTx(op, stage, o, back) == [op |-> op, stage |-> stage, order |-> o, discount |-> 0, back |-> back]

LEMMA BegunRecord ==
  ASSUME NEW op, NEW stage, NEW o
  PROVE  [Free EXCEPT !.op = op, !.stage = stage, !.order = o] = BegunTx(op, stage, o, "nothing")
<1>1. PICK any : Free = [op |-> "place", stage |-> "idle", order |-> any, discount |-> 0, back |-> "nothing"]
  BY DEF Free
<1>2. [Free EXCEPT !.op = op] = [op |-> op, stage |-> "idle", order |-> any, discount |-> 0, back |-> "nothing"]
  BY <1>1
<1>3. [[op |-> op, stage |-> "idle", order |-> any, discount |-> 0, back |-> "nothing"] EXCEPT !.stage = stage]
        = [op |-> op, stage |-> stage, order |-> any, discount |-> 0, back |-> "nothing"]
  OBVIOUS
<1>4. [[op |-> op, stage |-> stage, order |-> any, discount |-> 0, back |-> "nothing"] EXCEPT !.order = o]
        = [op |-> op, stage |-> stage, order |-> o, discount |-> 0, back |-> "nothing"]
  OBVIOUS
<1>. QED  BY <1>2, <1>3, <1>4 DEF BegunTx

LEMMA BegunChange ==
  ASSUME NEW op, NEW stage, NEW o, NEW back
  PROVE  [Free EXCEPT !.op = op, !.stage = stage, !.order = o, !.back = back] = BegunTx(op, stage, o, back)
<1>1. [Free EXCEPT !.op = op, !.stage = stage, !.order = o, !.back = back]
        = [[Free EXCEPT !.op = op, !.stage = stage, !.order = o] EXCEPT !.back = back]
  OBVIOUS
<1>2. [BegunTx(op, stage, o, "nothing") EXCEPT !.back = back] = BegunTx(op, stage, o, back)
  BY DEF BegunTx
<1>. QED  BY <1>1, <1>2, BegunRecord, Zenon

\* What a transaction begins with: a placement of an order that is not there, or a change of
\* one that is, with what its caller read of it.
Begins(t, op, stage, o, back) ==
  /\ Staged(t, "idle") /\ tx' = [tx EXCEPT ![t] = BegunTx(op, stage, o, back)]
  /\ UNCHANGED <<dataVars, holder, editing>>
  /\ \/ /\ op = "place" /\ stage = "levels" /\ back = "nothing"
        /\ ~Placed(o) /\ Named(Basket[o]) \subseteq leveled
        /\ \A u \in Transactions :
             tx[u].stage # "idle" /\ tx[u].op = "place" => CustomerOf[OrderOf(u)] # CustomerOf[o]
     \/ /\ op # "place" /\ stage = "order" /\ back = Owed(o, op)
        /\ Placed(o) /\ (op = "refund" => status[o] \notin Payable)

LEMMA BeginBegins ==
  ASSUME NEW t \in Transactions, Begin(t)
  PROVE  \E op \in Ops, stage \in {"order", "levels"}, o \in Orders, back \in Returns : Begins(t, op, stage, o, back)
<1>1. PICK o \in Orders : PlaceStart(t, o) \/ \E op \in Ops : UpdateStart(t, o, op)
  BY DEF Begin
<1>2. CASE PlaceStart(t, o)
  <2>1. tx' = [tx EXCEPT ![t] = BegunTx("place", "levels", o, "nothing")]
    BY <1>2, BegunRecord, Zenon DEF PlaceStart
  <2>2. Begins(t, "place", "levels", o, "nothing") /\ "place" \in Ops /\ "nothing" \in Returns
    BY <1>2, <2>1 DEF PlaceStart, Begins, Ops, Returns
  <2>. QED  BY <2>2
<1>3. ASSUME NEW op \in Ops, UpdateStart(t, o, op)
      PROVE  \E stage \in {"order", "levels"}, back \in Returns : Begins(t, op, stage, o, back)
  <2>0. PICK back \in Returns : back = Owed(o, op)
    BY DEF Owed, Returns
  <2>1. [Free EXCEPT !.op = op, !.stage = "order", !.order = o, !.back = back] = BegunTx(op, "order", o, back)
    BY <2>0, BegunChange, Zenon
  <2>2. Begins(t, op, "order", o, back)
    BY <1>3, <2>0, <2>1 DEF UpdateStart, Begins
  <2>. QED  BY <2>2
<1>. QED  BY <1>1, <1>2, <1>3

\* A transaction that begins holds nothing, and finds a level of every product it names.
LEMMA StartLocks ==
  ASSUME LockInv, NEW t \in Transactions, NEW op \in Ops, NEW stage \in {"order", "levels"}, NEW o \in Orders,
         NEW back \in Returns, Begins(t, op, stage, o, back)
  PROVE  LocksOnly'
<1>. USE DEF LockInv
<1>0. tx' = [u \in Transactions |->
              IF u = t THEN [op |-> op, stage |-> stage, order |-> o, discount |-> 0, back |-> back]
              ELSE [op |-> tx[u].op, stage |-> tx[u].stage, order |-> tx[u].order,
                    discount |-> tx[u].discount, back |-> tx[u].back]]
  <2>1. \A u \in Transactions : tx[u] = [op |-> tx[u].op, stage |-> tx[u].stage, order |-> tx[u].order,
                                         discount |-> tx[u].discount, back |-> tx[u].back]
    BY DEF LocksOnly, LockTypes
  <2>2. tx' = [u \in Transactions |-> IF u = t THEN BegunTx(op, stage, o, back) ELSE tx[u]]
    BY DEF Begins, LocksOnly, LockTypes
  <2>. QED  BY <2>1, <2>2 DEF BegunTx
<1>1. LockTypes'
  <2>1. tx' = [u \in Transactions |-> [op |-> tx'[u].op, stage |-> tx'[u].stage, order |-> tx'[u].order,
                                      discount |-> tx'[u].discount, back |-> tx'[u].back]]
    BY <1>0
  <2>2. \A u \in Transactions : tx'[u].stage \in Stages /\ (tx'[u].stage # "idle" => tx'[u].order \in Orders)
    BY <1>0 DEF LocksOnly, LockTypes, Stages
  <2>3. holder' \in [Rows -> Transactions \cup {NoTx}]
    BY DEF Begins, LocksOnly, LockTypes
  <2>. QED  BY <2>1, <2>2, <2>3 DEF LockTypes
<1>2. \A u \in Transactions \ {t} : tx'[u] = tx[u]
  BY DEF Begins, LocksOnly, LockTypes
<1>3. tx'[t].stage = stage /\ tx'[t].order = o
  BY <1>0
<1>4. holder' = holder /\ leveled' = leveled /\ Named(Basket[o]) \subseteq leveled
  BY DEF Begins, OrdersKept, dataVars, inventoryVars
<1>5. \A row \in Rows : ~Holds(t, row)
  BY DEF Begins, LocksOnly, LockedInOrder, Staged
<1>6. \A u \in Transactions \ {t} : Missing(u)' = Missing(u)
  BY <1>2, <1>4 DEF Missing, LevelsOf, Named, Batch, OrderOf, NoUnits, Rows, Holds
<1>7. TxStocked'
  BY <1>2, <1>3, <1>4 DEF LocksOnly, TxStocked, Staged, OrderOf, Named
<1>8. LockedInOrder'
  BY <1>2, <1>4, <1>5, <1>6 DEF LocksOnly, LockedInOrder, Staged, Rows, Holds
<1>. QED  BY <1>1, <1>7, <1>8 DEF LocksOnly

\* A transaction that is done with the levels does not come back to them.
LEMMA MoveLocks ==
  ASSUME LocksOnly, NEW t \in Transactions, ~Staged(t, "idle"),
         tx' = [tx EXCEPT ![t].stage = tx'[t].stage] \/ tx' = [tx EXCEPT ![t].stage = tx'[t].stage, ![t].discount = tx'[t].discount],
         tx'[t].stage \in {"price", "promotion", "usage", "commit"},
         holder' = holder \/ \E row \in Rows : TakeRow(t, row),
         leveled' = leveled
  PROVE  LocksOnly'
<1>1. LockTypes'
  BY DEF LocksOnly, LockTypes, Stages, TakeRow, Staged
<1>2. \A u \in Transactions \ {t} : tx'[u] = tx[u] /\ \A row \in Rows : Holds(u, row)' <=> Holds(u, row)
  BY StoreAssumption DEF LocksOnly, LockTypes, Holds, TakeRow
<1>3. tx'[t].order = tx[t].order
  BY DEF LocksOnly, LockTypes
<1>4. \A u \in Transactions \ {t} : Missing(u)' = Missing(u)
  BY <1>2 DEF Missing, LevelsOf, Named, Batch, NoUnits, OrderOf, Rows
<1>5. TxStocked'
  BY <1>2, <1>3 DEF LocksOnly, TxStocked, Staged, Named, OrderOf
<1>6. LockedInOrder'
  BY <1>2, <1>4 DEF LocksOnly, LockedInOrder, Staged, Rows
<1>. QED  BY <1>1, <1>5, <1>6 DEF LocksOnly

\* The row of the order comes before the levels.
LEMMA OrderLock ==
  ASSUME LockInv, NEW t \in Transactions, LockOrder(t)
  PROVE  LocksOnly'
<1>. DEFINE o == OrderOf(t)
<1>1. CASE Finish(t)
  BY <1>1, FinishLocks DEF LockInv, LockOrder, dataVars, inventoryVars
<1>2. CASE (TakeRow(t, o) \/ UNCHANGED holder) /\ ToStage(t, "levels")
  <2>1. o \in Orders /\ o \notin Products /\ o \in Rows /\ leveled' = leveled
    BY StoreAssumption DEF LockOrder, Staged, LockInv, LocksOnly, LockTypes, OrderOf, Rows, dataVars, inventoryVars
  <2>0. tx' = [u \in Transactions |->
                [op |-> tx[u].op, stage |-> IF u = t THEN "levels" ELSE tx[u].stage, order |-> tx[u].order,
                 discount |-> tx[u].discount, back |-> tx[u].back]]
    BY <1>2 DEF LockInv, LocksOnly, LockTypes, ToStage
  <2>2. LockTypes'
    BY <1>2, <2>0, <2>1 DEF LockInv, LocksOnly, LockTypes, Stages, TakeRow, LockOrder, Staged
  <2>3. \A u \in Transactions \ {t} : tx'[u] = tx[u] /\ \A row \in Rows : Holds(u, row)' <=> Holds(u, row)
    BY <1>2, StoreAssumption DEF LockInv, LocksOnly, LockTypes, Holds, TakeRow, ToStage
  <2>4. tx'[t].order = tx[t].order /\ tx'[t].stage = "levels" /\ \A p \in Products : ~Holds(t, p)'
    <3>1. \A p \in Products : p \in Rows /\ p # o /\ holder[p] # t
      BY <2>1 DEF LockInv, LocksOnly, LockedInOrder, LockOrder, Staged, Holds, Rows
    <3>2. \A p \in Products : holder'[p] = holder[p]
      BY <1>2, <2>1, <3>1 DEF TakeRow, LockInv, LocksOnly, LockTypes
    <3>. QED  BY <2>0, <3>1, <3>2 DEF Holds
  <2>5. \A u \in Transactions \ {t} : Missing(u)' = Missing(u)
    BY <2>1, <2>3 DEF Missing, LevelsOf, Named, Batch, NoUnits, OrderOf, Rows
  <2>6. TxStocked'
    BY <2>1, <2>3, <2>4 DEF LockInv, LocksOnly, TxStocked, LockOrder, Staged, Named, OrderOf
  <2>7. LockedInOrder'
    BY <2>3, <2>4, <2>5 DEF LockInv, LocksOnly, LockedInOrder, Staged, Rows
  <2>. QED  BY <2>2, <2>6, <2>7 DEF LocksOnly
<1>. QED  BY <1>1, <1>2 DEF LockOrder

\* lockLevels asks for the least level that is missing.
LEMMA LevelLock ==
  ASSUME LocksOnly, NEW t \in Transactions, LockLevel(t)
  PROVE  LocksOnly'
<1>1. PICK p \in NextLevels(t) : TakeRow(t, p)
  BY DEF LockLevel
<1>2. Missing(t) \in SUBSET Products
  BY DEF Missing, LevelsOf, Named
<1>3. p \in Missing(t) /\ \A q \in Missing(t) : p <= q
  BY <1>1, <1>2, LeastLevel DEF NextLevels, FirstOf
<1>4. tx' = tx /\ leveled' = leveled /\ p \in Rows
  BY <1>2, <1>3 DEF LockLevel, dataVars, inventoryVars, Rows
<1>5. LockTypes'
  BY <1>1, <1>4 DEF LocksOnly, LockTypes, TakeRow
<1>6. \A u \in Transactions \ {t} : \A row \in Rows : Holds(u, row)' <=> Holds(u, row)
  BY <1>1, <1>4, StoreAssumption DEF LocksOnly, LockTypes, Holds, TakeRow
<1>7. \A u \in Transactions \ {t} : Missing(u)' = Missing(u)
  BY <1>4, <1>6 DEF Missing, LevelsOf, Named, Batch, NoUnits, OrderOf, Rows
<1>8. \A q \in Products : Holds(t, q)' => q = p \/ Holds(t, q)
  BY <1>1, <1>4 DEF LocksOnly, LockTypes, Holds, TakeRow, Rows
<1>9. \A q \in Missing(t)' : q \in Missing(t) /\ q # p
  BY <1>1, <1>2, <1>3, <1>4 DEF LocksOnly, LockTypes, Missing, LevelsOf, Named, Batch, NoUnits, OrderOf, Holds, TakeRow, Rows
<1>10. \A q \in Missing(t)' : p < q
  <2>1. \A q \in Missing(t) : q \in Nat
    BY <1>2, ProductsAssumption
  <2>. QED  BY <1>3, <1>9, <2>1
<1>11. TxStocked'
  BY <1>4 DEF LocksOnly, TxStocked, Staged, Named, OrderOf
<1>12. LockedInOrder'
  <2>1. ASSUME NEW u \in Transactions \ {t}
        PROVE  /\ tx'[u].stage \in {"idle", "order"} => \A row \in Rows : ~Holds(u, row)'
               /\ Staged(u, "levels")' => \A q \in Products : Holds(u, q)' => \A r \in Missing(u)' : q < r
    BY <1>4, <1>6, <1>7 DEF LocksOnly, LockedInOrder, Staged, Rows
  <2>2. \A q \in Products : Holds(t, q)' => \A r \in Missing(t)' : q < r
    BY <1>8, <1>9, <1>10 DEF LockLevel, LocksOnly, LockedInOrder, Staged
  <2>3. tx'[t].stage = "levels"
    BY <1>4 DEF LockLevel, Staged
  <2>. QED  BY <2>1, <2>2, <2>3 DEF LockedInOrder
<1>. QED  BY <1>5, <1>11, <1>12 DEF LocksOnly

\* What a transaction does, statement by statement.
LEMMA AdvanceLocks ==
  ASSUME LockInv, NEW t \in Transactions, Begin(t) \/ Advance(t) \/ DeadlockVictim(t) \/ Fails(t)
  PROVE  LocksOnly' /\ OrdersKept'
<1>. USE DEF LockInv
<1>0. ASSUME UNCHANGED <<leveled, orderVars>>  PROVE OrdersKept'
  BY <1>0 DEF orderVars, OrdersKept, OrderTypeOK, FlagsMatchStatus, Placed, Named
<1>1. CASE Begin(t)
  <2>1. PICK op \in Ops, stage \in {"order", "levels"}, o \in Orders, back \in Returns : Begins(t, op, stage, o, back)
    BY <1>1, BeginBegins
  <2>2. UNCHANGED <<leveled, orderVars>>
    BY <2>1 DEF Begins, dataVars, inventoryVars
  <2>. QED  BY <1>0, <2>1, <2>2, StartLocks
<1>2. CASE Advance(t)
  <2>1. CASE LockOrder(t)
    BY <1>0, <2>1, OrderLock DEF LockOrder, dataVars, inventoryVars
  <2>2. CASE LockLevel(t)
    BY <1>0, <2>2, LevelLock DEF LockLevel, dataVars, inventoryVars
  <2>3. CASE UpdateLevels(t)
    <3>1. UNCHANGED <<leveled, orderVars>> /\ ~Staged(t, "idle")
      BY <2>3 DEF UpdateLevels, dataVars, inventoryVars, Staged
    <3>2. CASE Finish(t)
      BY <1>0, <3>1, <3>2, FinishLocks
    <3>3. CASE ToStage(t, AfterLevels(t)) /\ UNCHANGED holder
      <4>1. AfterLevels(t) \in {"price", "usage", "commit"}
        BY DEF AfterLevels
      <4>2. tx'[t].stage = AfterLevels(t)
        BY <3>3 DEF ToStage, LocksOnly, LockTypes
      <4>. QED  BY <1>0, <3>1, <3>3, <4>1, <4>2, MoveLocks DEF ToStage
    <3>. QED  BY <2>3, <3>2, <3>3 DEF UpdateLevels
  <2>4. CASE PriceOrder(t)
    <3>1. UNCHANGED <<leveled, orderVars>> /\ ~Staged(t, "idle")
      BY <2>4 DEF PriceOrder, dataVars, inventoryVars, Staged
    <3>2. CASE Finish(t)
      BY <1>0, <3>1, <3>2, FinishLocks
    <3>3. CASE ~Finish(t)
      <4>1. PICK d : tx' = [tx EXCEPT ![t].stage = "promotion", ![t].discount = d] /\ holder' = holder
        BY <2>4, <3>3 DEF PriceOrder
      <4>2. tx'[t].stage = "promotion" /\ tx'[t].discount = d
        <5>1. tx[t] = [op |-> tx[t].op, stage |-> tx[t].stage, order |-> tx[t].order,
                            discount |-> tx[t].discount, back |-> tx[t].back]
          BY DEF LocksOnly, LockTypes
        <5>2. tx'[t] = [tx[t] EXCEPT !.stage = "promotion", !.discount = d]
          BY <4>1 DEF LocksOnly, LockTypes
        <5>. QED  BY <5>1, <5>2
      <4>. QED  BY <1>0, <3>1, <4>1, <4>2, MoveLocks
    <3>. QED  BY <3>2, <3>3
  <2>5. CASE LockPromotion(t)
    <3>1. UNCHANGED <<leveled, orderVars>> /\ ~Staged(t, "idle")
      BY <2>5 DEF LockPromotion, dataVars, inventoryVars, Staged
    <3>2. CASE Finish(t)
      BY <1>0, <3>1, <3>2, FinishLocks
    <3>3. CASE ~Finish(t)
      <4>1. PICK stage \in {"usage", "commit"} : TakeRow(t, Promo) /\ ToStage(t, stage)
        BY <2>5, <3>3 DEF LockPromotion
      <4>2. tx'[t].stage = stage /\ Promo \in Rows
        BY <4>1 DEF ToStage, LocksOnly, LockTypes, Rows
      <4>. QED  BY <1>0, <3>1, <4>1, <4>2, MoveLocks DEF ToStage
    <3>. QED  BY <3>2, <3>3
  <2>6. CASE LockUsage(t)
    <3>1. UNCHANGED <<leveled, orderVars>> /\ ~Staged(t, "idle")
      BY <2>6 DEF LockUsage, dataVars, inventoryVars, Staged
    <3>2. CASE Finish(t)
      BY <1>0, <3>1, <3>2, FinishLocks
    <3>3. CASE ~Finish(t)
      <4>1. PICK stage \in {"promotion", "commit"} :
              ToStage(t, stage) /\ (holder' = holder \/ TakeRow(t, CustomerOf[OrderOf(t)]))
        BY <2>6, <3>3 DEF LockUsage
      <4>2. tx'[t].stage = stage /\ CustomerOf[OrderOf(t)] \in Rows
        BY <3>1, <4>1, CustomerAssumption DEF ToStage, LocksOnly, LockTypes, Rows, OrderOf, Staged
      <4>. QED  BY <1>0, <3>1, <4>1, <4>2, MoveLocks DEF ToStage
    <3>. QED  BY <3>2, <3>3
  <2>7. CASE CommitPlace(t) \/ CommitPay(t) \/ CommitCancel(t) \/ CommitRefund(t)
    <3>1. Staged(t, "commit") /\ Finish(t) /\ leveled' = leveled
      BY <2>7 DEF CommitPlace, CommitPay, CommitCancel, CommitRefund, GiveBackUnits, ReleaseUnits, RestockUnits,
                  ReserveBatch, DeductBatch, ReleaseBatch, RestockBatch
    <3>2. OrderOf(t) \in Orders /\ Named(Basket[OrderOf(t)]) \subseteq leveled
      BY <3>1 DEF LocksOnly, LockTypes, TxStocked, Staged, OrderOf
    <3>3. OrdersKept'
      <4>1. CASE CreateOrder(OrderOf(t))
        BY <3>1, <3>2, <4>1, OrderCreated
      <4>2. CASE \E change \in StoreChanges : Apply(OrderOf(t), change)
        BY <3>1, <3>2, <4>2, OrderMoved
      <4>3. CASE UNCHANGED orderVars
        BY <1>0, <3>1, <4>3
      <4>. QED  BY <2>7, <4>1, <4>2, <4>3 DEF CommitPlace, CommitPay, CommitCancel, CommitRefund, StoreChanges
    <3>. QED  BY <3>1, <3>3, FinishLocks
  <2>. QED  BY <1>2, <2>1, <2>2, <2>3, <2>4, <2>5, <2>6, <2>7 DEF Advance
<1>3. CASE DeadlockVictim(t) \/ Fails(t)
  BY <1>0, <1>3, FinishLocks DEF DeadlockVictim, Fails, Rollback, dataVars, inventoryVars
<1>. QED  BY <1>1, <1>2, <1>3

\* The stock keeper may add a level, but of no product that is in a basket under way; and an
\* order may change that nobody has locked.
LEMMA KeeperLocks ==
  ASSUME LockInv, leveled \subseteq leveled', OrdersKept', UNCHANGED <<holder, tx>>
  PROVE  LockInv'
<1>1. \A t \in Transactions : ~Staged(t, "idle") => Missing(t)' = Missing(t)
  <2>. SUFFICES ASSUME NEW t \in Transactions, ~Staged(t, "idle")  PROVE Missing(t)' = Missing(t)
    OBVIOUS
  <2>1. Named(Batch(t)) \subseteq leveled
    BY BatchNamed DEF LockInv, LocksOnly, TxStocked
  <2>2. Batch(t)' = Batch(t)
    BY DEF Batch, OrderOf, NoUnits
  <2>. QED  BY <2>1, <2>2 DEF Missing, LevelsOf, Named, Holds
<1>2. LockTypes' /\ TxStocked'
  BY DEF LockInv, LocksOnly, LockTypes, TxStocked, Staged, Named, OrderOf
<1>3. LockedInOrder'
  BY <1>1 DEF LockInv, LocksOnly, LockedInOrder, Staged, Holds
<1>. QED  BY <1>2, <1>3 DEF LockInv, LocksOnly

\* No step of the store breaks the order of its locks.
LEMMA StoreStepInv == LockInv /\ [StoreNext]_storeVars => LockInv'
<1>. SUFFICES ASSUME LockInv, [StoreNext]_storeVars  PROVE LockInv'
  OBVIOUS
<1>0. ASSUME leveled \subseteq leveled', UNCHANGED orderVars  PROVE OrdersKept'
  BY <1>0 DEF LockInv, orderVars, OrdersKept, OrderTypeOK, FlagsMatchStatus, Placed, Named
<1>1. CASE Transact
  <2>1. ASSUME NEW o \in Orders, FailOrder(o) \/ ShipOrder(o)  PROVE LockInv'
    <3>1. PICK change \in StoreChanges : Apply(o, change)
      BY <2>1 DEF FailOrder, ShipOrder, UpdateOrder, StoreChanges
    <3>2. leveled' = leveled /\ UNCHANGED <<holder, tx>>
      BY <2>1 DEF FailOrder, ShipOrder, UpdateOrder, inventoryVars
    <3>. QED  BY <3>1, <3>2, OrderMoved, KeeperLocks DEF LockInv
  <2>. QED  BY <1>1, <2>1, AdvanceLocks DEF Transact, LockInv
<1>2. CASE KeepStock
  <2>1. PICK p \in Products : StockKeeper(p)
    BY <1>2 DEF KeepStock
  <2>2. leveled \subseteq leveled' /\ UNCHANGED <<orderVars, holder, tx>>
    BY <2>1 DEF StockKeeper, AdjustStock, Restock, EnsureLevel
  <2>. QED  BY <1>0, <2>2, KeeperLocks
<1>3. CASE EditPromotion
  <2>1. leveled' = leveled /\ UNCHANGED <<orderVars, holder, tx>>
    BY <1>3 DEF EditPromotion, EditRead, EditAtOnce, EditWrite, RemovePromotion, AddPromotion, dataVars, inventoryVars
  <2>. QED  BY <1>0, <2>1, KeeperLocks
<1>4. CASE UNCHANGED storeVars
  BY <1>0, <1>4, KeeperLocks DEF storeVars, dataVars, inventoryVars
<1>. QED  BY <1>1, <1>2, <1>3, <1>4 DEF StoreNext

\* In a circle that leaves the coupon out everybody waits for a level or holds none, and
\* whoever is waited for holds a level and waits for a greater one.
LEMMA CirclesNeedCoupon == LockInv => NoStockDeadlock
<1>. SUFFICES ASSUME LockInv, NEW S \in SUBSET Transactions, InDeadlock(S),
                     \A t \in S : \A row \in NextRows(t) : row \notin Customers \cup {Promo}
              PROVE  FALSE
  BY DEF NoStockDeadlock
<1>1. \A t \in S : \E u \in S : Blocked(t, u)
  BY DEF InDeadlock
<1>2. \A t \in S : Staged(t, "order") \/ (Staged(t, "levels") /\ NextLevels(t) # {})
  <2>. SUFFICES ASSUME NEW t \in S  PROVE Staged(t, "order") \/ (Staged(t, "levels") /\ NextLevels(t) # {})
    OBVIOUS
  <2>1. NextRows(t) # {}
    BY <1>1 DEF Blocked
  <2>2. ~Staged(t, "promotion")
    BY DEF NextRows, Staged
  <2>3. ~Staged(t, "usage")
    <3>1. Staged(t, "usage") => CustomerOf[OrderOf(t)] \in Customers /\ NextRows(t) = {CustomerOf[OrderOf(t)]}
      BY CustomerAssumption DEF NextRows, Staged, LockInv, LocksOnly, LockTypes, OrderOf
    <3>. QED  BY <3>1
  <2>. QED  BY <2>1, <2>2, <2>3 DEF NextRows, Staged
<1>3. \A t \in S : \A p \in NextLevels(t) : p \in Missing(t) /\ p \in Products /\ p \in Nat
  BY LeastLevel, ProductsAssumption DEF NextLevels, FirstOf, Missing, LevelsOf, Named
<1>4. \A t, u \in S : Blocked(t, u) => Staged(u, "levels") /\ NextLevels(u) # {}
  <2>. SUFFICES ASSUME NEW t \in S, NEW u \in S, Blocked(t, u), Staged(u, "order")  PROVE FALSE
    BY <1>2
  <2>1. PICK row \in NextRows(t) : Holds(u, row)
    BY DEF Blocked
  <2>2. row \in Rows
    <3>1. CASE Staged(t, "order")
      BY <2>1, <3>1 DEF NextRows, Rows, Staged, OrderOf, LockInv, LocksOnly, LockTypes
    <3>2. CASE Staged(t, "levels")
      BY <1>3, <2>1, <3>2 DEF NextRows, Rows, Staged
    <3>. QED  BY <1>2, <3>1, <3>2
  <2>. QED  BY <2>1, <2>2 DEF LockInv, LocksOnly, LockedInOrder, Staged
<1>. DEFINE Waiting == {t \in S : Staged(t, "levels")}
            Wanted == UNION {NextLevels(t) : t \in Waiting}
<1>5. Wanted \in SUBSET Products /\ Wanted # {}
  <2>1. PICK t \in S : TRUE
    BY DEF InDeadlock
  <2>. QED  BY <1>1, <1>4, <1>3, <2>1
<1>6. PICK p \in Wanted : \A q \in Wanted : q <= p
  BY <1>5, GreatestLevel
<1>7. PICK t \in Waiting : p \in NextLevels(t)
  BY <1>6
<1>8. PICK u \in S : Blocked(t, u)
  BY <1>1, <1>7
<1>9. Holds(u, p) /\ Staged(u, "levels") /\ NextLevels(u) # {}
  <2>1. NextRows(t) = NextLevels(t) /\ NextLevels(t) = {p}
    BY <1>7 DEF NextRows, NextLevels, Staged
  <2>. QED  BY <1>4, <1>7, <1>8, <2>1 DEF Blocked
<1>10. PICK q \in NextLevels(u) : p < q
  BY <1>3, <1>5, <1>6, <1>9 DEF LockInv, LocksOnly, LockedInOrder
<1>11. q \in Wanted /\ q <= p /\ p \in Nat /\ q \in Nat
  BY <1>3, <1>5, <1>6, <1>9, <1>10, ProductsAssumption
<1>. QED  BY <1>10, <1>11

\* Transactions wait for each other in a circle only over the rows of a coupon: were all of
\* them after levels and orders, the greatest level they wait for would be held by one that
\* waits for a greater one, because lockLevels takes levels in the order of their ids.
THEOREM NoStockDeadlockHolds == StoreSpec => []NoStockDeadlock
<1>1. LockInv => NoStockDeadlock
  BY CirclesNeedCoupon
<1>. QED  BY <1>1, StoreInitInv, StoreStepInv, PTL DEF StoreSpec

(****************************************************************************)
(* The promotion.                                                           *)
(****************************************************************************)
\* What a transaction knows of the row of its order, and keeps others from changing: one that
\* has it locked finds the status it applies its transition to; a refund that did not find it
\* knows that the order is over; and flags that were set stay set.
OrderKnown(t) ==
  LET o == OrderOf(t)  op == tx[t].op IN
  /\ tx[t].stage # "idle" =>
       /\ Placed(o)
       /\ op = "refund" => status[o] \notin Payable
       /\ GivesUp(op) /\ tx[t].back # "release" => deducted[o] \/ reversed[o]
  /\ tx[t].stage \in {"levels", "usage", "promotion", "commit"} =>
       (Holds(t, o) /\ CanApply(o, Change(op))) \/ (op = "refund" /\ reversed[o])

\* What it knows at each of its stages.
TxKnows(t) ==
  LET o == OrderOf(t)  stage == tx[t].stage IN
  /\ tx[t].op # "place" => stage # "price" /\ OrderKnown(t)
  /\ tx[t].op = "place" =>
       /\ stage # "order"
       /\ stage # "idle" => status[o] = "none"
       /\ o \in WithCode /\ stage \in {"usage", "commit"} => Holds(t, Promo) /\ exists
       /\ o \in WithCode /\ stage = "commit" => CanCreateUsage(o)
       /\ stage = "commit" => DiscountAllowed(o, tx[t].discount)
       /\ o \notin WithCode /\ stage # "idle" => tx[t].discount = 0 /\ stage \in {"levels", "commit"}

Placing(t) == tx[t].op = "place" /\ tx[t].stage # "idle"

\* One customer places one order at a time.
PlacesApart ==
  \A t, u \in Transactions : Placing(t) /\ Placing(u) /\ CustomerOf[OrderOf(t)] = CustomerOf[OrderOf(u)] => t = u

\* Usages are counted, and there are none of a code that was deleted.
UsagesKept ==
  /\ UsesCounted
  /\ IsFiniteSet(usages)
  /\ ~exists => usages = {}

TxInv == PlacesApart /\ \A t \in Transactions : TxKnows(t)

PromotionInv ==
  /\ TxInv /\ UsagesKept
  /\ discount = [o \in Orders |-> discount[o]] /\ TotalsAddUp
  /\ TermsValid

\* What the parts of a step do to the transactions.
LEMMA StageFields ==
  ASSUME LockInv, NEW t \in Transactions, NEW s, ToStage(t, s)
  PROVE  /\ tx'[t].op = tx[t].op /\ tx'[t].order = tx[t].order /\ tx'[t].discount = tx[t].discount
         /\ tx'[t].stage = s /\ tx'[t].back = tx[t].back
         /\ \A u \in Transactions \ {t} : tx'[u] = tx[u]
BY DEF LockInv, LocksOnly, LockTypes, ToStage

\* A transaction that ends is as one that never began, and frees only its own rows.
LEMMA FinishFields ==
  ASSUME LockInv, NEW t \in Transactions, Finish(t)
  PROVE  /\ tx'[t].op = "place" /\ tx'[t].stage = "idle"
         /\ \A u \in Transactions \ {t} : tx'[u] = tx[u]
         /\ \A u \in Transactions \ {t}, row \in Rows : Holds(u, row) => Holds(u, row)'
BY StoreAssumption DEF LockInv, LocksOnly, LockTypes, Finish, Free, Holds

\* A lock is taken from nobody.
LEMMA TakeKeeps ==
  ASSUME LockInv, NEW t \in Transactions, holder' = holder \/ \E row \in Rows : TakeRow(t, row)
  PROVE  \A u \in Transactions, row \in Rows : Holds(u, row) => Holds(u, row)'
BY StoreAssumption DEF LockInv, LocksOnly, LockTypes, TakeRow, Holds

\* What others may do to an order meanwhile.
Outlived(t, o) ==
  /\ status[o] # "none" => status'[o] # "none"
  /\ status[o] \notin Payable \cup {"none"} => status'[o] \notin Payable
  /\ (deducted[o] => deducted'[o]) /\ (reversed[o] => reversed'[o])
  /\ Holds(t, o) => status'[o] = status[o]

LEMMA OrderKnownKept ==
  ASSUME NEW t, OrderKnown(t), tx'[t] = tx[t], Outlived(t, OrderOf(t)), Holds(t, OrderOf(t)) => Holds(t, OrderOf(t))'
  PROVE  OrderKnown(t)'
<1>1. OrderOf(t)' = OrderOf(t)
  BY DEF OrderOf
<1>2. tx[t].stage # "idle" =>
        /\ status'[OrderOf(t)] # "none"
        /\ tx[t].op = "refund" => status'[OrderOf(t)] \notin Payable
        /\ GivesUp(tx[t].op) /\ tx[t].back # "release" => deducted'[OrderOf(t)] \/ reversed'[OrderOf(t)]
  BY DEF OrderKnown, Outlived, Placed
<1>3. tx[t].stage \in {"levels", "usage", "promotion", "commit"} =>
        \/ Holds(t, OrderOf(t))' /\ status'[OrderOf(t)] \in Change(tx[t].op).from
        \/ tx[t].op = "refund" /\ reversed'[OrderOf(t)]
  BY DEF OrderKnown, Outlived, CanApply
<1>. QED  BY <1>1, <1>2, <1>3 DEF OrderKnown, Placed, Payable, GivesUp, CanApply, Change

\* A transaction that moves on disturbs none of the others, whatever it holds.
LEMMA OthersKnow ==
  ASSUME LockInv, TxInv, NEW t \in Transactions,
         \A u \in Transactions \ {t} : tx'[u] = tx[u],
         \A u \in Transactions \ {t}, row \in Rows : Holds(u, row) => Holds(u, row)',
         UNCHANGED <<exists, usages, orderVars>>
  PROVE  \A u \in Transactions \ {t} : TxKnows(u)'
<1>. SUFFICES ASSUME NEW u \in Transactions \ {t}  PROVE TxKnows(u)'
  OBVIOUS
<1>1. TxKnows(u) /\ tx'[u] = tx[u] /\ OrderOf(u)' = OrderOf(u)
  BY DEF TxInv, OrderOf
<1>2. Promo \in Rows /\ (tx[u].stage # "idle" => OrderOf(u) \in Rows)
  BY DEF Rows, LockInv, LocksOnly, LockTypes, OrderOf
<1>3. Outlived(u, OrderOf(u))
  BY DEF Outlived, orderVars
<1>4. CASE tx[u].op = "place"
  BY <1>1, <1>2, <1>4 DEF TxKnows, CanCreateUsage, DiscountAllowed, orderVars
<1>5. CASE tx[u].op # "place" /\ tx[u].stage # "idle"
  BY <1>1, <1>2, <1>3, <1>5, OrderKnownKept DEF TxKnows
<1>6. CASE tx[u].op # "place" /\ tx[u].stage = "idle"
  BY <1>1, <1>6 DEF TxKnows, OrderKnown
<1>. QED  BY <1>4, <1>5, <1>6

\* Nor does it become a second placement.
LEMMA StillApart ==
  ASSUME TxInv, NEW t \in Transactions,
         \A u \in Transactions \ {t} : tx'[u] = tx[u],
         \/ ~Placing(t)'
         \/ Placing(t) /\ OrderOf(t)' = OrderOf(t)
         \/ \A u \in Transactions : Placing(u) => CustomerOf[OrderOf(u)] # CustomerOf[OrderOf(t)']
  PROVE  PlacesApart'
BY DEF TxInv, PlacesApart, Placing, OrderOf

\* What a step leaves of the data leaves the invariant, if the transactions still know what they should.
LEMMA QuietStep ==
  ASSUME PromotionInv, TxInv', UNCHANGED <<promotionVars, orderVars, discount>>
  PROVE  PromotionInv'
BY DEF PromotionInv, UsagesKept, UsesCounted, TotalsAddUp, TermsValid, promotionVars, orderVars, Placed

\* A transaction that ends without a change keeps the invariant.
LEMMA FinishQuietly ==
  ASSUME LockInv, PromotionInv, NEW t \in Transactions, Finish(t), UNCHANGED <<promotionVars, orderVars, discount>>
  PROVE  PromotionInv'
<1>1. TxKnows(t)'
  BY FinishFields DEF TxKnows
<1>2. \A u \in Transactions \ {t} : TxKnows(u)'
  BY FinishFields, OthersKnow DEF PromotionInv, promotionVars
<1>3. PlacesApart'
  BY FinishFields, StillApart DEF PromotionInv, Placing
<1>. QED  BY <1>1, <1>2, <1>3, QuietStep DEF TxInv

\* So does one that goes on to a stage at which it knows what it should.
LEMMA MoveQuietly ==
  ASSUME LockInv, PromotionInv, NEW t \in Transactions, tx[t].stage # "idle",
         tx'[t].op = tx[t].op, tx'[t].order = tx[t].order,
         \A u \in Transactions \ {t} : tx'[u] = tx[u],
         holder' = holder \/ \E row \in Rows : TakeRow(t, row),
         UNCHANGED <<promotionVars, orderVars, discount>>, TxKnows(t)'
  PROVE  PromotionInv'
<1>1. \A u \in Transactions \ {t} : TxKnows(u)'
  BY TakeKeeps, OthersKnow DEF PromotionInv, promotionVars
<1>2. PlacesApart'
  BY StillApart DEF PromotionInv, Placing, OrderOf
<1>. QED  BY <1>1, <1>2, QuietStep DEF TxInv

\* What a transaction is when it begins.
LEMMA BegunFields ==
  ASSUME LockInv, NEW t \in Transactions, NEW op, NEW stage, NEW o, NEW back, Begins(t, op, stage, o, back)
  PROVE  /\ tx'[t].op = op /\ tx'[t].stage = stage /\ tx'[t].order = o /\ tx'[t].discount = 0 /\ tx'[t].back = back
         /\ \A u \in Transactions \ {t} : tx'[u] = tx[u]
BY DEF LockInv, LocksOnly, LockTypes, Begins, BegunTx

\* What the flags of an order that is not to be given back say.
LEMMA OwedFlags ==
  ASSUME OrdersKept, NEW o \in Orders, NEW op \in Ops, GivesUp(op)
  PROVE  Owed(o, op) # "release" <=> deducted[o] \/ reversed[o]
BY DEF Owed, OrdersKept, OrderTypeOK, FlagsMatchStatus, Dispatched, Fulfilled

\* Nothing is known, and nothing needs to be, at the beginning.
LEMMA BeginKnows ==
  ASSUME LockInv, PromotionInv, NEW t \in Transactions, Begin(t)
  PROVE  PromotionInv'
<1>1. PICK op \in Ops, stage \in {"order", "levels"}, o \in Orders, back \in Returns : Begins(t, op, stage, o, back)
  BY BeginBegins
<1>2. UNCHANGED <<promotionVars, orderVars, discount, holder>>
  BY <1>1 DEF Begins, dataVars
<1>3. /\ tx'[t].op = op /\ tx'[t].stage = stage /\ tx'[t].order = o /\ tx'[t].discount = 0 /\ tx'[t].back = back
      /\ \A u \in Transactions \ {t} : tx'[u] = tx[u]
  BY <1>1, BegunFields
<1>4. TxKnows(t)'
  <2>1. CASE op = "place"
    <3>1. stage = "levels" /\ ~Placed(o)
      BY <1>1, <2>1 DEF Begins
    <3>. QED  BY <1>2, <1>3, <2>1, <3>1 DEF TxKnows, OrderOf, Placed, orderVars
  <2>2. CASE op # "place"
    <3>1. stage = "order" /\ back = Owed(o, op) /\ Placed(o) /\ (op = "refund" => status[o] \notin Payable)
      BY <1>1, <2>2 DEF Begins
    <3>2. GivesUp(op) /\ back # "release" => deducted[o] \/ reversed[o]
      BY <3>1, OwedFlags DEF LockInv
    <3>3. OrderKnown(t)'
      BY <1>2, <1>3, <3>1, <3>2 DEF OrderKnown, OrderOf, Placed, GivesUp, orderVars
    <3>. QED  BY <1>3, <2>2, <3>1, <3>3 DEF TxKnows
  <2>. QED  BY <2>1, <2>2
<1>5. \A u \in Transactions \ {t} : TxKnows(u)'
  BY <1>2, <1>3, OthersKnow DEF PromotionInv, promotionVars, Holds
<1>6. PlacesApart'
  <2>1. CASE op = "place"
    <3>1. \A u \in Transactions : Placing(u) => CustomerOf[OrderOf(u)] # CustomerOf[o]
      BY <1>1, <2>1 DEF Begins, Placing
    <3>. QED  BY <1>3, <3>1, StillApart DEF PromotionInv, OrderOf
  <2>2. CASE op # "place"
    BY <1>3, <2>2, StillApart DEF PromotionInv, Placing
  <2>. QED  BY <2>1, <2>2
<1>. QED  BY <1>2, <1>4, <1>5, <1>6, QuietStep DEF TxInv

\* The statements up to the commit.
LEMMA StatementKnows ==
  ASSUME LockInv, PromotionInv, NEW t \in Transactions,
         \/ LockOrder(t) \/ LockLevel(t) \/ UpdateLevels(t)
         \/ PriceOrder(t) \/ LockPromotion(t) \/ LockUsage(t)
  PROVE  PromotionInv'
<1>0. /\ TxKnows(t) /\ tx[t].stage # "idle" /\ tx[t].order \in Orders
      /\ UNCHANGED <<promotionVars, orderVars, discount>>
  BY DEF PromotionInv, TxInv, LockInv, LocksOnly, LockTypes, LockOrder, LockLevel, UpdateLevels, PriceOrder,
         LockPromotion, LockUsage, Staged, dataVars
<1>1. CASE Finish(t)
  BY <1>0, <1>1, FinishQuietly
<1>2. ASSUME NEW s, ToStage(t, s), holder' = holder \/ \E row \in Rows : TakeRow(t, row), TxKnows(t)'
      PROVE  PromotionInv'
  BY <1>0, <1>2, StageFields, MoveQuietly
<1>10. ASSUME tx'[t].op = tx[t].op, tx'[t].order = tx[t].order, tx'[t].back = tx[t].back, tx[t].op # "place",
             Holds(t, OrderOf(t)) => Holds(t, OrderOf(t))',
             tx[t].stage \in {"levels", "usage", "promotion", "commit"},
             tx'[t].stage \in {"levels", "usage", "promotion", "commit"}
      PROVE  TxKnows(t)'
  <2>1. OrderKnown(t) /\ OrderOf(t)' = OrderOf(t) /\ UNCHANGED <<status, deducted, reversed>>
    BY <1>0, <1>10 DEF TxKnows, OrderOf, orderVars
  <2>2. OrderKnown(t)'
    BY <1>10, <2>1 DEF OrderKnown, Placed, GivesUp, CanApply, Change
  <2>. QED  BY <1>10, <2>2 DEF TxKnows
<1>3. CASE LockOrder(t) /\ ~Finish(t)
  <2>1. /\ (TakeRow(t, OrderOf(t)) \/ UNCHANGED holder) /\ ToStage(t, "levels") /\ tx[t].stage = "order"
        /\ \/ CanApply(OrderOf(t), Change(tx[t].op)) /\ TakeRow(t, OrderOf(t))
           \/ ~CanApply(OrderOf(t), Change(tx[t].op)) /\ tx[t].op = "refund"
    BY <1>3 DEF LockOrder, Staged
  <2>2. OrderOf(t) \in Rows /\ (TakeRow(t, OrderOf(t)) => Holds(t, OrderOf(t))')
    BY <1>0, <2>1, StageFields DEF LockInv, LocksOnly, LockTypes, TakeRow, Holds, OrderOf, Rows
  <2>3. tx[t].op # "place" /\ OrderKnown(t) /\ UNCHANGED <<status, deducted, reversed>>
    BY <1>0, <2>1 DEF TxKnows, orderVars
  <2>4. ~CanApply(OrderOf(t), Change(tx[t].op)) /\ tx[t].op = "refund" => reversed[OrderOf(t)]
    <3>1. tx[t].op = "refund" =>
            /\ OrderOf(t) \in Orders
            /\ status[OrderOf(t)] \in OrderStatuses \ Payable
            /\ status[OrderOf(t)] \in {"cancelled", "expired", "refunded"} => reversed[OrderOf(t)]
      BY <1>0, <2>1, <2>3 DEF OrderKnown, OrderOf, Placed, LockInv, OrdersKept, OrderTypeOK, FlagsMatchStatus
    <3>. QED  BY <3>1 DEF CanApply, Change, ToRefunded, Transition, OrderStatuses, Payable
  <2>5. /\ tx'[t].op = tx[t].op /\ OrderOf(t)' = OrderOf(t) /\ tx'[t].back = tx[t].back /\ tx'[t].stage = "levels"
    BY <2>1, StageFields DEF OrderOf
  <2>6. OrderKnown(t)'
    <3>1. /\ Placed(OrderOf(t)) /\ (tx[t].op = "refund" => status[OrderOf(t)] \notin Payable)
          /\ GivesUp(tx[t].op) /\ tx[t].back # "release" => deducted[OrderOf(t)] \/ reversed[OrderOf(t)]
      BY <2>1, <2>3 DEF OrderKnown
    <3>2. \/ Holds(t, OrderOf(t))' /\ CanApply(OrderOf(t), Change(tx[t].op))
          \/ tx[t].op = "refund" /\ reversed[OrderOf(t)]
      BY <2>1, <2>2, <2>4
    <3>. QED  BY <2>3, <2>5, <3>1, <3>2 DEF OrderKnown, Placed, GivesUp, CanApply, Change
  <2>7. TxKnows(t)'
    BY <2>3, <2>5, <2>6 DEF TxKnows
  <2>. QED  BY <1>2, <2>1, <2>2, <2>7
<1>4. CASE LockLevel(t)
  <2>1. PICK p \in NextLevels(t) : TakeRow(t, p)
    BY <1>4 DEF LockLevel
  <2>2. p \in Rows
    <3>1. p \in LevelsOf(Batch(t))
      BY <2>1, LeastLevel, ProductsAssumption DEF NextLevels, FirstOf, Missing, LevelsOf, Named
    <3>. QED  BY <3>1 DEF LevelsOf, Named, Rows
  <2>3. \A u \in Transactions, row \in Rows : Holds(u, row) => Holds(u, row)'
    BY <2>1, <2>2, TakeKeeps
  <2>4. tx' = tx /\ tx[t].stage = "levels"
    BY <1>4 DEF LockLevel, Staged
  <2>5. TxKnows(t)'
    <3>1. OrderOf(t) \in Rows
      BY <1>0 DEF OrderOf, Rows
    <3>2. CASE tx[t].op # "place"
      BY <1>10, <2>3, <2>4, <3>1, <3>2 DEF OrderOf, Holds
    <3>3. CASE tx[t].op = "place"
      BY <1>0, <2>3, <2>4, <3>1, <3>3 DEF TxKnows, OrderOf, promotionVars, orderVars
    <3>. QED  BY <3>2, <3>3
  <2>. QED  BY <1>0, <2>1, <2>2, <2>4, <2>5, MoveQuietly
<1>5. CASE UpdateLevels(t) /\ ~Finish(t)
  <2>1. ToStage(t, AfterLevels(t)) /\ holder' = holder /\ tx[t].stage = "levels"
    BY <1>5 DEF UpdateLevels, Staged
  <2>2. TxKnows(t)'
    <3>1. tx[t].op # "place" => AfterLevels(t) \in {"usage", "commit"}
      BY DEF AfterLevels
    <3>2. tx[t].op = "place" => AfterLevels(t) = IF OrderOf(t) \in WithCode THEN "price" ELSE "commit"
      BY DEF AfterLevels
    <3>3. /\ tx'[t].op = tx[t].op /\ OrderOf(t)' = OrderOf(t) /\ tx'[t].discount = tx[t].discount
          /\ tx'[t].stage = AfterLevels(t) /\ tx'[t].back = tx[t].back
      BY <2>1, StageFields DEF OrderOf
    <3>4. Subtotal[OrderOf(t)] \in Nat
      BY <1>0, StoreAssumption DEF OrderOf
    <3>5. CASE tx[t].op # "place"
      BY <1>10, <2>1, <3>1, <3>3, <3>5 DEF OrderOf, Holds
    <3>6. CASE tx[t].op = "place"
      BY <1>0, <2>1, <3>2, <3>3, <3>4, <3>6 DEF TxKnows, OrderOf, DiscountAllowed, orderVars
    <3>. QED  BY <3>5, <3>6
  <2>. QED  BY <1>2, <2>1, <2>2
<1>6. CASE PriceOrder(t) /\ ~Finish(t)
  <2>1. PICK d : tx' = [tx EXCEPT ![t].stage = "promotion", ![t].discount = d] /\ holder' = holder /\ tx[t].stage = "price"
    BY <1>6 DEF PriceOrder, Staged
  <2>2. /\ tx'[t].op = tx[t].op /\ tx'[t].order = tx[t].order /\ tx'[t].stage = "promotion"
        /\ \A u \in Transactions \ {t} : tx'[u] = tx[u]
    <3>1. tx[t] = [op |-> tx[t].op, stage |-> tx[t].stage, order |-> tx[t].order,
                     discount |-> tx[t].discount, back |-> tx[t].back]
      BY DEF LockInv, LocksOnly, LockTypes
    <3>2. tx'[t] = [tx[t] EXCEPT !.stage = "promotion", !.discount = d] /\ \A u \in Transactions \ {t} : tx'[u] = tx[u]
      BY <2>1 DEF LockInv, LocksOnly, LockTypes
    <3>. QED  BY <3>1, <3>2
  <2>3. TxKnows(t)'
    BY <1>0, <2>1, <2>2 DEF TxKnows, OrderOf, orderVars
  <2>. QED  BY <1>0, <2>1, <2>2, <2>3, MoveQuietly
<1>7. CASE LockPromotion(t) /\ ~Finish(t)
  <2>1. /\ TakeRow(t, Promo) /\ ToStage(t, IF tx[t].op = "place" THEN "usage" ELSE "commit")
        /\ tx[t].stage = "promotion" /\ (tx[t].op = "place" => exists)
    BY <1>7 DEF LockPromotion, CanApplyPromotion, Staged
  <2>2. Promo \in Rows /\ Holds(t, Promo)' /\ \A row \in Rows : Holds(t, row) => Holds(t, row)'
    <3>1. Promo \in Rows
      BY DEF Rows
    <3>. QED  BY <2>1, <3>1, TakeKeeps DEF LockInv, LocksOnly, LockTypes, TakeRow, Holds
  <2>3. /\ tx'[t].op = tx[t].op /\ OrderOf(t)' = OrderOf(t) /\ tx'[t].discount = tx[t].discount
        /\ tx'[t].stage = (IF tx[t].op = "place" THEN "usage" ELSE "commit") /\ tx'[t].back = tx[t].back
    BY <2>1, StageFields DEF OrderOf
  <2>4. TxKnows(t)'
    <3>1. OrderOf(t) \in Rows
      BY <1>0 DEF OrderOf, Rows
    <3>2. CASE tx[t].op # "place"
      BY <1>10, <2>1, <2>2, <2>3, <3>1, <3>2 DEF OrderOf
    <3>3. CASE tx[t].op = "place"
      BY <1>0, <2>1, <2>2, <2>3, <3>1, <3>3 DEF TxKnows, promotionVars, orderVars
    <3>. QED  BY <3>2, <3>3
  <2>. QED  BY <1>2, <2>1, <2>2, <2>4
<1>8. CASE LockUsage(t) /\ ~Finish(t)
  <2>. DEFINE c == CustomerOf[OrderOf(t)]
  <2>1. PICK s : /\ ToStage(t, s) /\ (holder' = holder \/ TakeRow(t, c)) /\ tx[t].stage = "usage"
                 /\ tx[t].op = "place" => /\ s = "commit" /\ CanCreateUsage(OrderOf(t))
                                          /\ DiscountAllowed(OrderOf(t), tx[t].discount)
                 /\ tx[t].op # "place" => s \in {"promotion", "commit"}
    <3>1. CASE tx[t].op = "place"
      <4>1. /\ CanCreateUsage(OrderOf(t)) /\ DiscountAllowed(OrderOf(t), tx[t].discount)
            /\ TakeRow(t, c) /\ ToStage(t, "commit") /\ tx[t].stage = "usage"
        BY <1>8, <3>1 DEF LockUsage, Staged
      <4>. QED  BY <3>1, <4>1
    <3>2. CASE tx[t].op # "place" /\ OrderOf(t) \in usages
      BY <1>8, <3>2 DEF LockUsage, Staged
    <3>3. CASE tx[t].op # "place" /\ OrderOf(t) \notin usages
      BY <1>8, <3>3 DEF LockUsage, Staged
    <3>. QED  BY <3>1, <3>2, <3>3
  <2>2. c \in Rows /\ OrderOf(t) \in Rows /\ Promo \in Rows
    BY <1>0, CustomerAssumption DEF OrderOf, Rows
  <2>3. \A row \in Rows : Holds(t, row) => Holds(t, row)'
    BY <2>1, <2>2, TakeKeeps
  <2>4. /\ tx'[t].op = tx[t].op /\ OrderOf(t)' = OrderOf(t) /\ tx'[t].discount = tx[t].discount
        /\ tx'[t].stage = s /\ tx'[t].back = tx[t].back
    BY <2>1, StageFields DEF OrderOf
  <2>5. TxKnows(t)'
    <3>1. CASE tx[t].op # "place"
      BY <1>10, <2>1, <2>2, <2>3, <2>4, <3>1 DEF OrderOf
    <3>2. CASE tx[t].op = "place"
      BY <1>0, <2>1, <2>2, <2>3, <2>4, <3>2 DEF TxKnows, CanCreateUsage, DiscountAllowed, promotionVars, orderVars
    <3>. QED  BY <3>1, <3>2
  <2>. QED  BY <1>2, <2>1, <2>2, <2>5
<1>. QED  BY <1>1, <1>3, <1>4, <1>5, <1>6, <1>7, <1>8

\* A change of an order that somebody else has not locked.
LEMMA ChangeOutlived ==
  ASSUME LockInv, leveled' = leveled, NEW o \in Orders, NEW change \in StoreChanges, Apply(o, change),
         NEW u \in Transactions, NEW x \in Orders, ~Holds(u, o)
  PROVE  Outlived(u, x)
<1>1. /\ \A y \in Orders \ {o} : status'[y] = status[y] /\ deducted'[y] = deducted[y] /\ reversed'[y] = reversed[y]
      /\ status[o] # "none" /\ status'[o] \notin Payable \cup {"none"}
      /\ (deducted[o] => deducted'[o]) /\ (reversed[o] => reversed'[o])
  BY OrderMoved DEF LockInv
<1>2. CASE x = o
  BY <1>1, <1>2 DEF Outlived
<1>3. CASE x # o
  BY <1>1, <1>3 DEF Outlived
<1>. QED  BY <1>2, <1>3

\* A placement has an order in hand that is not there, and so is not one that changes.
LEMMA PlacementKnows ==
  ASSUME LockInv, leveled' = leveled, NEW o \in Orders, NEW change \in StoreChanges, Apply(o, change),
         NEW u \in Transactions, tx[u].op = "place", TxKnows(u), tx'[u] = tx[u],
         \A row \in Rows : Holds(u, row) => Holds(u, row)',
         exists' = exists, usages' \subseteq usages
  PROVE  TxKnows(u)'
<1>1. /\ \A y \in Orders \ {o} : status'[y] = status[y]
      /\ status[o] # "none"
  BY OrderMoved DEF LockInv
<1>2. Promo \in Rows /\ OrderOf(u)' = OrderOf(u) /\ (tx[u].stage # "idle" => OrderOf(u) \in Orders)
  BY DEF Rows, LockInv, LocksOnly, LockTypes, OrderOf
<1>. QED  BY <1>1, <1>2 DEF TxKnows, CanCreateUsage, DiscountAllowed

\* A commit changes one order, which nobody else has in hand, and the usage of one customer.
LEMMA OthersKnowCommit ==
  ASSUME LockInv, TxInv, NEW t \in Transactions, Staged(t, "commit"), Finish(t), exists' = exists, leveled' = leveled,
         \/ tx[t].op = "place" /\ CreateOrder(OrderOf(t)) /\ usages' \subseteq usages \cup {OrderOf(t)}
         \/ /\ tx[t].op # "place" /\ usages' \subseteq usages /\ Holds(t, OrderOf(t))
            /\ \E change \in StoreChanges : Apply(OrderOf(t), change)
         \/ tx[t].op # "place" /\ usages' \subseteq usages /\ UNCHANGED orderVars
  PROVE  TxInv'
<1>. DEFINE o == OrderOf(t)
<1>1. /\ tx'[t].op = "place" /\ tx'[t].stage = "idle"
      /\ \A u \in Transactions \ {t} : tx'[u] = tx[u]
      /\ \A u \in Transactions \ {t}, row \in Rows : Holds(u, row) => Holds(u, row)'
  BY FinishFields
<1>2. TxKnows(t)'
  BY <1>1 DEF TxKnows
<1>0. o \in Orders /\ o \in Rows /\ Promo \in Rows
  BY DEF LockInv, LocksOnly, LockTypes, Staged, OrderOf, Rows
<1>3. ASSUME NEW u \in Transactions \ {t}  PROVE TxKnows(u)'
  <2>1. TxKnows(u) /\ tx'[u] = tx[u] /\ OrderOf(u)' = OrderOf(u)
        /\ (tx[u].stage # "idle" => OrderOf(u) \in Rows /\ OrderOf(u) \in Orders)
    BY <1>1 DEF TxInv, Rows, LockInv, LocksOnly, LockTypes, OrderOf
  <2>2. CASE tx[u].stage = "idle"
    BY <2>1, <2>2 DEF TxKnows, OrderKnown
  <2>3. ASSUME tx[u].op # "place", tx[u].stage # "idle", Outlived(u, OrderOf(u))  PROVE TxKnows(u)'
    BY <1>1, <2>1, <2>3, OrderKnownKept DEF TxKnows
  <2>4. CASE tx[u].stage # "idle" /\ CreateOrder(o) /\ tx[t].op = "place" /\ usages' \subseteq usages \cup {o}
    <3>1. status[o] = "none" /\ (\A y \in Orders \ {o} : status'[y] = status[y]) /\ UNCHANGED <<deducted, reversed>>
      BY <2>4 DEF CreateOrder, Placed, LockInv, OrdersKept, OrderTypeOK
    <3>2. CASE tx[u].op # "place"
      <4>1. OrderOf(u) # o
        BY <2>1, <2>4, <3>1, <3>2 DEF TxKnows, OrderKnown, Placed
      <4>2. Outlived(u, OrderOf(u))
        BY <2>1, <2>4, <3>1, <4>1 DEF Outlived
      <4>. QED  BY <2>3, <2>4, <3>2, <4>2
    <3>3. CASE tx[u].op = "place"
      <4>1. OrderOf(u) # o /\ CustomerOf[o] # CustomerOf[OrderOf(u)]
        BY <2>1, <2>4, <3>3 DEF TxInv, PlacesApart, Placing, Staged
      <4>2. CanCreateUsage(OrderOf(u)) => CanCreateUsage(OrderOf(u))'
        BY <2>1, <2>4, <4>1 DEF CanCreateUsage
      <4>. QED  BY <1>0, <1>1, <2>1, <2>4, <3>1, <3>3, <4>1, <4>2 DEF TxKnows, DiscountAllowed
    <3>. QED  BY <3>2, <3>3
  <2>5. CASE tx[u].stage # "idle" /\ usages' \subseteq usages /\ Holds(t, o) /\ \E change \in StoreChanges : Apply(o, change)
    <3>0. PICK change \in StoreChanges : Apply(o, change)
      BY <2>5
    <3>1. ~Holds(u, o)
      BY <2>5 DEF Holds
    <3>2. CASE tx[u].op # "place"
      <4>1. Outlived(u, OrderOf(u))
        BY <1>0, <2>1, <2>5, <3>0, <3>1, ChangeOutlived
      <4>. QED  BY <2>3, <2>5, <3>2, <4>1
    <3>3. CASE tx[u].op = "place"
      BY <1>0, <1>1, <2>1, <2>5, <3>0, <3>3, PlacementKnows
    <3>. QED  BY <3>2, <3>3
  <2>6. CASE tx[u].stage # "idle" /\ usages' \subseteq usages /\ UNCHANGED orderVars
    <3>1. CASE tx[u].op # "place"
      <4>1. Outlived(u, OrderOf(u))
        BY <2>6 DEF Outlived, orderVars
      <4>. QED  BY <2>3, <2>6, <3>1, <4>1
    <3>2. CASE tx[u].op = "place"
      BY <1>0, <1>1, <2>1, <2>6, <3>2 DEF TxKnows, CanCreateUsage, DiscountAllowed, orderVars
    <3>. QED  BY <3>1, <3>2
  <2>. QED  BY <2>2, <2>4, <2>5, <2>6
<1>4. PlacesApart'
  BY <1>1, StillApart DEF Placing
<1>. QED  BY <1>2, <1>3, <1>4 DEF TxInv

\* Orders that took the code and have not given it back.
CodeTakers == {o \in WithCode : Placed(o) /\ ~reversed[o]}

\* The coupon of an order that is given up is given back, and is not given back twice.
LEMMA GivenBack ==
  ASSUME OrdersKept, UsagesKept, NEW o \in Orders, GiveBackCoupon(o),
         OrderTypeOK', status'[o] # "none", reversed'[o],
         \A u \in Orders \ {o} : status'[u] = status[u] /\ reversed'[u] = reversed[u]
  PROVE  UsagesKept' /\ usages' \subseteq usages /\ exists' = exists /\ terms' = terms
<1>0. CodeTakers' = CodeTakers \ {o}
  BY StoreAssumption DEF CodeTakers, Placed
<1>1. CASE o \in WithCode
  <2>1. usages' = usages \ {o} /\ exists' = exists /\ terms' = terms
        /\ usedCount' = (IF o \in usages /\ usedCount > 0 THEN usedCount - 1 ELSE usedCount)
    BY <1>1 DEF GiveBackCoupon, UnusePromotion
  <2>2. usages' = CodeTakers' /\ IsFiniteSet(usages')
    BY <1>0, <2>1, FS_Subset DEF UsagesKept, UsesCounted, CodeTakers
  <2>3. CASE o \in usages
    <3>1. Cardinality(usages') = Cardinality(usages) - 1
      BY <2>1, <2>3, FS_RemoveElement DEF UsagesKept
    <3>2. Cardinality(usages) \in Nat /\ Cardinality(usages) # 0
      BY <2>3, FS_CardinalityType, FS_EmptySet DEF UsagesKept
    <3>3. exists' => usedCount' = Cardinality(usages')
      BY <2>1, <2>3, <3>1, <3>2 DEF UsagesKept, UsesCounted
    <3>. QED  BY <2>1, <2>2, <3>3 DEF UsagesKept, UsesCounted, CodeTakers
  <2>4. CASE o \notin usages
    <3>1. usages' = usages /\ usedCount' = usedCount
      BY <2>1, <2>4
    <3>. QED  BY <2>1, <2>2, <3>1 DEF UsagesKept, UsesCounted, CodeTakers
  <2>. QED  BY <2>3, <2>4
<1>2. CASE o \notin WithCode
  <2>1. UNCHANGED promotionVars
    BY <1>2 DEF GiveBackCoupon
  <2>2. CodeTakers' = CodeTakers
    BY <1>0, <1>2 DEF CodeTakers
  <2>. QED  BY <2>1, <2>2 DEF promotionVars, UsagesKept, UsesCounted, CodeTakers
<1>. QED  BY <1>1, <1>2

\* What a cancellation and a refund do to their order: it is over, and its flag says so.
LEMMA GiveUpOrder ==
  ASSUME LockInv, PromotionInv, NEW t \in Transactions, CommitCancel(t) \/ CommitRefund(t)
  PROVE  LET o == OrderOf(t) IN
         /\ o \in Orders /\ Staged(t, "commit") /\ Finish(t) /\ leveled' = leveled
         /\ GivesUp(tx[t].op) /\ tx[t].op \in {"cancel", "refund"} /\ OrderKnown(t)
         /\ GiveBackUnits(t) /\ GiveBackCoupon(o) /\ discount' = discount
         /\ \/ Holds(t, o) /\ Apply(o, ToCancelled)
            \/ Holds(t, o) /\ Apply(o, ToRefunded)
            \/ UNCHANGED orderVars
         /\ OrderTypeOK' /\ status[o] # "none" /\ status'[o] # "none" /\ reversed'[o]
         /\ \A u \in Orders \ {o} : status'[u] = status[u] /\ deducted'[u] = deducted[u] /\ reversed'[u] = reversed[u]
<1>. DEFINE o == OrderOf(t)
<1>1. /\ Staged(t, "commit") /\ Finish(t) /\ leveled' = leveled /\ GiveBackUnits(t) /\ GiveBackCoupon(o)
      /\ tx[t].op \in {"cancel", "refund"} /\ discount' = discount
  BY DEF CommitCancel, CommitRefund, GiveBackUnits, ReleaseUnits, RestockUnits, ReleaseBatch, RestockBatch
<1>2. o \in Orders /\ GivesUp(tx[t].op) /\ OrderKnown(t) /\ OrdersKept
  BY <1>1 DEF LockInv, LocksOnly, LockTypes, Staged, OrderOf, GivesUp, PromotionInv, TxInv, TxKnows
<1>3. /\ status[o] # "none"
      /\ (Holds(t, o) /\ CanApply(o, Change(tx[t].op))) \/ (tx[t].op = "refund" /\ reversed[o])
  BY <1>1, <1>2 DEF OrderKnown, Placed, Staged
<1>4. ASSUME NEW change \in {ToCancelled, ToRefunded}, Apply(o, change)
      PROVE  /\ OrderTypeOK' /\ status'[o] # "none" /\ reversed'[o]
             /\ \A u \in Orders \ {o} : status'[u] = status[u] /\ deducted'[u] = deducted[u] /\ reversed'[u] = reversed[u]
  <2>1. change \in StoreChanges /\ change.stock = "reversed"
    BY DEF StoreChanges, ToCancelled, ToRefunded, Transition
  <2>. QED  BY <1>1, <1>2, <1>4, <2>1, OrderMoved DEF OrdersKept
<1>5. CASE CommitCancel(t)
  <2>1. Apply(o, ToCancelled) /\ Holds(t, o)
    BY <1>3, <1>5 DEF CommitCancel
  <2>. QED  BY <1>1, <1>2, <1>3, <1>4, <2>1
<1>6. CASE CommitRefund(t) /\ Holds(t, o) /\ CanApply(o, ToRefunded)
  <2>1. Apply(o, ToRefunded)
    BY <1>6 DEF CommitRefund
  <2>. QED  BY <1>1, <1>2, <1>3, <1>4, <1>6, <2>1
<1>7. CASE CommitRefund(t) /\ ~(Holds(t, o) /\ CanApply(o, ToRefunded))
  <2>1. tx[t].op = "refund" /\ UNCHANGED orderVars
    BY <1>7 DEF CommitRefund
  <2>2. reversed[o]
    BY <1>3, <1>7, <2>1 DEF Change
  <2>. QED  BY <1>1, <1>2, <1>3, <2>1, <2>2 DEF orderVars, OrdersKept, OrderTypeOK
<1>. QED  BY <1>5, <1>6, <1>7

\* A commit writes what the transaction knows to be so.
LEMMA CommitKnows ==
  ASSUME LockInv, PromotionInv, NEW t \in Transactions,
         CommitPlace(t) \/ CommitPay(t) \/ CommitCancel(t) \/ CommitRefund(t)
  PROVE  PromotionInv'
<1>. DEFINE o == OrderOf(t)
<1>1. /\ Staged(t, "commit") /\ Finish(t) /\ TxKnows(t) /\ o \in Orders /\ leveled' = leveled
      /\ OrdersKept
  BY DEF CommitPlace, CommitPay, CommitCancel, CommitRefund, PromotionInv, TxInv, LockInv, LocksOnly, LockTypes,
         OrderOf, Staged, GiveBackUnits, ReleaseUnits, RestockUnits, ReserveBatch, DeductBatch, ReleaseBatch,
         RestockBatch
<1>2. CASE CommitPlace(t)
  <2>1. /\ tx[t].op = "place" /\ DiscountAllowed(o, tx[t].discount) /\ CreateOrder(o)
        /\ o \in WithCode => exists /\ CanCreateUsage(o)
        /\ discount' = [discount EXCEPT ![o] = tx[t].discount]
    BY <1>1, <1>2 DEF CommitPlace, TxKnows, Staged
  <2>2. /\ \A u \in Orders \ {o} : status'[u] = status[u]
        /\ status[o] = "none" /\ status'[o] # "none" /\ ~reversed[o] /\ reversed' = reversed
    BY <1>1, <2>1, OrderCreated DEF LockInv, LocksOnly, TxStocked, Staged, OrderOf
  <2>3. terms' = terms /\ exists' = exists
    BY <1>2 DEF CommitPlace, UsePromotion, promotionVars
  <2>4. CASE o \in WithCode
    <3>1. o \notin usages /\ usages' = usages \cup {o} /\ usedCount' = usedCount + 1
      BY <1>2, <2>2, <2>4 DEF CommitPlace, UsePromotion, PromotionInv, UsagesKept, UsesCounted, Placed
    <3>2. IsFiniteSet(usages') /\ Cardinality(usages') = Cardinality(usages) + 1
      BY <3>1, FS_AddElement DEF PromotionInv, UsagesKept
    <3>3. usages' = CodeTakers'
      BY <1>1, <2>2, <2>4, <3>1, StoreAssumption DEF PromotionInv, UsagesKept, UsesCounted, CodeTakers, Placed
    <3>4. \A x, y \in usages' : CustomerOf[x] = CustomerOf[y] => x = y
      BY <2>1, <2>4, <3>1 DEF CanCreateUsage, PromotionInv, UsagesKept, UsesCounted
    <3>5. UsagesKept'
      BY <2>1, <2>3, <2>4, <3>1, <3>2, <3>3, <3>4 DEF PromotionInv, UsagesKept, UsesCounted, CodeTakers
    <3>. QED  BY <1>1, <2>1, <2>3, <3>1, <3>5, OthersKnowCommit
              DEF PromotionInv, TotalsAddUp, TermsValid, DiscountAllowed
  <2>5. CASE o \notin WithCode
    <3>1. UNCHANGED promotionVars
      BY <1>2, <2>5 DEF CommitPlace
    <3>2. CodeTakers' = CodeTakers
      BY <2>2, <2>5, StoreAssumption DEF CodeTakers, Placed
    <3>3. UsagesKept'
      BY <3>1, <3>2 DEF promotionVars, PromotionInv, UsagesKept, UsesCounted, CodeTakers
    <3>. QED  BY <1>1, <2>1, <3>1, <3>3, OthersKnowCommit
              DEF promotionVars, PromotionInv, TotalsAddUp, TermsValid, DiscountAllowed
  <2>. QED  BY <2>4, <2>5
<1>3. CASE CommitPay(t)
  <2>1. tx[t].op = "pay" /\ Apply(o, ToPaid) /\ UNCHANGED <<promotionVars, discount>> /\ Holds(t, o)
    BY <1>1, <1>3 DEF CommitPay, TxKnows, OrderKnown, Staged
  <2>2. ToPaid \in StoreChanges /\ ToPaid.stock = "deducted"
    BY DEF StoreChanges, ToPaid, Transition
  <2>3. /\ \A u \in Orders \ {o} : status'[u] = status[u] /\ reversed'[u] = reversed[u]
        /\ status[o] # "none" /\ status'[o] # "none" /\ reversed'[o] = reversed[o]
    <3>1. reversed[o] \in BOOLEAN
      BY <1>1 DEF OrdersKept, OrderTypeOK
    <3>. QED  BY <1>1, <2>1, <2>2, <3>1, OrderMoved
  <2>4. CodeTakers' = CodeTakers
    BY <2>3, StoreAssumption DEF CodeTakers, Placed
  <2>5. UsagesKept'
    BY <2>1, <2>4 DEF promotionVars, PromotionInv, UsagesKept, UsesCounted, CodeTakers
  <2>. QED  BY <1>1, <2>1, <2>2, <2>5, OthersKnowCommit DEF promotionVars, PromotionInv, TotalsAddUp, TermsValid
<1>4. CASE CommitCancel(t) \/ CommitRefund(t)
  <2>1. /\ tx[t].op # "place" /\ GiveBackCoupon(o) /\ discount' = discount
        /\ OrderTypeOK' /\ status'[o] # "none" /\ reversed'[o]
        /\ \A u \in Orders \ {o} : status'[u] = status[u] /\ reversed'[u] = reversed[u]
        /\ (Holds(t, o) /\ \E change \in StoreChanges : Apply(o, change)) \/ UNCHANGED orderVars
    BY <1>4, GiveUpOrder DEF StoreChanges
  <2>2. UsagesKept' /\ usages' \subseteq usages /\ exists' = exists /\ terms' = terms
    BY <1>1, <2>1, GivenBack DEF PromotionInv
  <2>. QED  BY <1>1, <2>1, <2>2, OthersKnowCommit DEF PromotionInv, TotalsAddUp, TermsValid
<1>. QED  BY <1>2, <1>3, <1>4

\* An order that fails, or whose parcel leaves, is one that nobody has locked.
LEMMA UpdateKnows ==
  ASSUME LockInv, PromotionInv, NEW o \in Orders, FailOrder(o) \/ ShipOrder(o)
  PROVE  PromotionInv'
<1>1. PICK change \in StoreChanges : Apply(o, change) /\ change.stock = "unchanged"
  BY DEF FailOrder, ShipOrder, UpdateOrder, StoreChanges, ToShipped, ToFulfillmentFailedCompensating, Transition
<1>2. holder[o] = NoTx /\ leveled' = leveled /\ UNCHANGED <<promotionVars, discount, holder, tx>>
  BY DEF FailOrder, ShipOrder, UpdateOrder, inventoryVars
<1>3. \A u \in Transactions : tx'[u] = tx[u] /\ ~Holds(u, o) /\ \A row \in Rows : Holds(u, row) => Holds(u, row)'
  BY <1>2, StoreAssumption DEF Holds
<1>4. ASSUME NEW u \in Transactions  PROVE TxKnows(u)'
  <2>1. TxKnows(u) /\ (tx[u].stage # "idle" => OrderOf(u) \in Orders)
    BY DEF PromotionInv, TxInv, LockInv, LocksOnly, LockTypes, OrderOf
  <2>2. CASE tx[u].op = "place"
    BY <1>1, <1>2, <1>3, <2>1, <2>2, PlacementKnows DEF promotionVars
  <2>3. CASE tx[u].op # "place" /\ tx[u].stage # "idle"
    <3>1. Outlived(u, OrderOf(u))
      BY <1>1, <1>2, <1>3, <2>1, <2>3, ChangeOutlived
    <3>2. OrderOf(u) \in Rows /\ OrderOf(u)' = OrderOf(u)
      BY <1>3, <2>1, <2>3 DEF Rows, OrderOf
    <3>. QED  BY <1>3, <2>1, <2>3, <3>1, <3>2, OrderKnownKept DEF TxKnows
  <2>4. CASE tx[u].op # "place" /\ tx[u].stage = "idle"
    BY <1>3, <2>1, <2>4 DEF TxKnows, OrderKnown
  <2>. QED  BY <2>2, <2>3, <2>4
<1>5. PlacesApart'
  BY <1>2 DEF PromotionInv, TxInv, PlacesApart, Placing, OrderOf
<1>6. CodeTakers' = CodeTakers
  <2>1. /\ \A u \in Orders \ {o} : status'[u] = status[u] /\ reversed'[u] = reversed[u]
        /\ status[o] # "none" /\ status'[o] # "none" /\ reversed'[o] = reversed[o]
    <3>1. reversed[o] \in BOOLEAN
      BY DEF LockInv, OrdersKept, OrderTypeOK
    <3>. QED  BY <1>1, <1>2, <3>1, OrderMoved DEF LockInv
  <2>. QED  BY <2>1, StoreAssumption DEF CodeTakers, Placed
<1>7. UsagesKept'
  BY <1>2, <1>6 DEF promotionVars, PromotionInv, UsagesKept, UsesCounted, CodeTakers
<1>. QED  BY <1>2, <1>4, <1>5, <1>7 DEF PromotionInv, TxInv, promotionVars, TotalsAddUp, TermsValid

\* The administrator of the promotion waits for its row.
LEMMA EditKnows ==
  ASSUME LockInv, PromotionInv, EditPromotion
  PROVE  PromotionInv'
<1>1. UNCHANGED <<orderVars, discount, holder, tx, usages>>
  BY DEF EditPromotion, EditRead, EditAtOnce, EditWrite, RemovePromotion, AddPromotion, UpdatePromotion,
         DeletePromotion, InsertPromotion, dataVars, promotionVars
<1>2. ValidTerms(terms')
  BY DEF EditPromotion, EditRead, EditAtOnce, EditWrite, RemovePromotion, AddPromotion, UpdatePromotion,
         DeletePromotion, InsertPromotion, dataVars, promotionVars, PromotionInv, TermsValid
<1>3. \/ UNCHANGED <<exists, usedCount>>
      \/ exists' = FALSE /\ usages = {} /\ holder[Promo] = NoTx
      \/ exists' = TRUE /\ ~exists /\ usedCount' = 0
  BY DEF EditPromotion, EditRead, EditAtOnce, EditWrite, RemovePromotion, AddPromotion, UpdatePromotion,
         DeletePromotion, InsertPromotion, dataVars, promotionVars
<1>4. UsagesKept'
  BY <1>1, <1>3, FS_EmptySet DEF PromotionInv, UsagesKept, UsesCounted, orderVars, Placed
<1>5. \A t \in Transactions : TxKnows(t)'
  BY <1>1, <1>3, StoreAssumption
     DEF PromotionInv, TxInv, TxKnows, OrderKnown, Holds, OrderOf, CanApply, Change, GivesUp, Placed, orderVars,
         CanCreateUsage, DiscountAllowed
<1>6. PlacesApart'
  BY <1>1 DEF PromotionInv, TxInv, PlacesApart, Placing, OrderOf
<1>. QED  BY <1>1, <1>2, <1>4, <1>5, <1>6 DEF PromotionInv, TxInv, TotalsAddUp, TermsValid

\* What neither the data nor the transactions show keeps the invariant.
LEMMA SameTransactions ==
  ASSUME PromotionInv, UNCHANGED <<promotionVars, orderVars, discount, holder, tx>>
  PROVE  PromotionInv'
<1>1. TxInv'
  BY DEF PromotionInv, TxInv, TxKnows, OrderKnown, PlacesApart, Placing, Holds, OrderOf, CanApply, Change, GivesUp,
         Placed, orderVars, CanCreateUsage, DiscountAllowed, promotionVars
<1>. QED  BY <1>1, QuietStep

\* No step of the store breaks it.
LEMMA PromotionStepInv == LockInv /\ PromotionInv /\ [StoreNext]_storeVars => PromotionInv'
<1>. SUFFICES ASSUME LockInv, PromotionInv, [StoreNext]_storeVars  PROVE PromotionInv'
  OBVIOUS
<1>1. CASE Transact
  <2>1. ASSUME NEW t \in Transactions, DeadlockVictim(t) \/ Fails(t)  PROVE PromotionInv'
    BY <2>1, FinishQuietly DEF DeadlockVictim, Fails, Rollback, dataVars
  <2>2. ASSUME NEW t \in Transactions, Begin(t) \/ Advance(t)  PROVE PromotionInv'
    BY <2>2, BeginKnows, StatementKnows, CommitKnows DEF Advance
  <2>. QED  BY <1>1, <2>1, <2>2, UpdateKnows DEF Transact
<1>2. CASE KeepStock
  BY <1>2, SameTransactions DEF KeepStock, StockKeeper
<1>3. CASE EditPromotion
  BY <1>3, EditKnows
<1>4. CASE UNCHANGED storeVars
  BY <1>4, SameTransactions DEF storeVars, dataVars
<1>. QED  BY <1>1, <1>2, <1>3, <1>4 DEF StoreNext

\* At first the code has not been used.
LEMMA PromotionInitInv == StoreInit => PromotionInv
<1>. SUFFICES ASSUME StoreInit  PROVE PromotionInv
  OBVIOUS
<1>1. \A t \in Transactions : tx[t].op = "place" /\ tx[t].stage = "idle"
  BY DEF StoreInit, Free
<1>2. TxInv
  BY <1>1 DEF TxInv, TxKnows, PlacesApart, Placing
<1>3. UsagesKept
  BY FS_EmptySet, StoreAssumption DEF StoreInit, PromotionInit, OrderInit, UsagesKept, UsesCounted, Placed
<1>4. TotalsAddUp
  BY StoreAssumption DEF StoreInit, TotalsAddUp
<1>. QED  BY <1>2, <1>3, <1>4 DEF StoreInit, PromotionInit, PromotionInv, TermsValid

\* What customers and administrators write to the row of a promotion adds up: the transactions
\* that take the code hold its row from the check on, and the one that places an order is
\* the only one of its customer.
THEOREM PromotionsAddUpHolds == StoreSpec => []PromotionsAddUp
<1>1. PromotionInv => PromotionsAddUp
  BY DEF PromotionInv, UsagesKept, PromotionsAddUp
<1>. QED  BY <1>1, StoreInitInv, StoreStepInv, PromotionInitInv, PromotionStepInv, PTL DEF StoreSpec

(****************************************************************************)
(* The units of the stock.                                                  *)
(****************************************************************************)
\* From the batch statement on, a transaction holds every level it names, and a
\* placement has found the units it takes, a payment those it sells.
TxMatched(t) ==
  tx[t].stage \in {"price", "promotion", "usage", "commit"} =>
    /\ Missing(t) = {}
    /\ tx[t].op = "place" => ReserveMatches(Batch(t))
    /\ tx[t].op = "pay" => ReservedMatches(Batch(t))

\* Nothing is reserved of a product that has no level.
LevelsFirst == \A p \in Products \ leveled : reserved[p] = 0

CountsOK == LevelsTypeOK /\ strayed \in [Products -> Nat] /\ left \in [Products -> Nat] /\ LevelsFirst

StockInv == CountsOK /\ ReservedIsHeld /\ \A t \in Transactions : TxMatched(t)

Holders == {o \in Orders : Holding(o)}

\* What the orders hold of a product is a number of units, and no less than what one of
\* them holds.
LEMMA HeldUnitsNat ==
  ASSUME NEW p \in Products
  PROVE  /\ HeldUnits(p) \in Nat
         /\ \A o \in Holders : Basket[o][p] <= HeldUnits(p)
<1>. DEFINE f == [o \in Orders |-> Basket[o][p]]
<1>1. IsFiniteSet(Holders) /\ Holders \subseteq Orders
  BY StoreAssumption, FS_Subset DEF Holders
<1>2. \A o \in Orders : f[o] = Basket[o][p] /\ f[o] \in Nat /\ f[o] \in Int
  BY StoreAssumption
<1>3. HeldUnits(p) = SumFunctionOnSet(f, Holders)
  BY DEF HeldUnits, Holders
<1>. HIDE DEF f
<1>4. SumFunctionOnSet(f, Holders) \in Nat
  BY <1>1, <1>2, SumNat
<1>5. ASSUME NEW o \in Holders  PROVE Basket[o][p] <= HeldUnits(p)
  <2>1. IsFiniteSet(Holders \ {o})
    BY <1>1, FS_RemoveElement
  <2>2. SumFunctionOnSet(f, Holders \ {o}) \in Nat
    BY <1>1, <1>2, <2>1, SumNat
  <2>3. SumFunctionOnSet(f, Holders) = f[o] + SumFunctionOnSet(f, Holders \ {o})
    BY <1>1, <1>2, SumRemove
  <2>. QED  BY <1>1, <1>2, <1>3, <2>2, <2>3
<1>. QED  BY <1>3, <1>4, <1>5

\* An order that comes to hold its units adds its batch to what is held, one that is paid or
\* given up takes it out again, and what befalls the others is nothing to the stock.
LEMMA HeldUnitsChange ==
  ASSUME NEW o \in Orders, \A u \in Orders \ {o} : Holding(u)' <=> Holding(u), NEW p \in Products
  PROVE  HeldUnits(p)' = HeldUnits(p) - (IF Holding(o) THEN Basket[o][p] ELSE 0)
                                      + (IF Holding(o)' THEN Basket[o][p] ELSE 0)
<1>. DEFINE f == [u \in Orders |-> Basket[u][p]]
            Others == Holders \ {o}
<1>1. IsFiniteSet(Holders) /\ IsFiniteSet(Others) /\ Others \subseteq Orders /\ o \notin Others
  BY StoreAssumption, FS_Subset DEF Holders
<1>2. \A u \in Orders : f[u] = Basket[u][p] /\ f[u] \in Nat /\ f[u] \in Int
  <2>1. \A u \in Orders : Basket[u] \in [Products -> Nat]
    BY StoreAssumption
  <2>. QED  BY <2>1
<1>3. HeldUnits(p) = SumFunctionOnSet(f, Holders) /\ HeldUnits(p)' = SumFunctionOnSet(f, Holders')
  BY DEF HeldUnits, Holders
<1>4. Holders = (IF Holding(o) THEN Others \cup {o} ELSE Others)
  BY DEF Holders
<1>5. Holders' = (IF Holding(o)' THEN Others \cup {o} ELSE Others)
  BY DEF Holders
<1>. HIDE DEF f, Others
<1>6. SumFunctionOnSet(f, Others \cup {o}) = SumFunctionOnSet(f, Others) + f[o]
  BY <1>1, <1>2, SumAdd
<1>7. SumFunctionOnSet(f, Others) \in Nat
  BY <1>1, <1>2, SumNat
<1>. QED  BY <1>2, <1>3, <1>4, <1>5, <1>6, <1>7

\* Nothing changes for the stock while every order holds what it held.
LEMMA HeldUnitsSame ==
  ASSUME \A o \in Orders : Holding(o)' <=> Holding(o)
  PROVE  \A p \in Products : HeldUnits(p)' = HeldUnits(p)
<1>1. {o \in Orders : Holding(o)}' = {o \in Orders : Holding(o)}
  OBVIOUS
<1>. QED  BY <1>1 DEF HeldUnits

\* What a transaction found under its locks stays as it is while it holds them.
LEMMA MatchedKept ==
  ASSUME LockInv, NEW t \in Transactions, TxMatched(t), tx'[t] = tx[t],
         \A row \in Rows : Holds(t, row) => Holds(t, row)',
         leveled \subseteq leveled',
         \A p \in Named(Batch(t)) : Holds(t, p) => available'[p] = available[p] /\ reserved'[p] = reserved[p]
  PROVE  TxMatched(t)'
<1>. SUFFICES ASSUME tx[t].stage \in {"price", "promotion", "usage", "commit"}
              PROVE  /\ Missing(t)' = {}
                     /\ tx[t].op = "place" => ReserveMatches(Batch(t))'
                     /\ tx[t].op = "pay" => ReservedMatches(Batch(t))'
  BY DEF TxMatched
<1>1. Batch(t)' = Batch(t) /\ Named(Batch(t))' = Named(Batch(t))
  BY DEF Batch, OrderOf, Named, NoUnits
<1>2. Named(Batch(t)) \subseteq leveled /\ Named(Batch(t)) \subseteq Rows
  BY BatchNamed DEF Named, Rows, LockInv, LocksOnly, TxStocked, Staged
<1>3. \A p \in Named(Batch(t)) : Holds(t, p)
  BY <1>2 DEF TxMatched, Missing, LevelsOf
<1>4. Missing(t)' = {}
  BY <1>1, <1>2, <1>3 DEF Missing, LevelsOf
<1>5. tx[t].op = "place" => ReserveMatches(Batch(t))'
  BY <1>1, <1>2, <1>3 DEF TxMatched, ReserveMatches, Staged
<1>6. tx[t].op = "pay" => ReservedMatches(Batch(t))'
  BY <1>1, <1>2, <1>3 DEF TxMatched, ReservedMatches, Staged
<1>. QED  BY <1>4, <1>5, <1>6

\* The levels unchanged and the orders holding what they held, only the transactions can be wrong.
LEMMA StockQuiet ==
  ASSUME StockInv, UNCHANGED <<inventoryVars, historyVars>>, \A o \in Orders : Holding(o)' <=> Holding(o),
         \A t \in Transactions : TxMatched(t)'
  PROVE  StockInv'
<1>1. CountsOK'
  BY DEF StockInv, CountsOK, LevelsTypeOK, LevelsFirst, inventoryVars, historyVars
<1>2. \A p \in Products : HeldUnits(p)' = HeldUnits(p)
  BY HeldUnitsSame
<1>. QED  BY <1>1, <1>2 DEF StockInv, ReservedIsHeld, inventoryVars, historyVars

\* What a statement of a transaction leaves alone.
stockVars == <<inventoryVars, historyVars, orderVars>>

LEMMA SameHolders == UNCHANGED stockVars => \A o \in Orders : Holding(o)' <=> Holding(o)
BY DEF stockVars, orderVars, Holding, Placed

\* A transaction that ends without a change.
LEMMA StockFinish ==
  ASSUME LockInv, StockInv, NEW t \in Transactions, Finish(t), UNCHANGED stockVars
  PROVE  StockInv'
<1>1. TxMatched(t)'
  BY FinishFields DEF TxMatched
<1>2. \A u \in Transactions \ {t} : TxMatched(u)'
  BY FinishFields, MatchedKept DEF StockInv, stockVars, inventoryVars
<1>. QED  BY <1>1, <1>2, SameHolders, StockQuiet DEF stockVars

\* One that goes on, taking a row or none.
LEMMA StockMove ==
  ASSUME LockInv, StockInv, NEW t \in Transactions,
         \A u \in Transactions \ {t} : tx'[u] = tx[u],
         holder' = holder \/ \E row \in Rows : TakeRow(t, row),
         UNCHANGED stockVars, TxMatched(t)'
  PROVE  StockInv'
<1>1. \A u \in Transactions \ {t} : TxMatched(u)'
  BY TakeKeeps, MatchedKept DEF StockInv, stockVars, inventoryVars
<1>. QED  BY <1>1, SameHolders, StockQuiet DEF stockVars

\* The statements up to the commit.
LEMMA StatementStock ==
  ASSUME LockInv, PromotionInv, StockInv, NEW t \in Transactions,
         \/ LockOrder(t) \/ LockLevel(t) \/ UpdateLevels(t)
         \/ PriceOrder(t) \/ LockPromotion(t) \/ LockUsage(t)
  PROVE  StockInv'
<1>0. UNCHANGED stockVars /\ tx[t].stage # "idle" /\ TxMatched(t) /\ TxKnows(t)
      /\ OrderOf(t) \in Orders
  BY DEF LockOrder, LockLevel, UpdateLevels, PriceOrder, LockPromotion, LockUsage, Staged, dataVars, stockVars, StockInv,
         PromotionInv, TxInv, LockInv, LocksOnly, LockTypes, OrderOf
<1>1. CASE Finish(t)
  BY <1>0, <1>1, StockFinish
<1>2. ASSUME NEW s, ToStage(t, s), holder' = holder \/ \E row \in Rows : TakeRow(t, row), TxMatched(t)'
      PROVE  StockInv'
  BY <1>0, <1>2, StageFields, StockMove
<1>3. ASSUME tx[t].stage \in {"price", "promotion", "usage"}, tx'[t].op = tx[t].op, tx'[t].order = tx[t].order,
             tx'[t].back = tx[t].back, holder' = holder \/ \E row \in Rows : TakeRow(t, row)
      PROVE  TxMatched(t)'
  <2>1. \A p \in Products : Holds(t, p) => Holds(t, p)'
    BY <1>3, TakeKeeps DEF Rows
  <2>2. Batch(t)' = Batch(t) /\ leveled' = leveled /\ available' = available /\ reserved' = reserved
    BY <1>0, <1>3 DEF Batch, NoUnits, OrderOf, stockVars, inventoryVars
  <2>. QED  BY <1>0, <1>3, <2>1, <2>2 DEF TxMatched, Missing, LevelsOf, Named, ReserveMatches, ReservedMatches
<1>4. CASE LockOrder(t) /\ ~Finish(t)
  <2>1. (TakeRow(t, OrderOf(t)) \/ UNCHANGED holder) /\ ToStage(t, "levels")
    BY <1>4 DEF LockOrder
  <2>2. OrderOf(t) \in Rows /\ TxMatched(t)'
    BY <1>0, <2>1, StageFields DEF Rows, TxMatched
  <2>. QED  BY <1>2, <2>1, <2>2
<1>5. CASE LockLevel(t)
  <2>1. PICK p \in NextLevels(t) : TakeRow(t, p)
    BY <1>5 DEF LockLevel
  <2>2. p \in Rows
    <3>1. Missing(t) \in SUBSET Products
      BY DEF Missing, LevelsOf, Named
    <3>. QED  BY <2>1, <3>1, LeastLevel DEF NextLevels, FirstOf, Rows
  <2>3. tx' = tx /\ TxMatched(t)'
    BY <1>5 DEF LockLevel, Staged, TxMatched
  <2>. QED  BY <1>0, <2>1, <2>2, <2>3, StockMove
<1>6. CASE UpdateLevels(t) /\ ~Finish(t)
  <2>1. ToStage(t, AfterLevels(t)) /\ holder' = holder /\ Missing(t) = {} /\ Matches(t)
    BY <1>6 DEF UpdateLevels
  <2>2. tx'[t].op = tx[t].op /\ Batch(t)' = Batch(t) /\ leveled' = leveled /\ available' = available
        /\ reserved' = reserved
    BY <1>0, <2>1, StageFields DEF Batch, NoUnits, OrderOf, stockVars, inventoryVars
  <2>3. (tx[t].op = "place" => ReserveMatches(Batch(t))) /\ (tx[t].op = "pay" => ReservedMatches(Batch(t)))
    BY <2>1 DEF Matches
  <2>4. TxMatched(t)'
    BY <2>1, <2>2, <2>3 DEF TxMatched, Missing, LevelsOf, Named, ReserveMatches, ReservedMatches, Holds
  <2>. QED  BY <1>2, <2>1, <2>4
<1>7. CASE PriceOrder(t) /\ ~Finish(t)
  <2>1. PICK d : tx' = [tx EXCEPT ![t].stage = "promotion", ![t].discount = d] /\ holder' = holder /\ tx[t].stage = "price"
    BY <1>7 DEF PriceOrder, Staged
  <2>2. /\ tx'[t].op = tx[t].op /\ tx'[t].order = tx[t].order /\ tx'[t].back = tx[t].back
        /\ \A u \in Transactions \ {t} : tx'[u] = tx[u]
    <3>1. tx[t] = [op |-> tx[t].op, stage |-> tx[t].stage, order |-> tx[t].order,
                     discount |-> tx[t].discount, back |-> tx[t].back]
      BY DEF LockInv, LocksOnly, LockTypes
    <3>2. tx'[t] = [tx[t] EXCEPT !.stage = "promotion", !.discount = d] /\ \A u \in Transactions \ {t} : tx'[u] = tx[u]
      BY <2>1 DEF LockInv, LocksOnly, LockTypes
    <3>. QED  BY <3>1, <3>2
  <2>. QED  BY <1>0, <1>3, <2>1, <2>2, StockMove
<1>8. CASE LockPromotion(t) /\ ~Finish(t)
  <2>1. PICK s : TakeRow(t, Promo) /\ ToStage(t, s) /\ tx[t].stage = "promotion"
    BY <1>8 DEF LockPromotion, Staged
  <2>2. Promo \in Rows
    BY DEF Rows
  <2>. QED  BY <1>2, <1>3, <2>1, <2>2, StageFields
<1>9. CASE LockUsage(t) /\ ~Finish(t)
  <2>1. PICK s : ToStage(t, s) /\ (holder' = holder \/ TakeRow(t, CustomerOf[OrderOf(t)])) /\ tx[t].stage = "usage"
    BY <1>9 DEF LockUsage, Staged
  <2>2. CustomerOf[OrderOf(t)] \in Rows
    BY <1>0, CustomerAssumption DEF Rows
  <2>. QED  BY <1>2, <1>3, <2>1, <2>2, StageFields
<1>. QED  BY <1>1, <1>4, <1>5, <1>6, <1>7, <1>8, <1>9

\* A placement reserves the units that it found, and holds them.
LEMMA PlaceStock ==
  ASSUME LockInv, PromotionInv, StockInv, NEW t \in Transactions, CommitPlace(t)
  PROVE  CountsOK' /\ ReservedIsHeld'
<1>. DEFINE o == OrderOf(t)
            b == Basket[o]
<1>1. /\ Staged(t, "commit") /\ tx[t].op = "place" /\ CreateOrder(o) /\ ReserveBatch(b) /\ ReserveMatches(b)
      /\ UNCHANGED historyVars
  BY DEF CommitPlace, StockInv, TxMatched, Staged, Batch, GivesUp
<1>2. o \in Orders /\ b \in [Products -> Nat] /\ Named(b) \subseteq leveled /\ leveled' = leveled
  BY <1>1, StoreAssumption DEF LockInv, LocksOnly, LockTypes, TxStocked, Staged, OrderOf, ReserveBatch
<1>3. \A p \in Products : /\ available[p] \in Nat /\ reserved[p] \in Nat /\ strayed[p] \in Nat /\ left[p] \in Nat
                          /\ HeldUnits(p) \in Nat /\ reserved[p] + strayed[p] = HeldUnits(p) + left[p]
  BY HeldUnitsNat DEF StockInv, CountsOK, LevelsTypeOK, ReservedIsHeld
<1>4. \A p \in Products : available[p] >= b[p]
  BY <1>1, <1>2, <1>3 DEF ReserveMatches, Named
<1>5. \A p \in Products : HeldUnits(p)' = HeldUnits(p) + b[p]
  <2>1. /\ status[o] = "none" /\ status'[o] # "none" /\ ~deducted'[o] /\ ~reversed'[o]
        /\ \A u \in Orders \ {o} : status'[u] = status[u] /\ deducted'[u] = deducted[u] /\ reversed'[u] = reversed[u]
    BY <1>1, <1>2, OrderCreated DEF LockInv
  <2>2. ~Holding(o) /\ (status'[o] # "none" /\ ~deducted'[o] /\ ~reversed'[o])
        /\ \A u \in Orders \ {o} : Holding(u)' <=> Holding(u)
    BY <2>1 DEF Holding, Placed
  <2>3. PICK x \in Orders : x = o
    BY <1>2
  <2>. SUFFICES ASSUME NEW p \in Products  PROVE HeldUnits(p)' = HeldUnits(p) + b[p]
    OBVIOUS
  <2>4. ~Holding(x) /\ Holding(x)' /\ \A u \in Orders \ {x} : Holding(u)' <=> Holding(u)
    BY <2>2, <2>3 DEF Holding, Placed
  <2>5. HeldUnits(p)' = HeldUnits(p) - 0 + Basket[x][p]
    BY <2>4, HeldUnitsChange
  <2>. QED  BY <1>2, <1>3, <2>3, <2>5
<1>6. available' \in [Products -> Nat] /\ reserved' \in [Products -> Nat]
  BY <1>1, <1>2, <1>3, <1>4 DEF ReserveBatch
<1>7. \A p \in Products : reserved'[p] = reserved[p] + b[p] /\ strayed'[p] = strayed[p] /\ left'[p] = left[p]
                          /\ (p \notin leveled => b[p] = 0)
  BY <1>1, <1>2 DEF ReserveBatch, historyVars, Named
<1>8. CountsOK'
  BY <1>1, <1>2, <1>6, <1>7 DEF CountsOK, LevelsTypeOK, LevelsFirst, StockInv, historyVars
<1>9. ReservedIsHeld'
  BY <1>2, <1>3, <1>5, <1>7 DEF ReservedIsHeld, StockInv
<1>. QED  BY <1>8, <1>9

\* A payment takes what its order holds from what is reserved.
LEMMA PayStock ==
  ASSUME LockInv, PromotionInv, StockInv, NEW t \in Transactions, CommitPay(t)
  PROVE  CountsOK' /\ ReservedIsHeld'
<1>. DEFINE o == OrderOf(t)
            b == Basket[o]
<1>1. /\ Staged(t, "commit") /\ tx[t].op = "pay" /\ Apply(o, ToPaid) /\ DeductBatch(b) /\ ReservedMatches(b)
      /\ UNCHANGED historyVars
  BY DEF CommitPay, StockInv, TxMatched, Staged, Batch, GivesUp
<1>2. o \in Orders /\ b \in [Products -> Nat] /\ leveled' = leveled /\ available' = available
  BY <1>1, StoreAssumption DEF LockInv, LocksOnly, LockTypes, Staged, OrderOf, DeductBatch
<1>3. \A p \in Products : /\ reserved[p] \in Nat /\ strayed[p] \in Nat /\ left[p] \in Nat
                          /\ HeldUnits(p) \in Nat /\ reserved[p] + strayed[p] = HeldUnits(p) + left[p]
  BY HeldUnitsNat DEF StockInv, CountsOK, LevelsTypeOK, ReservedIsHeld
<1>4. \A p \in Products : reserved[p] >= b[p]
  BY <1>1, <1>2, <1>3 DEF ReservedMatches, Named
<1>5. \A p \in Products : HeldUnits(p)' = HeldUnits(p) - b[p]
  <2>1. ToPaid \in StoreChanges /\ ToPaid.stock = "deducted" /\ ToPaid.from = Payable
    BY DEF StoreChanges, ToPaid, Transition, Payable
  <2>2. PICK x \in Orders : x = o
    BY <1>2
  <2>3. /\ deducted'[x] /\ status[x] \in Payable
        /\ \A u \in Orders \ {x} : status'[u] = status[u] /\ deducted'[u] = deducted[u] /\ reversed'[u] = reversed[u]
    BY <1>1, <1>2, <2>1, <2>2, OrderMoved DEF LockInv, Apply, CanApply
  <2>4. Holding(x) /\ ~Holding(x)' /\ \A u \in Orders \ {x} : Holding(u)' <=> Holding(u)
    BY <2>3 DEF Holding, Placed, LockInv, OrdersKept, FlagsMatchStatus, Payable
  <2>. SUFFICES ASSUME NEW p \in Products  PROVE HeldUnits(p)' = HeldUnits(p) - b[p]
    OBVIOUS
  <2>5. HeldUnits(p)' = HeldUnits(p) - Basket[x][p] + 0
    BY <2>4, HeldUnitsChange
  <2>. QED  BY <1>2, <1>3, <2>2, <2>5
<1>6. reserved' \in [Products -> Nat]
  BY <1>1, <1>2, <1>3, <1>4 DEF DeductBatch
<1>7. \A p \in Products : reserved'[p] = reserved[p] - b[p] /\ strayed'[p] = strayed[p] /\ left'[p] = left[p]
  BY <1>1, <1>2 DEF DeductBatch, historyVars
<1>8. CountsOK'
  BY <1>1, <1>2, <1>3, <1>4, <1>6, <1>7 DEF CountsOK, LevelsTypeOK, LevelsFirst, StockInv, historyVars
<1>9. ReservedIsHeld'
  <2>. SUFFICES ASSUME NEW p \in Products
                PROVE  /\ reserved'[p] + strayed'[p] = HeldUnits(p)' + left'[p]
                       /\ left'[p] > 0 => strayed'[p] > 0
    BY DEF ReservedIsHeld
  <2>1. b[p] \in Nat /\ (left[p] > 0 => strayed[p] > 0)
    BY <1>2 DEF StockInv, ReservedIsHeld
  <2>2. reserved'[p] = reserved[p] - b[p] /\ strayed'[p] = strayed[p] /\ left'[p] = left[p]
        /\ HeldUnits(p)' = HeldUnits(p) - b[p]
    BY <1>5, <1>7
  <2>. QED  BY <1>3, <2>1, <2>2
<1>. QED  BY <1>8, <1>9

\* What an order holds, when a transaction that gives it up commits: its units, if what was read
\* of it is still so and said that they are to be released, and nothing otherwise.
LEMMA StaleHolds ==
  ASSUME OrdersKept, NEW t \in Transactions, OrderOf(t) \in Orders, tx[t].op \in {"cancel", "refund"},
         OrderKnown(t), Staged(t, "commit")
  PROVE  /\ tx[t].back \in {"restock", "nothing"} => ~Holding(OrderOf(t))
         /\ tx[t].back \notin {"restock", "nothing"} => (Holding(OrderOf(t)) <=> ~Stale(t))
<1>. DEFINE o == OrderOf(t)
<1>1. Placed(o) /\ (tx[t].back # "release" => deducted[o] \/ reversed[o])
  BY DEF OrderKnown, Staged, GivesUp
<1>2. PICK x \in Orders, op \in Ops : x = o /\ op = tx[t].op /\ GivesUp(op)
  BY DEF Ops, GivesUp
<1>3. Owed(x, op) # "release" <=> deducted[x] \/ reversed[x]
  BY <1>2, OwedFlags
<1>4. Owed(x, op) \in Returns
  BY DEF Owed, Returns
<1>. QED  BY <1>1, <1>2, <1>3, <1>4 DEF Stale, Holding, Returns

\* A cancellation and a refund: whatever they read, what is reserved, what is held and the two
\* histories move together.
LEMMA GiveBackStock ==
  ASSUME LockInv, PromotionInv, StockInv, NEW t \in Transactions, CommitCancel(t) \/ CommitRefund(t)
  PROVE  CountsOK' /\ ReservedIsHeld'
<1>. DEFINE o == OrderOf(t)
            b == Basket[o]
<1>1. /\ o \in Orders /\ Staged(t, "commit") /\ leveled' = leveled /\ tx[t].op \in {"cancel", "refund"} /\ OrderKnown(t)
      /\ GiveBackUnits(t) /\ reversed'[o]
      /\ \A u \in Orders \ {o} : status'[u] = status[u] /\ deducted'[u] = deducted[u] /\ reversed'[u] = reversed[u]
  BY GiveUpOrder
<1>2. b \in [Products -> Nat] /\ Named(b) \subseteq leveled
  BY <1>1, StoreAssumption DEF LockInv, LocksOnly, TxStocked, Staged
<1>3. \A p \in Products : /\ available[p] \in Nat /\ reserved[p] \in Nat /\ strayed[p] \in Nat /\ left[p] \in Nat
                          /\ HeldUnits(p) \in Nat /\ reserved[p] + strayed[p] = HeldUnits(p) + left[p]
                          /\ (left[p] > 0 => strayed[p] > 0) /\ b[p] \in Nat
                          /\ (p \notin leveled => reserved[p] = 0)
  BY <1>2, HeldUnitsNat DEF StockInv, CountsOK, LevelsTypeOK, LevelsFirst, ReservedIsHeld
<1>4. PICK x \in Orders : x = o
  BY <1>1
<1>5. ~Holding(x)' /\ \A u \in Orders \ {x} : Holding(u)' <=> Holding(u)
  BY <1>1, <1>4 DEF Holding, Placed
<1>6. \A p \in Products : HeldUnits(p)' = HeldUnits(p) - (IF Holding(x) THEN b[p] ELSE 0)
  <2>. SUFFICES ASSUME NEW p \in Products  PROVE HeldUnits(p)' = HeldUnits(p) - (IF Holding(x) THEN b[p] ELSE 0)
    OBVIOUS
  <2>1. HeldUnits(p)' = HeldUnits(p) - (IF Holding(x) THEN Basket[x][p] ELSE 0) + 0
    BY <1>5, HeldUnitsChange
  <2>. QED  BY <1>3, <1>4, <2>1
<1>7. \A p \in Products : Holding(x) => b[p] <= HeldUnits(p)
  BY <1>4, HeldUnitsNat DEF Holders
<1>8. LevelsTypeOK /\ leveled' = leveled /\ strayed \in [Products -> Nat] /\ left \in [Products -> Nat]
  BY <1>1 DEF StockInv, CountsOK
<1>9. CASE tx[t].back = "restock"
  <2>1. ~Holding(x) /\ reserved' = reserved /\ strayed' = strayed /\ left' = left
        /\ available' = [p \in Products |-> IF p \in leveled THEN available[p] + b[p] ELSE available[p]]
    BY <1>1, <1>4, <1>9, StaleHolds DEF LockInv, GiveBackUnits, RestockUnits, RestockBatch, historyVars, Batch
  <2>2. available' \in [Products -> Nat]
    BY <1>3, <2>1
  <2>3. CountsOK'
    BY <1>8, <2>1, <2>2 DEF CountsOK, LevelsTypeOK, LevelsFirst, StockInv
  <2>4. ReservedIsHeld'
    BY <1>3, <1>6, <2>1 DEF ReservedIsHeld, StockInv
  <2>. QED  BY <2>3, <2>4
<1>10. CASE tx[t].back = "nothing"
  <2>1. Batch(t) = NoUnits /\ ReleaseUnits(t) /\ ~Holding(x)
    BY <1>1, <1>4, <1>10, StaleHolds DEF LockInv, GiveBackUnits, Batch, GivesUp
  <2>2. Released(NoUnits) = {}
    BY DEF Released, Named, NoUnits
  <2>3. \A p \in Products : /\ available'[p] = available[p] /\ reserved'[p] = reserved[p]
                            /\ strayed'[p] = strayed[p] /\ left'[p] = left[p]
    BY <1>3, <2>1, <2>2 DEF ReleaseUnits, ReleaseBatch, NoUnits
  <2>4. /\ available' \in [Products -> Nat] /\ reserved' \in [Products -> Nat]
        /\ strayed' \in [Products -> Nat] /\ left' \in [Products -> Nat]
    BY <1>3, <2>1, <2>2 DEF ReleaseUnits, ReleaseBatch, NoUnits
  <2>5. CountsOK'
    BY <1>8, <2>3, <2>4 DEF CountsOK, LevelsTypeOK, LevelsFirst, StockInv
  <2>6. ReservedIsHeld'
    BY <1>3, <1>6, <2>1, <2>3 DEF ReservedIsHeld, StockInv
  <2>. QED  BY <2>5, <2>6
<1>11. CASE tx[t].back \notin {"restock", "nothing"}
  <2>. DEFINE R == Released(b)
  <2>1. ReleaseUnits(t) /\ Batch(t) = b /\ (Holding(x) <=> ~Stale(t))
    BY <1>1, <1>4, <1>11, StaleHolds DEF LockInv, GiveBackUnits, Batch
  <2>2. /\ available' = [p \in Products |-> IF p \in R THEN available[p] + b[p] ELSE available[p]]
        /\ reserved' = [p \in Products |-> IF p \in R THEN reserved[p] - b[p] ELSE reserved[p]]
        /\ strayed' = [p \in Products |-> IF ~Holding(x) /\ p \in R THEN strayed[p] + b[p] ELSE strayed[p]]
        /\ left' = [p \in Products |-> IF Holding(x) /\ p \notin R THEN left[p] + b[p] ELSE left[p]]
    BY <2>1 DEF ReleaseUnits, ReleaseBatch
  <2>3. \A p \in Products : /\ p \in R => reserved[p] >= b[p] /\ p \in leveled
                            /\ p \notin R => b[p] = 0 \/ reserved[p] < b[p]
    BY <1>2, <1>3 DEF Released, Named
  <2>. HIDE DEF R
  <2>4. /\ available' \in [Products -> Nat] /\ reserved' \in [Products -> Nat]
        /\ strayed' \in [Products -> Nat] /\ left' \in [Products -> Nat]
    BY <1>3, <2>2, <2>3
  <2>5. CountsOK'
    BY <1>3, <1>8, <2>2, <2>3, <2>4 DEF CountsOK, LevelsTypeOK, LevelsFirst
  <2>6. ASSUME NEW p \in Products
        PROVE  /\ reserved'[p] + strayed'[p] = HeldUnits(p)' + left'[p]
               /\ left'[p] > 0 => strayed'[p] > 0
    <3>1. CASE p \in R /\ Holding(x)
      <4>1. /\ reserved'[p] = reserved[p] - b[p] /\ strayed'[p] = strayed[p] /\ left'[p] = left[p]
            /\ HeldUnits(p)' = HeldUnits(p) - b[p]
        BY <1>6, <2>2, <3>1
      <4>. QED  BY <1>3, <4>1
    <3>2. CASE p \in R /\ ~Holding(x)
      BY <1>3, <1>6, <2>2, <2>3, <3>2
    <3>3. CASE p \notin R /\ Holding(x)
      <4>1. /\ reserved'[p] = reserved[p] /\ strayed'[p] = strayed[p] /\ left'[p] = left[p] + b[p]
            /\ HeldUnits(p)' = HeldUnits(p) - b[p] /\ b[p] <= HeldUnits(p) /\ (b[p] = 0 \/ reserved[p] < b[p])
        BY <1>6, <1>7, <2>2, <2>3, <3>3
      <4>. QED  BY <1>3, <4>1
    <3>4. CASE p \notin R /\ ~Holding(x)
      BY <1>3, <1>6, <2>2, <2>3, <3>4
    <3>. QED  BY <3>1, <3>2, <3>3, <3>4
  <2>. QED  BY <2>5, <2>6 DEF ReservedIsHeld
<1>. QED  BY <1>9, <1>10, <1>11

\* A commit moves the units of its own order, which nobody else has locked.
LEMMA CommitStock ==
  ASSUME LockInv, PromotionInv, StockInv, NEW t \in Transactions,
         CommitPlace(t) \/ CommitPay(t) \/ CommitCancel(t) \/ CommitRefund(t)
  PROVE  StockInv'
<1>. DEFINE b == Batch(t)
<1>1. /\ Staged(t, "commit") /\ Finish(t) /\ leveled' = leveled /\ TxMatched(t)
      /\ tx[t].order \in Orders
  BY DEF CommitPlace, CommitPay, CommitCancel, CommitRefund, GiveBackUnits, ReleaseUnits, RestockUnits,
         ReserveBatch, DeductBatch, ReleaseBatch, RestockBatch, StockInv, LockInv, LocksOnly, LockTypes, Staged
<1>2. b \in [Products -> Nat] /\ \A p \in Named(b) : Holds(t, p)
  <2>1. b \in [Products -> Nat]
    BY <1>1, StoreAssumption DEF Batch, NoUnits, OrderOf
  <2>2. Named(b) \subseteq leveled
    BY <1>1, BatchNamed DEF LockInv, LocksOnly, TxStocked, Staged
  <2>. QED  BY <1>1, <2>1, <2>2 DEF TxMatched, Staged, Missing, LevelsOf
<1>3. CountsOK' /\ ReservedIsHeld'
  BY PlaceStock, PayStock, GiveBackStock
<1>4. \A p \in Products : b[p] = 0 => available'[p] = available[p] /\ reserved'[p] = reserved[p]
  <2>1. /\ available \in [Products -> Nat] /\ reserved \in [Products -> Nat]
        /\ \/ ReserveBatch(b) \/ DeductBatch(b) \/ ReleaseBatch(b) \/ RestockBatch(b)
    BY DEF CommitPlace, CommitPay, CommitCancel, CommitRefund, GiveBackUnits, ReleaseUnits, RestockUnits, StockInv,
           CountsOK, LevelsTypeOK
  <2>. QED  BY <1>2, <2>1 DEF ReserveBatch, DeductBatch, ReleaseBatch, RestockBatch
<1>5. ASSUME NEW u \in Transactions \ {t}  PROVE TxMatched(u)'
  <2>1. \A p \in Named(Batch(u)) : Holds(u, p) => available'[p] = available[p] /\ reserved'[p] = reserved[p]
    BY <1>2, <1>4 DEF Named, Holds
  <2>. QED  BY <1>1, <2>1, FinishFields, MatchedKept DEF StockInv
<1>6. TxMatched(t)'
  BY <1>1, FinishFields DEF TxMatched
<1>. QED  BY <1>3, <1>5, <1>6 DEF StockInv

\* The stock keeper waits for the row, too, and never counts less than is reserved.
LEMMA KeeperStock ==
  ASSUME LockInv, StockInv, NEW p \in Products, StockKeeper(p)
  PROVE  StockInv'
<1>1. reserved' = reserved /\ UNCHANGED <<orderVars, historyVars>> /\ holder' = holder /\ tx' = tx /\ holder[p] = NoTx
      /\ leveled \subseteq leveled' /\ leveled' \subseteq leveled \cup {p}
  BY DEF StockKeeper, AdjustStock, Restock, EnsureLevel
<1>2. available \in [Products -> Nat] /\ reserved \in [Products -> Nat]
  BY DEF StockInv, CountsOK, LevelsTypeOK
<1>3. PICK n \in Nat : available' = [available EXCEPT ![p] = n]
  <2>1. ASSUME NEW n \in 0..MaxStock, AdjustStock(p, n)
        PROVE  n - reserved[p] \in Nat /\ available' = [available EXCEPT ![p] = n - reserved[p]]
    <3>1. reserved[p] <= n
      <4>1. n \in Nat
        BY MaxStockAssumption
      <4>. QED  BY <2>1, <4>1 DEF AdjustStock, StockInv, CountsOK, LevelsFirst
    <3>. QED  BY <1>2, <2>1, <3>1, MaxStockAssumption DEF AdjustStock
  <2>2. CASE Restock(p, 1)
    <3>1. available' = [available EXCEPT ![p] = available[p] + 1] /\ available[p] + 1 \in Nat
      BY <1>2, <2>2 DEF Restock
    <3>. QED  BY <1>2, <3>1
  <2>3. CASE EnsureLevel(p)
    <3>1. available' = [available EXCEPT ![p] = available[p]]
      BY <1>2, <2>3 DEF EnsureLevel
    <3>. QED  BY <1>2, <3>1
  <2>. QED  BY <2>1, <2>2, <2>3 DEF StockKeeper
<1>4. CountsOK'
  BY <1>1, <1>2, <1>3 DEF StockInv, CountsOK, LevelsTypeOK, LevelsFirst, historyVars
<1>5. \A q \in Products : HeldUnits(q)' = HeldUnits(q)
  <2>1. \A o \in Orders : Holding(o)' <=> Holding(o)
    BY <1>1 DEF Holding, Placed, orderVars
  <2>. QED  BY <2>1, HeldUnitsSame
<1>6. ASSUME NEW t \in Transactions  PROVE TxMatched(t)'
  <2>1. \A q \in Named(Batch(t)) : Holds(t, q) => available'[q] = available[q] /\ reserved'[q] = reserved[q]
    BY <1>1, <1>2, <1>3, StoreAssumption DEF Named, Holds
  <2>. QED  BY <1>1, <2>1, MatchedKept DEF StockInv, Holds
<1>. QED  BY <1>1, <1>4, <1>5, <1>6 DEF StockInv, ReservedIsHeld, historyVars

\* An order that fails or is shipped holds what it held.
LEMMA UpdateStock ==
  ASSUME LockInv, StockInv, NEW o \in Orders, FailOrder(o) \/ ShipOrder(o)
  PROVE  StockInv'
<1>1. PICK change \in StoreChanges : Apply(o, change) /\ change.stock = "unchanged"
  BY DEF FailOrder, ShipOrder, UpdateOrder, StoreChanges, ToShipped, ToFulfillmentFailedCompensating, Transition
<1>2. UNCHANGED <<inventoryVars, historyVars, holder, tx>>
  BY DEF FailOrder, ShipOrder, UpdateOrder
<1>3. \A u \in Orders : Holding(u)' <=> Holding(u)
  <2>1. /\ \A u \in Orders \ {o} : status'[u] = status[u] /\ deducted'[u] = deducted[u] /\ reversed'[u] = reversed[u]
        /\ status[o] # "none" /\ status'[o] # "none" /\ (reversed'[o] <=> reversed[o]) /\ (deducted'[o] <=> deducted[o])
    BY <1>1, <1>2, OrderMoved DEF LockInv, inventoryVars
  <2>. QED  BY <2>1 DEF Holding, Placed
<1>4. \A t \in Transactions : TxMatched(t)'
  BY <1>2, MatchedKept DEF StockInv, inventoryVars, Holds
<1>. QED  BY <1>2, <1>3, <1>4, StockQuiet

\* No step of the store loses or invents a unit.
LEMMA StockStepInv == LockInv /\ PromotionInv /\ StockInv /\ [StoreNext]_storeVars => StockInv'
<1>. SUFFICES ASSUME LockInv, PromotionInv, StockInv, [StoreNext]_storeVars  PROVE StockInv'
  OBVIOUS
<1>0. ASSUME UNCHANGED <<stockVars, holder, tx>>  PROVE StockInv'
  <2>1. \A t \in Transactions : TxMatched(t)'
    BY <1>0, MatchedKept DEF StockInv, stockVars, inventoryVars, Holds
  <2>. QED  BY <1>0, <2>1, SameHolders, StockQuiet DEF stockVars
<1>1. CASE Transact
  <2>1. ASSUME NEW t \in Transactions, DeadlockVictim(t) \/ Fails(t)  PROVE StockInv'
    BY <2>1, StockFinish DEF DeadlockVictim, Fails, Rollback, dataVars, stockVars
  <2>2. ASSUME NEW t \in Transactions, Begin(t)  PROVE StockInv'
    <3>1. PICK op \in Ops, stage \in {"order", "levels"}, o \in Orders, back \in Returns : Begins(t, op, stage, o, back)
      BY <2>2, BeginBegins
    <3>2. UNCHANGED <<stockVars, holder>>
      BY <3>1 DEF Begins, dataVars, stockVars
    <3>3. TxMatched(t)' /\ \A u \in Transactions \ {t} : tx'[u] = tx[u]
      BY <3>1, BegunFields DEF TxMatched
    <3>. QED  BY <3>2, <3>3, StockMove
  <2>3. ASSUME NEW t \in Transactions, Advance(t)  PROVE StockInv'
    BY <2>3, StatementStock, CommitStock DEF Advance
  <2>. QED  BY <1>1, <2>1, <2>2, <2>3, UpdateStock DEF Transact
<1>2. CASE KeepStock
  BY <1>2, KeeperStock DEF KeepStock
<1>3. CASE EditPromotion
  BY <1>0, <1>3 DEF EditPromotion, EditRead, EditAtOnce, EditWrite, RemovePromotion, AddPromotion, dataVars, stockVars
<1>4. CASE UNCHANGED storeVars
  BY <1>0, <1>4 DEF storeVars, dataVars, stockVars
<1>. QED  BY <1>1, <1>2, <1>3, <1>4 DEF StoreNext

\* At first nothing is reserved, and no order holds anything.
LEMMA StockInitInv == StoreInit => StockInv
<1>. SUFFICES ASSUME StoreInit  PROVE StockInv
  OBVIOUS
<1>1. \A t \in Transactions : tx[t].stage = "idle"
  BY DEF StoreInit, Free
<1>2. {o \in Orders : Holding(o)} = {}
  BY DEF StoreInit, OrderInit, Holding, Placed
<1>3. \A p \in Products : HeldUnits(p) = 0
  BY <1>2, SumEmpty DEF HeldUnits
<1>4. CountsOK /\ \A p \in Products : reserved[p] = 0 /\ strayed[p] = 0 /\ left[p] = 0
  BY MaxStockAssumption DEF StoreInit, InventoryInit, CountsOK, LevelsTypeOK, LevelsFirst, NoUnits
<1>. QED  BY <1>1, <1>3, <1>4 DEF StockInv, ReservedIsHeld, TxMatched

\* The three invariants together hold for good.
LEMMA StockInvariant == StoreSpec => [](LockInv /\ PromotionInv /\ StockInv)
BY StoreInitInv, StoreStepInv, PromotionInitInv, PromotionStepInv, StockInitInv, StockStepInv, PTL DEF StoreSpec

\* What is reserved of a product is, to the unit, what the orders hold of it, but for the units
\* that were released a second time on a stale read, and those that could not be released
\* because such a release had taken them; for any baskets and however many transactions are
\* under way.
THEOREM ReservedIsHeldHolds == StoreSpec => []ReservedIsHeld
<1>1. StockInv => ReservedIsHeld
  BY DEF StockInv
<1>. QED  BY <1>1, StockInvariant, PTL

\* No count of units is ever below nothing: the units that a placement and a payment found
\* they have locked, and a release takes only from the rows that have the units reserved.
THEOREM NeverOversold == StoreSpec => []LevelsTypeOK
<1>1. StockInv => LevelsTypeOK
  BY DEF StockInv, CountsOK
<1>. QED  BY <1>1, StockInvariant, PTL

\* An order that holds its units finds all of them reserved, unless a cancellation or a refund
\* that read another order before it let go of its units has released some of these products
\* since: only such a read can make a payment fail for want of stock, or leave a release of
\* what was reserved short of a row (Repository.Deduct, Service.Restore).
THEOREM OnlyStaleReadsStarve ==
  StoreSpec => [](\A o \in Orders : Holding(o) /\ (\A p \in Named(Basket[o]) : strayed[p] = 0) => ReservedMatches(Basket[o]))
<1>1. LockInv /\ StockInv =>
        (\A o \in Orders : Holding(o) /\ (\A p \in Named(Basket[o]) : strayed[p] = 0) => ReservedMatches(Basket[o]))
  <2>. SUFFICES ASSUME LockInv, StockInv, NEW o \in Orders, Holding(o), \A p \in Named(Basket[o]) : strayed[p] = 0,
                       NEW p \in Named(Basket[o])
                PROVE  p \in leveled /\ reserved[p] >= Basket[o][p]
    BY DEF ReservedMatches
  <2>1. p \in Products /\ p \in leveled /\ Basket[o][p] \in Nat
    BY StoreAssumption DEF LockInv, OrdersKept, Holding, Named
  <2>2. Basket[o][p] <= HeldUnits(p) /\ HeldUnits(p) \in Nat
    BY <2>1, HeldUnitsNat DEF Holders
  <2>3. /\ reserved[p] \in Nat /\ left[p] \in Nat /\ strayed[p] = 0
        /\ reserved[p] + strayed[p] = HeldUnits(p) + left[p]
    BY <2>1 DEF StockInv, CountsOK, LevelsTypeOK, ReservedIsHeld
  <2>. QED  BY <2>1, <2>2, <2>3
<1>. QED  BY <1>1, StockInvariant, PTL

(****************************************************************************)
(* The types of the store.                                                  *)
(****************************************************************************)
\* What an edit makes of terms are terms.
LEMMA EditedTerms ==
  ASSUME terms \in Terms, NEW e \in Edits  PROVE Edited(e) \in Terms
<1>1. DOMAIN terms = {"kind", "value", "minAmount", "maxDiscount", "maxUses", "active", "current"}
  BY DEF Terms
<1>2. \A f \in DOMAIN e : e[f] \in Column[f]
  BY StoreAssumption
<1>3. \A f \in DOMAIN terms : terms[f] \in Column[f]
  BY <1>1 DEF Terms, Column
<1>4. PICK to : to = Edited(e)
  OBVIOUS
<1>5. /\ to = [f \in {"kind", "value", "minAmount", "maxDiscount", "maxUses", "active", "current"} |-> to[f]]
      /\ \A f \in {"kind", "value", "minAmount", "maxDiscount", "maxUses", "active", "current"} : to[f] \in Column[f]
  BY <1>1, <1>2, <1>3, <1>4 DEF Edited
<1>. QED  BY <1>4, <1>5 DEF Terms, Column

\* A discount is a number.
LEMMA DiscountType ==
  ASSUME NEW t \in Terms, NEW s \in Nat  PROVE ComputeDiscount(t, s) \in Int
<1>1. t.value \in Nat /\ t.maxDiscount \in SUBSET Int
  BY DEF Terms, Column
<1>2. Percentage(t, s) \in Int
  <2>1. s * t.value \in Int
    BY <1>1
  <2>. QED  BY <2>1 DEF Percentage
<1>3. t.maxDiscount # {} => (CHOOSE m \in t.maxDiscount : TRUE) \in Int
  BY <1>1
<1>. HIDE DEF Percentage
<1>. QED  BY <1>1, <1>2, <1>3 DEF ComputeDiscount, LessOf

\* What the other invariants do not say of the types.
StoreTypes ==
  /\ terms \in Terms /\ exists \in BOOLEAN /\ usedCount \in Nat
  /\ discount \in [Orders -> Int]
  /\ tx \in [Transactions -> [op : Ops, stage : Stages, order : Orders, discount : Int, back : Returns]]
  /\ \A e \in editing : e.to \in Terms

\* The row of the promotion, and what an administrator holds of it.
LEMMA PromotionTypes ==
  ASSUME StoreTypes, LockInv, [StoreNext]_storeVars
  PROVE  terms' \in Terms /\ exists' \in BOOLEAN /\ usedCount' \in Nat /\ \A e \in editing' : e.to \in Terms
<1>. USE DEF StoreTypes
<1>1. CASE Transact
  <2>0. ASSUME NEW o \in Orders, FailOrder(o) \/ ShipOrder(o)
        PROVE terms' \in Terms /\ exists' \in BOOLEAN /\ usedCount' \in Nat /\ \A e \in editing' : e.to \in Terms
    BY <2>0 DEF FailOrder, ShipOrder, UpdateOrder, promotionVars
  <2>. SUFFICES ASSUME NEW t \in Transactions, Begin(t) \/ Advance(t) \/ DeadlockVictim(t) \/ Fails(t)
                PROVE terms' \in Terms /\ exists' \in BOOLEAN /\ usedCount' \in Nat /\ \A e \in editing' : e.to \in Terms
    BY <1>1, <2>0 DEF Transact
  <2>2. CASE CommitPlace(t) \/ CommitCancel(t) \/ CommitRefund(t)
    BY <2>2 DEF CommitPlace, CommitCancel, CommitRefund, GiveBackCoupon, UsePromotion, UnusePromotion, promotionVars
  <2>3. CASE ~(CommitPlace(t) \/ CommitCancel(t) \/ CommitRefund(t))
    BY <2>3 DEF Begin, PlaceStart, UpdateStart, Advance, LockOrder, LockLevel, UpdateLevels, PriceOrder,
       LockPromotion, LockUsage, CommitPay, DeadlockVictim, Fails, Rollback, dataVars, promotionVars
  <2>. QED  BY <2>2, <2>3
<1>2. CASE KeepStock
  BY <1>2 DEF KeepStock, StockKeeper, promotionVars
<1>3. CASE EditPromotion
  <2>1. ASSUME NEW e \in Edits, EditRead(e) \/ EditAtOnce(e)
        PROVE terms' \in Terms /\ exists' \in BOOLEAN /\ usedCount' \in Nat /\ \A f \in editing' : f.to \in Terms
    BY <2>1, EditedTerms DEF EditRead, EditAtOnce, UpdatePromotion, dataVars, promotionVars
  <2>2. ASSUME NEW e \in editing, EditWrite(e)
        PROVE terms' \in Terms /\ exists' \in BOOLEAN /\ usedCount' \in Nat /\ \A f \in editing' : f.to \in Terms
    BY <2>2 DEF EditWrite, UpdatePromotion, promotionVars
  <2>3. CASE RemovePromotion
    BY <2>3 DEF RemovePromotion, DeletePromotion
  <2>4. ASSUME NEW t \in TermSet, AddPromotion(t)
        PROVE terms' \in Terms /\ exists' \in BOOLEAN /\ usedCount' \in Nat /\ \A f \in editing' : f.to \in Terms
    BY <2>4, TermsAssumption DEF AddPromotion, InsertPromotion
  <2>. QED  BY <1>3, <2>1, <2>2, <2>3, <2>4 DEF EditPromotion
<1>4. CASE UNCHANGED storeVars
  BY <1>4 DEF storeVars, dataVars, promotionVars
<1>. QED  BY <1>1, <1>2, <1>3, <1>4 DEF StoreNext

\* What a transaction is.
TxRecords == [op : Ops, stage : Stages, order : Orders, discount : Int, back : Returns]

\* A transaction at rest has the type of one.
LEMMA FreeType == Free \in TxRecords
<1>1. (CHOOSE o \in Orders : TRUE) \in Orders
  BY StoreAssumption
<1>. QED  BY <1>1 DEF Free, TxRecords, Ops, Stages, Returns

\* Whatever a step does to one transaction leaves it well typed.
LEMMA RecordSteps ==
  ASSUME tx \in [Transactions -> TxRecords], NEW t \in Transactions
  PROVE  /\ \A op \in Ops, stage \in Stages, o \in Orders, back \in Returns :
              tx' = [tx EXCEPT ![t] = BegunTx(op, stage, o, back)] => tx' \in [Transactions -> TxRecords]
         /\ \A s \in Stages : ToStage(t, s) => tx' \in [Transactions -> TxRecords]
         /\ \A s \in Stages, d \in Int :
              tx' = [tx EXCEPT ![t].stage = s, ![t].discount = d] => tx' \in [Transactions -> TxRecords]
         /\ Finish(t) => tx' \in [Transactions -> TxRecords]
<1>2. ASSUME NEW op \in Ops, NEW stage \in Stages, NEW o \in Orders, NEW back \in Returns,
             tx' = [tx EXCEPT ![t] = BegunTx(op, stage, o, back)]
      PROVE  tx' \in [Transactions -> TxRecords]
  <2>0. BegunTx(op, stage, o, back) \in TxRecords
    BY DEF BegunTx, TxRecords
  <2>1. PICK r \in TxRecords : r = BegunTx(op, stage, o, back)
    BY <2>0
  <2>. QED  BY <1>2, <2>1
<1>3. ASSUME NEW s \in Stages, ToStage(t, s)  PROVE tx' \in [Transactions -> TxRecords]
  BY <1>3 DEF ToStage, TxRecords
<1>4. ASSUME NEW s \in Stages, NEW d \in Int, tx' = [tx EXCEPT ![t].stage = s, ![t].discount = d]
      PROVE  tx' \in [Transactions -> TxRecords]
  BY <1>4 DEF TxRecords
<1>5. Finish(t) => tx' \in [Transactions -> TxRecords]
  BY FreeType DEF Finish
<1>. QED  BY <1>2, <1>3, <1>4, <1>5

\* And so does every step of the store.
LEMMA TxTypes ==
  ASSUME StoreTypes, LockInv, [StoreNext]_storeVars
  PROVE  tx' \in [Transactions -> TxRecords]
<1>0. tx \in [Transactions -> TxRecords]
  BY DEF StoreTypes, TxRecords
<1>1. CASE Transact
  <2>1. ASSUME NEW o \in Orders, FailOrder(o) \/ ShipOrder(o)  PROVE tx' \in [Transactions -> TxRecords]
    BY <1>0, <2>1 DEF FailOrder, ShipOrder, UpdateOrder
  <2>. SUFFICES ASSUME NEW t \in Transactions, Begin(t) \/ Advance(t) \/ DeadlockVictim(t) \/ Fails(t)
                PROVE  tx' \in [Transactions -> TxRecords]
    BY <1>1, <2>1 DEF Transact
  <2>2. CASE Begin(t)
    <3>1. {"order", "levels"} \subseteq Stages
      BY DEF Stages
    <3>2. PICK op \in Ops, stage \in Stages, o \in Orders, back \in Returns :
            tx' = [tx EXCEPT ![t] = BegunTx(op, stage, o, back)]
      BY <2>2, <3>1, BeginBegins DEF Begins
    <3>. QED  BY <1>0, <3>2, RecordSteps
  <2>3. CASE PriceOrder(t)
    <3>1. Subtotal[OrderOf(t)] \in Nat /\ terms \in Terms /\ "promotion" \in Stages
      BY StoreAssumption DEF StoreTypes, OrderOf, Stages
    <3>2. ComputeDiscount(terms, Subtotal[OrderOf(t)]) \in Int
      BY <3>1, DiscountType
    <3>. QED  BY <1>0, <2>3, <3>1, <3>2, RecordSteps DEF PriceOrder
  <2>4. CASE Finish(t) \/ tx' = tx
    BY <1>0, <2>4, RecordSteps
  <2>5. CASE LockOrder(t) \/ LockLevel(t) \/ UpdateLevels(t) \/ LockPromotion(t) \/ LockUsage(t)
    <3>1. Finish(t) \/ tx' = tx \/ \E s \in Stages : ToStage(t, s)
      BY <2>5 DEF LockOrder, LockLevel, UpdateLevels, LockPromotion, LockUsage, AfterLevels, Stages
    <3>. QED  BY <1>0, <3>1, RecordSteps
  <2>6. CASE DeadlockVictim(t) \/ Fails(t) \/ CommitPlace(t) \/ CommitPay(t) \/ CommitCancel(t) \/ CommitRefund(t)
    BY <2>4, <2>6 DEF DeadlockVictim, Fails, Rollback, CommitPlace, CommitPay, CommitCancel, CommitRefund
  <2>. QED  BY <2>2, <2>3, <2>5, <2>6 DEF Advance
<1>2. CASE tx' = tx
  BY <1>0, <1>2
<1>3. CASE KeepStock \/ EditPromotion \/ UNCHANGED storeVars
  BY <1>2, <1>3 DEF KeepStock, StockKeeper, EditPromotion, EditRead, EditAtOnce, EditWrite, RemovePromotion,
                    AddPromotion, storeVars
<1>. QED  BY <1>1, <1>3 DEF StoreNext

\* The discount that an order is placed with is a number.
LEMMA DiscountTypes ==
  ASSUME StoreTypes, LockInv, [StoreNext]_storeVars
  PROVE  discount' \in [Orders -> Int]
<1>. USE DEF StoreTypes
<1>1. CASE Transact
  <2>1. ASSUME NEW o \in Orders, FailOrder(o) \/ ShipOrder(o)  PROVE discount' \in [Orders -> Int]
    BY <2>1 DEF FailOrder, ShipOrder, UpdateOrder
  <2>. SUFFICES ASSUME NEW t \in Transactions, Begin(t) \/ Advance(t) \/ DeadlockVictim(t) \/ Fails(t)
                PROVE  discount' \in [Orders -> Int]
    BY <1>1, <2>1 DEF Transact
  <2>2. CASE CommitPlace(t)
    BY <2>2 DEF CommitPlace, OrderOf
  <2>3. CASE ~CommitPlace(t)
    BY <2>3 DEF Begin, PlaceStart, UpdateStart, Advance, LockOrder, LockLevel, UpdateLevels, PriceOrder,
       LockPromotion, LockUsage, CommitPay, CommitCancel, CommitRefund, DeadlockVictim, Fails, Rollback, dataVars
  <2>. QED  BY <2>2, <2>3
<1>2. CASE KeepStock \/ EditPromotion \/ UNCHANGED storeVars
  BY <1>2 DEF KeepStock, StockKeeper, EditPromotion, EditRead, EditAtOnce, EditWrite, RemovePromotion,
              AddPromotion, storeVars, dataVars
<1>. QED  BY <1>1, <1>2 DEF StoreNext

\* Together.
LEMMA StoreTypesStep == StoreTypes /\ LockInv /\ [StoreNext]_storeVars => StoreTypes'
BY PromotionTypes, TxTypes, DiscountTypes DEF StoreTypes, TxRecords

\* At first nothing is under way, and the terms are one of those there may be.
LEMMA StoreTypesInit == StoreInit => StoreTypes
BY FreeType, TermsAssumption DEF StoreInit, PromotionInit, StoreTypes, TxRecords

\* With the three invariants these are all the types.
LEMMA StoreTypesEnough == LockInv /\ PromotionInv /\ StockInv /\ StoreTypes => StoreTypeOK
BY StoreAssumption DEF LockInv, LocksOnly, LockTypes, OrdersKept, PromotionInv, UsagesKept, UsesCounted, StockInv,
   CountsOK, StoreTypes, StoreTypeOK

\* The rows of the stock, of the orders and of the promotion, their locks and the transactions
\* have their types, whatever is edited.
THEOREM StoreTypeOKHolds == StoreSpec => []StoreTypeOK
<1>. QED  BY StoreTypesInit, StoreTypesStep, StoreTypesEnough, StockInvariant, PTL DEF StoreSpec

(****************************************************************************)
(* Parcels and reviews.                                                     *)
(****************************************************************************)
\* What a clerk has read is of a shipment that exists, and was delivered if it says so.
ReadsHold ==
  \A c \in Clerks : clerk[c].step \in {"deliver", "track"} =>
    /\ Shipped(clerk[c].order) /\ clerk[c].read.status # "none"
    /\ clerk[c].read.status = "delivered" => deliveredAt[clerk[c].order]

\* Nobody has set an order to what it has yet to become.
HandsLater ==
  \A o \in PaidOrders :
    /\ CanShipOrder(fulfilment[o]) => byHand[o] = {}
    /\ fulfilment[o] = "shipped" => "delivered" \notin byHand[o]

ShippingInv == ShippingTypeOK /\ ShippedTogether /\ DeliveredTogether /\ HandsLater /\ ReadsHold

\* A request at rest has the type of a request.
LEMMA RestingType ==
  /\ NoShipment \in ShipmentRows
  /\ Resting.order \in PaidOrders /\ Resting.step = "idle" /\ Resting.read = NoShipment
  /\ Resting \in [step : {"idle", "create", "deliver", "track"}, order : PaidOrders, read : ShipmentRows]
<1>1. (CHOOSE c \in Carriers : TRUE) \in Carriers /\ (CHOOSE o \in PaidOrders : TRUE) \in PaidOrders
  BY ShippingAssumption
<1>. QED  BY <1>1 DEF NoShipment, Resting, ShipmentRows

\* The invariant holds when every order has just been paid.
LEMMA ShippingInitInv == ShippingInit => ShippingInv
<1> SUFFICES ASSUME ShippingInit PROVE ShippingInv
  OBVIOUS
<1>1. ShippingTypeOK
  BY RestingType DEF ShippingInit, ShippingTypeOK
<1>2. ShippedTogether /\ DeliveredTogether /\ HandsLater
  BY DEF ShippingInit, ShippedTogether, DeliveredTogether, HandsLater, Shipped, CanShipOrder, NoShipment
<1>3. ReadsHold
  BY RestingType DEF ShippingInit, ReadsHold
<1>. QED  BY <1>1, <1>2, <1>3 DEF ShippingInv

\* A clerk that comes to rest disturbs nothing that was read.
LEMMA RestKeepsReads ==
  ASSUME ShippingInv, NEW c \in Clerks, Rest(c),
         \A o \in PaidOrders : (deliveredAt[o] => deliveredAt'[o]) /\ (Shipped(o) => Shipped(o)')
  PROVE  ReadsHold' /\ clerk' \in [Clerks -> [step : {"idle", "create", "deliver", "track"}, order : PaidOrders, read : ShipmentRows]]
  BY RestingType DEF ShippingInv, ShippingTypeOK, ReadsHold, Rest

\* Create commits the shipment and the order's status together, or neither.
LEMMA CreateCommitInv ==
  ASSUME ShippingInv, NEW c \in Clerks, NEW carrier \in Carriers, CreateCommit(c, carrier)
  PROVE  ShippingInv'
<1> DEFINE o == clerk[c].order
<1>1. o \in PaidOrders
  BY DEF ShippingInv, ShippingTypeOK
<1>2. /\ fulfilment' = [fulfilment EXCEPT ![o] = "shipped"]
      /\ shipment' = [shipment EXCEPT ![o] = [status |-> "shipped", carrier |-> carrier]]
      /\ CanShipOrder(fulfilment[o]) /\ ~Shipped(o)
      /\ UNCHANGED <<deliveredAt, byHand>> /\ Rest(c)
  BY DEF CreateCommit, CreateShipment, OrderShipped
<1> HIDE DEF o
<1>3. ReadsHold' /\ clerk' \in [Clerks -> [step : {"idle", "create", "deliver", "track"}, order : PaidOrders, read : ShipmentRows]]
  BY <1>1, <1>2, RestKeepsReads DEF ShippingInv, ShippingTypeOK, Shipped
<1>4. ShippingTypeOK'
  BY <1>1, <1>2, <1>3 DEF ShippingInv, ShippingTypeOK, ShipmentRows
<1>5. ShippedTogether'
  BY <1>1, <1>2 DEF ShippingInv, ShippingTypeOK, ShippedTogether, HandsLater, Shipped, CanShipOrder
<1>6. DeliveredTogether' /\ HandsLater'
  BY <1>1, <1>2 DEF ShippingInv, ShippingTypeOK, DeliveredTogether, HandsLater, CanShipOrder
<1>. QED  BY <1>3, <1>4, <1>5, <1>6 DEF ShippingInv

\* Deliver marks both rows, and only an order that is under way.
LEMMA DeliverInv ==
  ASSUME ShippingInv, NEW c \in Clerks, Deliver(c)
  PROVE  ShippingInv'
<1> DEFINE o == clerk[c].order
<1>1. o \in PaidOrders
  BY DEF ShippingInv, ShippingTypeOK
<1>2. /\ fulfilment' = [fulfilment EXCEPT ![o] = "delivered"]
      /\ shipment' = [shipment EXCEPT ![o].status = "delivered"]
      /\ deliveredAt' = [deliveredAt EXCEPT ![o] = TRUE]
      /\ fulfilment[o] = "shipped" /\ Shipped(o) /\ UNCHANGED byHand /\ Rest(c)
  BY DEF Deliver, MarkShipmentDelivered, OrderDelivered, ShippingInv, ReadsHold, ClerkAt
<1> HIDE DEF o
<1>3. ReadsHold' /\ clerk' \in [Clerks -> [step : {"idle", "create", "deliver", "track"}, order : PaidOrders, read : ShipmentRows]]
  BY <1>1, <1>2, RestKeepsReads DEF ShippingInv, ShippingTypeOK, Shipped
<1>4. ShippingTypeOK'
  BY <1>1, <1>2, <1>3 DEF ShippingInv, ShippingTypeOK, ShipmentRows
<1>7. \A p \in PaidOrders : shipment'[p].status # "none" <=> shipment[p].status # "none"
  BY <1>1, <1>2 DEF ShippingInv, ShippingTypeOK, ShipmentRows, Shipped
<1>5. ShippedTogether'
  BY <1>1, <1>2, <1>7 DEF ShippingInv, ShippingTypeOK, ShipmentRows, ShippedTogether, Shipped, CanShipOrder
<1>6. DeliveredTogether' /\ HandsLater'
  BY <1>1, <1>2 DEF ShippingInv, ShippingTypeOK, ShipmentRows, DeliveredTogether, HandsLater, CanShipOrder
<1>. QED  BY <1>3, <1>4, <1>5, <1>6 DEF ShippingInv

\* UpdateTracking writes back a status that was true once: never that there is no
\* shipment, and "delivered" only of one that has its date.
LEMMA UpdateTrackingInv ==
  ASSUME ShippingInv, NEW c \in Clerks, NEW carrier \in Carriers, UpdateTracking(c, carrier)
  PROVE  ShippingInv'
<1> DEFINE o == clerk[c].order
<1>1. o \in PaidOrders /\ clerk[c].read \in ShipmentRows
  BY DEF ShippingInv, ShippingTypeOK
<1>2. /\ shipment' = [shipment EXCEPT ![o] = [clerk[c].read EXCEPT !.carrier = carrier]]
      /\ Shipped(o) /\ UNCHANGED <<fulfilment, deliveredAt, byHand>> /\ Rest(c)
      /\ clerk[c].read.status # "none"
      /\ clerk[c].read.status = "delivered" => deliveredAt[o]
  BY DEF UpdateTracking, UpdateShipment, ShippingInv, ReadsHold, ClerkAt
<1> HIDE DEF o
<1>4. /\ \A p \in PaidOrders : Shipped(p)' = Shipped(p)
      /\ \A p \in PaidOrders : shipment'[p].status = "delivered" => deliveredAt[p]
      /\ shipment' \in [PaidOrders -> ShipmentRows]
  BY <1>1, <1>2 DEF ShippingInv, ShippingTypeOK, ShipmentRows, DeliveredTogether, Shipped
<1>3. ReadsHold' /\ clerk' \in [Clerks -> [step : {"idle", "create", "deliver", "track"}, order : PaidOrders, read : ShipmentRows]]
  BY <1>2, <1>4, RestKeepsReads
<1>5. ShippingTypeOK'
  BY <1>2, <1>3, <1>4 DEF ShippingInv, ShippingTypeOK
<1>6. ShippedTogether' /\ DeliveredTogether' /\ HandsLater'
  BY <1>2, <1>4 DEF ShippingInv, ShippedTogether, DeliveredTogether, HandsLater, CanShipOrder
<1>. QED  BY <1>3, <1>5, <1>6 DEF ShippingInv

\* What a clerk reads is what the row says.
LEMMA ReadInv ==
  ASSUME ShippingInv, NEW c \in Clerks, NEW o \in PaidOrders,
         ReadOrderToShip(c, o) \/ \E step \in {"deliver", "track"} : ReadShipment(c, o, step)
  PROVE  ShippingInv'
<1>1. UNCHANGED <<fulfilment, shipment, deliveredAt, byHand>>
  BY DEF ReadOrderToShip, ReadShipment
<1>2. \E step \in {"create", "deliver", "track"}, row \in ShipmentRows :
        /\ clerk' = [clerk EXCEPT ![c] = [step |-> step, order |-> o, read |-> row]]
        /\ step # "create" => row = shipment[o] /\ Shipped(o)
  <2>1. CASE ReadOrderToShip(c, o)
    BY <2>1, RestingType DEF ReadOrderToShip
  <2>2. ASSUME NEW step \in {"deliver", "track"}, ReadShipment(c, o, step)
        PROVE  /\ clerk' = [clerk EXCEPT ![c] = [step |-> step, order |-> o, read |-> shipment[o]]]
               /\ Shipped(o) /\ shipment[o] \in ShipmentRows
    BY <2>2 DEF ReadShipment, ShippingInv, ShippingTypeOK
  <2>. QED  BY <2>1, <2>2
<1>3. ReadsHold' /\ clerk' \in [Clerks -> [step : {"idle", "create", "deliver", "track"}, order : PaidOrders, read : ShipmentRows]]
  BY <1>1, <1>2 DEF ShippingInv, ShippingTypeOK, DeliveredTogether, ReadsHold, Shipped
<1>. QED  BY <1>1, <1>3 DEF ShippingInv, ShippingTypeOK, ShippedTogether, DeliveredTogether, HandsLater, Shipped, CanShipOrder

\* An administrator moves an order on, and nothing else.
LEMMA ByHandInv ==
  ASSUME ShippingInv, NEW o \in PaidOrders, ChangeStatus(o)
  PROVE  ShippingInv'
<1> USE DEF ShippingInv, ShippingTypeOK
<1>1. PICK to \in {"processing", "shipped", "delivered"} :
        /\ fulfilment' = [fulfilment EXCEPT ![o] = to]
        /\ to \in {"processing", "shipped"} => CanShipOrder(fulfilment[o])
        /\ to = "delivered" => fulfilment[o] = "shipped"
        /\ byHand' = [byHand EXCEPT ![o] = @ \cup ({to} \ {"processing"})]
        /\ UNCHANGED <<shipment, deliveredAt, clerk>>
  BY DEF ChangeStatus, OrderProcessing, OrderShipped, OrderDelivered, CanShipOrder
<1>2. ShippingTypeOK' /\ ReadsHold'
  BY <1>1 DEF ReadsHold, Shipped
<1>3. HandsLater'
  BY <1>1 DEF HandsLater, CanShipOrder
<1>4. ShippedTogether'
  BY <1>1 DEF ShippedTogether, HandsLater, Shipped, CanShipOrder
<1>5. DeliveredTogether'
  BY <1>1 DEF DeliveredTogether, HandsLater, CanShipOrder
<1>. QED  BY <1>2, <1>3, <1>4, <1>5

\* Every step of a clerk, and whatever else happens to an order, keeps the invariant.
LEMMA ShippingStepInv == ShippingInv /\ [ShippingNext]_shippingVars => ShippingInv'
<1> SUFFICES ASSUME ShippingInv, [ShippingNext]_shippingVars PROVE ShippingInv'
  OBVIOUS
<1>1. ASSUME NEW c \in Clerks, ClerkFails(c) PROVE ShippingInv'
  BY <1>1, RestKeepsReads DEF ClerkFails, ShippingInv, ShippingTypeOK, ShippedTogether, DeliveredTogether, HandsLater, Shipped, CanShipOrder
<1>2. ASSUME NEW o \in PaidOrders, ChangeStatus(o) PROVE ShippingInv'
  BY <1>2, ByHandInv
<1>3. ASSUME NEW o \in PaidOrders, Refund(o) PROVE ShippingInv'
  BY <1>3 DEF Refund, ShippingInv, ShippingTypeOK, ShippedTogether, DeliveredTogether, HandsLater, Shipped, CanShipOrder, ReadsHold
<1>4. CASE UNCHANGED shippingVars
  BY <1>4 DEF shippingVars, ShippingInv, ShippingTypeOK, ShippedTogether, DeliveredTogether, HandsLater, Shipped, ReadsHold
<1>. QED  BY <1>1, <1>2, <1>3, <1>4, CreateCommitInv, DeliverInv, UpdateTrackingInv, ReadInv DEF ShippingNext, ClerkStep

\* Shipping keeps the types, and order and shipment agree, for any number of orders
\* and clerks.
LEMMA ShippingInvariant == ShippingSpec => []ShippingInv
  BY ShippingInitInv, ShippingStepInv, PTL DEF ShippingSpec

\* A refunded order stays refunded and gets no shipment.
LEMMA RefundedStepStaysHome ==
  ASSUME ShippingInv, [ShippingNext]_shippingVars, NEW o \in PaidOrders, fulfilment[o] = "refunded"
  PROVE  fulfilment'[o] = "refunded" /\ Shipped(o)' = Shipped(o)
<1>1. ASSUME NEW c \in Clerks, NEW carrier \in Carriers, CreateCommit(c, carrier)
      PROVE  fulfilment'[o] = "refunded" /\ Shipped(o)' = Shipped(o)
  <2>1. clerk[c].order \in PaidOrders /\ clerk[c].order # o
    BY <1>1 DEF CreateCommit, OrderShipped, CanShipOrder, ShippingInv, ShippingTypeOK
  <2>. QED  BY <1>1, <2>1 DEF CreateCommit, CreateShipment, OrderShipped, Shipped, ShippingInv, ShippingTypeOK
<1>2. ASSUME NEW c \in Clerks, NEW carrier \in Carriers, UpdateTracking(c, carrier)
      PROVE  fulfilment'[o] = "refunded" /\ Shipped(o)' = Shipped(o)
  <2>1. clerk[c].read.status # "none" /\ clerk[c].read \in ShipmentRows
    BY <1>2 DEF UpdateTracking, ClerkAt, ShippingInv, ShippingTypeOK, ReadsHold
  <2>. QED  BY <1>2, <2>1 DEF UpdateTracking, UpdateShipment, Shipped, ShipmentRows, ShippingInv, ShippingTypeOK
<1>3. ASSUME NEW c \in Clerks, Deliver(c)
      PROVE  fulfilment'[o] = "refunded" /\ Shipped(o)' = Shipped(o)
  <2>1. clerk[c].order \in PaidOrders /\ clerk[c].order # o
    BY <1>3 DEF Deliver, OrderDelivered, ShippingInv, ShippingTypeOK
  <2>. QED  BY <1>3, <2>1 DEF Deliver, MarkShipmentDelivered, OrderDelivered, Shipped, ShippingInv, ShippingTypeOK
<1>4. ASSUME NEW p \in PaidOrders, ChangeStatus(p) \/ Refund(p)
      PROVE  fulfilment'[o] = "refunded" /\ Shipped(o)' = Shipped(o)
  BY <1>4 DEF ChangeStatus, OrderProcessing, OrderShipped, OrderDelivered, CanShipOrder, Refund, Shipped,
              ShippingInv, ShippingTypeOK
<1>5. CASE UNCHANGED <<fulfilment, shipment>>
  BY <1>5 DEF Shipped
<1>6. ASSUME NEW c \in Clerks, ClerkFails(c) \/ \E p \in PaidOrders : ReadOrderToShip(c, p) \/ \E step \in {"deliver", "track"} : ReadShipment(c, p, step)
      PROVE  UNCHANGED <<fulfilment, shipment>>
  BY <1>6 DEF ClerkFails, ReadOrderToShip, ReadShipment
<1>. QED  BY <1>1, <1>2, <1>3, <1>4, <1>5, <1>6 DEF ShippingNext, ClerkStep, shippingVars

\* No step of a clerk, or of anything that was read before the refund, sends off a
\* refunded order.
THEOREM RefundedStaysHomeHolds == ShippingSpec => RefundedStaysHome
<1>1. ShippingInv /\ [ShippingNext]_shippingVars =>
        [\A o \in PaidOrders : fulfilment[o] = "refunded" =>
           fulfilment'[o] = "refunded" /\ Shipped(o)' = Shipped(o)]_shippingVars
  BY RefundedStepStaysHome
<1>. QED  BY <1>1, ShippingInvariant, PTL DEF ShippingSpec, RefundedStaysHome

-----------------------------------------------------------------------------
\* What is known of a reviewer: the product was in an order of theirs, which has
\* been delivered.
Bought(rv) ==
  /\ rv \in ReviewRows
  /\ Buyer[rv.order] = rv.user /\ rv.product \in Items[rv.order]
  /\ rv.order \in everDelivered /\ (deliveredAt[rv.order] \/ "delivered" \in byHand[rv.order])

\* A user has one review of a product.
OneEach == \A rv, other \in reviews : other.user = rv.user /\ other.product = rv.product => other = rv

ReviewInv ==
  /\ reviewCall \in [ReviewCalls -> [step : {"idle", "purchased", "checked"}, rows : SUBSET ReviewRows]]
  /\ \A o \in PaidOrders : fulfilment[o] = "delivered" => o \in everDelivered
  /\ \A rv \in reviews : Bought(rv)
  /\ \A q \in ReviewCalls : \A rv \in reviewCall[q].rows : Bought(rv)
  /\ OneEach

\* A delivery is never undone.
LEMMA DeliveredForGood ==
  ASSUME ShippingInv, [ShippingNext]_shippingVars, NEW o \in PaidOrders
  PROVE  /\ deliveredAt[o] => deliveredAt'[o]
         /\ byHand[o] \subseteq byHand'[o]
<1>1. ASSUME NEW c \in Clerks, Deliver(c) PROVE (deliveredAt[o] => deliveredAt'[o]) /\ UNCHANGED byHand
  BY <1>1 DEF Deliver, MarkShipmentDelivered, ShippingInv, ShippingTypeOK
<1>2. CASE UNCHANGED <<deliveredAt, byHand>>
  BY <1>2
<1>3. ASSUME NEW c \in Clerks, ClerkStep(c), ~Deliver(c) PROVE UNCHANGED <<deliveredAt, byHand>>
  BY <1>3 DEF ClerkStep, ReadOrderToShip, ReadShipment, CreateCommit, UpdateTracking, ClerkFails
<1>4. ASSUME NEW p \in PaidOrders, ChangeStatus(p) PROVE UNCHANGED deliveredAt /\ byHand[o] \subseteq byHand'[o]
  BY <1>4 DEF ChangeStatus, ShippingInv, ShippingTypeOK
<1>. QED  BY <1>1, <1>2, <1>3, <1>4 DEF ShippingNext, Refund, shippingVars

\* What is known of a reviewer stays true while orders are shipped and refunded.
LEMMA ShippingKeepsReviews ==
  ASSUME ShippingInv, ReviewInv, ShippingNext, UNCHANGED <<reviews, reviewCall>>,
         everDelivered' = everDelivered \cup {o \in PaidOrders : fulfilment'[o] = "delivered"}
  PROVE  ReviewInv'
<1>1. ASSUME NEW rv, Bought(rv) PROVE Bought(rv)'
  BY <1>1, DeliveredForGood DEF Bought, ReviewRows
<1>. QED  BY <1>1 DEF ReviewInv, OneEach

\* Each of the three statements of Create, and Delete.
LEMMA ReviewStepInv ==
  ASSUME ShippingInv, ReviewInv, [ReviewNext]_<<shippingVars, reviewVars>>
  PROVE  ReviewInv'
<1>1. CASE UNCHANGED <<shippingVars, everDelivered>>
  <2> USE <1>1
  <2>1. \A rv : Bought(rv)' = Bought(rv)
    BY DEF Bought, shippingVars
  <2>2. ASSUME NEW q \in ReviewCalls, NEW rv \in ReviewRows, AskPurchase(q, rv) PROVE ReviewInv'
    <3>1. Bought(rv)
      BY <2>2 DEF AskPurchase, HasDeliveredOrder, Bought, ReviewInv, ReviewRows, ShippingInv, DeliveredTogether
    <3>. QED  BY <2>1, <2>2, <3>1 DEF AskPurchase, ReviewStep, NoReview, ReviewInv, OneEach, shippingVars
  <2>3. ASSUME NEW q \in ReviewCalls, NEW rv \in ReviewRows, AskReviewed(q, rv) PROVE ReviewInv'
    BY <2>1, <2>3 DEF AskReviewed, ReviewStep, NoReview, ReviewInv, OneEach, shippingVars
  <2>4. ASSUME NEW q \in ReviewCalls, NEW rv \in ReviewRows, CreateReview(q, rv) PROVE ReviewInv'
    BY <2>1, <2>4 DEF CreateReview, ReviewStep, NoReview, InsertReview, HasUserReviewed, ReviewInv, OneEach, shippingVars
  <2>5. ASSUME NEW rv \in reviews, DeleteReview(rv) PROVE ReviewInv'
    BY <2>1, <2>5 DEF DeleteReview, ReviewInv, OneEach, shippingVars
  <2>6. CASE UNCHANGED reviewVars
    BY <2>1, <2>6 DEF reviewVars, ReviewInv, OneEach, shippingVars
  <2>7. ASSUME ShippingNext, UNCHANGED <<reviews, reviewCall>>,
               everDelivered' = everDelivered \cup {o \in PaidOrders : fulfilment'[o] = "delivered"}
        PROVE  ReviewInv'
    BY <2>7, ShippingKeepsReviews
  <2>. QED  BY <2>2, <2>3, <2>4, <2>5, <2>6, <2>7 DEF ReviewNext
<1>. QED  BY <1>1, ShippingKeepsReviews DEF ReviewNext, reviewVars

\* Nobody has reviewed anything at first.
LEMMA DeliveriesInit == ShippingInit /\ ReviewInit => ShippingInv /\ ReviewInv
<1>1. ASSUME ShippingInit, ReviewInit PROVE ReviewInv
  BY <1>1 DEF ShippingInit, ReviewInit, ReviewInv, OneEach, NoReview
<1>. QED  BY <1>1, ShippingInitInv

\* Clerks, refunds and reviewers keep both invariants.
LEMMA DeliveriesStep ==
  ShippingInv /\ ReviewInv /\ [ReviewNext]_<<shippingVars, reviewVars>> => ShippingInv' /\ ReviewInv'
<1>1. [ReviewNext]_<<shippingVars, reviewVars>> => [ShippingNext]_shippingVars
  BY DEF ReviewNext
<1>. QED  BY <1>1, ShippingStepInv, ReviewStepInv

\* Which say that order, parcel and review agree.
LEMMA DeliveriesInvIsEnough == ShippingInv /\ ReviewInv => DeliveriesAgree
BY DEF ShippingInv, ReviewInv, Bought, OneEach, DeliveriesAgree, ReviewsAreOfBuyers

\* Order, parcel and review agree, for any number of orders, clerks and reviewers.
THEOREM DeliveriesAgreeHolds == ReviewSpec => []DeliveriesAgree
<1>. QED  BY DeliveriesInit, DeliveriesStep, DeliveriesInvIsEnough, PTL DEF ReviewSpec
===============================================================================

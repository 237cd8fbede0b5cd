--------------------------------- MODULE Cart ---------------------------------
(****************************************************************************)
(* Shopping carts (features/cart) while their owner's requests overlap and  *)
(* order.Place empties them.  A request is a sequence of statements; those  *)
(* of a transaction hold the lock on the row of the cart (the upsert of     *)
(* GetOrCreate, or SELECT ... FOR UPDATE) until it commits.  Of Place the   *)
(* stock and the promotion are left to Store.                               *)
(****************************************************************************)
EXTENDS Naturals, FiniteSets, Functions

CONSTANTS
  Owners,       \* customers
  CartProducts,
  CartRequests, \* requests under way at once
  MaxItems,     \* maxCartItems
  MaxQuantity,  \* bound on a quantity
  Currency,     \* the currency each product is priced in
  NoRequest,    \* the holder of a free lock
  OrderKeys,    \* the idempotency keys of placements
  MaxAsked      \* bound on the units a customer ever puts into the cart

ASSUME MaxItemsAssumption == MaxItems \in Nat \ {0}
ASSUME MaxQuantityAssumption == MaxQuantity \in Nat \ {0}
ASSUME MaxAskedAssumption == MaxAsked \in Nat
ASSUME NoRequestAssumption == NoRequest \notin CartRequests
ASSUME CartAssumption ==
  /\ Owners # {} /\ CartProducts # {} /\ OrderKeys # {}
  /\ IsFiniteSet(CartProducts) /\ IsFiniteSet(OrderKeys)

VARIABLES
  hasCart,    \* the carts that exist
  quantity,   \* cart_items: 0 where there is no row
  cartLock,   \* who holds the row of each cart
  published,  \* the products on sale (owned by product)
  cartReq,    \* what each request does and holds
  ordered,    \* orders and order_items: the lines ordered under each key, none or one
  asked       \* history: the units of each product the customer put into the cart

cartVars == <<hasCart, quantity, cartLock, published, cartReq, ordered, asked>>

CartSteps == {"idle", "add", "added_lock", "counted", "remove", "change", "looked", "locked", "snapped"}
Lines == [CartProducts -> 0..MaxQuantity]

NoLines == [p \in CartProducts |-> 0]
NoWork == [step |-> "idle", owner |-> CHOOSE u \in Owners : TRUE,
           product |-> CHOOSE p \in CartProducts : TRUE, qty |-> 0,
           snapshot |-> NoLines, key |-> CHOOSE k \in OrderKeys : TRUE]

Working(r, step) == cartReq[r].step = step
Owner(r) == cartReq[r].owner
Go(r, step) == cartReq' = [cartReq EXCEPT ![r].step = step]
Stop(r) == cartReq' = [cartReq EXCEPT ![r] = NoWork]

InCart(u) == {p \in CartProducts : quantity[u][p] > 0}
UnlockCart(u) == cartLock' = [cartLock EXCEPT ![u] = NoRequest]

\* History: the units a change adds to a line.
Ask(u, p, n) ==
  /\ asked[u][p] + n <= MaxAsked
  /\ asked' = [asked EXCEPT ![u][p] = @ + n]
More(u, p, n) == IF p \in InCart(u) /\ n > quantity[u][p] THEN n - quantity[u][p] ELSE 0

(****************************************************************************)
(* The repository: one operator per statement.                              *)
(****************************************************************************)
\* The upsert of GetOrCreate waits for whoever holds the row ...
CanUpsert(u) == cartLock[u] = NoRequest

\* ... and in a transaction keeps it.
GetOrCreate_Unlocked(r, u) ==
  /\ CanUpsert(u)
  /\ hasCart' = hasCart \cup {u}
  /\ UNCHANGED cartLock

GetOrCreate(r, u) ==
  /\ CanUpsert(u)
  /\ hasCart' = hasCart \cup {u}
  /\ cartLock' = [cartLock EXCEPT ![u] = r]

\* CountAndHasItem, and the refusal Add makes of its result.
HasRoom(u, p) == p \in InCart(u) \/ Cardinality(InCart(u)) < MaxItems

AddItem(u, p, n) == quantity' = [quantity EXCEPT ![u][p] = @ + n]

RemoveItem(u, p) == quantity' = [quantity EXCEPT ![u][p] = 0]

\* An UPDATE: a row that is gone is not inserted again.
UpdateItemQuantity(u, p, n) ==
  quantity' = [quantity EXCEPT ![u][p] = IF p \in InCart(u) THEN n ELSE 0]

ClearItems(u) == quantity' = [quantity EXCEPT ![u] = NoLines]

GetCartForLock(r, u) ==
  /\ u \in hasCart /\ cartLock[u] = NoRequest
  /\ cartLock' = [cartLock EXCEPT ![u] = r]

\* GetCart and the product lookups of Get, taken over by CartSnapshot.
CartSnapshot(u) == quantity[u]

(****************************************************************************)
(* Add.                                                                     *)
(****************************************************************************)
\* The product is looked up before the transaction, published and in stock.
AddStart(r, u, p, n) ==
  /\ Working(r, "idle") /\ p \in published
  /\ cartReq' = [cartReq EXCEPT ![r] = [NoWork EXCEPT !.step = "add", !.owner = u, !.product = p, !.qty = n]]
  /\ UNCHANGED <<hasCart, quantity, cartLock, published, ordered, asked>>

AddLock(r) ==
  /\ Working(r, "add")
  /\ GetOrCreate(r, Owner(r))
  /\ Go(r, "added_lock")
  /\ UNCHANGED <<quantity, published, ordered, asked>>

AddCount(r) ==
  LET u == Owner(r) IN
  /\ Working(r, "added_lock")
  /\ \/ HasRoom(u, cartReq[r].product) /\ Go(r, "counted") /\ UNCHANGED cartLock
     \/ ~HasRoom(u, cartReq[r].product) /\ Stop(r) /\ UnlockCart(u)
  /\ UNCHANGED <<hasCart, quantity, published, ordered, asked>>

AddCommit(r) ==
  LET u == Owner(r)  p == cartReq[r].product IN
  /\ Working(r, "counted")
  /\ quantity[u][p] + cartReq[r].qty <= MaxQuantity
  /\ AddItem(u, p, cartReq[r].qty)
  /\ Ask(u, p, cartReq[r].qty)
  /\ Stop(r)
  /\ UnlockCart(u)
  /\ UNCHANGED <<hasCart, published, ordered>>

(****************************************************************************)
(* Remove, UpdateQuantity and Clear run outside a transaction.              *)
(****************************************************************************)
RemoveStart(r, u, p) ==
  /\ Working(r, "idle") /\ CanUpsert(u)
  /\ hasCart' = hasCart \cup {u}
  /\ cartReq' = [cartReq EXCEPT ![r] = [NoWork EXCEPT !.step = "remove", !.owner = u, !.product = p]]
  /\ UNCHANGED <<quantity, cartLock, published, ordered, asked>>

Remove(r) ==
  /\ Working(r, "remove")
  /\ RemoveItem(Owner(r), cartReq[r].product)
  /\ Stop(r)
  /\ UNCHANGED <<hasCart, cartLock, published, ordered, asked>>

ChangeStart(r, u, p, n) ==
  /\ Working(r, "idle") /\ CanUpsert(u) /\ p \in published
  /\ hasCart' = hasCart \cup {u}
  /\ cartReq' = [cartReq EXCEPT ![r] = [NoWork EXCEPT !.step = "change", !.owner = u, !.product = p, !.qty = n]]
  /\ UNCHANGED <<quantity, cartLock, published, ordered, asked>>

UpdateQuantity(r) ==
  /\ Working(r, "change")
  /\ UpdateItemQuantity(Owner(r), cartReq[r].product, cartReq[r].qty)
  /\ Ask(Owner(r), cartReq[r].product, More(Owner(r), cartReq[r].product, cartReq[r].qty))
  /\ Stop(r)
  /\ UNCHANGED <<hasCart, cartLock, published, ordered>>

Clear(r, u) ==
  /\ Working(r, "idle")
  /\ ClearItems(u)
  /\ UNCHANGED <<hasCart, cartLock, published, cartReq, ordered, asked>>

(****************************************************************************)
(* What order.Place does to the cart, in one transaction.                   *)
(****************************************************************************)
\* No order has the key yet; otherwise that order is the answer.
PlaceLookup(r, u, k) ==
  /\ Working(r, "idle") /\ ordered[u][k] = {}
  /\ cartReq' = [cartReq EXCEPT ![r] = [NoWork EXCEPT !.step = "looked", !.owner = u, !.key = k]]
  /\ UNCHANGED <<hasCart, quantity, cartLock, published, ordered, asked>>

PlaceLock_Unlocked(r) ==
  /\ Working(r, "looked") /\ Owner(r) \in hasCart
  /\ Go(r, "locked")
  /\ UNCHANGED <<hasCart, quantity, cartLock, published, ordered, asked>>

PlaceLock(r) ==
  /\ Working(r, "looked")
  /\ GetCartForLock(r, Owner(r))
  /\ Go(r, "locked")
  /\ UNCHANGED <<hasCart, quantity, published, ordered, asked>>

\* An empty cart, an unpublished product and mixed currencies are refused.
Orderable(u) ==
  /\ InCart(u) # {}
  /\ InCart(u) \subseteq published
  /\ \A p, q \in InCart(u) : Currency[p] = Currency[q]

PlaceSnapshot(r) ==
  LET u == Owner(r) IN
  /\ Working(r, "locked") /\ Orderable(u)
  /\ cartReq' = [cartReq EXCEPT ![r].step = "snapped", ![r].snapshot = CartSnapshot(u)]
  /\ UNCHANGED <<hasCart, quantity, cartLock, published, ordered, asked>>

\* The order is made of the snapshot, unless the unique index already has its key,
\* and the cart is emptied.
PlaceOrder(r) ==
  LET u == Owner(r) IN
  /\ Working(r, "snapped")
  /\ ordered[u][cartReq[r].key] = {}
  /\ ordered' = [ordered EXCEPT ![u][cartReq[r].key] = {cartReq[r].snapshot}]
  /\ ClearItems(u)
  /\ Stop(r)
  /\ UnlockCart(u)
  /\ UNCHANGED <<hasCart, published, asked>>

\* Any statement of a transaction may fail: its lock is released.
RollbackCart(r) ==
  /\ cartReq[r].step \in {"added_lock", "counted", "locked", "snapped"}
  /\ Stop(r)
  /\ UnlockCart(Owner(r))
  /\ UNCHANGED <<hasCart, quantity, published, ordered, asked>>

\* A request ends before its next statement: its caller hangs up, or the process dies.
HangUp(r) ==
  /\ cartReq[r].step \in {"add", "remove", "change", "looked"}
  /\ Stop(r)
  /\ UNCHANGED <<hasCart, quantity, cartLock, published, ordered, asked>>

\* The administrator publishes a product or takes it off sale.
TogglePublished(p) ==
  /\ published' = IF p \in published THEN published \ {p} ELSE published \cup {p}
  /\ UNCHANGED <<hasCart, quantity, cartLock, cartReq, ordered, asked>>

CartInit ==
  /\ hasCart = {}
  /\ quantity = [u \in Owners |-> NoLines]
  /\ cartLock = [u \in Owners |-> NoRequest]
  /\ published \in SUBSET CartProducts
  /\ cartReq = [r \in CartRequests |-> NoWork]
  /\ ordered = [u \in Owners |-> [k \in OrderKeys |-> {}]]
  /\ asked = [u \in Owners |-> NoLines]

CartStep(r) ==
  \/ \E u \in Owners, p \in CartProducts, n \in 1..MaxQuantity : AddStart(r, u, p, n) \/ ChangeStart(r, u, p, n)
  \/ AddLock(r) \/ AddCount(r) \/ AddCommit(r)
  \/ \E u \in Owners, p \in CartProducts : RemoveStart(r, u, p)
  \/ Remove(r) \/ UpdateQuantity(r)
  \/ \E u \in Owners : Clear(r, u) \/ \E k \in OrderKeys : PlaceLookup(r, u, k)
  \/ PlaceLock(r) \/ PlaceSnapshot(r) \/ PlaceOrder(r)
  \/ RollbackCart(r) \/ HangUp(r)

CartNext == (\E r \in CartRequests : CartStep(r)) \/ \E p \in CartProducts : TogglePublished(p)

CartSpec == CartInit /\ [][CartNext]_cartVars

(****************************************************************************)
(* Properties.                                                              *)
(****************************************************************************)
InTransaction(r) == cartReq[r].step \in {"added_lock", "counted", "locked", "snapped"}

CartTypeOK ==
  /\ hasCart \in SUBSET Owners
  /\ quantity \in [Owners -> Lines]
  /\ cartLock \in [Owners -> CartRequests \cup {NoRequest}]
  /\ published \in SUBSET CartProducts
  /\ cartReq \in [CartRequests -> [step : CartSteps, owner : Owners, product : CartProducts,
                                   qty : 0..MaxQuantity, snapshot : Lines, key : OrderKeys]]
  /\ ordered \in [Owners -> [OrderKeys -> {{}} \cup {{lines} : lines \in Lines}]]
  /\ asked \in [Owners -> [CartProducts -> 0..MaxAsked]]

\* No interleaving of two additions gets past the limit on the lines of a cart,
\* although counting and inserting are two statements (Service.Add).
CartBounded == \A u \in Owners : Cardinality(InCart(u)) <= MaxItems

\* No unit that was put into a cart once is ordered twice, by placements with
\* different keys or by a retry that overlaps the first one (order.Place).
UnitsUnder(u, p, k) == SumFunctionOnSet([lines \in ordered[u][k] |-> lines[p]], ordered[u][k])
Units(u, p) == SumFunctionOnSet([k \in OrderKeys |-> UnitsUnder(u, p, k)], OrderKeys)
OrderedOnce == \A u \in Owners, p \in CartProducts : quantity[u][p] + Units(u, p) <= asked[u][p]

\* A cart has no more lines than it may, and nothing in it is ordered twice; what may be
\* lost of it is NothingLost's matter.
CartExact == CartBounded /\ OrderedOnce

\* A product leaves a cart when its owner takes it out, or in the order that empties the
\* cart, and no Add comes between what that order read and what it clears. Units that an
\* UpdateQuantity, which takes no lock, puts on a line in between are cleared and not
\* ordered (Service.Add, Service.UpdateQuantity, order.Place).
Snapped(r, u) == Working(r, "snapped") /\ Owner(r) = u
NothingLost ==
  [][\A u \in Owners, p \in CartProducts :
       /\ quantity[u][p] > 0 /\ quantity'[u][p] = 0 =>
            \/ \E r \in CartRequests : Remove(r) \/ Clear(r, u)
            \/ \E r \in CartRequests : Snapped(r, u) /\ cartReq[r].snapshot[p] > 0
       /\ quantity'[u][p] > quantity[u][p] =>
            \/ \E r \in CartRequests : UpdateQuantity(r)
            \/ \A r \in CartRequests : ~Snapped(r, u)]_cartVars
===============================================================================

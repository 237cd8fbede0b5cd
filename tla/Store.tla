--------------------------------- MODULE Store --------------------------------
(****************************************************************************)
(* Placing, paying, cancelling and refunding orders of several products at  *)
(* the level of the row locks PostgreSQL takes: order.Place,                *)
(* FinalizeSuccess, cancelWithReversal, expireOne and SettleRefund as       *)
(* transactions over the rows of Order, Inventory and Promotion, with the   *)
(* administrators of the last two.                                          *)
(*                                                                          *)
(* A transaction asks for one row lock at a time, in the order of its       *)
(* statements, keeps them all to its end, and takes effect when it commits: *)
(* the rows it changes are its own from the statement that changes them.    *)
(* A cancellation and a refund decide what to give back from a read of the  *)
(* order that locks nothing, and a refund goes on when the order has been   *)
(* closed since.  The payments, the charges and the jobs are the subject of *)
(* Checkout; here they are what makes an order fail (FailOrder).            *)
(****************************************************************************)
EXTENDS Inventory, Promotion, Functions

CONSTANTS
  Transactions,
  NoTx,        \* the holder of a free row
  Promo,       \* the row of the promotion, among the rows that are locked
  Basket,      \* the batch each order is made of
  Subtotal,    \* its price
  WithCode,    \* the orders placed with the promotion code
  Edits        \* what an administrator may change of the terms

Rows == Products \cup Orders \cup Customers \cup {Promo}

ASSUME StoreAssumption ==
  /\ Basket \in [Orders -> [Products -> Nat]]
  /\ Subtotal \in [Orders -> Nat]
  /\ WithCode \subseteq Orders
  /\ NoTx \notin Transactions
  /\ Products \cap Orders = {}   \* rows of different tables
  /\ IsFiniteSet(Products) /\ IsFiniteSet(Orders) /\ Orders # {}
  /\ \A e \in Edits : DOMAIN e \subseteq DOMAIN Column /\ \A f \in DOMAIN e : e[f] \in Column[f]

VARIABLES
  discount,    \* orders.discount_amount
  holder,      \* who has each row locked; a customer stands for her usage key
  tx,          \* what each transaction does, and its next statement
  editing,     \* the promotion as an administrator read it
  strayed,     \* history: units released on a read of the order that was out of date
  left         \* history: units that a release of what the order did hold could not find

historyVars == <<strayed, left>>
dataVars  == <<inventoryVars, promotionVars, orderVars, discount, historyVars>>
storeVars == <<dataVars, holder, tx, editing>>

Ops == {"place", "pay", "cancel", "refund"}
Stages == {"idle", "order", "levels", "check", "price", "promotion", "usage", "commit"}

\* What a transaction does with the stock of an order it gives up.
Returns == {"nothing", "release", "restock"}

Free == [op |-> "place", stage |-> "idle", order |-> CHOOSE o \in Orders : TRUE, discount |-> 0, back |-> "nothing"]

Staged(t, stage) == tx[t].stage = stage
OrderOf(t) == tx[t].order
GivesUp(op) == op \in {"cancel", "refund"}

\* The units a transaction moves.
NoUnits == [p \in Products |-> 0]
Batch(t) == IF GivesUp(tx[t].op) /\ tx[t].back = "nothing" THEN NoUnits ELSE Basket[OrderOf(t)]

Holds(t, row) == holder[row] = t
ToStage(t, stage) == tx' = [tx EXCEPT ![t].stage = stage]
TakeRow(t, row) == holder[row] = NoTx /\ holder' = [holder EXCEPT ![row] = t]

\* Commit or rollback: every lock is released.
Finish(t) ==
  /\ tx' = [tx EXCEPT ![t] = Free]
  /\ holder' = [row \in Rows |-> IF holder[row] = t THEN NoTx ELSE holder[row]]

Rollback(t) == Finish(t) /\ UNCHANGED <<dataVars, editing>>

(****************************************************************************)
(* The statements of a transaction.                                         *)
(****************************************************************************)
\* Place runs once per order; the lock on the cart keeps two of one customer apart.
\* cart.Add took only what was in stock, so that every product of the basket has a
\* level, and levels are not deleted.
PlaceStart(t, o) ==
  /\ Staged(t, "idle") /\ ~Placed(o)
  /\ Named(Basket[o]) \subseteq leveled
  /\ \A u \in Transactions : tx[u].stage # "idle" /\ tx[u].op = "place" => CustomerOf[OrderOf(u)] # CustomerOf[o]
  /\ tx' = [tx EXCEPT ![t] = [Free EXCEPT !.op = "place", !.stage = "levels", !.order = o]]
  /\ UNCHANGED <<dataVars, holder, editing>>

\* Nobody asks whether the units were sold.
Owed_AlwaysRelease(o, op) ==
  IF reversed[o] \/ ~GivesUp(op) \/ (op = "refund" /\ status[o] \in Dispatched) THEN "nothing" ELSE "release"

\* What the flags of an order, as they are read, say is to be given back
\* (inventory.StockStateOf); only SettleRefund asks whether it is dispatched.
Owed(o, op) ==
  IF reversed[o] \/ ~GivesUp(op) \/ (op = "refund" /\ status[o] \in Dispatched) THEN "nothing"
  ELSE IF deducted[o] THEN "restock" ELSE "release"

\* FinalizeSuccess; cancelWithReversal and expireOne, with the row as their callers read
\* it; SettleRefund, after its snapshot.  Money that is given back was captured for an
\* order that could no longer be paid then, and never can again.
UpdateStart(t, o, op) ==
  /\ Staged(t, "idle") /\ Placed(o) /\ op # "place"
  /\ op = "refund" => status[o] \notin Payable
  /\ tx' = [tx EXCEPT ![t] = [Free EXCEPT !.op = op, !.stage = "order", !.order = o, !.back = Owed(o, op)]]
  /\ UNCHANGED <<dataVars, holder, editing>>

\* The transition each applies; expired is to the stock what cancelled is.
Change(op) == IF op = "pay" THEN ToPaid ELSE IF op = "cancel" THEN ToCancelled ELSE ToRefunded

\* Its UPDATE waits for the row, then finds the status or not.  A refund logs that it did
\* not and goes on, with the row if it waited for it.
LockOrder(t) ==
  LET o == OrderOf(t)  op == tx[t].op IN
  /\ Staged(t, "order")
  /\ \/ CanApply(o, Change(op)) /\ TakeRow(t, o) /\ ToStage(t, "levels")
     \/ ~CanApply(o, Change(op)) /\ op # "refund" /\ Finish(t)
     \/ ~CanApply(o, Change(op)) /\ op = "refund" /\ ToStage(t, "levels") /\ (UNCHANGED holder \/ TakeRow(t, o))
  /\ UNCHANGED <<dataVars, editing>>

\* lockLevels: the rows of the batch one by one, in the order of the ids.
Missing(t) == {p \in LevelsOf(Batch(t)) : ~Holds(t, p)}

NextLevels_Unordered(t) == Missing(t)
NextLevels(t) == IF Missing(t) = {} THEN {} ELSE {FirstOf(Missing(t))}

LockLevel(t) ==
  /\ Staged(t, "levels")
  /\ \E p \in NextLevels(t) : TakeRow(t, p)
  /\ UNCHANGED <<dataVars, tx, editing>>

\* The batch statement itself: it matches every row, or the transaction fails; but
\* RestockBatch does not count them, and a refund logs that some are missing.
Matches(t) ==
  CASE tx[t].op = "place" -> ReserveMatches(Batch(t))
    [] tx[t].op = "pay" \/ (tx[t].op = "cancel" /\ tx[t].back = "release") -> ReservedMatches(Batch(t))
    [] OTHER -> TRUE

\* Only Place and the two that give a coupon back go on to the promotion.
AfterLevels(t) ==
  IF tx[t].op = "pay" \/ OrderOf(t) \notin WithCode THEN "commit"
  ELSE IF tx[t].op = "place" THEN "price" ELSE "usage"

UpdateLevels(t) ==
  /\ Staged(t, "levels") /\ Missing(t) = {}
  /\ IF Matches(t) THEN ToStage(t, AfterLevels(t)) /\ UNCHANGED holder ELSE Finish(t)
  /\ UNCHANGED <<dataVars, editing>>

\* promotion.Reserve reads the row without locking it and prices the order.
PriceOrder(t) ==
  LET s == Subtotal[OrderOf(t)] IN
  /\ Staged(t, "price")
  /\ IF exists /\ ValidatePromotion(terms, usedCount, s)
     THEN /\ tx' = [tx EXCEPT ![t].stage = "promotion", ![t].discount = ComputeDiscount(terms, s)]
          /\ UNCHANGED holder
     ELSE Finish(t)
  /\ UNCHANGED <<dataVars, editing>>

\* ApplyPromotion in Place, ReleasePromotion in promotion.Release.
LockPromotion(t) ==
  /\ Staged(t, "promotion") /\ holder[Promo] = NoTx
  /\ IF tx[t].op = "place" /\ ~CanApplyPromotion
     THEN Finish(t)
     ELSE /\ TakeRow(t, Promo)
          /\ ToStage(t, IF tx[t].op = "place" THEN "usage" ELSE "commit")
  /\ UNCHANGED <<dataVars, editing>>

\* The check constraint on orders.discount_amount.
DiscountAllowed(o, d) == d >= 0 /\ d <= Subtotal[o]

\* CreateUsage in Place, then UpdateTotals; DeleteUsageByOrderID in promotion.Release.
\* A uniqueness check waits for whoever has a row with the key under way.
LockUsage(t) ==
  LET o == OrderOf(t)  c == CustomerOf[o] IN
  /\ Staged(t, "usage") /\ holder[c] = NoTx
  /\ IF tx[t].op = "place"
     THEN IF CanCreateUsage(o) /\ DiscountAllowed(o, tx[t].discount)
          THEN TakeRow(t, c) /\ ToStage(t, "commit")
          ELSE Finish(t)
     ELSE IF o \in usages
          THEN TakeRow(t, c) /\ ToStage(t, "promotion")
          ELSE ToStage(t, "commit") /\ UNCHANGED holder
  /\ UNCHANGED <<dataVars, editing>>

(****************************************************************************)
(* Commits.                                                                 *)
(****************************************************************************)
CommitPlace(t) ==
  LET o == OrderOf(t) IN
  /\ Staged(t, "commit") /\ tx[t].op = "place"
  /\ CreateOrder(o)
  /\ ReserveBatch(Batch(t))
  /\ IF o \in WithCode THEN UsePromotion(o) ELSE UNCHANGED promotionVars
  /\ discount' = [discount EXCEPT ![o] = tx[t].discount]
  /\ Finish(t)
  /\ UNCHANGED <<historyVars, editing>>

CommitPay(t) ==
  LET o == OrderOf(t) IN
  /\ Staged(t, "commit") /\ tx[t].op = "pay"
  /\ Apply(o, ToPaid)
  /\ DeductBatch(Batch(t))
  /\ Finish(t)
  /\ UNCHANGED <<promotionVars, discount, historyVars, editing>>

\* What the transaction read of its order is not so any more.
Stale(t) == tx[t].back # Owed(OrderOf(t), tx[t].op)

\* Restore: every row that has the units reserved is released.
ReleaseUnits(t) ==
  LET released == Released(Batch(t)) IN
  /\ ReleaseBatch(Batch(t))
  /\ strayed' = [p \in Products |-> IF Stale(t) /\ p \in released THEN strayed[p] + Batch(t)[p] ELSE strayed[p]]
  /\ left' = [p \in Products |-> IF ~Stale(t) /\ p \notin released THEN left[p] + Batch(t)[p] ELSE left[p]]

RestockUnits(t) ==
  /\ \A p \in Products : available[p] + reserved[p] + Batch(t)[p] <= MaxStock
  /\ RestockBatch(Batch(t))
  /\ UNCHANGED historyVars

GiveBackUnits(t) == IF tx[t].back = "restock" THEN RestockUnits(t) ELSE ReleaseUnits(t)

GiveBackCoupon(o) == IF o \in WithCode THEN UnusePromotion(o) ELSE UNCHANGED promotionVars

CommitCancel(t) ==
  LET o == OrderOf(t) IN
  /\ Staged(t, "commit") /\ tx[t].op = "cancel"
  /\ Apply(o, ToCancelled)
  /\ GiveBackUnits(t)
  /\ GiveBackCoupon(o)
  /\ Finish(t)
  /\ UNCHANGED <<discount, editing>>

CommitRefund(t) ==
  LET o == OrderOf(t) IN
  /\ Staged(t, "commit") /\ tx[t].op = "refund"
  /\ IF Holds(t, o) /\ CanApply(o, ToRefunded) THEN Apply(o, ToRefunded) ELSE UNCHANGED orderVars
  /\ GiveBackUnits(t)
  /\ GiveBackCoupon(o)
  /\ Finish(t)
  /\ UNCHANGED <<discount, editing>>

(****************************************************************************)
(* What else becomes of an order, each an UPDATE of its row: a charge that  *)
(* came late or could not be booked (FinalizeSuccess, compensation) fails   *)
(* it, and the parcel leaves.                                               *)
(****************************************************************************)
UpdateOrder(o, change) ==
  /\ holder[o] = NoTx
  /\ Apply(o, change)
  /\ UNCHANGED <<inventoryVars, promotionVars, discount, historyVars, holder, tx, editing>>

FailOrder(o) == UpdateOrder(o, ToFulfillmentFailedCompensating)
ShipOrder(o) == UpdateOrder(o, ToShipped)

(****************************************************************************)
(* The administrator: single statements, which wait for the row too.        *)
(****************************************************************************)
StockKeeper(p) ==
  /\ holder[p] = NoTx
  /\ \/ \E n \in 0..MaxStock : AdjustStock(p, n)
     \/ Restock(p, 1)
     \/ EnsureLevel(p)
  /\ UNCHANGED <<promotionVars, orderVars, discount, historyVars, holder, tx, editing>>

\* The row read, with the columns that the request names.
Edited(e) == [f \in DOMAIN terms |-> IF f \in DOMAIN e THEN e[f] ELSE terms[f]]

\* promotion.Update reads the row and later writes it with what was changed.
EditRead(e) ==
  /\ editing = {} /\ exists
  /\ editing' = {[read |-> terms, used |-> usedCount, to |-> Edited(e)]}
  /\ UNCHANGED <<dataVars, holder, tx>>

EditWrite(e) ==
  /\ e \in editing /\ holder[Promo] = NoTx
  /\ IF exists /\ ValidTerms(e.to) THEN UpdatePromotion(e.read, e.to, e.used) ELSE UNCHANGED promotionVars
  /\ editing' = {}
  /\ UNCHANGED <<inventoryVars, orderVars, discount, historyVars, holder, tx>>

\* promotion.Update of a second administrator, with nothing in between.
EditAtOnce(e) ==
  /\ exists /\ holder[Promo] = NoTx /\ ValidTerms(Edited(e))
  /\ UpdatePromotion(terms, Edited(e), usedCount)
  /\ UNCHANGED <<inventoryVars, orderVars, discount, historyVars, holder, tx, editing>>

\* A usage, also one not committed yet, refers to the row.
RemovePromotion ==
  /\ exists /\ usages = {}
  /\ holder[Promo] = NoTx
  /\ DeletePromotion
  /\ UNCHANGED <<inventoryVars, orderVars, discount, historyVars, holder, tx, editing>>

\* A new row has an id of its own: a Place that priced its order with the row
\* deleted meanwhile has failed before the code is created again.
AddPromotion(t) ==
  /\ ~exists /\ ValidTerms(t)
  /\ \A u \in Transactions : ~Staged(u, "promotion")
  /\ InsertPromotion(t)
  /\ UNCHANGED <<inventoryVars, orderVars, discount, historyVars, holder, tx, editing>>

(****************************************************************************)
(* Waiting, and the deadlocks that PostgreSQL resolves by failing one of    *)
(* the transactions in them.                                                *)
(****************************************************************************)
NextRows(t) ==
  CASE Staged(t, "order")     -> {OrderOf(t)}
    [] Staged(t, "levels")    -> NextLevels(t)
    [] Staged(t, "promotion") -> {Promo}
    [] Staged(t, "usage")     -> {CustomerOf[OrderOf(t)]}
    [] OTHER                  -> {}

Blocked(t, by) == by # t /\ \E row \in NextRows(t) : Holds(by, row)

InDeadlock(S) == S # {} /\ \A t \in S : \E u \in S : Blocked(t, u)

DeadlockVictim(t) ==
  /\ \E S \in SUBSET Transactions : t \in S /\ InDeadlock(S)
  /\ Rollback(t)

\* The caller hangs up, the process dies, a statement fails.
Fails(t) == ~Staged(t, "idle") /\ Rollback(t)

StoreInit ==
  /\ OrderInit /\ InventoryInit /\ PromotionInit
  /\ discount = [o \in Orders |-> 0]
  /\ holder = [row \in Rows |-> NoTx]
  /\ tx = [t \in Transactions |-> Free]
  /\ editing = {}
  /\ strayed = NoUnits /\ left = NoUnits

Begin(t) == \E o \in Orders : PlaceStart(t, o) \/ \E op \in Ops : UpdateStart(t, o, op)

Advance(t) ==
  \/ LockOrder(t) \/ LockLevel(t) \/ UpdateLevels(t)
  \/ PriceOrder(t) \/ LockPromotion(t) \/ LockUsage(t)
  \/ CommitPlace(t) \/ CommitPay(t) \/ CommitCancel(t) \/ CommitRefund(t)

Transact ==
  \/ \E t \in Transactions : Begin(t) \/ Advance(t) \/ DeadlockVictim(t) \/ Fails(t)
  \/ \E o \in Orders : FailOrder(o) \/ ShipOrder(o)

KeepStock == \E p \in Products : StockKeeper(p)

EditPromotion ==
  \/ \E e \in Edits : EditRead(e) \/ EditAtOnce(e)
  \/ \E e \in editing : EditWrite(e)
  \/ RemovePromotion \/ \E t \in TermSet : AddPromotion(t)

StoreNext == Transact \/ KeepStock \/ EditPromotion

StoreSpec == StoreInit /\ [][StoreNext]_storeVars

-----------------------------------------------------------------------------
\* No count of units is ever below nothing: what a transaction found in stock under its
\* locks is there when it commits (Repository.Reserve, AdjustStock).
LevelsTypeOK ==
  /\ leveled \subseteq Products
  /\ available \in [Products -> Nat] /\ reserved \in [Products -> Nat]

StoreTypeOK ==
  /\ LevelsTypeOK
  /\ terms \in Terms /\ exists \in BOOLEAN /\ usedCount \in Nat /\ usages \subseteq Orders
  /\ OrderTypeOK
  /\ strayed \in [Products -> Nat] /\ left \in [Products -> Nat]
  /\ discount \in [Orders -> Int]
  /\ holder \in [Rows -> Transactions \cup {NoTx}]
  /\ tx \in [Transactions -> [op : Ops, stage : Stages, order : Orders, discount : Int, back : Returns]]

\* The orders whose units are reserved.
Holding(o) == Placed(o) /\ ~deducted[o] /\ ~reversed[o]

HeldUnits(p) == SumFunctionOnSet([o \in Orders |-> Basket[o][p]], {o \in Orders : Holding(o)})

\* What is reserved of a product is what the orders hold of it, to the unit, but for
\* two things: the units released a second time, by a cancellation or a refund that read
\* the order before it let go of them, and the units a refund could not release because
\* such a release had taken them.  Where nobody acted on a stale read nothing is left
\* behind (Repository.Reserve, Deduct, ReleaseBatch, Service.Restore).
ReservedIsHeld ==
  \A p \in Products :
    /\ reserved[p] + strayed[p] = HeldUnits(p) + left[p]
    /\ left[p] > 0 => strayed[p] > 0

\* used_count is the number of usages, and those are of the orders that took the
\* code and have not given it back, whatever the administrator edits meanwhile
\* (promotion.Reserve, Release, Update).
UsesCounted ==
  /\ usages = {o \in WithCode : Placed(o) /\ ~reversed[o]}
  /\ exists => usedCount = Cardinality(usages)
  /\ \A o, u \in usages : CustomerOf[o] = CustomerOf[u] => o = u

\* An order is never discounted below nothing or by less than nothing, though an
\* update of the promotion may give it a cap that is negative (ComputeDiscount,
\* orders_discount_amount_check).
TotalsAddUp == \A o \in Orders : discount[o] >= 0 /\ discount[o] <= Subtotal[o]

\* Two administrators who write the whole row over each other leave a row that one
\* of them validated, not a mixture of the two (promotion.Update).
TermsValid == ValidTerms(terms)

\* What customers, who take the code and give it back, and administrators, who edit
\* its terms, write to one row at the same time adds up (promotion.Service).
PromotionsAddUp == UsesCounted /\ TotalsAddUp /\ TermsValid

\* Transactions wait for each other in a circle only when a coupon is among what
\* they wait for: levels are locked in the order of their ids, after the order
\* (lockLevels).
NoStockDeadlock ==
  \A S \in SUBSET Transactions :
    InDeadlock(S) => \E t \in S : \E row \in NextRows(t) : row \in Customers \cup {Promo}
===============================================================================

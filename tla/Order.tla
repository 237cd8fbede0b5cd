-------------------------------- MODULE Order --------------------------------
(****************************************************************************)
(* The order row and its transition table.                                  *)
(*                                                                          *)
(* order/domain/state.go lists every transition an order may make; the      *)
(* repository's Apply turns one of them into a single guarded UPDATE.  An   *)
(* order that has not been placed yet has the status "none" (no row).       *)
(****************************************************************************)
CONSTANTS
  Orders,   \* the orders customers may place, one per (user, idempotency key)
  NoOrder   \* the value of an order reference that names no order

ASSUME OrdersAssumption == NoOrder \notin Orders

VARIABLES
  status,    \* orders.status
  deducted,  \* orders.stock_deducted
  reversed   \* orders.stock_reversed

orderVars == <<status, deducted, reversed>>

OrderStatuses ==
  {"awaiting_payment", "payment_processing", "paid", "processing", "shipped",
   "delivered", "cancelled", "expired", "refunded", "fulfillment_failed"}

Payable   == {"awaiting_payment", "payment_processing"}
Fulfilled == {"paid", "processing", "shipped", "delivered"}
Dispatched == {"shipped", "delivered"}

(****************************************************************************)
(* The transition table.  An operator with a suffix is the one that follows *)
(* it with a mistake in it.                                                 *)
(****************************************************************************)
Transition(to, from, stock) == [to |-> to, from |-> from, stock |-> stock]

ToAwaitingPayment ==
  Transition("awaiting_payment", {"payment_processing"}, "unchanged")

ToPaymentAttempt ==
  Transition("payment_processing", {"awaiting_payment"}, "unchanged")

ToPaid ==
  Transition("paid", {"awaiting_payment", "payment_processing"}, "deducted")

ToProcessing == Transition("processing", {"paid"}, "unchanged")

ToShipped == Transition("shipped", {"paid", "processing"}, "unchanged")

ToDelivered == Transition("delivered", {"shipped"}, "unchanged")

ToFulfillmentFailedAfterCharge ==
  Transition("fulfillment_failed", {"paid", "cancelled", "expired"}, "unchanged")

ToFulfillmentFailedCompensating_KeepsPayable ==
  Transition("fulfillment_failed", {"paid", "cancelled", "expired"}, "unchanged")

ToFulfillmentFailedCompensating ==
  Transition("fulfillment_failed",
             {"awaiting_payment", "payment_processing", "paid", "cancelled", "expired"},
             "unchanged")

ToCancelled_FromShipped ==
  Transition("cancelled",
             {"awaiting_payment", "payment_processing", "fulfillment_failed", "shipped"},
             "reversed")

ToCancelled ==
  Transition("cancelled",
             {"awaiting_payment", "payment_processing", "fulfillment_failed"},
             "reversed")

ToExpired_FromProcessing ==
  Transition("expired", {"payment_processing"}, "reversed")

ToExpired_KeepsHold == Transition("expired", {"awaiting_payment"}, "unchanged")

ToExpired == Transition("expired", {"awaiting_payment"}, "reversed")

ToRefunded_NoReversal ==
  Transition("refunded",
             {"paid", "processing", "shipped", "delivered", "fulfillment_failed"},
             "unchanged")

ToRefunded ==
  Transition("refunded",
             {"paid", "processing", "shipped", "delivered", "fulfillment_failed"},
             "reversed")

\* The transitions ChangeStatus lets an administrator ask for.
AdminTransitions == {ToAwaitingPayment, ToProcessing, ToShipped, ToDelivered}

(****************************************************************************)
(* The guarded UPDATE: no row matches (ErrConflict) unless the status is in *)
(* the From list; a stock flag is only ever set, never cleared.             *)
(****************************************************************************)
Placed(o) == status[o] # "none"

CanApply(o, t) == status[o] \in t.from

Apply(o, t) ==
  /\ CanApply(o, t)
  /\ status'   = [status   EXCEPT ![o] = t.to]
  /\ deducted' = [deducted EXCEPT ![o] = @ \/ t.stock = "deducted"]
  /\ reversed' = [reversed EXCEPT ![o] = @ \/ t.stock = "reversed"]

\* A caller that only logs ErrConflict: the row changes or it does not.
ApplyOrLog(o, t) ==
  \/ Apply(o, t)
  \/ ~CanApply(o, t) /\ UNCHANGED orderVars

\* repo.Create: the row of a new order.
CreateOrder(o) ==
  /\ ~Placed(o)
  /\ status' = [status EXCEPT ![o] = "awaiting_payment"]
  /\ UNCHANGED <<deducted, reversed>>

OrderInit ==
  /\ status   = [o \in Orders |-> "none"]
  /\ deducted = [o \in Orders |-> FALSE]
  /\ reversed = [o \in Orders |-> FALSE]

\* Every transition some caller asks for.
Transitions ==
  {ToAwaitingPayment, ToPaymentAttempt, ToPaid, ToProcessing, ToShipped, ToDelivered,
   ToFulfillmentFailedAfterCharge, ToFulfillmentFailedCompensating,
   ToCancelled, ToExpired, ToRefunded}

OrderNext == \E o \in Orders : CreateOrder(o) \/ \E t \in Transitions : Apply(o, t)

OrderSpec == OrderInit /\ [][OrderNext]_orderVars

OrderTypeOK ==
  /\ status   \in [Orders -> OrderStatuses \cup {"none"}]
  /\ deducted \in [Orders -> BOOLEAN]
  /\ reversed \in [Orders -> BOOLEAN]

\* The two stock flags say what the status implies, whichever handlers raced:
\* an order that can still be paid has neither, one that is being fulfilled has
\* its units deducted and not given back, and one that is over gave them back.
\* Restore trusts these flags to choose between release and restock.
FlagsMatchStatus ==
  \A o \in Orders :
    /\ status[o] \in Payable \cup {"none"} => ~deducted[o] /\ ~reversed[o]
    /\ status[o] \in Fulfilled => deducted[o] /\ ~reversed[o]
    /\ status[o] \in {"cancelled", "expired", "refunded"} => reversed[o]
==============================================================================

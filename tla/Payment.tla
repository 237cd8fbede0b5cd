------------------------------- MODULE Payment -------------------------------
(****************************************************************************)
(* The payments table: one row per attempt to collect an order's total. A   *)
(* payment identifier that has no row yet has the status "none".            *)
(****************************************************************************)
EXTENDS Order

CONSTANTS
  Payments,   \* payment identifiers; a bound on the attempts of one behaviour
  NoPayment   \* the value of a payment reference that names no payment

ASSUME PaymentsAssumption == NoPayment \notin Payments

VARIABLES
  pstatus,  \* payments.status
  porder    \* payments.order_id

paymentVars == <<pstatus, porder>>

PaymentStatuses ==
  {"pending", "processing", "success", "failed", "cancelled", "requires_review", "refunded"}

\* The statuses the unique index ux_payments_order_active covers.
ActiveStatuses == {"pending", "processing", "requires_review"}

\* The statuses of a payment whose money the system knows it holds or held.
Recorded == {"success", "requires_review", "refunded"}

\* The statuses HandleWebhook ignores.
Settled == {"success", "refunded", "requires_review"}

\* The statuses SettleRefund and Refund accept.
Refundable == {"success", "requires_review"}

MarkPaidFrom_Refunded ==
  {"pending", "processing", "requires_review", "cancelled", "refunded"}

MarkPaidFrom == {"pending", "processing", "requires_review", "cancelled"}

CompensateFrom == {"pending", "processing", "success"}

Active(p) == pstatus[p] \in ActiveStatuses

ActiveOf(o) == {p \in Payments : porder[p] = o /\ Active(p)}

\* ux_payments_order_active would reject making p active for its order.
IndexAllows(p) == ActiveOf(porder[p]) \subseteq {p}

SetPayment(p, s) ==
  /\ pstatus' = [pstatus EXCEPT ![p] = s]
  /\ UNCHANGED porder

CreatePayment(p, o) ==
  /\ pstatus[p] = "none"
  /\ ActiveOf(o) = {}
  /\ pstatus' = [pstatus EXCEPT ![p] = "pending"]
  /\ porder'  = [porder EXCEPT ![p] = o]

PaymentInit ==
  /\ pstatus = [p \in Payments |-> "none"]
  /\ porder  = [p \in Payments |-> NoOrder]

PaymentTypeOK ==
  /\ pstatus \in [Payments -> PaymentStatuses \cup {"none"}]
  /\ porder  \in [Payments -> Orders \cup {NoOrder}]
==============================================================================

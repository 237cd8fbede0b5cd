------------------------------ MODULE SaleProofs -----------------------------
(***************************************************************************)
(* Proof that Checkout implements Sale.                                    *)
(***************************************************************************)
EXTENDS CheckoutProofs

USE OrdersAssumption, CouponAssumption, PaymentsAssumption, ThreadsAssumption
USE DEF orderVars, paymentVars,
        At, Ord, Pay, Placed, CanApply, Apply, ApplyOrLog, Transition, SetPayment
USE DEF TypeOK, OrderTypeOK, PaymentTypeOK, OrderStatuses, PaymentStatuses
USE DEF Payable, Fulfilled, Dispatched, Recorded, Refundable, MarkPaidFrom,
        CompensateFrom, HasPayment

\* The abstract state.
Phase     == [o \in Orders |-> PhaseOf[status[o]]]
Collected == [o \in Orders |-> Money(o)]

(****************************************************************************)
(* The status failed exists in the table's check constraint, but no handler *)
(* writes it: a payment that cannot be marked paid was recorded before.     *)
(****************************************************************************)
NeverFailed == \A p \in Payments : pstatus[p] # "failed"

\* No handler ever writes the payment status failed.
LEMMA NeverFailedInvariant == Spec => []NeverFailed
<1>1. Init => NeverFailed
  BY DEF Init, PaymentInit, NeverFailed
<1>2. Linked /\ NeverFailed /\ [Next]_vars => NeverFailed'
  BY PaymentStep DEF PaymentMoves, NeverFailed
<1>3. QED
  BY <1>1, <1>2, LinkedInvariant, PTL DEF Spec

SaleInv == Linked /\ CallsInformed /\ RecordedNotPayable /\ NeverFailed

(****************************************************************************)
(* What moves of the rows mean for the sale.                                *)
(****************************************************************************)
LEMMA ApplyMovesPhase ==
  ASSUME OrderTypeOK, NEW o \in Orders, NEW m \in Transitions, Apply(o, m)
  PROVE  /\ Phase' = [Phase EXCEPT ![o] = PhaseOf[m.to]]
         /\ Phase[o] = PhaseOf[status[o]] /\ status[o] \in m.from
  BY DEF Phase

\* A transition sets the reversed mark of its order exactly when its table entry
\* says so.
LEMMA ReversedMoves ==
  ASSUME OrderTypeOK, NEW o \in Orders, NEW m \in Transitions, Apply(o, m)
  PROVE  /\ m.stock = "reversed" => reversed' = [reversed EXCEPT ![o] = TRUE]
         /\ m.stock # "reversed" => reversed' = reversed
  OBVIOUS

\* The abstract books say yes or no of every order.
LEMMA CollectedBoolean == \A o \in Orders : Collected[o] \in BOOLEAN
  BY DEF Collected, Money

\* A step that records no payment leaves the abstract books alone.
LEMMA CollectedSame ==
  ASSUME \A p \in Payments :
           /\ pstatus'[p] \in Recorded <=> pstatus[p] \in Recorded
           /\ pstatus[p] \in Recorded => porder'[p] = porder[p]
  PROVE  Collected' = Collected
  <1>1. ASSUME NEW o \in Orders PROVE Money(o)' <=> Money(o)
    BY DEF Money
  <1>2. \A o \in Orders : Money(o) \in BOOLEAN /\ Money(o)' \in BOOLEAN
    BY DEF Money
  <1> QED BY <1>1, <1>2 DEF Collected

\* Recording a payment books the money of its order and of no other.
LEMMA CollectedMoves ==
  ASSUME PaymentTypeOK, NEW p \in Payments, NEW s \in Recorded, SetPayment(p, s),
         NEW o \in Orders, porder[p] = o
  PROVE  Collected' = [Collected EXCEPT ![o] = TRUE]
  <1>1. Money(o)'
    BY DEF Money
  <1>2. ASSUME NEW x \in Orders, x # o PROVE Money(x)' <=> Money(x)
    BY <1>2 DEF Money
  <1>3. \A x \in Orders : Money(x) \in BOOLEAN /\ Money(x)' \in BOOLEAN
    BY DEF Money
  <1> QED BY <1>1, <1>2, <1>3 DEF Collected

(****************************************************************************)
(* Every step is a step of the sale, or none.                               *)
(****************************************************************************)
SaleVars == <<Phase, Collected, reversed>>

SaleStep == Abstract!Next \/ UNCHANGED SaleVars

\* A step that changes no order row and records no payment is a stutter of the
\* sale.
LEMMA SaleUnchanged ==
  ASSUME UNCHANGED orderVars,
         \A p \in Payments :
           /\ pstatus'[p] \in Recorded <=> pstatus[p] \in Recorded
           /\ pstatus[p] \in Recorded => porder'[p] = porder[p]
  PROVE  SaleStep
  <1>1. Phase' = Phase
    BY DEF Phase
  <1> QED BY <1>1, CollectedSame DEF SaleStep, SaleVars

\* A payment is recorded for an order whose row stays as it is.
LEMMA SaleCollect ==
  ASSUME OrderTypeOK, PaymentTypeOK, UNCHANGED orderVars,
         NEW p \in Payments, NEW s \in Recorded, SetPayment(p, s),
         NEW o \in Orders, porder[p] = o,
         status[o] \in {"paid", "processing", "shipped", "delivered",
                        "fulfillment_failed", "refunded"}
  PROVE  SaleStep
  <1>1. Phase' = Phase /\ Phase[o] \in {"sold", "sent", "failed", "refunded"}
    BY DEF Phase, PhaseOf
  <1>2. Collected' = [Collected EXCEPT ![o] = TRUE]
    BY CollectedMoves
  <1>3. CASE Collected[o]
    <2>1. Collected = [x \in Orders |-> Collected[x]]
      BY DEF Collected
    <2>2. Collected[o] = TRUE
      BY <1>3, CollectedBoolean
    <2>3. Collected' = Collected
      BY <1>2, <2>1, <2>2, Zenon
    <2> QED BY <1>1, <2>3 DEF SaleStep, SaleVars
  <1>4. CASE ~Collected[o]
    <2>1. Abstract!Collect(o)
      BY <1>1, <1>2, <1>4 DEF Abstract!Collect, Phase, Collected
    <2> QED BY <2>1 DEF SaleStep, Abstract!Next
  <1> QED BY <1>3, <1>4

\* A step of one sale is a step of the abstract specification.
LEMMA SaleMove ==
  ASSUME NEW o \in Orders,
         \/ Abstract!Open(o) \/ Abstract!Sell(o) \/ Abstract!Send(o)
         \/ Abstract!Abandon(o) \/ Abstract!Fail(o) \/ Abstract!Collect(o)
         \/ Abstract!Refund(o)
  PROVE  SaleStep
  BY DEF SaleStep, Abstract!Next

\* From a state that satisfies the invariants every step of the pipeline is one
\* step of the sale or none: each transaction of each handler moves one order.
LEMMA SaleSimulation == SaleInv /\ [Next]_vars => SaleStep
<1> SUFFICES ASSUME SaleInv, [Next]_vars PROVE SaleStep
  OBVIOUS
<1> USE DEF SaleInv, Linked, CallsLinked
<1>1. CASE UNCHANGED <<orderVars, paymentVars>>
  BY <1>1, SaleUnchanged
<1>2. ASSUME NEW t \in Threads, PlaceCommit(t) PROVE SaleStep
  <2>a. PICK o \in Orders : o = Ord(t)
    BY <1>2 DEF PlaceCommit
  <2>1. o \in Orders /\ CreateOrder(o) /\ UNCHANGED paymentVars
    BY <2>a, <1>2 DEF PlaceCommit
  <2>2. Phase' = [Phase EXCEPT ![o] = "open"] /\ Phase[o] = "absent"
    <3>1. PhaseOf["none"] = "absent" /\ PhaseOf["awaiting_payment"] = "open"
      BY DEF PhaseOf
    <3> HIDE DEF PhaseOf
    <3> QED BY <2>1, <3>1 DEF CreateOrder, Phase
  <2>3. Collected' = Collected
    BY <2>1, CollectedSame
  <2>4. Abstract!Open(o)
    BY <2>1, <2>2, <2>3 DEF CreateOrder, Abstract!Open, Abstract!Move, Phase, Collected
  <2> QED BY <2>1, <2>4, SaleMove
\* A free order is sold without a payment.
<1>3. ASSUME NEW t \in Threads, FinalizeFreeOrder(t) PROVE SaleStep
  <2>a. PICK o \in Orders : o = Ord(t)
    BY <1>3 DEF FinalizeFreeOrder
  <2>1. o \in Orders /\ o \in FreeOrders /\ Apply(o, ToPaid) /\ UNCHANGED paymentVars
    BY <2>a, <1>3 DEF FinalizeFreeOrder
  <2>2. /\ Phase' = [Phase EXCEPT ![o] = "sold"] /\ Phase[o] = "open"
        /\ reversed' = reversed
    <3>1. ToPaid \in Transitions /\ ToPaid.stock # "reversed" /\ PhaseOf[ToPaid.to] = "sold"
      BY DEF Transitions, ToPaid, PhaseOf
    <3>2. \A s \in ToPaid.from : PhaseOf[s] = "open"
      BY DEF ToPaid, PhaseOf
    <3> HIDE DEF Apply
    <3> QED BY <2>1, <3>1, <3>2, ApplyMovesPhase, ReversedMoves
  <2>3. Collected' = Collected
    BY <2>1, CollectedSame
  <2>4. Abstract!Sell(o)
    BY <2>1, <2>2, <2>3 DEF Abstract!Sell, Abstract!Move, Phase, Collected
  <2> QED BY <2>1, <2>4, SaleMove
\* Any other order with one: if it could not be marked paid its money would be
\* recorded already and the order not payable.
<1>4. ASSUME NEW t \in Threads, FinalizePaid(t) PROVE SaleStep
  <2>a. PICK o \in Orders : o = Ord(t)
    BY <1>4 DEF FinalizePaid
  <2>b. PICK p \in Payments : p = Pay(t)
    BY <1>4 DEF FinalizePaid
  <2>1. o \in Orders /\ p \in Payments /\ porder[p] = o /\ Apply(o, ToPaid)
    BY <2>a, <2>b, <1>4 DEF FinalizePaid
  <2>2. /\ Phase' = [Phase EXCEPT ![o] = "sold"] /\ Phase[o] = "open"
        /\ reversed' = reversed
    <3>1. ToPaid \in Transitions /\ ToPaid.stock # "reversed" /\ PhaseOf[ToPaid.to] = "sold"
      BY DEF Transitions, ToPaid, PhaseOf
    <3>2. \A s \in ToPaid.from : PhaseOf[s] = "open"
      BY DEF ToPaid, PhaseOf
    <3> HIDE DEF Apply
    <3> QED BY <2>1, <3>1, <3>2, ApplyMovesPhase, ReversedMoves
  <2>3. pstatus[p] \in MarkPaidFrom
    <3>1. pstatus[p] \notin Recorded
      BY <2>1 DEF RecordedNotPayable, Money, ToPaid
    <3> QED BY <2>a, <2>b, <1>4, <2>1, <3>1 DEF FinalizePaid, NeverFailed
  <2>4. SetPayment(p, "success")
    BY <2>a, <2>b, <1>4, <2>3 DEF FinalizePaid
  <2>5. Collected' = [Collected EXCEPT ![o] = TRUE]
    BY <2>1, <2>4, CollectedMoves
  <2>6. Abstract!Sell(o)
    BY <2>2, <2>5 DEF Abstract!Sell, Abstract!Move, Phase, Collected
  <2> QED BY <2>1, <2>6, SaleMove
<1>5. ASSUME NEW t \in Threads, FinalizeLate(t) PROVE SaleStep
  <2>a. PICK o \in Orders : o = Ord(t)
    BY <1>5 DEF FinalizeLate
  <2>b. PICK p \in Payments : p = Pay(t)
    BY <1>5 DEF FinalizeLate
  <2> DEFINE m == ToFulfillmentFailedAfterCharge
  <2>1. /\ o \in Orders /\ p \in Payments /\ porder[p] = o /\ status[o] # "none"
        /\ status[o] \notin Payable /\ SetPayment(p, "requires_review")
        /\ Apply(o, m) \/ (~CanApply(o, m) /\ UNCHANGED orderVars)
    <3>1. o \in Orders /\ p \in Payments /\ porder[p] = o /\ status[o] # "none"
      BY <2>a, <2>b, <1>5 DEF FinalizeLate
    <3>2. /\ status[o] \notin Payable /\ SetPayment(p, "requires_review")
          /\ ApplyOrLog(o, m)
      BY <2>a, <2>b, <1>5 DEF FinalizeLate, ToPaid
    <3> HIDE DEF m, Apply, CanApply, SetPayment
    <3> QED BY <3>1, <3>2
  <2>2. CASE Apply(o, m)
    <3>1. /\ Phase' = [Phase EXCEPT ![o] = "failed"] /\ Phase[o] \in {"sold", "void"}
          /\ reversed' = reversed
      <4>1. m \in Transitions /\ m.stock # "reversed" /\ PhaseOf[m.to] = "failed"
        BY DEF Transitions, ToFulfillmentFailedAfterCharge, PhaseOf
      <4>2. \A s \in m.from : PhaseOf[s] \in {"sold", "void"}
        BY DEF ToFulfillmentFailedAfterCharge, PhaseOf
      <4> HIDE DEF m, Apply
      <4> QED BY <2>1, <2>2, <4>1, <4>2, ApplyMovesPhase, ReversedMoves
    <3>2. Collected' = [Collected EXCEPT ![o] = TRUE]
      BY <2>1, CollectedMoves
    <3>3. Abstract!Fail(o)
      BY <3>1, <3>2 DEF Abstract!Fail, Abstract!Move, Phase, Collected
    <3> QED BY <2>1, <3>3, SaleMove
  <2>3. CASE ~CanApply(o, m) /\ UNCHANGED orderVars
    <3>1. status[o] \in {"paid", "processing", "shipped", "delivered",
                         "fulfillment_failed", "refunded"}
      BY <2>1, <2>3 DEF ToFulfillmentFailedAfterCharge
    <3> QED BY <2>1, <2>3, <3>1, SaleCollect
  <2> QED BY <2>1, <2>2, <2>3
<1>6. ASSUME NEW t \in Threads, CompensateRefund(t) PROVE SaleStep
  <2>a. PICK o \in Orders : o = Ord(t)
    BY <1>6 DEF CompensateRefund
  <2>b. PICK p \in Payments : p = Pay(t)
    BY <1>6 DEF CompensateRefund
  <2> DEFINE m == ToFulfillmentFailedCompensating
  <2>1. /\ o \in Orders /\ p \in Payments /\ porder[p] = o /\ status[o] # "none"
        /\ SetPayment(p, "requires_review") \/ UNCHANGED paymentVars
        /\ Apply(o, m) \/ (~CanApply(o, m) /\ UNCHANGED orderVars)
    <3>1. o \in Orders /\ p \in Payments /\ porder[p] = o /\ status[o] # "none"
      BY <2>a, <2>b, <1>6 DEF CompensateRefund
    <3>2. /\ SetPayment(p, "requires_review") \/ UNCHANGED paymentVars
          /\ ApplyOrLog(o, m)
      BY <2>a, <2>b, <1>6 DEF CompensateRefund
    <3> HIDE DEF m, Apply, CanApply, SetPayment
    <3> QED BY <3>1, <3>2
  <2>2. Collected' \in {Collected, [Collected EXCEPT ![o] = TRUE]}
    BY <2>1, CollectedMoves, CollectedSame
  <2>3. CASE Apply(o, m)
    <3>1. /\ Phase' = [Phase EXCEPT ![o] = "failed"]
          /\ Phase[o] \in {"open", "sold", "void"} /\ reversed' = reversed
      <4>1. m \in Transitions /\ m.stock # "reversed" /\ PhaseOf[m.to] = "failed"
        BY DEF Transitions, ToFulfillmentFailedCompensating, PhaseOf
      <4>2. \A s \in m.from : PhaseOf[s] \in {"open", "sold", "void"}
        BY DEF ToFulfillmentFailedCompensating, PhaseOf
      <4> HIDE DEF m, Apply
      <4> QED BY <2>1, <2>3, <4>1, <4>2, ApplyMovesPhase, ReversedMoves
    <3>2. Abstract!Fail(o)
      BY <2>2, <3>1 DEF Abstract!Fail, Abstract!Move, Phase, Collected
    <3> QED BY <2>1, <3>2, SaleMove
  <2>4. CASE ~CanApply(o, m) /\ UNCHANGED orderVars
    <3>1. status[o] \in {"processing", "shipped", "delivered", "fulfillment_failed", "refunded"}
      BY <2>1, <2>4 DEF ToFulfillmentFailedCompensating
    <3>2. CASE UNCHANGED paymentVars
      BY <2>4, <3>2, SaleUnchanged
    <3>3. CASE SetPayment(p, "requires_review")
      BY <2>1, <2>4, <3>1, <3>3, SaleCollect
    <3> QED BY <2>1, <3>2, <3>3
  <2> QED BY <2>1, <2>3, <2>4
\* Giving an order up: its money was not recorded, or it had failed.
<1>7. ASSUME NEW o \in Orders, NEW m \in {ToCancelled, ToExpired}, Apply(o, m),
             UNCHANGED paymentVars
      PROVE  SaleStep
  <2>1. /\ Phase' = [Phase EXCEPT ![o] = "void"] /\ Phase[o] \in {"open", "failed"}
        /\ reversed' = [reversed EXCEPT ![o] = TRUE]
    <3>1. m \in Transitions /\ m.stock = "reversed" /\ PhaseOf[m.to] = "void"
      BY <1>7 DEF Transitions, ToCancelled, ToExpired, PhaseOf
    <3>2. \A s \in m.from : PhaseOf[s] \in {"open", "failed"}
      BY <1>7 DEF ToCancelled, ToExpired, PhaseOf
    <3> HIDE DEF Apply
    <3> QED BY <1>7, <3>1, <3>2, ApplyMovesPhase, ReversedMoves
  <2>2. Phase[o] = "open" => ~Collected[o]
    BY DEF RecordedNotPayable, Phase, PhaseOf, Collected
  <2>3. Collected' = Collected
    BY <1>7, CollectedSame
  <2>4. Abstract!Abandon(o)
    BY <2>1, <2>2, <2>3 DEF Abstract!Abandon, Abstract!Move, Phase, Collected
  <2> QED BY <2>4, SaleMove
<1>8. ASSUME NEW t \in Threads, CancelCommit(t) \/ ExpireCommit(t) PROVE SaleStep
  BY <1>7, <1>8 DEF CancelCommit, ExpireCommit
<1>9. ASSUME NEW t \in Threads, SettleRefund(t) PROVE SaleStep
  <2>a. PICK o \in Orders : o = Ord(t)
    BY <1>9 DEF SettleRefund
  <2>b. PICK p \in Payments : p = Pay(t)
    BY <1>9 DEF SettleRefund
  <2>1. /\ o \in Orders /\ p \in Payments /\ porder[p] = o
        /\ pstatus[p] \in Recorded
        /\ SetPayment(p, "refunded") \/ UNCHANGED paymentVars
        /\ Apply(o, ToRefunded) \/ UNCHANGED orderVars
    BY <2>a, <2>b, <1>9 DEF SettleRefund, CallsInformed
  <2>2. \A q \in Payments :
          /\ pstatus'[q] \in Recorded <=> pstatus[q] \in Recorded
          /\ pstatus[q] \in Recorded => porder'[q] = porder[q]
    BY <2>1
  <2>3. CASE UNCHANGED orderVars
    BY <2>2, <2>3, SaleUnchanged
  <2>4. CASE Apply(o, ToRefunded)
    <3>1. /\ Phase' = [Phase EXCEPT ![o] = "refunded"]
          /\ Phase[o] \in {"sold", "sent", "failed"}
          /\ reversed' = [reversed EXCEPT ![o] = TRUE]
      <4>1. /\ ToRefunded \in Transitions /\ ToRefunded.stock = "reversed"
            /\ PhaseOf[ToRefunded.to] = "refunded"
        BY DEF Transitions, ToRefunded, PhaseOf
      <4>2. \A s \in ToRefunded.from : PhaseOf[s] \in {"sold", "sent", "failed"}
        BY DEF ToRefunded, PhaseOf
      <4> HIDE DEF Apply
      <4> QED BY <2>1, <2>4, <4>1, <4>2, ApplyMovesPhase, ReversedMoves
    <3>2. Collected' = Collected /\ Collected[o]
      BY <2>1, <2>2, CollectedSame DEF Collected, Money
    <3>3. Abstract!Refund(o)
      BY <3>1, <3>2 DEF Abstract!Refund, Abstract!Move, Phase, Collected
    <3> QED BY <2>1, <3>3, SaleMove
  <2> QED BY <2>1, <2>3, <2>4
\* Moves within a phase, and the two that send the goods.
<1>10. ASSUME NEW o \in Orders, UNCHANGED paymentVars,
              NEW m \in AdminTransitions \cup {ToPaymentAttempt}, Apply(o, m)
       PROVE  SaleStep
  <2>1. Collected' = Collected
    BY <1>10, CollectedSame
  <2>2. reversed' = reversed
    BY <1>10 DEF AdminTransitions, ToAwaitingPayment, ToProcessing, ToShipped,
                 ToDelivered, ToPaymentAttempt
  <2>3. CASE m = ToShipped
    <3>1. Phase' = [Phase EXCEPT ![o] = "sent"] /\ Phase[o] = "sold"
      <4>1. m \in Transitions /\ PhaseOf[m.to] = "sent"
        BY <2>3 DEF Transitions, ToShipped, PhaseOf
      <4>2. \A s \in m.from : PhaseOf[s] = "sold"
        BY <2>3 DEF ToShipped, PhaseOf
      <4> HIDE DEF Apply
      <4> QED BY <1>10, <4>1, <4>2, ApplyMovesPhase
    <3>2. Abstract!Send(o)
      BY <2>1, <2>2, <3>1 DEF Abstract!Send, Abstract!Move, Phase, Collected
    <3> QED BY <3>2, SaleMove
  <2>4. CASE m # ToShipped
    <3>1. Phase' = Phase
      BY <1>10, <2>4 DEF Phase, PhaseOf, AdminTransitions, ToAwaitingPayment,
                         ToProcessing, ToDelivered, ToPaymentAttempt
    <3> QED BY <2>1, <2>2, <3>1 DEF SaleStep, SaleVars
  <2> QED BY <2>3, <2>4
<1>11. ASSUME NEW t \in Threads, ReleaseAttempt(t) PROVE SaleStep
  BY <1>1, <1>10, <1>11 DEF ReleaseAttempt, AdminTransitions
<1>12. ASSUME NEW t \in Clients, NEW o \in Orders, BeginPaymentAttempt(t, o) PROVE SaleStep
  BY <1>10, <1>12 DEF BeginPaymentAttempt
<1>13. ASSUME NEW o \in Orders, RecoverStale(o) \/ ChangeStatus(o) PROVE SaleStep
  BY <1>10, <1>13 DEF RecoverStale, ChangeStatus, AdminTransitions
\* Payments that are not recorded come and go.
<1>14. ASSUME NEW t \in Threads, ChargeCreate(t) PROVE SaleStep
  BY <1>14, SaleUnchanged DEF ChargeCreate, CreatePayment
<1>15. ASSUME NEW t \in Clients, NEW p \in Payments, WebhookFailed(t, p) PROVE SaleStep
  BY <1>15, SaleUnchanged DEF WebhookFailed
<1> QED
  BY <1>1, <1>2, <1>3, <1>4, <1>5, <1>6, <1>8, <1>9, <1>11, <1>12, <1>13, <1>14, <1>15
     DEF vars, Next, Continue, PlaceFails, FreeFails, ChargeLookup, ChargeGateway,
         ChargeFails, FinalizeAlready, FinalizeFails, CompensateFails, CancelFails,
         DropJobs, WebhookDropJobs, WebhookCancelRead, ExpireSkips, RefundGateway,
         NotRefundable, SettleRead, RefundDone, RefundFails, Crash, PlaceLookup,
         CancelRead, ExpireRead, WebhookSuccess, RefundStart, Refund, RescueJob,
         CleanJob, CustomerPays

\* Nothing is sold unpaid, given up while its money is booked, or refunded
\* unpaid: the pipeline's order and payment rows behave like the abstract sale.
THEOREM CheckoutImplementsSale == Spec => ImplementsSale
<1>1. Init => Abstract!Init
  BY DEF Init, OrderInit, PaymentInit, Abstract!Init, PhaseOf, Money
<1>2. SaleInv /\ [Next]_vars => [Abstract!Next]_Abstract!vars
  BY SaleSimulation DEF SaleStep, SaleVars, Phase, Collected, Abstract!vars
<1>3. QED
  BY <1>1, <1>2, LinkedInvariant, InformedInvariant, NotPayableInvariant,
     NeverFailedInvariant, PTL DEF SaleInv, Spec, ImplementsSale, Abstract!Spec
==============================================================================

---------------------------- MODULE CheckoutProofs ---------------------------
(****************************************************************************)
(* Proofs about Checkout, for any number of orders, payments, threads and   *)
(* crashes: first the invariant Linked, then the safety properties, which   *)
(* all rest on it.                                                          *)
(****************************************************************************)
EXTENDS Checkout, CountingTheorems, FiniteSetTheorems, TLAPS

USE OrdersAssumption, StockAssumption, CouponAssumption, PaymentsAssumption,
    AttemptsAssumption, ThreadsAssumption
USE DEF orderVars, stockVars, couponVars, paymentVars, jobVars,
        At, Ord, Pay, Placed, CanApply, Apply, ApplyOrLog, Transition, SetPayment
USE DEF TypeOK, OrderTypeOK, StockTypeOK, CouponTypeOK, PaymentTypeOK, JobTypeOK,
        GatewayTypeOK, CallTypeOK, OrderStatuses, PaymentStatuses, JobStates,
        GatewayStates, Labels, Callers, HasPayment

(***************************************************************************)
(* Call records.                                                           *)
(***************************************************************************)
\* The record of an idle thread is a call record.
LEMMA IdleType == Idle \in Calls
  BY DEF Idle, Request, Calls

\* The record a handler starts with is a call record.
LEMMA RequestType ==
  ASSUME NEW l \in Labels, NEW b \in Callers, NEW o \in Orders,
         NEW p \in Payments \cup {NoPayment}
  PROVE  Request(l, b, o, p) \in Calls
  BY DEF Request, Calls

\* What a handler remembers of an order row it read is a call record.
LEMMA SnapshotType ==
  ASSUME OrderTypeOK, NEW l \in Labels, NEW b \in Callers, NEW o \in Orders,
         NEW p \in Payments \cup {NoPayment}
  PROVE  Snapshot(l, b, o, p) \in Calls
  <1>1. (status[o] \in Dispatched) \in BOOLEAN
    OBVIOUS
  <1>2. deducted[o] \in BOOLEAN /\ reversed[o] \in BOOLEAN
    OBVIOUS
  <1> QED BY <1>1, <1>2 DEF Snapshot, Calls

\* Giving a thread a call record keeps the type of the calls.
LEMMA BecomeType ==
  ASSUME CallTypeOK, NEW t \in Threads, NEW c \in Calls, Become(t, c)
  PROVE  call' \in [Threads -> Calls]
  BY DEF Become

\* A handler that returns keeps the type of the calls.
LEMMA ReturnType ==
  ASSUME CallTypeOK, NEW t \in Threads, Return(t)
  PROVE  call' \in [Threads -> Calls]
  BY IdleType, BecomeType DEF Return

\* A handler that begins keeps the type of the calls.
LEMMA BeginType ==
  ASSUME CallTypeOK, NEW t \in Threads, NEW c \in Calls, Begin(t, c)
  PROVE  call' \in [Threads -> Calls]
  BY BecomeType DEF Begin

\* A handler that moves to its next step keeps the type of the calls.
LEMMA GotoType ==
  ASSUME CallTypeOK, NEW t \in Threads, NEW l \in Labels, Goto(t, l)
  PROVE  call' \in [Threads -> Calls]
  <1> DEFINE c == [call[t] EXCEPT !.at = l]
  <1>1. c \in Calls
    BY DEF Calls
  <1>2. call' = [call EXCEPT ![t] = c]
    BY DEF Goto
  <1> QED BY <1>1, <1>2

\* The fields of a thread's call record have their types.
LEMMA FieldsType ==
  ASSUME CallTypeOK, NEW t \in Threads
  PROVE  /\ call[t].by \in Callers
         /\ call[t].ord \in Orders \cup {NoOrder}
         /\ call[t].pay \in Payments \cup {NoPayment}
         /\ call[t].ded \in BOOLEAN /\ call[t].rev \in BOOLEAN
  BY DEF Calls

\* Moving to the next step changes the label of one thread and nothing else.
LEMMA GotoFields ==
  ASSUME CallTypeOK, NEW t \in Threads, NEW l, Goto(t, l)
  PROVE  /\ call'[t].at = l /\ call'[t].ord = call[t].ord /\ call'[t].pay = call[t].pay
         /\ \A u \in Threads : u # t => call'[u] = call[u]
  BY DEF Goto, Calls

\* A new call record replaces that of one thread and no other.
LEMMA BecomeFields ==
  ASSUME CallTypeOK, NEW t \in Threads, NEW c, Become(t, c)
  PROVE  /\ call'[t] = c
         /\ \A u \in Threads : u # t => call'[u] = call[u]
  BY DEF Become

Linked == TypeOK /\ RowsLinked /\ CallsLinked

\* In every reachable state the variables have their types, and payments, jobs
\* and handlers refer to orders and payments that exist.  Every other proof
\* about Checkout starts from this invariant.
THEOREM LinkedInvariant == Spec => []Linked
<1>1. Init => Linked
  BY IdleType DEF Init, OrderInit, StockInit, CouponInit, PaymentInit, JobInit,
                  GatewayInit, Linked, RowsLinked, CallsLinked, Idle, Request
<1>2. Linked /\ [Next]_vars => Linked'
  <2> SUFFICES ASSUME Linked, [Next]_vars PROVE Linked'
    OBVIOUS
  <2> USE DEF Linked

  <2>1. ASSUME NEW t \in Threads, PlaceCommit(t) PROVE Linked'
    <3>1. OrderTypeOK' /\ StockTypeOK' /\ CouponTypeOK'
      BY FieldsType, <2>1 DEF
           PlaceCommit, CreateOrder, Reserve, ReserveCoupon, CouponUsable,
           CallsLinked
    <3>2. PaymentTypeOK' /\ JobTypeOK' /\ GatewayTypeOK'
      BY <2>1 DEF
           PlaceCommit, CreateOrder, Reserve, ReserveCoupon, CouponUsable,
           CallsLinked
    <3>3. CallTypeOK'
      BY GotoType, <2>1 DEF PlaceCommit
    <3>4. RowsLinked'
      BY <2>1 DEF PlaceCommit, CreateOrder, Reserve,
           ReserveCoupon, CouponUsable, RowsLinked, CallsLinked
    <3>5. CallsLinked'
      BY <2>1 DEF PlaceCommit, CreateOrder, Reserve,
           ReserveCoupon, CouponUsable, Goto, RowsLinked, CallsLinked
    <3> QED BY <3>1, <3>2, <3>3, <3>4, <3>5
  <2>2. ASSUME NEW t \in Threads, PlaceFails(t) PROVE Linked'
    BY <2>2 DEF PlaceFails, Return, Become, Idle, Request, Calls, RowsLinked,
           CallsLinked
  <2>3. ASSUME NEW t \in Threads, FinalizeFreeOrder(t) PROVE Linked'
    BY <2>3 DEF FinalizeFreeOrder, ToPaid, Deduct, Return, Become, Idle, Request,
           Calls, RowsLinked, CallsLinked
  <2>4. ASSUME NEW t \in Threads, FreeFails(t) PROVE Linked'
    BY <2>4 DEF FreeFails, Return, Become, Idle, Request, Calls, RowsLinked,
           CallsLinked
  <2>5. ASSUME NEW t \in Threads, ChargeLookup(t) PROVE Linked'
    <3>1. Ord(t) \in Orders /\ Placed(Ord(t)) /\ call[t].by \in Callers
      BY <2>5, FieldsType DEF ChargeLookup, CallsLinked
    <3>2. UNCHANGED <<orderVars, stockVars, couponVars, paymentVars, jobVars, gateway, crashes>>
      BY <2>5 DEF ChargeLookup
    <3>3. CASE Goto(t, "create")
      <4>1. CallTypeOK'
        BY <3>2, <3>3, GotoType
      <4>2. CallsLinked'
        BY <3>1, <3>2, <3>3, GotoFields DEF CallsLinked
      <4> QED BY <3>2, <4>1, <4>2 DEF RowsLinked
    <3>4. ASSUME NEW p \in ActiveOf(Ord(t)),
                 Become(t, Request("gateway", call[t].by, Ord(t), p))
          PROVE  Linked'
      <4> DEFINE c == Request("gateway", call[t].by, Ord(t), p)
      <4>1. p \in Payments /\ porder[p] = Ord(t) /\ pstatus[p] # "none"
        BY DEF ActiveOf, Active, ActiveStatuses
      <4>2. c \in Calls /\ c.at = "gateway" /\ c.ord = Ord(t) /\ c.pay = p
        BY <3>1, <4>1 DEF Request, Calls
      <4> HIDE DEF c
      <4>3. CallTypeOK'
        BY <3>2, <3>4, <4>2, BecomeType DEF c
      <4>4. call'[t] = c /\ \A u \in Threads : u # t => call'[u] = call[u]
        BY <3>4, BecomeFields DEF c
      <4>5. CallsLinked'
        BY <3>1, <3>2, <4>1, <4>2, <4>4 DEF CallsLinked
      <4> QED BY <3>2, <4>3, <4>5 DEF RowsLinked
    <3> QED BY <2>5, <3>3, <3>4 DEF ChargeLookup
  <2>6. ASSUME NEW t \in Threads, ChargeCreate(t) PROVE Linked'
    BY <2>6 DEF ChargeCreate, CreatePayment, ActiveOf, Active, ActiveStatuses,
           Become, Request, Calls, RowsLinked, CallsLinked
  <2>7. ASSUME NEW t \in Threads, ChargeGateway(t) PROVE Linked'
    <3>1. OrderTypeOK' /\ StockTypeOK' /\ CouponTypeOK'
      BY FieldsType, <2>7 DEF
           ChargeGateway, GatewayCharge, Answers, Outcome, CallsLinked
    <3>2. PaymentTypeOK' /\ JobTypeOK' /\ GatewayTypeOK'
      BY <2>7 DEF
           ChargeGateway, GatewayCharge, Answers, Outcome, CallsLinked
    <3>3. CallTypeOK'
      BY GotoType, ReturnType, <2>7 DEF ChargeGateway,
           ChargeError
    <3>4. RowsLinked'
      BY <2>7 DEF ChargeGateway, GatewayCharge, Answers,
           Outcome, RowsLinked, CallsLinked
    <3>5. CallsLinked'
      BY GotoFields, BecomeFields, <2>7 DEF ChargeGateway,
           GatewayCharge, Answers, Outcome, Return, ChargeError, Idle, Request,
           RowsLinked, CallsLinked
    <3> QED BY <3>1, <3>2, <3>3, <3>4, <3>5
  <2>8. ASSUME NEW t \in Threads, ChargeFails(t) PROVE Linked'
    <3>1. OrderTypeOK' /\ StockTypeOK' /\ CouponTypeOK'
      BY FieldsType, <2>8 DEF
           ChargeFails, CallsLinked
    <3>2. PaymentTypeOK' /\ JobTypeOK' /\ GatewayTypeOK'
      BY <2>8 DEF
           ChargeFails, CallsLinked
    <3>3. CallTypeOK'
      BY GotoType, ReturnType, <2>8 DEF ChargeFails,
           ChargeError
    <3>4. RowsLinked'
      BY <2>8 DEF ChargeFails, RowsLinked, CallsLinked
    <3>5. CallsLinked'
      BY GotoFields, BecomeFields, <2>8 DEF ChargeFails,
           ChargeError, Return, Idle, Request, RowsLinked, CallsLinked
    <3> QED BY <3>1, <3>2, <3>3, <3>4, <3>5
  <2>9. ASSUME NEW t \in Threads, ReleaseAttempt(t) PROVE Linked'
    BY <2>9 DEF ReleaseAttempt, ToAwaitingPayment, Return, Become, Idle, Request,
           Calls, RowsLinked, CallsLinked
  <2>10. ASSUME NEW t \in Threads, FinalizePaid(t) PROVE Linked'
    BY <2>10 DEF FinalizePaid, MarkPaidFrom, ToPaid, Deduct, Return, Become, Idle,
           Request, Calls, RowsLinked, CallsLinked
  <2>11. ASSUME NEW t \in Threads, FinalizeAlready(t) PROVE Linked'
    BY <2>11 DEF FinalizeAlready, MarkPaidFrom, ToPaid, Return, Become, Idle,
           Request, Calls, RowsLinked, CallsLinked
  <2>12. ASSUME NEW t \in Threads, FinalizeLate(t) PROVE Linked'
    BY <2>12 DEF FinalizeLate, MarkPaidFrom, ToPaid, IndexAllows,
           ToFulfillmentFailedAfterCharge, Enqueue, ActiveOf, UniqueStates, Active,
           ActiveStatuses, Return, Become, Idle, Request, Calls, RowsLinked,
           CallsLinked
  <2>13. ASSUME NEW t \in Threads, FinalizeFails(t) PROVE Linked'
    <3>1. OrderTypeOK' /\ StockTypeOK' /\ CouponTypeOK'
      BY FieldsType, <2>13 DEF
           FinalizeFails, CallsLinked
    <3>2. PaymentTypeOK' /\ JobTypeOK' /\ GatewayTypeOK'
      BY <2>13 DEF
           FinalizeFails, CallsLinked
    <3>3. CallTypeOK'
      BY GotoType, <2>13 DEF FinalizeFails
    <3>4. RowsLinked'
      BY <2>13 DEF FinalizeFails, RowsLinked, CallsLinked
    <3>5. CallsLinked'
      BY GotoFields, BecomeFields, <2>13 DEF FinalizeFails,
           RowsLinked, CallsLinked
    <3> QED BY <3>1, <3>2, <3>3, <3>4, <3>5
  <2>14. ASSUME NEW t \in Threads, CompensateRefund(t) PROVE Linked'
    <3>1. OrderTypeOK' /\ StockTypeOK' /\ CouponTypeOK'
      BY FieldsType, <2>14 DEF
           CompensateRefund, CompensateFrom, IndexAllows,
           ToFulfillmentFailedCompensating, Enqueue, ActiveOf, UniqueStates, Active,
           ActiveStatuses, CallsLinked
    <3>2. PaymentTypeOK' /\ JobTypeOK' /\ GatewayTypeOK'
      BY <2>14 DEF
           CompensateRefund, CompensateFrom, IndexAllows,
           ToFulfillmentFailedCompensating, Enqueue, ActiveOf, UniqueStates, Active,
           ActiveStatuses, CallsLinked
    <3>3. CallTypeOK'
      BY ReturnType, <2>14 DEF CompensateRefund
    <3>4. RowsLinked'
      BY <2>14 DEF CompensateRefund, CompensateFrom,
           IndexAllows, ToFulfillmentFailedCompensating, Enqueue, ActiveOf,
           UniqueStates, Active, ActiveStatuses, RowsLinked, CallsLinked
    <3>5. CallsLinked'
      BY <2>14 DEF CompensateRefund, CompensateFrom,
           IndexAllows, ToFulfillmentFailedCompensating, Enqueue, ActiveOf,
           UniqueStates, Active, ActiveStatuses, Return, Become, Idle, Request,
           RowsLinked, CallsLinked
    <3> QED BY <3>1, <3>2, <3>3, <3>4, <3>5
  <2>15. ASSUME NEW t \in Threads, CompensateFails(t) PROVE Linked'
    BY <2>15 DEF CompensateFails, Return, Become, Idle, Request, Calls, RowsLinked,
           CallsLinked
  <2>16. ASSUME NEW t \in Threads, CancelCommit(t) PROVE Linked'
    <3>1. OrderTypeOK' /\ StockTypeOK' /\ CouponTypeOK'
      BY FieldsType, <2>16 DEF
           CancelCommit, ToCancelled, Restore, ReleaseCoupon, CanRestore,
           CallsLinked
    <3>2. PaymentTypeOK' /\ JobTypeOK' /\ GatewayTypeOK'
      BY <2>16 DEF
           CancelCommit, ToCancelled, Restore, ReleaseCoupon, CanRestore,
           CallsLinked
    <3>3. CallTypeOK'
      BY GotoType, ReturnType, <2>16 DEF CancelCommit
    <3>4. RowsLinked'
      BY <2>16 DEF CancelCommit, ToCancelled, Restore,
           ReleaseCoupon, CanRestore, RowsLinked, CallsLinked
    <3>5. CallsLinked'
      BY GotoFields, BecomeFields, <2>16 DEF CancelCommit,
           ToCancelled, Restore, ReleaseCoupon, CanRestore, Return, Idle, Request,
           RowsLinked, CallsLinked
    <3> QED BY <3>1, <3>2, <3>3, <3>4, <3>5
  <2>17. ASSUME NEW t \in Threads, CancelFails(t) PROVE Linked'
    BY <2>17 DEF CancelFails, Return, Become, Idle, Request, Calls, RowsLinked,
           CallsLinked
  <2>18. ASSUME NEW t \in Threads, DropJobs(t) PROVE Linked'
    BY <2>18 DEF DropJobs, CancelJobsOf, Return, Become, Idle, Request, Calls,
           RowsLinked, CallsLinked
  <2>19. ASSUME NEW t \in Threads, WebhookDropJobs(t) PROVE Linked'
    <3>1. OrderTypeOK' /\ StockTypeOK' /\ CouponTypeOK'
      BY FieldsType, <2>19 DEF
           WebhookDropJobs, CancelJobsOf, CallsLinked
    <3>2. PaymentTypeOK' /\ JobTypeOK' /\ GatewayTypeOK'
      BY <2>19 DEF
           WebhookDropJobs, CancelJobsOf, CallsLinked
    <3>3. CallTypeOK'
      BY GotoType, <2>19 DEF WebhookDropJobs
    <3>4. RowsLinked'
      BY <2>19 DEF WebhookDropJobs, CancelJobsOf, RowsLinked,
           CallsLinked
    <3>5. CallsLinked'
      BY <2>19 DEF WebhookDropJobs, CancelJobsOf, Goto,
           RowsLinked, CallsLinked
    <3> QED BY <3>1, <3>2, <3>3, <3>4, <3>5
  <2>20. ASSUME NEW t \in Threads, WebhookCancelRead(t) PROVE Linked'
    BY <2>20 DEF WebhookCancelRead, Dispatched, Become, Snapshot, Calls, RowsLinked,
           CallsLinked
  <2>21. ASSUME NEW t \in Threads, ExpireCommit(t) PROVE Linked'
    BY <2>21 DEF ExpireCommit, ToExpired, Restore, ReleaseCoupon, CanRestore,
           Return, Become, Idle, Request, Calls, RowsLinked, CallsLinked
  <2>22. ASSUME NEW t \in Threads, ExpireSkips(t) PROVE Linked'
    BY <2>22 DEF ExpireSkips, ToExpired, CanRestore, Return, Become, Idle, Request,
           Calls, RowsLinked, CallsLinked
  <2>23. ASSUME NEW t \in Threads, RefundGateway(t) PROVE Linked'
    <3>1. OrderTypeOK' /\ StockTypeOK' /\ CouponTypeOK'
      BY FieldsType, <2>23 DEF
           RefundGateway, Refundable, GatewayRefund, Captured, CallsLinked
    <3>2. PaymentTypeOK' /\ JobTypeOK' /\ GatewayTypeOK'
      BY <2>23 DEF
           RefundGateway, Refundable, GatewayRefund, Captured, CallsLinked
    <3>3. CallTypeOK'
      BY GotoType, <2>23 DEF RefundGateway
    <3>4. RowsLinked'
      BY <2>23 DEF RefundGateway, Refundable, GatewayRefund,
           Captured, RowsLinked, CallsLinked
    <3>5. CallsLinked'
      BY <2>23 DEF RefundGateway, Refundable, GatewayRefund,
           Captured, Goto, RowsLinked, CallsLinked
    <3> QED BY <3>1, <3>2, <3>3, <3>4, <3>5
  <2>24. ASSUME NEW t \in Threads, NotRefundable(t) PROVE Linked'
    BY <2>24 DEF NotRefundable, Refundable, EndJob, Return, Become, Idle, Request,
           Calls, RowsLinked, CallsLinked
  <2>25. ASSUME NEW t \in Threads, SettleRead(t) PROVE Linked'
    BY <2>25 DEF SettleRead, Dispatched, Become, Snapshot, Calls, RowsLinked,
           CallsLinked
  <2>26. ASSUME NEW t \in Threads, SettleRefund(t) PROVE Linked'
    <3> DEFINE o == call[t].ord
    <3>a. o \in Orders
      BY <2>26 DEF SettleRefund, CallsLinked
    <3>b. OrderTypeOK'
      <4>1. CASE status[o] \in ToRefunded.from
        BY <2>26, <3>a, <4>1 DEF SettleRefund, ToRefunded
      <4>2. CASE status[o] \notin ToRefunded.from
        BY <2>26, <3>a, <4>2 DEF SettleRefund
      <4> QED BY <4>1, <4>2
    <3>c. StockTypeOK'
      BY <2>26, <3>a, FieldsType DEF SettleRefund, CanRestore, Restore
    <3>d. CouponTypeOK'
      BY <2>26, <3>a DEF SettleRefund, ReleaseCoupon
    <3>1. OrderTypeOK' /\ StockTypeOK' /\ CouponTypeOK'
      BY <3>b, <3>c, <3>d
    <3>2. PaymentTypeOK' /\ JobTypeOK' /\ GatewayTypeOK'
      BY <2>26 DEF
           SettleRefund, Refundable, ToRefunded, CanRestore, Restore, ReleaseCoupon,
           CallsLinked
    <3>3. CallTypeOK'
      BY GotoType, <2>26 DEF SettleRefund
    <3>4. RowsLinked'
      BY <2>26 DEF SettleRefund, Refundable, ToRefunded,
           CanRestore, Restore, ReleaseCoupon, RowsLinked, CallsLinked
    <3>5. CallsLinked'
      BY <2>26 DEF SettleRefund, Refundable, ToRefunded,
           CanRestore, Restore, ReleaseCoupon, Goto, RowsLinked, CallsLinked
    <3> QED BY <3>1, <3>2, <3>3, <3>4, <3>5
  <2>27. ASSUME NEW t \in Threads, RefundDone(t) PROVE Linked'
    BY <2>27 DEF RefundDone, EndJob, Return, Become, Idle, Request, Calls,
           RowsLinked, CallsLinked
  <2>28. ASSUME NEW t \in Threads, RefundFails(t) PROVE Linked'
    BY <2>28 DEF RefundFails, RetryOrDiscard, Return, Become, Idle, Request, Calls,
           RowsLinked, CallsLinked
  <2>29. ASSUME NEW t \in Threads, Crash(t) PROVE Linked'
    BY <2>29 DEF Crash, Idle, Return, Request, Become, Calls, RowsLinked,
           CallsLinked
  <2>30. ASSUME NEW t \in Clients, NEW o \in Orders, PlaceLookup(t, o) PROVE Linked'
    BY <2>30 DEF PlaceLookup, Begin, Request, Idle, Become, Threads, Calls,
           RowsLinked, CallsLinked
  <2>31. ASSUME NEW t \in Clients, NEW o \in Orders, BeginPaymentAttempt(t, o) PROVE Linked'
    BY <2>31 DEF BeginPaymentAttempt, ToPaymentAttempt, Begin, Request, Idle,
           Become, Threads, Calls, RowsLinked, CallsLinked
  <2>32. ASSUME NEW t \in Clients, NEW o \in Orders, CancelRead(t, o) PROVE Linked'
    BY <2>32 DEF CancelRead, Dispatched, Begin, Snapshot, Idle, Become, Request,
           Threads, Calls, RowsLinked, CallsLinked
  <2>33. ASSUME NEW t \in Sweepers, NEW o \in Orders, ExpireRead(t, o) PROVE Linked'
    BY <2>33 DEF ExpireRead, Dispatched, Begin, Snapshot, Idle, Become, Request,
           Threads, Calls, RowsLinked, CallsLinked
  <2>34. ASSUME NEW t \in Clients, NEW p \in Payments, WebhookSuccess(t, p) PROVE Linked'
    BY <2>34 DEF WebhookSuccess, Settled, Announced, Captured, Begin, Request, Idle,
           Become, Threads, Calls, RowsLinked, CallsLinked
  <2>35. ASSUME NEW t \in Clients, NEW p \in Payments, WebhookFailed(t, p) PROVE Linked'
    BY <2>35 DEF WebhookFailed, Settled, Announced, Captured, Begin, Request, Idle,
           Become, Threads, Calls, RowsLinked, CallsLinked
  <2>36. ASSUME NEW t \in Workers, NEW p \in Payments, RefundStart(t, p) PROVE Linked'
    BY <2>36 DEF RefundStart, Fetch, Begin, Request, Idle, Become, Threads, Calls,
           RowsLinked, CallsLinked
  <2>37. ASSUME NEW o \in Orders, RecoverStale(o) PROVE Linked'
    BY <2>37 DEF RecoverStale, ToAwaitingPayment, Calls, RowsLinked, CallsLinked
  <2>38. ASSUME NEW o \in Orders, ChangeStatus(o) PROVE Linked'
    BY <2>38 DEF ChangeStatus, AdminTransitions, ToAwaitingPayment, ToProcessing,
           ToShipped, ToDelivered, Threads, Idle, Request, Calls, RowsLinked,
           CallsLinked
  <2>39. ASSUME NEW p \in Payments, Refund(p) PROVE Linked'
    BY <2>39 DEF Refund, Refundable, Enqueue, UniqueStates, Threads, Idle, Request,
           Calls, RowsLinked, CallsLinked
  <2>40. ASSUME NEW p \in Payments, RescueJob(p) PROVE Linked'
    BY <2>40 DEF RescueJob, RetryOrDiscard, Calls, RowsLinked, CallsLinked
  <2>41. ASSUME NEW p \in Payments, CleanJob(p) PROVE Linked'
    BY <2>41 DEF CleanJob, EndJob, Calls, RowsLinked, CallsLinked
  <2>42. ASSUME NEW p \in Payments, CustomerPays(p) PROVE Linked'
    BY <2>42 DEF CustomerPays, LateCapture, Calls, RowsLinked, CallsLinked
  <2>43. CASE UNCHANGED vars
    BY <2>43 DEF vars, RowsLinked, CallsLinked
  <2> QED
    BY <2>1, <2>2, <2>3, <2>4, <2>5, <2>6, <2>7, <2>8, <2>9, <2>10, <2>11,
           <2>12, <2>13, <2>14, <2>15, <2>16, <2>17, <2>18, <2>19, <2>20, <2>21,
           <2>22, <2>23, <2>24, <2>25, <2>26, <2>27, <2>28, <2>29, <2>30, <2>31,
           <2>32, <2>33, <2>34, <2>35, <2>36, <2>37, <2>38, <2>39, <2>40, <2>41,
           <2>42, <2>43 DEF Next, Continue, Threads
<1>3. QED
  BY <1>1, <1>2, PTL DEF Spec

\* Every variable keeps its type, whatever the handlers do.
THEOREM TypeCorrect == Spec => []TypeOK
<1>1. Linked => TypeOK
  BY DEF Linked
<1>2. QED
  BY <1>1, LinkedInvariant, PTL

-----------------------------------------------------------------------------
USE DEF Payable, Fulfilled, Dispatched, Recorded, Settled, Refundable, ActiveStatuses,
        MarkPaidFrom, CompensateFrom

(***************************************************************************)
(* The order row.                                                          *)
(***************************************************************************)
\* A handler changes the order rows only along the transition table.
LEMMA OrderStep == Linked /\ [Next]_vars => [OrderNext]_orderVars
<1> SUFFICES ASSUME Linked, Next, ~UNCHANGED orderVars PROVE OrderNext
  BY DEF vars
<1> USE DEF Linked, CallsLinked
<1>1. ASSUME NEW o \in Orders, NEW m \in Transitions, Apply(o, m) PROVE OrderNext
  BY <1>1 DEF OrderNext
<1>2. ASSUME NEW t \in Threads, PlaceCommit(t) PROVE OrderNext
  BY <1>2 DEF PlaceCommit, OrderNext
<1>3. ASSUME NEW t \in Threads, FinalizeFreeOrder(t) PROVE OrderNext
  BY <1>1, <1>3 DEF FinalizeFreeOrder, Transitions
<1>4. ASSUME NEW t \in Threads, ReleaseAttempt(t) PROVE OrderNext
  BY <1>1, <1>4 DEF ReleaseAttempt, Transitions
<1>5. ASSUME NEW t \in Threads, FinalizePaid(t) PROVE OrderNext
  BY <1>1, <1>5 DEF FinalizePaid, Transitions
<1>6. ASSUME NEW t \in Threads, FinalizeLate(t) PROVE OrderNext
  BY <1>1, <1>6 DEF FinalizeLate, Transitions
<1>7. ASSUME NEW t \in Threads, CompensateRefund(t) PROVE OrderNext
  BY <1>1, <1>7 DEF CompensateRefund, Transitions
<1>8. ASSUME NEW t \in Threads, CancelCommit(t) PROVE OrderNext
  BY <1>1, <1>8 DEF CancelCommit, Transitions
<1>9. ASSUME NEW t \in Threads, ExpireCommit(t) PROVE OrderNext
  BY <1>1, <1>9 DEF ExpireCommit, Transitions
<1>10. ASSUME NEW t \in Threads, SettleRefund(t) PROVE OrderNext
  BY <1>1, <1>10 DEF SettleRefund, Transitions
<1>11. ASSUME NEW t \in Clients, NEW o \in Orders, BeginPaymentAttempt(t, o) PROVE OrderNext
  BY <1>1, <1>11 DEF BeginPaymentAttempt, Transitions
<1>12. ASSUME NEW o \in Orders, RecoverStale(o) PROVE OrderNext
  BY <1>1, <1>12 DEF RecoverStale, Transitions
<1>13. ASSUME NEW o \in Orders, ChangeStatus(o) PROVE OrderNext
  BY <1>1, <1>13 DEF ChangeStatus, AdminTransitions, Transitions
<1> QED
  BY <1>2, <1>3, <1>4, <1>5, <1>6, <1>7, <1>8, <1>9, <1>10, <1>11, <1>12, <1>13
     DEF Next, Continue, PlaceFails, FreeFails, ChargeLookup, ChargeCreate,
         ChargeGateway, ChargeFails, FinalizeAlready, FinalizeFails, CompensateFails,
         CancelFails, DropJobs, WebhookDropJobs, WebhookCancelRead, ExpireSkips,
         RefundGateway, NotRefundable, SettleRead, RefundDone, RefundFails, Crash,
         PlaceLookup, CancelRead, ExpireRead, WebhookSuccess, WebhookFailed,
         RefundStart, Refund, RescueJob, CleanJob, CustomerPays

\* The order rows of every behaviour follow the order's own specification.
THEOREM FollowsTransitionTable == Spec => OrderSpec
<1>1. Init => OrderInit
  BY DEF Init
<1>2. QED
  BY <1>1, OrderStep, LinkedInvariant, PTL DEF Spec, OrderSpec

\* Along the transition table the two stock flags always say what the status
\* implies, so Restore may trust them.
LEMMA FlagsStep == OrderTypeOK /\ FlagsMatchStatus /\ [OrderNext]_orderVars
                     => FlagsMatchStatus'
<1> SUFFICES ASSUME OrderTypeOK, FlagsMatchStatus, [OrderNext]_orderVars
             PROVE  FlagsMatchStatus'
  OBVIOUS
<1>1. ASSUME NEW o \in Orders, CreateOrder(o) PROVE FlagsMatchStatus'
  BY <1>1 DEF CreateOrder, FlagsMatchStatus
<1>2. ASSUME NEW o \in Orders, NEW m \in Transitions, Apply(o, m)
      PROVE  FlagsMatchStatus'
  <2>1. /\ m.to \in Fulfilled \ {"paid"} => m.from \subseteq Fulfilled
        /\ m.to \in Payable => m.from \subseteq Payable
        /\ m.to = "paid" => m.from \subseteq Payable /\ m.stock = "deducted"
        /\ m.stock = "reversed" <=> m.to \in {"cancelled", "expired", "refunded"}
        /\ m.stock = "deducted" <=> m.to = "paid"
        /\ m.from \subseteq OrderStatuses
    BY DEF Transitions, ToAwaitingPayment, ToPaymentAttempt, ToPaid, ToProcessing,
           ToShipped, ToDelivered, ToFulfillmentFailedAfterCharge,
           ToFulfillmentFailedCompensating, ToCancelled, ToExpired, ToRefunded
  <2>2. status'[o] = m.to /\ deducted'[o] = (deducted[o] \/ m.stock = "deducted")
        /\ reversed'[o] = (reversed[o] \/ m.stock = "reversed")
    BY <1>2
  <2>3. \A x \in Orders : x # o =>
          status'[x] = status[x] /\ deducted'[x] = deducted[x] /\ reversed'[x] = reversed[x]
    BY <1>2
  <2>4. status[o] \in m.from /\ m.to = status'[o]
    BY <1>2, <2>2
  <2>5. \/ m.stock = "reversed" /\ m.to \in {"cancelled", "expired", "refunded"}
        \/ m.stock = "deducted" /\ m.to = "paid"
        \/ m.stock = "unchanged" /\ m.to \in Payable \cup (Fulfilled \ {"paid"})
                                          \cup {"fulfillment_failed"}
    BY DEF Transitions, ToAwaitingPayment, ToPaymentAttempt, ToPaid, ToProcessing,
           ToShipped, ToDelivered, ToFulfillmentFailedAfterCharge,
           ToFulfillmentFailedCompensating, ToCancelled, ToExpired, ToRefunded
  <2>6. /\ status'[o] \in Payable \cup {"none"} => ~deducted'[o] /\ ~reversed'[o]
        /\ status'[o] \in Fulfilled => deducted'[o] /\ ~reversed'[o]
        /\ status'[o] \in {"cancelled", "expired", "refunded"} => reversed'[o]
    <3> HIDE DEF Apply, CanApply, Transition
    <3>1. CASE m.stock = "reversed"
      BY <3>1, <2>1, <2>2
    <3>2. CASE m.stock = "deducted"
      BY <3>2, <2>1, <2>2, <2>4, <2>5 DEF FlagsMatchStatus
    <3>3. CASE m.stock = "unchanged"
      BY <3>3, <2>1, <2>2, <2>4, <2>5 DEF FlagsMatchStatus
    <3> QED BY <2>5, <3>1, <3>2, <3>3
  <2> QED BY <2>3, <2>6 DEF FlagsMatchStatus
<1>3. CASE UNCHANGED orderVars
  BY <1>3 DEF FlagsMatchStatus
<1> QED BY <1>1, <1>2, <1>3 DEF OrderNext

\* The stock flags of an order row agree with its status whichever handlers
\* raced for it: cancelWithReversal, SettleRefund and the sweep rely on them.
THEOREM FlagsInvariant == Spec => []FlagsMatchStatus
<1>1. Init => FlagsMatchStatus
  BY DEF Init, OrderInit, FlagsMatchStatus
<1>2. Linked => OrderTypeOK
  BY DEF Linked
<1>3. QED
  BY <1>1, <1>2, OrderStep, FlagsStep, LinkedInvariant, PTL DEF Spec

(***************************************************************************)
(* Payments.                                                               *)
(***************************************************************************)
\* How one step may change the payment rows.
PaymentMoves(p) ==
  \/ pstatus'[p] = pstatus[p] /\ porder'[p] = porder[p]
  \/ pstatus[p] = "none" /\ pstatus'[p] = "pending"
  \/ /\ porder'[p] = porder[p]
     /\ pstatus[p] \in MarkPaidFrom \cup CompensateFrom
     /\ \/ pstatus'[p] \in {"success", "requires_review"}
        \/ pstatus[p] \notin Recorded /\ pstatus'[p] = "cancelled"
  \/ /\ porder'[p] = porder[p]
     /\ pstatus[p] \in Refundable /\ pstatus'[p] = "refunded"

\* One step of the pipeline changes a payment row only as PaymentMoves says.
LEMMA PaymentStep ==
  ASSUME Linked, [Next]_vars, NEW p \in Payments
  PROVE  PaymentMoves(p)
<1> USE DEF Linked, CallsLinked, PaymentMoves
<1> SUFFICES ASSUME Next, ~UNCHANGED <<pstatus, porder>> PROVE PaymentMoves(p)
  BY DEF vars
<1>1. ASSUME NEW t \in Threads, ChargeCreate(t) PROVE PaymentMoves(p)
  BY <1>1 DEF ChargeCreate, CreatePayment
<1>2. ASSUME NEW t \in Threads, FinalizePaid(t) PROVE PaymentMoves(p)
  BY <1>2 DEF FinalizePaid
<1>3. ASSUME NEW t \in Threads, FinalizeLate(t) PROVE PaymentMoves(p)
  BY <1>3 DEF FinalizeLate
<1>4. ASSUME NEW t \in Threads, CompensateRefund(t) PROVE PaymentMoves(p)
  BY <1>4 DEF CompensateRefund
<1>5. ASSUME NEW t \in Threads, SettleRefund(t) PROVE PaymentMoves(p)
  BY <1>5 DEF SettleRefund
<1>6. ASSUME NEW t \in Clients, NEW q \in Payments, WebhookFailed(t, q) PROVE PaymentMoves(p)
  BY <1>6 DEF WebhookFailed
<1> QED
  BY <1>1, <1>2, <1>3, <1>4, <1>5, <1>6
     DEF Next, Continue, PlaceCommit, PlaceFails, FinalizeFreeOrder, FreeFails,
         ChargeLookup, ChargeGateway, ChargeFails, ReleaseAttempt, FinalizeAlready,
         FinalizeFails, CompensateFails, CancelCommit, CancelFails, DropJobs,
         WebhookDropJobs, WebhookCancelRead, ExpireCommit, ExpireSkips,
         RefundGateway, NotRefundable, SettleRead, RefundDone, RefundFails, Crash,
         PlaceLookup, BeginPaymentAttempt, CancelRead, ExpireRead, WebhookSuccess,
         RefundStart, RecoverStale, ChangeStatus, Refund, RescueJob, CleanJob,
         CustomerPays

\* Recorded money stays recorded and a refund is final; so does a refunded order.
THEOREM SettledForeverHolds == Spec => SettledForever
<1>1. Linked /\ [Next]_vars =>
        [/\ \A p \in Payments :
              /\ pstatus[p] = "refunded" => pstatus'[p] = "refunded"
              /\ pstatus[p] \in Recorded => pstatus'[p] \in Recorded
         /\ \A o \in Orders : status[o] = "refunded" => status'[o] = "refunded"]_vars
  <2> SUFFICES ASSUME Linked, [Next]_vars
               PROVE  /\ \A p \in Payments :
                           /\ pstatus[p] = "refunded" => pstatus'[p] = "refunded"
                           /\ pstatus[p] \in Recorded => pstatus'[p] \in Recorded
                      /\ \A o \in Orders : status[o] = "refunded" => status'[o] = "refunded"
    OBVIOUS
  <2>1. ASSUME NEW p \in Payments
        PROVE  /\ pstatus[p] = "refunded" => pstatus'[p] = "refunded"
               /\ pstatus[p] \in Recorded => pstatus'[p] \in Recorded
    BY PaymentStep DEF PaymentMoves
  <2>2. \A m \in Transitions : "refunded" \notin m.from
    BY DEF Transitions, ToAwaitingPayment, ToPaymentAttempt, ToPaid, ToProcessing,
           ToShipped, ToDelivered, ToFulfillmentFailedAfterCharge,
           ToFulfillmentFailedCompensating, ToCancelled, ToExpired, ToRefunded
  <2>3. ASSUME NEW o \in Orders, status[o] = "refunded" PROVE status'[o] = "refunded"
    <3>1. [OrderNext]_orderVars
      BY OrderStep
    <3> QED BY <2>2, <2>3, <3>1 DEF OrderNext, CreateOrder, Linked
  <2> QED BY <2>1, <2>3
<1>2. QED
  BY <1>1, LinkedInvariant, PTL DEF Spec, SettledForever

\* The steps that change what the provider holds.
LEMMA GatewayFrame ==
  ASSUME Next
  PROVE  \/ UNCHANGED gateway
         \/ \E t \in Threads : ChargeGateway(t) \/ RefundGateway(t)
         \/ \E p \in Payments : CustomerPays(p)
<1> SUFFICES ASSUME ~UNCHANGED gateway
             PROVE  \/ \E t \in Threads : ChargeGateway(t) \/ RefundGateway(t)
                    \/ \E p \in Payments : CustomerPays(p)
  OBVIOUS
<1> HIDE DEF Apply, ApplyOrLog, CanApply, SetPayment, At, Ord, Pay, Placed, Transition,
             orderVars, couponVars, paymentVars, jobVars, CallTypeOK
<1> QED
  BY DEF Next, Continue,
         PlaceCommit, PlaceFails, FinalizeFreeOrder, FreeFails, ChargeLookup,
         ChargeCreate, ChargeFails, ReleaseAttempt, FinalizePaid, FinalizeAlready,
         FinalizeLate, FinalizeFails, CompensateRefund, CompensateFails, CancelCommit,
         CancelFails, DropJobs, WebhookDropJobs, WebhookCancelRead, ExpireCommit,
         ExpireSkips, NotRefundable, SettleRead, SettleRefund, RefundDone, RefundFails,
         Crash, PlaceLookup, BeginPaymentAttempt, CancelRead, ExpireRead,
         WebhookSuccess, WebhookFailed, RefundStart, RecoverStale, ChangeStatus,
         Refund, RescueJob, CleanJob

\* The provider's side only moves forward as well.
LEMMA GatewayStep ==
  ASSUME Linked, [Next]_vars, NEW p \in Payments
  PROVE  /\ Captured(p) => Captured(p)'
         /\ gateway[p] = "refunded" => gateway'[p] = "refunded"
<1> USE DEF Linked, CallsLinked, Captured
<1> DEFINE Goal == /\ Captured(p) => Captured(p)'
                   /\ gateway[p] = "refunded" => gateway'[p] = "refunded"
<1> SUFFICES ASSUME Next, ~UNCHANGED gateway PROVE Goal
  BY DEF vars
<1>1. ASSUME NEW t \in Threads, ChargeGateway(t) PROVE Goal
  BY <1>1 DEF ChargeGateway, GatewayCharge
<1>2. ASSUME NEW t \in Threads, RefundGateway(t) PROVE Goal
  BY <1>2 DEF RefundGateway, GatewayRefund
<1>3. ASSUME NEW q \in Payments, CustomerPays(q) PROVE Goal
  BY <1>3 DEF CustomerPays, LateCapture
<1> QED BY <1>1, <1>2, <1>3, GatewayFrame

(***************************************************************************)
(* What the handlers know.                                                 *)
(***************************************************************************)
LEMMA InformedStep == Linked /\ CallsInformed /\ [Next]_vars => CallsInformed'
<1> SUFFICES ASSUME Linked, CallsInformed, [Next]_vars PROVE CallsInformed'
  OBVIOUS
<1> DEFINE Knows(t) ==
      /\ call[t].at \in {"finalize", "compensate"} => Captured(Pay(t))
      /\ call[t].at \in {"settle", "settling"} =>
           pstatus[Pay(t)] \in Recorded /\ gateway[Pay(t)] = "refunded"
      /\ call[t].at = "ack" => pstatus[Pay(t)] = "refunded"
\* A call record that did not change is still right.
<1>a. ASSUME NEW t \in Threads, call'[t] = call[t] PROVE Knows(t)'
  <2>1. call[t].at \in HasPayment => Pay(t) \in Payments
    BY DEF Linked, CallsLinked
  <2>2. ASSUME NEW p \in Payments
        PROVE  /\ Captured(p) => Captured(p)'
               /\ gateway[p] = "refunded" => gateway'[p] = "refunded"
               /\ pstatus[p] = "refunded" => pstatus'[p] = "refunded"
               /\ pstatus[p] \in Recorded => pstatus'[p] \in Recorded
    BY GatewayStep, PaymentStep DEF PaymentMoves
  <2> QED BY <1>a, <2>1, <2>2 DEF CallsInformed, Captured
\* A thread that moves on knows what its new step needs.
<1> SUFFICES ASSUME Next, NEW u \in Threads, call'[u] # call[u] PROVE Knows(u)'
  BY <1>a DEF vars, CallsInformed
<1> USE DEF Linked, CallsLinked, CallsInformed, Captured
<1>1. ASSUME NEW t \in Threads, ChargeGateway(t) PROVE Knows(u)'
  BY <1>1, GotoFields, BecomeFields
     DEF ChargeGateway, GatewayCharge, Answers, Outcome, ChargeError, Return, Idle, Request
<1>2. ASSUME NEW t \in Threads, FinalizeFails(t) PROVE Knows(u)'
  BY <1>2, GotoFields DEF FinalizeFails
<1>3. ASSUME NEW t \in Clients, NEW p \in Payments, WebhookSuccess(t, p) PROVE Knows(u)'
  BY <1>3, BecomeFields DEF WebhookSuccess, Begin, Request, Announced, Threads
<1>4. ASSUME NEW t \in Threads, RefundGateway(t) PROVE Knows(u)'
  BY <1>4, GotoFields DEF RefundGateway, GatewayRefund
<1>5. ASSUME NEW t \in Threads, SettleRead(t) PROVE Knows(u)'
  BY <1>5, BecomeFields DEF SettleRead, Snapshot
<1>6. ASSUME NEW t \in Threads, SettleRefund(t) PROVE Knows(u)'
  BY <1>6, GotoFields DEF SettleRefund
<1>7. ASSUME NEW t \in Threads, NEW c,
             \/ Become(t, c) /\ c.at \notin {"finalize", "compensate", "settle",
                                              "settling", "ack"}
             \/ Return(t)
      PROVE  Knows(u)'
  BY <1>7, BecomeFields DEF Return, Idle, Request
<1>8. ASSUME NEW t \in Threads,
             NEW l \in Labels \ {"finalize", "compensate", "settle", "settling", "ack"},
             Goto(t, l)
      PROVE  Knows(u)'
  BY <1>8, GotoFields
<1>9. ASSUME NEW t \in Threads, ChargeError(t) PROVE Knows(u)'
  BY <1>8, <1>7, <1>9 DEF ChargeError
<1> QED
  <2>1. ASSUME NEW t \in Clients, NEW o \in Orders,
               PlaceLookup(t, o) \/ BeginPaymentAttempt(t, o) \/ CancelRead(t, o)
        PROVE  Knows(u)'
    BY <1>7, <2>1 DEF PlaceLookup, BeginPaymentAttempt, CancelRead, Begin, Request, Snapshot, Threads
  <2>2. ASSUME NEW t \in Clients, NEW p \in Payments, WebhookFailed(t, p)
        PROVE  Knows(u)'
    BY <1>7, <2>2 DEF WebhookFailed, Begin, Request, Threads
  <2>3. ASSUME NEW t \in Workers, NEW p \in Payments, RefundStart(t, p)
        PROVE  Knows(u)'
    BY <1>7, <2>3 DEF RefundStart, Begin, Request, Threads
  <2>4. ASSUME NEW t \in Sweepers, NEW o \in Orders, ExpireRead(t, o)
        PROVE  Knows(u)'
    BY <1>7, <2>4 DEF ExpireRead, Begin, Snapshot, Threads
  <2>5. ASSUME NEW t \in Threads, Continue(t) \/ Crash(t)
        PROVE  Knows(u)'
    <3>1. CASE ChargeLookup(t)
      <4>1. CASE Goto(t, "create")
        BY <1>8, <4>1
      <4>2. ASSUME NEW p \in ActiveOf(Ord(t)),
                   Become(t, Request("gateway", call[t].by, Ord(t), p))
            PROVE  Knows(u)'
        BY <1>7, <4>2 DEF Request
      <4> QED BY <3>1, <4>1, <4>2 DEF ChargeLookup
    <3>2. CASE ChargeCreate(t)
      BY <1>7, <3>2 DEF ChargeCreate, Request
    <3>3. CASE ChargeFails(t)
      BY <1>9, <3>3 DEF ChargeFails
    <3>4. CASE PlaceCommit(t)
      BY <1>8, <3>4 DEF PlaceCommit
    <3>5. CASE CancelCommit(t)
      BY <1>7, <1>8, <3>5 DEF CancelCommit
    <3>6. CASE WebhookDropJobs(t)
      BY <1>8, <3>6 DEF WebhookDropJobs
    <3>7. CASE WebhookCancelRead(t)
      BY <1>7, <3>7 DEF WebhookCancelRead, Snapshot
    <3> QED
      BY <1>1, <1>2, <1>4, <1>5, <1>6, <1>7, <2>5,
         <3>1, <3>2, <3>3, <3>4, <3>5, <3>6, <3>7
       DEF Continue, PlaceFails, FinalizeFreeOrder, FreeFails, ReleaseAttempt,
           FinalizePaid, FinalizeAlready, FinalizeLate, CompensateRefund,
           CompensateFails, CancelFails, DropJobs, ExpireCommit, ExpireSkips,
           NotRefundable, RefundDone, RefundFails, Crash
  <2> QED
    BY <1>3, <2>1, <2>2, <2>3, <2>4, <2>5
       DEF Next, RecoverStale, ChangeStatus, Refund, RescueJob, CleanJob, CustomerPays

\* A handler that finalizes knows the money is there; one that settles a refund
\* knows it was returned.
THEOREM InformedInvariant == Spec => []CallsInformed
<1>1. Init => CallsInformed
  BY DEF Init, CallsInformed, Idle, Request
<1>2. QED
  BY <1>1, InformedStep, LinkedInvariant, PTL DEF Spec

(***************************************************************************)
(* Money.                                                                  *)
(***************************************************************************)
\* A payment is recorded only by a handler that was told of the capture.
LEMMA BooksStep == Linked /\ CallsInformed /\ BooksMatchProvider /\ [Next]_vars
                     => BooksMatchProvider'
<1> SUFFICES ASSUME Linked, CallsInformed, BooksMatchProvider, [Next]_vars,
                    NEW p \in Payments
             PROVE  /\ pstatus'[p] \in Recorded => Captured(p)'
                    /\ pstatus'[p] = "refunded" => gateway'[p] = "refunded"
  BY DEF BooksMatchProvider
<1> DEFINE Goal == /\ pstatus'[p] \in Recorded => Captured(p)'
                   /\ pstatus'[p] = "refunded" => gateway'[p] = "refunded"
<1>1. CASE pstatus'[p] = pstatus[p]
  BY <1>1, GatewayStep DEF BooksMatchProvider
<1>2. ASSUME NEW t \in Threads, NEW s, SetPayment(p, s), p = Pay(t), Next,
             \/ call[t].at \in {"finalize", "compensate"} /\ s # "refunded"
             \/ call[t].at = "settling"
      PROVE  Goal
  BY <1>2, GatewayStep DEF CallsInformed, Captured, Linked
<1>3. CASE Next /\ pstatus'[p] # pstatus[p]
  <2> USE DEF Linked, CallsLinked
  <2>1. ASSUME NEW t \in Threads, ChargeCreate(t) PROVE Goal
    BY <1>3, <2>1 DEF ChargeCreate, CreatePayment
  <2>2. ASSUME NEW t \in Threads, FinalizePaid(t) PROVE Goal
    BY <1>2, <1>3, <2>2 DEF FinalizePaid
  <2>3. ASSUME NEW t \in Threads, FinalizeLate(t) PROVE Goal
    BY <1>2, <1>3, <2>3 DEF FinalizeLate
  <2>4. ASSUME NEW t \in Threads, CompensateRefund(t) PROVE Goal
    BY <1>2, <1>3, <2>4 DEF CompensateRefund
  <2>5. ASSUME NEW t \in Threads, SettleRefund(t) PROVE Goal
    BY <1>2, <1>3, <2>5 DEF SettleRefund
  <2>6. ASSUME NEW t \in Clients, NEW q \in Payments, WebhookFailed(t, q) PROVE Goal
    BY <1>3, <2>6 DEF WebhookFailed
  <2> QED
    BY <1>3, <2>1, <2>2, <2>3, <2>4, <2>5, <2>6
       DEF Next, Continue, PlaceCommit, PlaceFails, FinalizeFreeOrder, FreeFails,
           ChargeLookup, ChargeGateway, ChargeFails, ReleaseAttempt, FinalizeAlready,
           FinalizeFails, CompensateFails, CancelCommit, CancelFails, DropJobs,
           WebhookDropJobs, WebhookCancelRead, ExpireCommit, ExpireSkips,
           RefundGateway, NotRefundable, SettleRead, RefundDone, RefundFails, Crash,
           PlaceLookup, BeginPaymentAttempt, CancelRead, ExpireRead, WebhookSuccess,
           RefundStart, RecoverStale, ChangeStatus, Refund, RescueJob, CleanJob,
           CustomerPays
<1> QED BY <1>1, <1>3 DEF vars

\* The payments table never claims more than the provider did.
THEOREM BooksInvariant == Spec => []BooksMatchProvider
<1>1. Init => BooksMatchProvider
  BY DEF Init, PaymentInit, BooksMatchProvider
<1>2. QED
  BY <1>1, BooksStep, LinkedInvariant, InformedInvariant, PTL DEF Spec

\* An order whose money is booked cannot become payable, and booking the money
\* of a payable order takes it out of the payable statuses in the same step.
LEMMA NotPayableStep == Linked /\ RecordedNotPayable /\ [Next]_vars => RecordedNotPayable'
<1> SUFFICES ASSUME Linked, RecordedNotPayable, [Next]_vars,
                    NEW o \in Orders, NEW p \in Payments,
                    porder'[p] = o, pstatus'[p] \in Recorded
             PROVE  status'[o] \notin Payable \cup {"none"}
  BY DEF RecordedNotPayable, Money
<1>1. porder[p] = o /\ pstatus[p] # "none"
  BY PaymentStep DEF PaymentMoves
<1>2. status[o] # "none"
  BY <1>1 DEF Linked, RowsLinked
<1>3. CASE status[o] \notin Payable
  <2>1. \A m \in Transitions : m.to # "none" /\ (m.to \in Payable => m.from \subseteq Payable)
    BY DEF Transitions, ToAwaitingPayment, ToPaymentAttempt, ToPaid, ToProcessing,
           ToShipped, ToDelivered, ToFulfillmentFailedAfterCharge,
           ToFulfillmentFailedCompensating, ToCancelled, ToExpired, ToRefunded
  <2>2. [OrderNext]_orderVars
    BY OrderStep
  <2> QED BY <1>2, <1>3, <2>1, <2>2 DEF OrderNext, CreateOrder, Linked
<1>4. CASE status[o] \in Payable
  <2>1. pstatus[p] \notin Recorded
    BY <1>1, <1>4 DEF RecordedNotPayable, Money
  <2> USE DEF Linked, CallsLinked
  <2>2. ASSUME NEW t \in Threads, FinalizePaid(t)
        PROVE  status'[o] \notin Payable \cup {"none"}
    BY <1>1, <2>1, <2>2 DEF FinalizePaid, ToPaid
  <2>3. ASSUME NEW t \in Threads, FinalizeLate(t)
        PROVE  status'[o] \notin Payable \cup {"none"}
    BY <1>1, <1>4, <2>1, <2>3 DEF FinalizeLate, ToPaid
  <2>4. ASSUME NEW t \in Threads, CompensateRefund(t)
        PROVE  status'[o] \notin Payable \cup {"none"}
    BY <1>1, <1>4, <2>1, <2>4 DEF CompensateRefund, ToFulfillmentFailedCompensating
  <2>5. ASSUME NEW t \in Threads, SettleRefund(t) PROVE FALSE
    BY <1>1, <2>1, <2>5 DEF SettleRefund
  <2>6. ASSUME NEW t \in Threads, ChargeCreate(t) PROVE FALSE
    BY <1>1, <2>1, <2>6 DEF ChargeCreate, CreatePayment
  <2>7. ASSUME NEW t \in Clients, NEW q \in Payments, WebhookFailed(t, q) PROVE FALSE
    BY <1>1, <2>1, <2>7 DEF WebhookFailed
  <2> QED
    BY <2>1, <2>2, <2>3, <2>4, <2>5, <2>6, <2>7
       DEF vars, Next, Continue, PlaceCommit, PlaceFails, FinalizeFreeOrder, FreeFails,
           ChargeLookup, ChargeGateway, ChargeFails, ReleaseAttempt, FinalizeAlready,
           FinalizeFails, CompensateFails, CancelCommit, CancelFails, DropJobs,
           WebhookDropJobs, WebhookCancelRead, ExpireCommit, ExpireSkips,
           RefundGateway, NotRefundable, SettleRead, RefundDone, RefundFails, Crash,
           PlaceLookup, BeginPaymentAttempt, CancelRead, ExpireRead, WebhookSuccess,
           RefundStart, RecoverStale, ChangeStatus, Refund, RescueJob, CleanJob,
           CustomerPays
<1> QED BY <1>3, <1>4

\* Once its payment is recorded as collected an order cannot be paid again.
THEOREM NotPayableInvariant == Spec => []RecordedNotPayable
<1>1. Init => RecordedNotPayable
  BY DEF Init, PaymentInit, RecordedNotPayable, Money
<1>2. QED
  BY <1>1, NotPayableStep, LinkedInvariant, PTL DEF Spec

(***************************************************************************)
(* Stock.                                                                  *)
(***************************************************************************)
\* The steps that give units back.
LEMMA RestoreFrame ==
  ASSUME Next
  PROVE  \/ UNCHANGED restores
         \/ \E t \in Threads : CancelCommit(t) \/ ExpireCommit(t) \/ SettleRefund(t)
<1> SUFFICES ASSUME ~UNCHANGED restores
             PROVE  \E t \in Threads : CancelCommit(t) \/ ExpireCommit(t) \/ SettleRefund(t)
  OBVIOUS
<1> HIDE DEF Apply, ApplyOrLog, CanApply, SetPayment, At, Ord, Pay, Placed, Transition,
             orderVars, couponVars, paymentVars, jobVars, CallTypeOK
<1> QED
  BY DEF Next, Continue,
         PlaceCommit, Reserve, PlaceFails, FinalizeFreeOrder, Deduct, FreeFails,
         ChargeLookup, ChargeCreate, ChargeGateway, ChargeFails, ReleaseAttempt,
         FinalizePaid, FinalizeAlready, FinalizeLate, FinalizeFails, CompensateRefund,
         CompensateFails, CancelFails, DropJobs, WebhookDropJobs, WebhookCancelRead,
         ExpireSkips, RefundGateway, NotRefundable, SettleRead, RefundDone,
         RefundFails, Crash, PlaceLookup, BeginPaymentAttempt, CancelRead, ExpireRead,
         WebhookSuccess, WebhookFailed, RefundStart, RecoverStale, ChangeStatus,
         Refund, RescueJob, CleanJob, CustomerPays

\* SettleRefund is the hard case: it restores although MarkRefunded may not have
\* applied.  The money was booked, so the order is not payable, and a status
\* that refuses MarkRefunded then is one of an order reversed before.
LEMMA RestoredStep ==
  /\ Linked /\ CallsInformed /\ RecordedNotPayable /\ FlagsMatchStatus
  /\ RestoredImpliesReversed /\ [Next]_vars
  => RestoredImpliesReversed'
<1> SUFFICES ASSUME Linked, CallsInformed, RecordedNotPayable, FlagsMatchStatus,
                    RestoredImpliesReversed, [Next]_vars,
                    NEW o \in Orders, restores'[o] > 0
             PROVE  reversed'[o]
  BY DEF RestoredImpliesReversed
<1>1. reversed[o] => reversed'[o]
  BY OrderStep DEF OrderNext, CreateOrder, Linked
<1>2. CASE restores'[o] = restores[o]
  BY <1>1, <1>2 DEF RestoredImpliesReversed
<1>3. CASE restores'[o] # restores[o]
  <2> USE DEF Linked, CallsLinked
  <2>1. ASSUME NEW t \in Threads, CancelCommit(t) PROVE reversed'[o]
    BY <1>3, <2>1 DEF CancelCommit, Restore, ToCancelled
  <2>2. ASSUME NEW t \in Threads, ExpireCommit(t) PROVE reversed'[o]
    BY <1>3, <2>2 DEF ExpireCommit, Restore, ToExpired
  <2>3. ASSUME NEW t \in Threads, SettleRefund(t) PROVE reversed'[o]
    <3>1. o = Ord(t)
      BY <1>3, <2>3 DEF SettleRefund, Restore
    <3>2. CASE CanApply(o, ToRefunded)
      BY <2>3, <3>1, <3>2 DEF SettleRefund, ToRefunded
    <3>3. CASE ~CanApply(o, ToRefunded)
      <4>1. Money(o)
        BY <2>3, <3>1 DEF SettleRefund, CallsInformed, Money
      <4>2. status[o] \in {"cancelled", "expired", "refunded"}
        BY <3>3, <4>1 DEF RecordedNotPayable, ToRefunded
      <4> QED BY <1>1, <4>2 DEF FlagsMatchStatus
    <3> QED BY <3>2, <3>3
  <2>4. Next
    BY <1>3 DEF vars
  <2> QED BY <1>3, <2>1, <2>2, <2>3, <2>4, RestoreFrame
<1> QED BY <1>2, <1>3

\* Units are given back only for an order that is marked as reversed.
THEOREM RestoredInvariant == Spec => []RestoredImpliesReversed
<1>1. Init => RestoredImpliesReversed
  BY DEF Init, StockInit, RestoredImpliesReversed
<1>2. QED
  BY <1>1, RestoredStep, LinkedInvariant, InformedInvariant, NotPayableInvariant,
     FlagsInvariant, PTL DEF Spec

(***************************************************************************)
(* The account of the units.  While units are given back on rows that are  *)
(* as they were read, every step reserves, sells, releases or restocks one *)
(* order's units, or leaves stock and account as they are.                 *)
(***************************************************************************)
\* The steps that act on the order as it was read before.
Reading == {"cancel", "expire", "settling"}

\* The row says what it said when t read it ...
UpToDate(t) ==
  /\ call[t].ded = deducted[Ord(t)] /\ call[t].rev = reversed[Ord(t)]
  /\ call[t].sent = (status[Ord(t)] \in Dispatched)

\* ... whenever t gives units back.
GivesBackUpToDate ==
  \A t \in Threads : CancelCommit(t) \/ ExpireCommit(t) \/ SettleRefund(t) => UpToDate(t)

\* One handler at a time never acts on anything older.
Alone == \A t, u \in Threads : call[t] # Idle /\ call[u] # Idle => t = u
Fresh == \A t \in Threads : call[t].at \in Reading => UpToDate(t)

\* A thread begins when no other is busy.
LEMMA SlotFree ==
  ASSUME MaxOverlap = 1, Slot  PROVE \A t \in Threads : call[t] = Idle
<1>1. IsFiniteSet(Busy)
  BY FS_Subset DEF Busy
<1>2. Cardinality(Busy) \in Nat /\ Cardinality(Busy) < 1
  BY <1>1, FS_CardinalityType DEF Slot
<1>3. Busy = {}
  BY <1>1, <1>2, FS_EmptySet
<1>. QED  BY <1>3 DEF Busy

\* t takes its next step: its record alone changes, and it acts on what it reads now or
\* will read again.
Moves(t) ==
  /\ \A u \in Threads : u # t => call'[u] = call[u]
  /\ \/ call'[t].at \notin Reading
     \/ /\ call'[t].ded = deducted[call'[t].ord] /\ call'[t].rev = reversed[call'[t].ord]
        /\ call'[t].sent = (status[call'[t].ord] \in Dispatched)
        /\ UNCHANGED orderVars

\* A new record.
LEMMA BecomeMoves ==
  ASSUME Linked, NEW t \in Threads, NEW c, Become(t, c), c.at \notin Reading
  PROVE  Moves(t)
BY BecomeFields DEF Linked, Moves

\* A handler that goes on with what it has.
LEMMA GotoMoves ==
  ASSUME Linked, NEW t \in Threads, NEW l, Goto(t, l), l \notin Reading
  PROVE  Moves(t)
BY GotoFields DEF Linked, Moves

\* A handler that is done.
LEMMA ReturnMoves ==
  ASSUME Linked, NEW t \in Threads, Return(t)  PROVE Moves(t)
<1>1. Idle.at \notin Reading
  BY DEF Idle, Request, Reading
<1>. QED  BY <1>1, BecomeMoves DEF Return

\* A handler that starts, with nothing read yet.
LEMMA RequestMoves ==
  ASSUME Linked, NEW t \in Threads, NEW l, NEW b, NEW o, NEW p, Become(t, Request(l, b, o, p)),
         l \notin Reading
  PROVE  Moves(t)
<1>1. Request(l, b, o, p).at = l
  BY DEF Request
<1>. QED  BY <1>1, BecomeMoves

\* A handler that has read the row of its order, which it leaves alone.
LEMMA SnapshotMoves ==
  ASSUME Linked, NEW t \in Threads, NEW l, NEW b, NEW o, NEW p, Become(t, Snapshot(l, b, o, p)),
         UNCHANGED orderVars
  PROVE  Moves(t)
<1> DEFINE c == Snapshot(l, b, o, p)
<1>1. /\ c.ord = o /\ c.ded = deducted[o] /\ c.rev = reversed[o]
      /\ c.sent = (status[o] \in Dispatched)
  BY DEF Snapshot
<1>2. call'[t] = c /\ \A u \in Threads : u # t => call'[u] = call[u]
  BY BecomeFields DEF Linked
<1> HIDE DEF c
<1>. QED  BY <1>1, <1>2 DEF Moves

\* A handler under way.
LEMMA ContinueMoves ==
  ASSUME Linked, NEW t \in Threads, Continue(t)
  PROVE  Moves(t) /\ call[t].at # "idle"
<1> HIDE DEF Apply, ApplyOrLog, CanApply, SetPayment, orderVars, stockVars, couponVars,
             paymentVars, jobVars, TypeOK, Ord, Pay, Placed
<1> USE DEF Reading
<1>1. ASSUME PlaceCommit(t) \/ PlaceFails(t) \/ FinalizeFreeOrder(t) \/ FreeFails(t)
             \/ ReleaseAttempt(t)
      PROVE  Moves(t) /\ call[t].at # "idle"
  BY <1>1, GotoMoves, ReturnMoves
     DEF PlaceCommit, PlaceFails, FinalizeFreeOrder, FreeFails, ReleaseAttempt
<1>2. ASSUME ChargeLookup(t) \/ ChargeCreate(t)  PROVE Moves(t) /\ call[t].at # "idle"
  BY <1>2, GotoMoves, RequestMoves DEF ChargeLookup, ChargeCreate
<1>3. ASSUME ChargeGateway(t) \/ ChargeFails(t)  PROVE Moves(t) /\ call[t].at # "idle"
  BY <1>3, GotoMoves, ReturnMoves DEF ChargeGateway, ChargeFails, ChargeError
<1>4. ASSUME FinalizePaid(t) \/ FinalizeAlready(t) \/ FinalizeLate(t) \/ FinalizeFails(t)
             \/ CompensateRefund(t) \/ CompensateFails(t)
      PROVE  Moves(t) /\ call[t].at # "idle"
  BY <1>4, GotoMoves, ReturnMoves
     DEF FinalizePaid, FinalizeAlready, FinalizeLate, FinalizeFails, CompensateRefund, CompensateFails
<1>5. ASSUME CancelCommit(t) \/ CancelFails(t) \/ DropJobs(t) \/ WebhookDropJobs(t)
             \/ ExpireCommit(t) \/ ExpireSkips(t)
      PROVE  Moves(t) /\ call[t].at # "idle"
  BY <1>5, GotoMoves, ReturnMoves
     DEF CancelCommit, CancelFails, DropJobs, WebhookDropJobs, ExpireCommit, ExpireSkips
<1>6. ASSUME WebhookCancelRead(t) \/ SettleRead(t)  PROVE Moves(t) /\ call[t].at # "idle"
  BY <1>6, SnapshotMoves DEF WebhookCancelRead, SettleRead, orderVars
<1>7. ASSUME RefundGateway(t) \/ NotRefundable(t) \/ SettleRefund(t) \/ RefundDone(t) \/ RefundFails(t)
      PROVE  Moves(t) /\ call[t].at # "idle"
  BY <1>7, GotoMoves, ReturnMoves DEF RefundGateway, NotRefundable, SettleRefund, RefundDone, RefundFails
<1>. QED  BY <1>1, <1>2, <1>3, <1>4, <1>5, <1>6, <1>7 DEF Continue

\* A handler begins alone, a handler goes on, or something happens beside it that no
\* handler reads of its order.
LEMMA CallFrame ==
  ASSUME Linked, Next
  PROVE  \/ \E t \in Threads : Slot /\ Moves(t)
         \/ \E t \in Threads : call[t] # Idle /\ Moves(t)
         \/ Slot /\ UNCHANGED call
         \/ /\ UNCHANGED <<call, deducted, reversed>>
            /\ \A o \in Orders : (status'[o] \in Dispatched) <=> (status[o] \in Dispatched)
<1> HIDE DEF ApplyOrLog, SetPayment, couponVars, paymentVars, jobVars
<1>1. ASSUME NEW t \in Threads, NEW o, PlaceLookup(t, o) \/ BeginPaymentAttempt(t, o)
      PROVE  Slot /\ Moves(t)
  BY <1>1, RequestMoves DEF PlaceLookup, BeginPaymentAttempt, Begin, Reading
<1>2. ASSUME NEW t \in Threads, NEW o, CancelRead(t, o) \/ ExpireRead(t, o)
      PROVE  Slot /\ Moves(t)
  BY <1>2, SnapshotMoves DEF CancelRead, ExpireRead, Begin
<1>3. ASSUME NEW t \in Threads, NEW p, WebhookSuccess(t, p) \/ WebhookFailed(t, p) \/ RefundStart(t, p)
      PROVE  Slot /\ Moves(t)
  BY <1>3, RequestMoves DEF WebhookSuccess, WebhookFailed, RefundStart, Begin, Reading
<1>4. ASSUME NEW t \in Threads, Continue(t)  PROVE call[t] # Idle /\ Moves(t)
  BY <1>4, ContinueMoves DEF Idle, Request
<1>5. ASSUME NEW t \in Threads, Crash(t)  PROVE call[t] # Idle /\ Moves(t)
  BY <1>5, ReturnMoves DEF Crash
<1>6. ASSUME NEW o \in Orders, RecoverStale(o)
      PROVE  /\ UNCHANGED <<call, deducted, reversed>>
             /\ \A x \in Orders : (status'[x] \in Dispatched) <=> (status[x] \in Dispatched)
  BY <1>6 DEF RecoverStale, ToAwaitingPayment, Linked
<1>7. ASSUME NEW o \in Orders, ChangeStatus(o)  PROVE Slot /\ UNCHANGED call
  BY <1>7 DEF ChangeStatus
<1>8. ASSUME NEW p \in Payments, Refund(p) \/ RescueJob(p) \/ CleanJob(p) \/ CustomerPays(p)
      PROVE  UNCHANGED <<call, deducted, reversed, status>>
  BY <1>8 DEF Refund, RescueJob, CleanJob, CustomerPays
<1>. QED  BY <1>1, <1>2, <1>3, <1>4, <1>5, <1>6, <1>7, <1>8 DEF Next, Threads

\* With one slot, nothing starts while a request is under way.
LEMMA AloneStep ==
  ASSUME MaxOverlap = 1, Linked, Alone, [Next]_vars  PROVE Alone'
<1>1. CASE UNCHANGED call
  BY <1>1 DEF Alone
<1>2. ASSUME NEW t \in Threads, Slot, Moves(t)  PROVE Alone'
  BY <1>2, SlotFree DEF Alone, Moves
<1>3. ASSUME NEW t \in Threads, call[t] # Idle, Moves(t)  PROVE Alone'
  BY <1>3 DEF Alone, Moves
<1>. QED  BY <1>1, <1>2, <1>3, CallFrame DEF vars

\* With one slot, nobody changes the row between a handler's read and its write.
LEMMA FreshStep ==
  ASSUME MaxOverlap = 1, Linked, Alone, Fresh, [Next]_vars  PROVE Fresh'
<1>1. \A t \in Threads : call[t] = Idle => call[t].at \notin Reading
  BY DEF Idle, Request, Reading
<1>2. ASSUME NEW t \in Threads, Moves(t), \A u \in Threads : u # t => call[u] = Idle  PROVE Fresh'
  <2> SUFFICES ASSUME NEW u \in Threads, call'[u].at \in Reading
               PROVE  /\ call'[u].ded = deducted'[call'[u].ord] /\ call'[u].rev = reversed'[call'[u].ord]
                      /\ call'[u].sent = (status'[call'[u].ord] \in Dispatched)
    BY DEF Fresh, UpToDate
  <2>1. u = t
    BY <1>1, <1>2 DEF Moves
  <2>. QED  BY <1>2, <2>1 DEF Moves
<1>3. ASSUME NEW t \in Threads, Slot, Moves(t)  PROVE Fresh'
  BY <1>2, <1>3, SlotFree
<1>4. ASSUME NEW t \in Threads, call[t] # Idle, Moves(t)  PROVE Fresh'
  BY <1>2, <1>4 DEF Alone
<1>5. ASSUME Slot, UNCHANGED call  PROVE Fresh'
  BY <1>1, <1>5, SlotFree DEF Fresh, UpToDate
<1>6. ASSUME UNCHANGED <<call, deducted, reversed>>,
             \A o \in Orders : (status'[o] \in Dispatched) <=> (status[o] \in Dispatched)
      PROVE  Fresh'
  <2> SUFFICES ASSUME NEW u \in Threads, call[u].at \in Reading
               PROVE  /\ call[u].ded = deducted[call[u].ord] /\ call[u].rev = reversed[call[u].ord]
                      /\ call[u].sent = (status'[call[u].ord] \in Dispatched)
    BY <1>6 DEF Fresh, UpToDate
  <2>1. call[u].ord \in Orders
    BY DEF Linked, CallsLinked, Reading
  <2>2. call[u].sent = (status[call[u].ord] \in Dispatched)
    BY DEF Fresh, UpToDate
  <2>. QED  BY <1>6, <2>1, <2>2 DEF Fresh, UpToDate
<1>7. CASE UNCHANGED vars
  BY <1>7 DEF vars, Fresh, UpToDate
<1>. QED  BY <1>3, <1>4, <1>5, <1>6, <1>7, CallFrame

\* The units that are not on hand belong to these orders.
Out == Reserving \cup Sold \cup Gone

\* An order joins a set, or leaves it.
LEMMA UnitsJoin ==
  ASSUME NEW S, S \subseteq Orders, NEW o \in Orders, o \notin S
  PROVE  Units(S) \in Nat /\ Units(S \cup {o}) = Units(S) + Qty[o]
<1>1. IsFiniteSet(S) /\ \A x \in S \cup {o} : Qty[x] \in Nat
  BY FS_Subset
<1>. QED  BY <1>1, SumAdd, SumNat DEF Units

\* The units of one order fewer.
LEMMA UnitsLeave ==
  ASSUME NEW S, S \subseteq Orders, NEW o \in S
  PROVE  /\ Units(S) \in Nat /\ Units(S \ {o}) = Units(S) - Qty[o] /\ Qty[o] <= Units(S)
<1>1. PICK R : R = S \ {o}
  OBVIOUS
<1>2. R \subseteq Orders /\ o \in Orders /\ o \notin R /\ R \cup {o} = S
  BY <1>1
<1>3. Units(R) \in Nat /\ Units(R \cup {o}) = Units(R) + Qty[o]
  BY <1>2, UnitsJoin
<1>4. Units(S \ {o}) = Units(R) /\ Units(S) = Units(R \cup {o}) /\ Qty[o] \in Nat
  BY <1>1, <1>2
<1>. QED  BY <1>3, <1>4

\* What a step does to the stock, and to the orders that account for it: nothing, a new
\* reservation, a sale, a release, a restock.
Kept == UNCHANGED <<available, reserved, Reserving, Out>>
Reserves(o) ==
  /\ o \notin Reserving /\ o \notin Out
  /\ Reserving' = Reserving \cup {o} /\ Out' = Out \cup {o}
  /\ available' = available - Qty[o] /\ reserved' = reserved + Qty[o]
Sells(o) ==
  /\ o \in Reserving
  /\ Reserving' = Reserving \ {o} /\ Out' = Out
  /\ available' = available /\ reserved' = reserved - Qty[o]
Releases(o) ==
  /\ o \in Reserving /\ o \in Out
  /\ Reserving' = Reserving \ {o} /\ Out' = Out \ {o}
  /\ available' = available + Qty[o] /\ reserved' = reserved - Qty[o]
Restocks(o) ==
  /\ o \in Out
  /\ Reserving' = Reserving /\ Out' = Out \ {o}
  /\ available' = available + Qty[o] /\ reserved' = reserved

StockMove == Kept \/ \E o \in Orders : Reserves(o) \/ Sells(o) \/ Releases(o) \/ Restocks(o)

\* Each keeps the account.
LEMMA ConservedMove ==
  ASSUME StockTypeOK, StockConserved, StockMove  PROVE StockConserved'
<1>1. reserved = Units(Reserving) /\ available + Units(Out) = StockOnHand
  BY DEF StockConserved, Out
<1>2. Reserving \subseteq Orders /\ Out \subseteq Orders
  BY DEF Reserving, Out, Sold, Gone
<1>3. SUFFICES reserved' = Units(Reserving') /\ available' + Units(Out') = StockOnHand
  BY DEF StockConserved, Out
<1>4. PICK R : R = Reserving
  OBVIOUS
<1>5. PICK X : X = Out
  OBVIOUS
<1>6. ASSUME NEW o \in Orders, Reserves(o)
      PROVE  reserved' = Units(Reserving') /\ available' + Units(Out') = StockOnHand
  <2>1. Units(R \cup {o}) = Units(R) + Qty[o] /\ Units(X \cup {o}) = Units(X) + Qty[o]
        /\ Units(X) \in Nat
    BY <1>2, <1>4, <1>5, <1>6, UnitsJoin DEF Reserves
  <2>. QED  BY <1>1, <1>4, <1>5, <1>6, <2>1 DEF Reserves
<1>7. ASSUME NEW o \in Orders, Sells(o)
      PROVE  reserved' = Units(Reserving') /\ available' + Units(Out') = StockOnHand
  <2>1. Units(R \ {o}) = Units(R) - Qty[o]
    BY <1>2, <1>4, <1>7, UnitsLeave DEF Sells
  <2>. QED  BY <1>1, <1>4, <1>5, <1>7, <2>1 DEF Sells
<1>8. ASSUME NEW o \in Orders, Releases(o)
      PROVE  reserved' = Units(Reserving') /\ available' + Units(Out') = StockOnHand
  <2>1. Units(R \ {o}) = Units(R) - Qty[o] /\ Units(X \ {o}) = Units(X) - Qty[o]
        /\ Units(X) \in Nat
    BY <1>2, <1>4, <1>5, <1>8, UnitsLeave DEF Releases
  <2>. QED  BY <1>1, <1>4, <1>5, <1>8, <2>1 DEF Releases
<1>9. ASSUME NEW o \in Orders, Restocks(o)
      PROVE  reserved' = Units(Reserving') /\ available' + Units(Out') = StockOnHand
  <2>1. Units(X \ {o}) = Units(X) - Qty[o] /\ Units(X) \in Nat
    BY <1>2, <1>5, <1>9, UnitsLeave DEF Restocks
  <2>. QED  BY <1>1, <1>4, <1>5, <1>9, <2>1 DEF Restocks
<1>10. CASE Kept
  BY <1>1, <1>10 DEF Kept
<1>. QED  BY <1>6, <1>7, <1>8, <1>9, <1>10 DEF StockMove

\* What the books say of one order.
InReserving(o) == Placed(o) /\ ~deducted[o] /\ ~reversed[o]
InOut(o) ==
  \/ InReserving(o)
  \/ deducted[o] /\ ~reversed[o]
  \/ deducted[o] /\ reversed[o] /\ restores[o] = 0

\* The two sets of the books, order by order.
LEMMA BooksPointwise ==
  /\ Reserving = {o \in Orders : InReserving(o)}
  /\ Out = {o \in Orders : InOut(o)}
BY DEF Reserving, Sold, Gone, Out, InReserving, InOut

\* Rows that change neither in a flag nor from unplaced to placed.
LEMMA KeptBooks ==
  ASSUME UNCHANGED stockVars, \A o \in Orders : InReserving(o)' <=> InReserving(o),
         \A o \in Orders : InOut(o)' <=> InOut(o)
  PROVE  Kept
<1>1. Reserving' = {o \in Orders : InReserving(o)'} /\ Out' = {o \in Orders : InOut(o)'}
  BY DEF Reserving, Sold, Gone, Out, InReserving, InOut
<1>. QED  BY <1>1, BooksPointwise DEF Kept

\* A transition without a flag.
LEMMA PlainMoves ==
  ASSUME OrderTypeOK, UNCHANGED stockVars,
         NEW o \in Orders, NEW m \in Transitions, Apply(o, m), m.stock = "unchanged"
  PROVE  Kept
<1>1. m.to # "none" /\ "none" \notin m.from
  BY DEF Transitions, ToAwaitingPayment, ToPaymentAttempt, ToPaid, ToProcessing,
           ToShipped, ToDelivered, ToFulfillmentFailedAfterCharge,
           ToFulfillmentFailedCompensating, ToCancelled, ToExpired, ToRefunded
<1>2. \A x \in Orders : /\ (status'[x] # "none") <=> (status[x] # "none")
                        /\ deducted'[x] = deducted[x] /\ reversed'[x] = reversed[x]
  BY <1>1
<1>3. \A x \in Orders : (InReserving(x)' <=> InReserving(x)) /\ (InOut(x)' <=> InOut(x))
  BY <1>2 DEF InReserving, InOut
<1>. QED  BY <1>3, KeptBooks

\* A new order.
LEMMA ReservesMove ==
  ASSUME Linked, FlagsMatchStatus, NEW o \in Orders, CreateOrder(o), Reserve(o)
  PROVE  Reserves(o)
<1>1. ~deducted[o] /\ ~reversed[o] /\ status[o] = "none"
  BY DEF CreateOrder, FlagsMatchStatus
<1>2. \A x \in Orders : /\ InReserving(x)' <=> (InReserving(x) \/ x = o)
                        /\ InOut(x)' <=> (InOut(x) \/ x = o)
  BY <1>1 DEF InReserving, InOut, CreateOrder, Reserve, Linked
<1>3. Reserving' = {x \in Orders : InReserving(x)'} /\ Out' = {x \in Orders : InOut(x)'}
  BY DEF Reserving, Sold, Gone, Out, InReserving, InOut
<1>4. ~InReserving(o) /\ ~InOut(o)
  BY <1>1 DEF InReserving, InOut
<1>. QED  BY <1>2, <1>3, <1>4, BooksPointwise DEF Reserves, Reserve

\* A paid order.
LEMMA SellsMove ==
  ASSUME Linked, FlagsMatchStatus, NEW o \in Orders, Apply(o, ToPaid), Deduct(o)
  PROVE  Sells(o)
<1>1. ~deducted[o] /\ ~reversed[o] /\ status[o] # "none"
  BY DEF ToPaid, FlagsMatchStatus
<1>2. \A x \in Orders : /\ InReserving(x)' <=> (InReserving(x) /\ x # o)
                        /\ InOut(x)' <=> InOut(x)
  BY <1>1 DEF InReserving, InOut, ToPaid, Deduct, Linked
<1>3. Reserving' = {x \in Orders : InReserving(x)'} /\ Out' = {x \in Orders : InOut(x)'}
  BY DEF Reserving, Sold, Gone, Out, InReserving, InOut
<1>4. InReserving(o)
  BY <1>1 DEF InReserving
<1>. QED  BY <1>2, <1>3, <1>4, BooksPointwise DEF Sells, Deduct

\* An order that is reversed, with its units given back as its own flag says.
LEMMA GivesBackMove ==
  ASSUME Linked, RestoredImpliesReversed, NEW o \in Orders,
         NEW m \in {ToCancelled, ToExpired, ToRefunded}, Apply(o, m), ~reversed[o], Restore(o, deducted[o])
  PROVE  StockMove
<1>1. status[o] # "none" /\ m.stock = "reversed" /\ restores[o] = 0 /\ restores[o] \in Nat
  BY DEF ToCancelled, ToExpired, ToRefunded, RestoredImpliesReversed, Linked
<1>2. \A x \in Orders : /\ InReserving(x)' <=> (InReserving(x) /\ x # o)
                        /\ InOut(x)' <=> (InOut(x) /\ x # o)
  <2> SUFFICES ASSUME NEW x \in Orders
               PROVE  /\ InReserving(x)' <=> (InReserving(x) /\ x # o)
                      /\ InOut(x)' <=> (InOut(x) /\ x # o)
    OBVIOUS
  <2>1. CASE x = o
    <3>1. restores'[o] # 0
      BY <1>1 DEF Restore, Linked
    <3>2. reversed'[o]
      BY <1>1 DEF Linked
    <3>. QED  BY <1>1, <2>1, <3>1, <3>2 DEF InReserving, InOut
  <2>2. CASE x # o
    BY <1>1, <2>2 DEF InReserving, InOut, Restore, Linked
  <2>. QED  BY <2>1, <2>2
<1>3. Reserving' = {x \in Orders : InReserving(x)'} /\ Out' = {x \in Orders : InOut(x)'}
  BY DEF Reserving, Sold, Gone, Out, InReserving, InOut
<1>4. CASE deducted[o]
  <2>1. InOut(o) /\ ~InReserving(o)
    BY <1>4 DEF InOut, InReserving
  <2>2. Restocks(o)
    BY <1>2, <1>3, <1>4, <2>1, BooksPointwise DEF Restocks, Restore
  <2>. QED  BY <2>2 DEF StockMove
<1>5. CASE ~deducted[o]
  <2>1. InOut(o) /\ InReserving(o)
    BY <1>1, <1>5 DEF InOut, InReserving
  <2>2. Releases(o)
    BY <1>2, <1>3, <1>5, <2>1, BooksPointwise DEF Releases, Restore
  <2>. QED  BY <2>2 DEF StockMove
<1>. QED  BY <1>4, <1>5 DEF Linked

\* An order that was reversed before, or is reversed after it left the house.
LEMMA ReversedKept ==
  ASSUME Linked, FlagsMatchStatus, RestoredImpliesReversed, NEW o \in Orders,
         NEW m \in {ToCancelled, ToExpired, ToRefunded}, Apply(o, m),
         reversed[o] \/ status[o] \in Dispatched, UNCHANGED stockVars
  PROVE  Kept
<1>1. status[o] # "none" /\ m.to # "none" /\ m.stock = "reversed"
  BY DEF ToCancelled, ToExpired, ToRefunded
<1>2. ~reversed[o] => deducted[o] /\ restores[o] = 0
  BY DEF FlagsMatchStatus, RestoredImpliesReversed, Linked
<1>3. \A x \in Orders : (InReserving(x)' <=> InReserving(x)) /\ (InOut(x)' <=> InOut(x))
  BY <1>1, <1>2 DEF InReserving, InOut, Linked
<1>. QED  BY <1>3, KeptBooks

\* What the handlers rely on, however they overlap.
Trusted ==
  /\ Linked /\ CallsInformed /\ RecordedNotPayable /\ FlagsMatchStatus
  /\ RestoredImpliesReversed

\* A settled refund whose order cannot be marked refunded finds it reversed.
LEMMA SettlesReversed ==
  ASSUME Trusted, NEW t \in Threads, SettleRefund(t), ~CanApply(Ord(t), ToRefunded)
  PROVE  reversed[Ord(t)]
<1> USE DEF Trusted, Linked, CallsLinked
<1>1. Ord(t) \in Orders /\ Money(Ord(t))
  BY DEF SettleRefund, CallsInformed, Money
<1>2. status[Ord(t)] \in {"cancelled", "expired", "refunded"}
  BY <1>1 DEF RecordedNotPayable, ToRefunded
<1>. QED  BY <1>1, <1>2 DEF FlagsMatchStatus

\* The reserved units cover those of each order that holds some.
LEMMA ReservedCovers ==
  ASSUME Linked, StockConserved, NEW o \in Orders, InReserving(o)
  PROVE  reserved >= Qty[o]
<1>1. o \in Reserving /\ Reserving \subseteq Orders
  BY DEF Reserving, InReserving
<1>2. Units(Reserving) \in Nat /\ Qty[o] <= Units(Reserving)
  BY <1>1, UnitsLeave
<1>. QED  BY <1>2 DEF StockConserved

\* SettleRefund gives back what the row it read says was taken, when nobody has changed it since.
LEMMA SettleMove ==
  ASSUME Trusted, StockConserved, NEW t \in Threads, SettleRefund(t), UpToDate(t)
  PROVE  StockMove
<1> DEFINE o == call[t].ord
<1>1. /\ o \in Orders /\ Placed(o)
      /\ call[t].ded = deducted[o] /\ call[t].rev = reversed[o]
      /\ call[t].sent = (status[o] \in Dispatched)
  BY DEF SettleRefund, UpToDate, Trusted, Linked, CallsLinked
<1>2. ApplyOrLog(o, ToRefunded)
      /\ IF call[t].sent \/ call[t].rev \/ ~CanRestore(o, call[t].ded)
         THEN UNCHANGED stockVars
         ELSE Restore(o, call[t].ded)
  BY DEF SettleRefund
<1>3. CASE ~CanApply(o, ToRefunded)
  <2>1. reversed[o]
    BY <1>3, SettlesReversed
  <2>2. UNCHANGED stockVars /\ UNCHANGED orderVars
    BY <1>1, <1>2, <1>3, <2>1
  <2>. QED  BY <2>2, KeptBooks DEF StockMove, InReserving, InOut
<1>4. CASE Apply(o, ToRefunded) /\ (reversed[o] \/ status[o] \in Dispatched)
  <2>1. UNCHANGED stockVars
    BY <1>1, <1>2, <1>4
  <2>. QED  BY <1>1, <1>4, <2>1, ReversedKept DEF Trusted, StockMove
<1>5. CASE Apply(o, ToRefunded) /\ ~reversed[o] /\ status[o] \notin Dispatched
  <2>1. CanRestore(o, deducted[o])
    BY <1>1, <1>5, ReservedCovers DEF CanRestore, Trusted, InReserving, Linked
  <2>2. Restore(o, deducted[o])
    BY <1>1, <1>2, <1>5, <2>1
  <2>. QED  BY <1>1, <1>5, <2>2, GivesBackMove DEF Trusted
<1>. QED  BY <1>2, <1>3, <1>4, <1>5

\* A cancellation or an expiry.
LEMMA CancelMove ==
  ASSUME Trusted, NEW t \in Threads, CancelCommit(t) \/ ExpireCommit(t), UpToDate(t)
  PROVE  StockMove
<1> DEFINE o == call[t].ord
<1>1. /\ o \in Orders
      /\ call[t].ded = deducted[o] /\ call[t].rev = reversed[o]
  BY DEF CancelCommit, ExpireCommit, UpToDate, Trusted, Linked, CallsLinked
<1>2. PICK m \in {ToCancelled, ToExpired, ToRefunded} : Apply(o, m)
  BY DEF CancelCommit, ExpireCommit
<1>3. IF call[t].rev THEN UNCHANGED stockVars ELSE Restore(o, call[t].ded)
  BY DEF CancelCommit, ExpireCommit
<1>4. CASE reversed[o]
  <2>1. UNCHANGED stockVars
    BY <1>1, <1>3, <1>4
  <2>. QED  BY <1>1, <1>2, <1>4, <2>1, ReversedKept DEF Trusted, StockMove
<1>5. CASE ~reversed[o]
  <2>1. Restore(o, deducted[o])
    BY <1>1, <1>3, <1>5
  <2>. QED  BY <1>1, <1>2, <1>5, <2>1, GivesBackMove DEF Trusted
<1>. QED  BY <1>4, <1>5

\* The orders change without their units.
LEMMA RowMoves ==
  ASSUME Linked, NEW o \in Orders, UNCHANGED stockVars,
         NEW m \in Transitions, ApplyOrLog(o, m), m.stock = "unchanged"
  PROVE  StockMove
<1>1. CASE Apply(o, m)
  BY <1>1, PlainMoves DEF Linked, StockMove
<1>2. CASE UNCHANGED orderVars
  BY <1>2, KeptBooks DEF StockMove, InReserving, InOut
<1>. QED  BY <1>1, <1>2

\* Every step keeps the account of the units, when nothing is given back on an old read.
LEMMA StockStep ==
  ASSUME Trusted, StockConserved, [Next /\ GivesBackUpToDate]_vars  PROVE StockMove
<1> USE DEF Trusted
<1>1. ASSUME UNCHANGED <<orderVars, stockVars>>  PROVE StockMove
  BY <1>1, KeptBooks DEF StockMove, InReserving, InOut
<1>2. ASSUME NEW o \in Orders, NEW m \in Transitions, ApplyOrLog(o, m), m.stock = "unchanged",
             UNCHANGED stockVars
      PROVE  StockMove
  BY <1>2, RowMoves
<1>3. /\ ToAwaitingPayment.stock = "unchanged" /\ ToPaymentAttempt.stock = "unchanged"
      /\ ToFulfillmentFailedAfterCharge.stock = "unchanged"
      /\ ToFulfillmentFailedCompensating.stock = "unchanged"
      /\ \A m \in AdminTransitions : m.stock = "unchanged"
      /\ {ToAwaitingPayment, ToPaymentAttempt, ToFulfillmentFailedAfterCharge,
          ToFulfillmentFailedCompensating} \cup AdminTransitions \subseteq Transitions
  BY DEF ToAwaitingPayment, ToPaymentAttempt, ToFulfillmentFailedAfterCharge,
     ToFulfillmentFailedCompensating, AdminTransitions, ToProcessing, ToShipped, ToDelivered,
     Transitions
<1> HIDE DEF Apply, ApplyOrLog, CanApply, SetPayment, orderVars, stockVars, couponVars,
             paymentVars, jobVars, Trusted
<1>4. \A t \in Threads : ~(call[t].at \in {"idle"}) => Ord(t) \in Orders
  BY DEF Trusted, Linked, CallsLinked
<1>5. ASSUME NEW t \in Threads, PlaceCommit(t)  PROVE StockMove
  <2>1. Reserves(call[t].ord)
    BY <1>4, <1>5, ReservesMove DEF PlaceCommit, Trusted
  <2>. QED  BY <1>4, <1>5, <2>1 DEF StockMove, PlaceCommit
<1>6. ASSUME NEW t \in Threads, FinalizeFreeOrder(t) \/ FinalizePaid(t)  PROVE StockMove
  <2>1. Sells(call[t].ord)
    BY <1>4, <1>6, SellsMove DEF FinalizeFreeOrder, FinalizePaid, Trusted
  <2>. QED  BY <1>4, <1>6, <2>1 DEF StockMove, FinalizeFreeOrder, FinalizePaid
<1>7. ASSUME NEW t \in Threads, CancelCommit(t) \/ ExpireCommit(t) \/ SettleRefund(t)  PROVE StockMove
  <2>1. CASE UNCHANGED vars
    BY <1>1, <2>1 DEF vars
  <2>2. CASE UpToDate(t)
    BY <1>7, <2>2, CancelMove, SettleMove
  <2>. QED  BY <1>7, <2>1, <2>2 DEF GivesBackUpToDate
<1>8. ASSUME NEW t \in Threads, ReleaseAttempt(t) \/ FinalizeLate(t) \/ CompensateRefund(t)  PROVE StockMove
  BY <1>2, <1>3, <1>4, <1>8 DEF ReleaseAttempt, FinalizeLate, CompensateRefund
<1>9. ASSUME NEW t \in Threads, NEW o \in Orders, BeginPaymentAttempt(t, o)  PROVE StockMove
  BY <1>2, <1>3, <1>9 DEF BeginPaymentAttempt, ApplyOrLog
<1>10. ASSUME NEW o \in Orders, RecoverStale(o) \/ ChangeStatus(o)  PROVE StockMove
  BY <1>2, <1>3, <1>10 DEF RecoverStale, ChangeStatus, ApplyOrLog
<1>11. CASE UNCHANGED vars
  BY <1>1, <1>11 DEF vars
<1>. QED
  BY <1>1, <1>5, <1>6, <1>7, <1>8, <1>9, <1>10, <1>11
     DEF Next, Threads, Continue, PlaceFails, FreeFails, ChargeLookup, ChargeCreate,
         ChargeGateway, ChargeFails, FinalizeAlready, FinalizeFails, CompensateFails,
         CancelFails, DropJobs, WebhookDropJobs, WebhookCancelRead, ExpireSkips,
         RefundGateway, NotRefundable, SettleRead, RefundDone, RefundFails, Crash,
         PlaceLookup, CancelRead, ExpireRead, WebhookSuccess, WebhookFailed,
         RefundStart, Refund, RescueJob, CleanJob, CustomerPays

\* The steps that mark an order as reversed.
LEMMA ReversalSteps ==
  ASSUME Linked, Next, NEW o \in Orders, ~reversed[o], reversed'[o]
  PROVE  \E t \in Threads : CancelCommit(t) \/ ExpireCommit(t) \/ SettleRefund(t)
<1>1. ASSUME NEW x \in Orders, NEW m \in Transitions, ApplyOrLog(x, m), m.stock # "reversed"
      PROVE  FALSE
  BY <1>1 DEF Linked
<1>2. ASSUME NEW x \in Orders, CreateOrder(x)  PROVE FALSE
  BY <1>2 DEF CreateOrder
<1>3. ASSUME UNCHANGED reversed  PROVE FALSE
  BY <1>3
<1>4. /\ {ToAwaitingPayment, ToPaymentAttempt, ToPaid, ToFulfillmentFailedAfterCharge,
          ToFulfillmentFailedCompensating} \cup AdminTransitions \subseteq Transitions
      /\ \A m \in {ToAwaitingPayment, ToPaymentAttempt, ToPaid, ToFulfillmentFailedAfterCharge,
            ToFulfillmentFailedCompensating} \cup AdminTransitions : m.stock # "reversed"
  BY DEF ToAwaitingPayment, ToPaymentAttempt, ToPaid, ToFulfillmentFailedAfterCharge,
     ToFulfillmentFailedCompensating, AdminTransitions, ToProcessing, ToShipped, ToDelivered,
     Transitions
<1>5. \A t \in Threads : call[t].at # "idle" => Ord(t) \in Orders
  BY DEF Linked, CallsLinked
<1> HIDE DEF Apply, ApplyOrLog, CanApply, SetPayment, stockVars, couponVars, paymentVars, jobVars
<1>6. ASSUME NEW t \in Threads, PlaceCommit(t) \/ FinalizeFreeOrder(t) \/ FinalizePaid(t)
             \/ ReleaseAttempt(t) \/ FinalizeLate(t) \/ CompensateRefund(t)  PROVE FALSE
  BY <1>1, <1>2, <1>4, <1>5, <1>6 DEF PlaceCommit, FinalizeFreeOrder, FinalizePaid, ReleaseAttempt,
     FinalizeLate, CompensateRefund, ApplyOrLog
<1>7. ASSUME NEW t \in Threads, NEW x \in Orders, BeginPaymentAttempt(t, x)  PROVE FALSE
  BY <1>1, <1>4, <1>7 DEF BeginPaymentAttempt, ApplyOrLog
<1>8. ASSUME NEW x \in Orders, RecoverStale(x) \/ ChangeStatus(x)  PROVE FALSE
  BY <1>1, <1>4, <1>8 DEF RecoverStale, ChangeStatus, ApplyOrLog
<1>. QED
  BY <1>3, <1>6, <1>7, <1>8
     DEF Next, Threads, Continue, PlaceFails, FreeFails, ChargeLookup, ChargeCreate,
         ChargeGateway, ChargeFails, FinalizeAlready, FinalizeFails, CompensateFails,
         CancelFails, DropJobs, WebhookDropJobs, WebhookCancelRead, ExpireSkips,
         RefundGateway, NotRefundable, SettleRead, RefundDone, RefundFails, Crash,
         PlaceLookup, CancelRead, ExpireRead, WebhookSuccess, WebhookFailed,
         RefundStart, Refund, RescueJob, CleanJob, CustomerPays

\* They rely on it in every behaviour.
LEMMA TrustedInvariant == Spec => []Trusted
<1>1. Linked /\ CallsInformed /\ RecordedNotPayable /\ FlagsMatchStatus
      /\ RestoredImpliesReversed => Trusted
  BY DEF Trusted
<1>. QED
  BY <1>1, LinkedInvariant, InformedInvariant, NotPayableInvariant, FlagsInvariant,
     RestoredInvariant, PTL

\* One handler at a time gives back what the row says.
LEMMA AloneUpToDate == ASSUME MaxOverlap = 1 PROVE Spec => [][GivesBackUpToDate]_vars
<1>1. Init => Alone /\ Fresh
  BY DEF Init, Alone, Fresh, Idle, Request, Reading
<1>2. Linked /\ Alone /\ Fresh /\ [Next]_vars => Alone' /\ Fresh'
  BY AloneStep, FreshStep
<1>3. Fresh => GivesBackUpToDate
  BY DEF Fresh, GivesBackUpToDate, Reading, CancelCommit, ExpireCommit, SettleRefund
<1>4. Fresh /\ [Next]_vars => [GivesBackUpToDate]_vars
  BY <1>3
<1>. QED  BY <1>1, <1>2, <1>4, LinkedInvariant, PTL DEF Spec

\* However handlers overlap and whichever of them dies, a unit is lost or invented only by a
\* cancellation, an expiry or a refund that gives units back on a row which changed after it
\* was read: in every behaviour without one, for any number of orders, payments and threads,
\* Reserve, Deduct, Restore and the flags keep the account of every unit.
THEOREM OnlyOldReadsLoseUnits == Spec /\ [][GivesBackUpToDate]_vars => []StockConserved
<1>1. Init => StockConserved
  <2> SUFFICES ASSUME Init  PROVE StockConserved
    OBVIOUS
  <2>1. Reserving = {} /\ Out = {}
    BY DEF Init, OrderInit, Reserving, Sold, Gone, Out
  <2>2. Units({}) = 0
    BY SumEmpty DEF Units
  <2>. QED  BY <2>1, <2>2 DEF Init, StockInit, StockConserved, Out
<1>2. Trusted /\ StockConserved /\ [Next /\ GivesBackUpToDate]_vars => StockConserved'
  BY StockStep, ConservedMove DEF Trusted, Linked
<1>3. [Next]_vars /\ [GivesBackUpToDate]_vars => [Next /\ GivesBackUpToDate]_vars
  OBVIOUS
<1>. QED  BY <1>1, <1>2, <1>3, TrustedInvariant, PTL DEF Spec

\* However handlers overlap, as long as none gives units back on a row that changed after it
\* was read, the step that marks an order as reversed gives its units back exactly once,
\* unless they were dispatched (cancelWithReversal, SettleRefund, the sweep).
THEOREM OnlyOldReadsRestoreTwice ==
  Spec /\ [][GivesBackUpToDate]_vars => ReversalRestoresOnce
<1> DEFINE Once == \A o \in Orders : ~reversed[o] /\ reversed'[o] =>
                     restores'[o] = restores[o] + (IF status[o] \in Dispatched THEN 0 ELSE 1)
<1>1. ASSUME Trusted, StockConserved, Next, GivesBackUpToDate,
             NEW o \in Orders, ~reversed[o], reversed'[o]
      PROVE  restores'[o] = restores[o] + (IF status[o] \in Dispatched THEN 0 ELSE 1)
  <2>1. PICK t \in Threads : CancelCommit(t) \/ ExpireCommit(t) \/ SettleRefund(t)
    BY <1>1, ReversalSteps DEF Trusted
  <2>2. /\ Ord(t) \in Orders
        /\ call[t].ded = deducted[Ord(t)] /\ call[t].rev = reversed[Ord(t)]
        /\ call[t].sent = (status[Ord(t)] \in Dispatched)
    BY <1>1, <2>1 DEF CancelCommit, ExpireCommit, SettleRefund, GivesBackUpToDate, UpToDate, Trusted, Linked, CallsLinked
  <2>3. o = Ord(t)
    BY <1>1, <2>1, <2>2 DEF CancelCommit, ExpireCommit, SettleRefund, Trusted, Linked
  <2>4. restores[o] \in Nat
    BY <1>1 DEF Trusted, Linked
  <2>5. CASE CancelCommit(t) \/ ExpireCommit(t)
    <3>1. status[o] \notin Dispatched
      BY <2>3, <2>5 DEF CancelCommit, ExpireCommit, ToCancelled, ToExpired
    <3>2. Restore(o, deducted[o])
      BY <1>1, <2>2, <2>3, <2>5 DEF CancelCommit, ExpireCommit
    <3>. QED  BY <1>1, <2>4, <3>1, <3>2 DEF Restore, Trusted, Linked
  <2>6. CASE SettleRefund(t)
    <3>1. CASE status[o] \in Dispatched
      <4>1. UNCHANGED stockVars
        BY <2>2, <2>3, <2>6, <3>1 DEF SettleRefund
      <4>. QED  BY <2>4, <3>1, <4>1
    <3>2. CASE status[o] \notin Dispatched
      <4>1. CanRestore(o, deducted[o])
        <5>1. Placed(o)
          BY <1>1, <2>3, <2>6 DEF SettleRefund, Trusted, Linked, CallsLinked
        <5>. QED  BY <1>1, <5>1, ReservedCovers DEF CanRestore, Trusted, InReserving, Linked
      <4>2. Restore(o, deducted[o])
        BY <1>1, <2>2, <2>3, <2>6, <3>2, <4>1 DEF SettleRefund
      <4>. QED  BY <1>1, <2>4, <3>2, <4>2 DEF Restore, Trusted, Linked
    <3>. QED  BY <3>1, <3>2
  <2>. QED  BY <2>1, <2>5, <2>6
<1>2. Trusted /\ StockConserved /\ [Next]_vars /\ [GivesBackUpToDate]_vars => [Once]_vars
  BY <1>1
<1>. QED  BY <1>2, TrustedInvariant, OnlyOldReadsLoseUnits, PTL DEF Spec, ReversalRestoresOnce

(***************************************************************************)
(* Refund jobs.                                                            *)
(***************************************************************************)
\* How one step may change a payment's refund job.
JobMoves(p) ==
  \/ job'[p] = job[p]
  \/ job'[p] \in {"available", "running", "cancelled", "discarded"}
  \/ job'[p] = "completed" /\ pstatus[p] = "refunded"
  \/ job[p] = "completed" /\ job'[p] = "none"

\* One step of the pipeline changes a refund job only as JobMoves says.
LEMMA JobStep ==
  ASSUME Linked, CallsInformed, [Next]_vars, NEW p \in Payments
  PROVE  JobMoves(p)
<1> USE DEF Linked, CallsLinked, JobMoves
<1> SUFFICES ASSUME Next, ~UNCHANGED job PROVE JobMoves(p)
  BY DEF vars
<1>1. ASSUME NEW q \in Payments, Enqueue(q) PROVE JobMoves(p)
  BY <1>1 DEF Enqueue
<1>2. ASSUME NEW q \in Payments, RetryOrDiscard(q) PROVE JobMoves(p)
  BY <1>2 DEF RetryOrDiscard
<1>3. ASSUME NEW o \in Orders, CancelJobsOf(o) PROVE JobMoves(p)
  BY <1>3 DEF CancelJobsOf
<1>4. ASSUME NEW t \in Threads, RefundDone(t) PROVE JobMoves(p)
  BY <1>4 DEF RefundDone, EndJob, CallsInformed
<1>5. ASSUME NEW t \in Threads, NotRefundable(t) PROVE JobMoves(p)
  BY <1>5 DEF NotRefundable, EndJob
<1>6. ASSUME NEW q \in Payments, CleanJob(q) PROVE JobMoves(p)
  BY <1>6 DEF CleanJob, EndJob
<1>7. ASSUME NEW t \in Workers, NEW q \in Payments, RefundStart(t, q) PROVE JobMoves(p)
  BY <1>7 DEF RefundStart, Fetch
<1>8. ASSUME NEW t \in Threads, Continue(t) PROVE JobMoves(p)
  BY <1>1, <1>2, <1>3, <1>4, <1>5, <1>8
     DEF Continue, PlaceCommit, PlaceFails, FinalizeFreeOrder, FreeFails, ChargeLookup,
         ChargeCreate, ChargeGateway, ChargeFails, ReleaseAttempt, FinalizePaid,
         FinalizeAlready, FinalizeLate, FinalizeFails, CompensateRefund,
         CompensateFails, CancelCommit, CancelFails, DropJobs, WebhookDropJobs,
         WebhookCancelRead, ExpireCommit, ExpireSkips, RefundGateway, SettleRead,
         SettleRefund, RefundFails
<1> QED
  BY <1>1, <1>2, <1>6, <1>7, <1>8
     DEF Next, Crash, PlaceLookup, BeginPaymentAttempt, CancelRead, ExpireRead,
         WebhookSuccess, WebhookFailed, RecoverStale, ChangeStatus, Refund, RescueJob,
         CustomerPays

\* Only the refund of a payment completes its job.
THEOREM CompletedInvariant == Spec => []CompletedIsRefunded
<1>1. Init => CompletedIsRefunded
  BY DEF Init, JobInit, CompletedIsRefunded
<1>2. Linked /\ CallsInformed /\ CompletedIsRefunded /\ [Next]_vars => CompletedIsRefunded'
  BY JobStep, PaymentStep DEF JobMoves, PaymentMoves, CompletedIsRefunded
<1>3. QED
  BY <1>1, <1>2, LinkedInvariant, InformedInvariant, PTL DEF Spec

\* Putting a payment under review enqueues its refund in the same transaction,
\* and a completed job cannot be in the way of the insert.
LEMMA ReviewStep ==
  /\ Linked /\ CallsInformed /\ CompletedIsRefunded /\ ReviewHasRefundJob /\ [Next]_vars
  => ReviewHasRefundJob'
<1> SUFFICES ASSUME Linked, CallsInformed, CompletedIsRefunded, ReviewHasRefundJob,
                    [Next]_vars, NEW p \in Payments, pstatus'[p] = "requires_review"
             PROVE  job'[p] \notin {"none", "completed"}
  BY DEF ReviewHasRefundJob
<1>1. CASE pstatus[p] = "requires_review"
  BY <1>1, JobStep DEF JobMoves, ReviewHasRefundJob
<1>2. CASE pstatus[p] # "requires_review"
  <2> USE DEF Linked, CallsLinked
  <2>1. ASSUME NEW t \in Threads, FinalizeLate(t)
        PROVE  job'[p] \notin {"none", "completed"}
    BY <1>2, <2>1 DEF FinalizeLate, Enqueue, UniqueStates, CompletedIsRefunded
  <2>2. ASSUME NEW t \in Threads, CompensateRefund(t)
        PROVE  job'[p] \notin {"none", "completed"}
    BY <1>2, <2>2 DEF CompensateRefund, Enqueue, UniqueStates, CompletedIsRefunded
  <2>3. ASSUME NEW t \in Threads, ChargeCreate(t) PROVE FALSE
    BY <1>2, <2>3 DEF ChargeCreate, CreatePayment
  <2>4. ASSUME NEW t \in Threads, FinalizePaid(t) PROVE FALSE
    BY <1>2, <2>4 DEF FinalizePaid
  <2>5. ASSUME NEW t \in Threads, SettleRefund(t) PROVE FALSE
    BY <1>2, <2>5 DEF SettleRefund
  <2>6. ASSUME NEW t \in Clients, NEW q \in Payments, WebhookFailed(t, q) PROVE FALSE
    BY <1>2, <2>6 DEF WebhookFailed
  <2> QED
    BY <1>2, <2>1, <2>2, <2>3, <2>4, <2>5, <2>6
       DEF vars, Next, Continue, PlaceCommit, PlaceFails, FinalizeFreeOrder, FreeFails,
           ChargeLookup, ChargeGateway, ChargeFails, ReleaseAttempt, FinalizeAlready,
           FinalizeFails, CompensateFails, CancelCommit, CancelFails, DropJobs,
           WebhookDropJobs, WebhookCancelRead, ExpireCommit, ExpireSkips,
           RefundGateway, NotRefundable, SettleRead, RefundDone, RefundFails, Crash,
           PlaceLookup, BeginPaymentAttempt, CancelRead, ExpireRead, WebhookSuccess,
           RefundStart, RecoverStale, ChangeStatus, Refund, RescueJob, CleanJob,
           CustomerPays
<1> QED BY <1>1, <1>2

\* A payment under review always has its refund job.
THEOREM ReviewInvariant == Spec => []ReviewHasRefundJob
<1>1. Init => ReviewHasRefundJob
  BY DEF Init, PaymentInit, ReviewHasRefundJob
<1>2. QED
  BY <1>1, ReviewStep, LinkedInvariant, InformedInvariant, CompletedInvariant, PTL DEF Spec

(***************************************************************************)
(* The coupon.                                                             *)
(***************************************************************************)
\* The steps that touch the coupon or an order of it.
LEMMA CouponStep ==
  ASSUME Linked, Next
  PROVE  \/ UNCHANGED couponVars
         \/ \E t \in Threads :
              \/ PlaceCommit(t) /\ Ord(t) \in CouponOrders /\ ReserveCoupon(Ord(t))
              \/ ReleaseCoupon(Ord(t)) /\ Ord(t) \in Orders
<1> USE DEF Linked, CallsLinked
<1>1. ASSUME NEW t \in Threads, Continue(t)
      PROVE  \/ UNCHANGED couponVars
             \/ PlaceCommit(t) /\ Ord(t) \in CouponOrders /\ ReserveCoupon(Ord(t))
             \/ ReleaseCoupon(Ord(t)) /\ Ord(t) \in Orders
  BY <1>1
     DEF Continue, PlaceCommit, PlaceFails, FinalizeFreeOrder, FreeFails, ChargeLookup,
         ChargeCreate, ChargeGateway, ChargeFails, ReleaseAttempt, FinalizePaid,
         FinalizeAlready, FinalizeLate, FinalizeFails, CompensateRefund,
         CompensateFails, CancelCommit, CancelFails, DropJobs, WebhookDropJobs,
         WebhookCancelRead, ExpireCommit, ExpireSkips, RefundGateway, NotRefundable,
         SettleRead, SettleRefund, RefundDone, RefundFails
<1> QED
  BY <1>1
     DEF Next, Crash, PlaceLookup, BeginPaymentAttempt, CancelRead, ExpireRead,
         WebhookSuccess, WebhookFailed, RefundStart, RecoverStale, ChangeStatus,
         Refund, RescueJob, CleanJob, CustomerPays

\* The used count is the number of usages and never exceeds the coupon's limit.
THEOREM CouponCountedInvariant == Spec => []CouponCounted
<1>1. Init => CouponCounted
  BY FS_EmptySet DEF Init, CouponInit, CouponCounted
<1>2. Linked /\ CouponCounted /\ [Next]_vars => CouponCounted'
  <2> SUFFICES ASSUME Linked, CouponCounted, Next, ~UNCHANGED couponVars
               PROVE  CouponCounted'
    BY DEF vars, CouponCounted
  <2>1. IsFiniteSet(usages)
    BY FS_Subset DEF Linked
  <2>2. usedCount = Cardinality(usages) /\ usedCount \in Nat
    BY DEF CouponCounted, Linked
  <2>3. ASSUME NEW o \in Orders, ReserveCoupon(o) PROVE CouponCounted'
    <3>1. o \notin usages
      BY <2>3 DEF ReserveCoupon, CouponUsable
    <3>2. Cardinality(usages \cup {o}) = Cardinality(usages) + 1
      BY <2>1, <3>1, FS_AddElement
    <3> QED BY <2>2, <2>3, <3>2 DEF ReserveCoupon, CouponUsable, CouponCounted
  <2>4. ASSUME NEW o \in Orders, ReleaseCoupon(o) PROVE CouponCounted'
    <3>1. CASE o \in usages
      <4>1. Cardinality(usages \ {o}) = Cardinality(usages) - 1
        BY <2>1, <3>1, FS_RemoveElement
      <4>2. Cardinality(usages) # 0
        BY <2>1, <3>1, FS_EmptySet
      <4>3. usages' = usages \ {o} /\ usedCount' = usedCount - 1
        BY <2>2, <2>4, <3>1, <4>2 DEF ReleaseCoupon
      <4>4. usedCount <= MaxUses /\ MaxUses \in Nat
        BY DEF CouponCounted
      <4>5. usedCount' = Cardinality(usages')
        BY <2>2, <4>1, <4>3
      <4> QED BY <2>2, <4>3, <4>4, <4>5 DEF CouponCounted
    <3> QED BY <2>4, <3>1 DEF ReleaseCoupon, CouponCounted
  <2> QED BY <2>3, <2>4, CouponStep
<1>3. QED
  BY <1>1, <1>2, LinkedInvariant, PTL DEF Spec

\* A coupon is spent exactly by the orders that are still alive.
LEMMA CouponHeldStep ==
  Linked /\ CallsInformed /\ RecordedNotPayable /\ CouponHeldIffLive /\ [Next]_vars
    => CouponHeldIffLive'
<1> DEFINE Held_(o) ==
      /\ status[o] \in Payable \cup Fulfilled => o \in usages
      /\ status[o] \in {"none", "cancelled", "expired", "refunded"} => o \notin usages
<1> SUFFICES ASSUME Linked, CallsInformed, RecordedNotPayable, CouponHeldIffLive,
                    [Next]_vars, NEW o \in CouponOrders
             PROVE  Held_(o)'
  BY DEF CouponHeldIffLive
<1>1. o \in Orders /\ Held_(o)
  BY DEF CouponHeldIffLive
<1> USE DEF Linked, CallsLinked
<1>2. CASE UNCHANGED vars
  BY <1>1, <1>2 DEF vars
<1>3. ASSUME NEW t \in Threads, PlaceCommit(t) PROVE Held_(o)'
  BY <1>1, <1>3 DEF PlaceCommit, CreateOrder, ReserveCoupon
<1>4. ASSUME NEW t \in Threads, CancelCommit(t) PROVE Held_(o)'
  BY <1>1, <1>4 DEF CancelCommit, ToCancelled, ReleaseCoupon
<1>5. ASSUME NEW t \in Threads, ExpireCommit(t) PROVE Held_(o)'
  BY <1>1, <1>5 DEF ExpireCommit, ToExpired, ReleaseCoupon
<1>6. ASSUME NEW t \in Threads, SettleRefund(t) PROVE Held_(o)'
  <2>1. usages' = usages \ {Ord(t)}
    BY <1>6 DEF SettleRefund, ReleaseCoupon
  <2>2. CASE o # Ord(t)
    BY <1>1, <1>6, <2>1, <2>2 DEF SettleRefund
  <2>3. CASE o = Ord(t)
    <3>1. CASE CanApply(o, ToRefunded)
      BY <1>1, <1>6, <2>1, <2>3, <3>1 DEF SettleRefund, ToRefunded
    <3>2. CASE ~CanApply(o, ToRefunded)
      <4>1. Money(o)
        BY <1>6, <2>3 DEF SettleRefund, CallsInformed, Money
      <4> QED
        BY <1>1, <1>6, <2>1, <2>3, <3>2, <4>1
           DEF SettleRefund, RecordedNotPayable, ToRefunded
    <3> QED BY <3>1, <3>2
  <2> QED BY <2>2, <2>3
<1>7. ASSUME NEW x \in Orders, NEW m \in Transitions, Apply(x, m), UNCHANGED usages,
             m.to \notin {"cancelled", "expired", "refunded"}
      PROVE  Held_(o)'
  <2>1. /\ m.to # "none"
        /\ m.to \in Payable \cup Fulfilled => m.from \subseteq Payable \cup Fulfilled
    BY DEF Transitions, ToAwaitingPayment, ToPaymentAttempt, ToPaid, ToProcessing,
           ToShipped, ToDelivered, ToFulfillmentFailedAfterCharge,
           ToFulfillmentFailedCompensating, ToCancelled, ToExpired, ToRefunded
  <2> QED BY <1>1, <1>7, <2>1
<1>8. CASE UNCHANGED <<status, usages>>
  BY <1>1, <1>8
<1> USE DEF couponVars
<1>9. ASSUME NEW t \in Threads, FinalizeFreeOrder(t) \/ FinalizePaid(t) PROVE Held_(o)'
  BY <1>7, <1>9 DEF FinalizeFreeOrder, FinalizePaid, Transitions, ToPaid
<1>10. ASSUME NEW t \in Threads, ReleaseAttempt(t) PROVE Held_(o)'
  BY <1>7, <1>8, <1>10 DEF ReleaseAttempt, Transitions, ToAwaitingPayment
<1>11. ASSUME NEW t \in Threads, FinalizeLate(t) PROVE Held_(o)'
  BY <1>7, <1>8, <1>11 DEF FinalizeLate, Transitions, ToFulfillmentFailedAfterCharge
<1>12. ASSUME NEW t \in Threads, CompensateRefund(t) PROVE Held_(o)'
  BY <1>7, <1>8, <1>12 DEF CompensateRefund, Transitions, ToFulfillmentFailedCompensating
<1>13. ASSUME NEW t \in Clients, NEW x \in Orders, BeginPaymentAttempt(t, x)
       PROVE  Held_(o)'
  BY <1>7, <1>13 DEF BeginPaymentAttempt, Transitions, ToPaymentAttempt
<1>14. ASSUME NEW x \in Orders, RecoverStale(x) \/ ChangeStatus(x) PROVE Held_(o)'
  BY <1>7, <1>14
     DEF RecoverStale, ChangeStatus, AdminTransitions, Transitions, ToAwaitingPayment,
         ToProcessing, ToShipped, ToDelivered
<1> QED
  BY <1>2, <1>3, <1>4, <1>5, <1>6, <1>8, <1>9, <1>10, <1>11, <1>12, <1>13, <1>14
     DEF Next, Continue, PlaceFails, FreeFails, ChargeLookup, ChargeCreate,
         ChargeGateway, ChargeFails, FinalizeAlready, FinalizeFails, CompensateFails,
         CancelFails, DropJobs, WebhookDropJobs, WebhookCancelRead, ExpireSkips,
         RefundGateway, NotRefundable, SettleRead, RefundDone, RefundFails, Crash,
         PlaceLookup, CancelRead, ExpireRead, WebhookSuccess, WebhookFailed,
         RefundStart, Refund, RescueJob, CleanJob, CustomerPays

\* A coupon is spent exactly by the orders that are still alive.
THEOREM CouponHeldInvariant == Spec => []CouponHeldIffLive
<1>1. Init => CouponHeldIffLive
  BY DEF Init, OrderInit, CouponInit, CouponHeldIffLive
<1>2. QED
  BY <1>1, CouponHeldStep, LinkedInvariant, InformedInvariant, NotPayableInvariant,
     PTL DEF Spec

\* Count, usages and orders agree on who holds the coupon.
THEOREM CouponExactHolds == Spec => []CouponExact
  BY CouponCountedInvariant, CouponHeldInvariant, PTL DEF CouponExact
=============================================================================

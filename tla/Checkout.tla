------------------------------- MODULE Checkout ------------------------------
(****************************************************************************)
(* The order pipeline: checkout, order, payment, inventory and promotion    *)
(* working on one database, called by API requests, the payment provider's  *)
(* webhooks, River's refund worker and the sweep of stale orders.           *)
(*                                                                          *)
(* A thread is one handler or job in progress.  One action is one database  *)
(* transaction, one autocommitted statement or one call to the provider;    *)
(* what a handler read earlier and uses later is kept in its call record.   *)
(* PostgreSQL runs at READ COMMITTED: a transaction that reads a row        *)
(* without locking it and updates later is therefore two actions, the read  *)
(* and the guarded updates.                                                 *)
(****************************************************************************)
EXTENDS Stock, Coupon, RefundJob, Gateway, Functions

CONSTANTS
  Clients,     \* API requests and webhook deliveries in progress
  Workers,     \* River's payment queue
  Sweepers,    \* River's order queue
  FreeOrders,  \* the orders whose coupon covers the whole total
  MaxOverlap,  \* a bound on the threads that are busy at once
  MaxCrashes   \* a bound on the threads that die half-way

Threads == Clients \cup Workers \cup Sweepers

ASSUME ThreadsAssumption ==
  /\ Clients \cap (Workers \cup Sweepers) = {}
  /\ Workers \cap Sweepers = {}
  /\ IsFiniteSet(Threads)
  /\ FreeOrders \subseteq CouponOrders
  /\ MaxOverlap \in Nat /\ MaxCrashes \in Nat

VARIABLES
  call,    \* what each thread is doing, and what it has read
  crashes  \* how many threads died so far

vars == <<orderVars, stockVars, couponVars, paymentVars, jobVars, gateway, call, crashes>>

(****************************************************************************)
(* Calls.  `at` is the next step of the handler, `by` who runs it, `ord`    *)
(* and `pay` its arguments; ded, rev and sent are the order's               *)
(* stock_deducted, stock_reversed and Dispatched() as the handler last read *)
(* them.                                                                    *)
(****************************************************************************)
Labels == {"idle", "place", "free", "charge", "create", "gateway", "finalize",
           "compensate", "release", "cancel", "drop", "hookdrop", "hookread",
           "expire", "refund", "settle", "settling", "ack"}

Callers == {"place", "retry", "user", "hook", "job", "sweep", "none"}

Request(at, by, o, p) ==
  [at |-> at, by |-> by, ord |-> o, pay |-> p,
   ded |-> FALSE, rev |-> FALSE, sent |-> FALSE]

Idle == Request("idle", "none", NoOrder, NoPayment)

Busy == {t \in Threads : call[t] # Idle}

At(t, l) == call[t].at = l
Ord(t)   == call[t].ord
Pay(t)   == call[t].pay

Become(t, c) == call' = [call EXCEPT ![t] = c]
Goto(t, l)   == call' = [call EXCEPT ![t].at = l]
Return(t)    == Become(t, Idle)

Slot == Cardinality(Busy) < MaxOverlap

Begin(t, request) ==
  /\ call[t] = Idle
  /\ Slot
  /\ Become(t, request)

\* The same after repo.GetByID, with what the handler remembers of the row.
Snapshot(at, by, o, p) ==
  [at |-> at, by |-> by, ord |-> o, pay |-> p,
   ded |-> deducted[o], rev |-> reversed[o], sent |-> status[o] \in Dispatched]

(***************************************************************************)
(* PlaceOrder.                                                             *)
(***************************************************************************)
\* No order has this idempotency key yet; otherwise the stored order is returned.
PlaceLookup(t, o) ==
  /\ ~Placed(o)
  /\ Begin(t, Request("place", "place", o, NoPayment))
  /\ UNCHANGED <<orderVars, stockVars, couponVars, paymentVars, jobVars, gateway, crashes>>

PlaceCommit(t) ==
  LET o == Ord(t) IN
  /\ At(t, "place")
  /\ CreateOrder(o)
  /\ Reserve(o)
  /\ IF o \in CouponOrders THEN ReserveCoupon(o) ELSE UNCHANGED couponVars
  /\ Goto(t, IF o \in FreeOrders THEN "free" ELSE "charge")
  /\ UNCHANGED <<paymentVars, jobVars, gateway, crashes>>

\* The transaction rolls back: the key was taken meanwhile, stock or coupon ran
\* out, or a statement failed.
PlaceFails(t) ==
  /\ At(t, "place")
  /\ Return(t)
  /\ UNCHANGED <<orderVars, stockVars, couponVars, paymentVars, jobVars, gateway, crashes>>

FinalizeFreeOrder(t) ==
  /\ At(t, "free")
  /\ Apply(Ord(t), ToPaid)
  /\ Deduct(Ord(t))
  /\ Return(t)
  /\ UNCHANGED <<couponVars, paymentVars, jobVars, gateway, crashes>>

\* The error is logged; the order stays in awaiting_payment.
FreeFails(t) ==
  /\ At(t, "free")
  /\ Return(t)
  /\ UNCHANGED <<orderVars, stockVars, couponVars, paymentVars, jobVars, gateway, crashes>>

(****************************************************************************)
(* RetryPayment claims the order before it charges, PlaceOrder does not.    *)
(****************************************************************************)
BeginPaymentAttempt(t, o) ==
  /\ Apply(o, ToPaymentAttempt)
  /\ Begin(t, Request("charge", "retry", o, NoPayment))
  /\ UNCHANGED <<stockVars, couponVars, paymentVars, jobVars, gateway, crashes>>

(***************************************************************************)
(* Charge.                                                                 *)
(***************************************************************************)
\* GetActiveByOrderID: the order's active payment is charged again.
ChargeLookup(t) ==
  /\ At(t, "charge")
  /\ IF ActiveOf(Ord(t)) = {}
     THEN Goto(t, "create")
     ELSE \E p \in ActiveOf(Ord(t)) :
            Become(t, Request("gateway", call[t].by, Ord(t), p))
  /\ UNCHANGED <<orderVars, stockVars, couponVars, paymentVars, jobVars, gateway, crashes>>

ChargeCreate(t) ==
  /\ At(t, "create")
  /\ \E p \in Payments :
       /\ CreatePayment(p, Ord(t))
       /\ Become(t, Request("gateway", call[t].by, Ord(t), p))
  /\ UNCHANGED <<orderVars, stockVars, couponVars, jobVars, gateway, crashes>>

\* What Charge's caller does with an error: RetryPayment gives its claim back.
ChargeError(t) == IF call[t].by = "retry" THEN Goto(t, "release") ELSE Return(t)

ChargeGateway_LostIsPaid(t) ==
  /\ At(t, "gateway")
  /\ \E answer \in {"success", "pending", "failed"} :
       /\ GatewayCharge(Pay(t), answer)
       /\ \/ Goto(t, "finalize")
          \/ answer = "failed" /\ ChargeError(t)
  /\ UNCHANGED <<orderVars, stockVars, couponVars, paymentVars, jobVars, crashes>>

ChargeGateway(t) ==
  /\ At(t, "gateway")
  /\ \E answer \in {"success", "pending", "failed"} :
       /\ GatewayCharge(Pay(t), answer)
       /\ \/ answer = "success" /\ Goto(t, "finalize")
          \/ answer = "pending" /\ Return(t)
          \/ answer = "failed" /\ ChargeError(t)
          \/ ChargeError(t)  \* the answer was lost
  /\ UNCHANGED <<orderVars, stockVars, couponVars, paymentVars, jobVars, crashes>>

\* A query failed, the unique index refused a second active payment, or the
\* request never reached the provider.
ChargeFails(t) ==
  /\ call[t].at \in {"charge", "create", "gateway"}
  /\ ChargeError(t)
  /\ UNCHANGED <<orderVars, stockVars, couponVars, paymentVars, jobVars, gateway, crashes>>

ReleaseAttempt(t) ==
  /\ At(t, "release")
  /\ ApplyOrLog(Ord(t), ToAwaitingPayment)
  /\ Return(t)
  /\ UNCHANGED <<stockVars, couponVars, paymentVars, jobVars, gateway, crashes>>

(****************************************************************************)
(* FinalizeSuccess, called by Charge and by the webhook, and the            *)
(* compensation both run when it fails.                                     *)
(****************************************************************************)
\* paymentErr is tolerated as long as the order's compare-and-set succeeds.
FinalizePaid(t) ==
  LET o == Ord(t)  p == Pay(t) IN
  /\ At(t, "finalize")
  /\ IF pstatus[p] \in MarkPaidFrom THEN SetPayment(p, "success")
                                    ELSE UNCHANGED paymentVars
  /\ Apply(o, ToPaid)
  /\ Deduct(o)
  /\ Return(t)
  /\ UNCHANGED <<couponVars, jobVars, gateway, crashes>>

\* Neither row could be marked paid: both refused, or the first statement failed
\* and with it the transaction, so that the second fails as well.
FinalizeAlready(t) ==
  /\ At(t, "finalize")
  /\ Return(t)
  /\ UNCHANGED <<orderVars, stockVars, couponVars, paymentVars, jobVars, gateway, crashes>>

\* The money arrived but the order is not payable any more.
FinalizeLate_NoJob(t) ==
  LET o == Ord(t)  p == Pay(t) IN
  /\ At(t, "finalize")
  /\ pstatus[p] \in MarkPaidFrom
  /\ ~CanApply(o, ToPaid)
  /\ IndexAllows(p)
  /\ SetPayment(p, "requires_review")
  /\ ApplyOrLog(o, ToFulfillmentFailedAfterCharge)
  /\ Return(t)
  /\ UNCHANGED <<jobVars, stockVars, couponVars, gateway, crashes>>

FinalizeLate(t) ==
  LET o == Ord(t)  p == Pay(t) IN
  /\ At(t, "finalize")
  /\ pstatus[p] \in MarkPaidFrom
  /\ ~CanApply(o, ToPaid)
  /\ IndexAllows(p)
  /\ SetPayment(p, "requires_review")
  /\ ApplyOrLog(o, ToFulfillmentFailedAfterCharge)
  /\ Enqueue(p)
  /\ Return(t)
  /\ UNCHANGED <<stockVars, couponVars, gateway, crashes>>

\* Any other error rolls the transaction back: a statement failed, the
\* reservation is short, or the unique index refused requires_review.
FinalizeFails(t) ==
  /\ At(t, "finalize")
  /\ Goto(t, "compensate")
  /\ UNCHANGED <<orderVars, stockVars, couponVars, paymentVars, jobVars, gateway, crashes>>

CompensateRefund(t) ==
  LET o == Ord(t)  p == Pay(t) IN
  /\ At(t, "compensate")
  /\ IF pstatus[p] \in CompensateFrom
     THEN IndexAllows(p) /\ SetPayment(p, "requires_review")
     ELSE UNCHANGED paymentVars
  /\ ApplyOrLog(o, ToFulfillmentFailedCompensating)
  /\ Enqueue(p)
  /\ Return(t)
  /\ UNCHANGED <<stockVars, couponVars, gateway, crashes>>

CompensateFails(t) ==
  /\ At(t, "compensate")
  /\ Return(t)
  /\ UNCHANGED <<orderVars, stockVars, couponVars, paymentVars, jobVars, gateway, crashes>>

(****************************************************************************)
(* CancelOrder, and the cancellation a webhook asks for.                    *)
(****************************************************************************)
CancelRead(t, o) ==
  /\ Placed(o)
  /\ status[o] # "payment_processing"
  /\ Begin(t, Snapshot("cancel", "user", o, NoPayment))
  /\ UNCHANGED <<orderVars, stockVars, couponVars, paymentVars, jobVars, gateway, crashes>>

\* cancelWithReversal, with the flags its caller read outside the transaction.
CancelCommit(t) ==
  LET o == Ord(t) IN
  /\ At(t, "cancel")
  /\ Apply(o, ToCancelled)
  /\ IF call[t].rev THEN UNCHANGED stockVars ELSE Restore(o, call[t].ded)
  /\ ReleaseCoupon(o)
  /\ IF call[t].by = "user" THEN Goto(t, "drop") ELSE Return(t)
  /\ UNCHANGED <<paymentVars, jobVars, gateway, crashes>>

\* Not cancellable, or a statement failed; a webhook logs it.
CancelFails(t) ==
  /\ At(t, "cancel")
  /\ Return(t)
  /\ UNCHANGED <<orderVars, stockVars, couponVars, paymentVars, jobVars, gateway, crashes>>

\* CancelPendingByOrderID, best effort.
DropJobs(t) ==
  /\ At(t, "drop")
  /\ CancelJobsOf(Ord(t)) \/ UNCHANGED jobVars
  /\ Return(t)
  /\ UNCHANGED <<orderVars, stockVars, couponVars, paymentVars, gateway, crashes>>

(****************************************************************************)
(* HandleWebhook.  Every step after UpdateStatus is logged and passed over. *)
(****************************************************************************)
WebhookSuccess(t, p) ==
  /\ pstatus[p] \notin Settled \cup {"none"}
  /\ "success" \in Announced(p)
  /\ Begin(t, Request("finalize", "hook", porder[p], p))
  /\ UNCHANGED <<orderVars, stockVars, couponVars, paymentVars, jobVars, gateway, crashes>>

\* The status read and the guarded UPDATE that follows it.
WebhookFailed(t, p) ==
  /\ pstatus[p] \notin Settled \cup {"none"}
  /\ "failed" \in Announced(p)
  /\ \/ pstatus[p] \in {"pending", "processing"} /\ SetPayment(p, "cancelled")
     \/ UNCHANGED paymentVars
  /\ Begin(t, Request("hookdrop", "hook", porder[p], p))
  /\ UNCHANGED <<orderVars, stockVars, couponVars, jobVars, gateway, crashes>>

WebhookDropJobs(t) ==
  /\ At(t, "hookdrop")
  /\ CancelJobsOf(Ord(t)) \/ UNCHANGED jobVars
  /\ Goto(t, "hookread")
  /\ UNCHANGED <<orderVars, stockVars, couponVars, paymentVars, gateway, crashes>>

\* CancelUnpaid cancels whatever status the order is in, a charge included.
WebhookCancelRead(t) ==
  /\ At(t, "hookread")
  /\ Become(t, Snapshot("cancel", "hook", Ord(t), Pay(t)))
  /\ UNCHANGED <<orderVars, stockVars, couponVars, paymentVars, jobVars, gateway, crashes>>

(****************************************************************************)
(* The order.expire-stale job.  Both thresholds are times: any order may be *)
(* old enough.                                                              *)
(****************************************************************************)
RecoverStale(o) ==
  /\ Apply(o, ToAwaitingPayment)
  /\ UNCHANGED <<stockVars, couponVars, paymentVars, jobVars, gateway, call, crashes>>

ExpireRead(t, o) ==
  /\ status[o] = "awaiting_payment"
  /\ Begin(t, Snapshot("expire", "sweep", o, NoPayment))
  /\ UNCHANGED <<orderVars, stockVars, couponVars, paymentVars, jobVars, gateway, crashes>>

ExpireCommit(t) ==
  LET o == Ord(t) IN
  /\ At(t, "expire")
  /\ Apply(o, ToExpired)
  /\ IF call[t].rev THEN UNCHANGED stockVars ELSE Restore(o, call[t].ded)
  /\ ReleaseCoupon(o)
  /\ Return(t)
  /\ UNCHANGED <<paymentVars, jobVars, gateway, crashes>>

\* The order moved on, or Restore failed and the transaction rolled back.
ExpireSkips(t) ==
  /\ At(t, "expire")
  /\ \/ ~CanApply(Ord(t), ToExpired)
     \/ ~call[t].rev /\ ~CanRestore(Ord(t), call[t].ded)
  /\ Return(t)
  /\ UNCHANGED <<orderVars, stockVars, couponVars, paymentVars, jobVars, gateway, crashes>>

(****************************************************************************)
(* The administrator: ChangeStatus (shipping.Create and Deliver make the    *)
(* same moves) and payment.Refund.  Each writes once, so it needs no call   *)
(* record, but it does take a slot.                                         *)
(****************************************************************************)
ChangeStatus(o) ==
  /\ Slot
  /\ \E move \in AdminTransitions : Apply(o, move)
  /\ UNCHANGED <<stockVars, couponVars, paymentVars, jobVars, gateway, call, crashes>>

Refund(p) ==
  /\ Slot
  /\ pstatus[p] \in Refundable
  /\ Enqueue(p)
  /\ UNCHANGED <<orderVars, stockVars, couponVars, paymentVars, gateway, call, crashes>>

(***************************************************************************)
(* The refund worker: SettleRefund under River.                            *)
(***************************************************************************)
RefundStart(t, p) ==
  /\ Fetch(p)
  /\ Begin(t, Request("refund", "job", porder[p], p))
  /\ UNCHANGED <<orderVars, stockVars, couponVars, paymentVars, gateway, crashes>>

\* GetByID and the guard in front of the provider.
RefundGateway(t) ==
  LET p == Pay(t) IN
  /\ At(t, "refund")
  /\ pstatus[p] \in Refundable
  /\ GatewayRefund(p)
  /\ Goto(t, "settle")
  /\ UNCHANGED <<orderVars, stockVars, couponVars, paymentVars, jobVars, crashes>>

NotRefundable_Completes(t) ==
  /\ At(t, "refund")
  /\ pstatus[Pay(t)] \notin Refundable
  /\ EndJob(Pay(t), "completed")
  /\ Return(t)
  /\ UNCHANGED <<orderVars, stockVars, couponVars, paymentVars, gateway, crashes>>

NotRefundable(t) ==
  /\ At(t, "refund")
  /\ pstatus[Pay(t)] \notin Refundable
  /\ EndJob(Pay(t), "cancelled")
  /\ Return(t)
  /\ UNCHANGED <<orderVars, stockVars, couponVars, paymentVars, gateway, crashes>>

\* FulfilmentSnapshot, read without a lock inside the transaction.
SettleRead(t) ==
  /\ At(t, "settle")
  /\ Become(t, Snapshot("settling", "job", Ord(t), Pay(t)))
  /\ UNCHANGED <<orderVars, stockVars, couponVars, paymentVars, jobVars, gateway, crashes>>

SettleRefund_RestocksDispatched(t) ==
  LET o == Ord(t)  p == Pay(t) IN
  /\ At(t, "settling")
  /\ IF pstatus[p] \in Refundable THEN SetPayment(p, "refunded") ELSE UNCHANGED paymentVars
  /\ ApplyOrLog(o, ToRefunded)
  /\ IF call[t].rev \/ ~CanRestore(o, call[t].ded)
     THEN UNCHANGED stockVars
     ELSE Restore(o, call[t].ded)
  /\ ReleaseCoupon(o)
  /\ Goto(t, "ack")
  /\ UNCHANGED <<jobVars, gateway, crashes>>

\* Both status updates and the restore are logged when they do not apply.
SettleRefund(t) ==
  LET o == Ord(t)  p == Pay(t) IN
  /\ At(t, "settling")
  /\ IF pstatus[p] \in Refundable THEN SetPayment(p, "refunded") ELSE UNCHANGED paymentVars
  /\ ApplyOrLog(o, ToRefunded)
  /\ IF call[t].sent \/ call[t].rev \/ ~CanRestore(o, call[t].ded)
     THEN UNCHANGED stockVars
     ELSE Restore(o, call[t].ded)
  /\ ReleaseCoupon(o)
  /\ Goto(t, "ack")
  /\ UNCHANGED <<jobVars, gateway, crashes>>

RefundDone(t) ==
  /\ At(t, "ack")
  /\ EndJob(Pay(t), "completed")
  /\ Return(t)
  /\ UNCHANGED <<orderVars, stockVars, couponVars, paymentVars, gateway, crashes>>

\* A query or the provider failed, or the job's timeout cancelled it.
RefundFails(t) ==
  /\ call[t].at \in {"refund", "settle", "settling"}
  /\ RetryOrDiscard(Pay(t))
  /\ Return(t)
  /\ UNCHANGED <<orderVars, stockVars, couponVars, paymentVars, gateway, crashes>>

\* River's rescuer: a running job that no worker holds any more.
RescueJob(p) ==
  /\ job[p] = "running"
  /\ \A t \in Workers : Pay(t) # p
  /\ RetryOrDiscard(p)
  /\ UNCHANGED <<orderVars, stockVars, couponVars, paymentVars, gateway, call, crashes>>

\* River's cleaner deletes completed jobs after a day.
CleanJob(p) ==
  /\ job[p] = "completed"
  /\ EndJob(p, "none")
  /\ UNCHANGED <<orderVars, stockVars, couponVars, paymentVars, gateway, call, crashes>>

(****************************************************************************)
(* The provider on its own, and the death of a thread.                      *)
(****************************************************************************)
CustomerPays(p) ==
  /\ LateCapture(p)
  /\ UNCHANGED <<orderVars, stockVars, couponVars, paymentVars, jobVars, call, crashes>>

Crash(t) ==
  /\ call[t] # Idle
  /\ crashes < MaxCrashes
  /\ crashes' = crashes + 1
  /\ Return(t)
  /\ UNCHANGED <<orderVars, stockVars, couponVars, paymentVars, jobVars, gateway>>

(***************************************************************************)
(* The specification.                                                      *)
(***************************************************************************)
Init ==
  /\ OrderInit /\ StockInit /\ CouponInit /\ PaymentInit /\ JobInit /\ GatewayInit
  /\ call = [t \in Threads |-> Idle]
  /\ crashes = 0

\* The rest of a request, a webhook or a refund job, once it has begun.
Continue(t) ==
  \/ PlaceCommit(t) \/ PlaceFails(t) \/ FinalizeFreeOrder(t) \/ FreeFails(t)
  \/ ChargeLookup(t) \/ ChargeCreate(t) \/ ChargeGateway(t) \/ ChargeFails(t)
  \/ ReleaseAttempt(t)
  \/ FinalizePaid(t) \/ FinalizeAlready(t) \/ FinalizeLate(t) \/ FinalizeFails(t)
  \/ CompensateRefund(t) \/ CompensateFails(t)
  \/ CancelCommit(t) \/ CancelFails(t) \/ DropJobs(t)
  \/ WebhookDropJobs(t) \/ WebhookCancelRead(t)
  \/ ExpireCommit(t) \/ ExpireSkips(t)
  \/ RefundGateway(t) \/ NotRefundable(t) \/ SettleRead(t) \/ SettleRefund(t)
  \/ RefundDone(t) \/ RefundFails(t)

Next ==
  \/ \E t \in Clients, o \in Orders :
       PlaceLookup(t, o) \/ BeginPaymentAttempt(t, o) \/ CancelRead(t, o)
  \/ \E t \in Clients, p \in Payments : WebhookSuccess(t, p) \/ WebhookFailed(t, p)
  \/ \E t \in Workers, p \in Payments : RefundStart(t, p)
  \/ \E t \in Sweepers, o \in Orders : ExpireRead(t, o)
  \/ \E t \in Threads : Continue(t) \/ Crash(t)
  \/ \E o \in Orders : RecoverStale(o) \/ ChangeStatus(o)
  \/ \E p \in Payments : Refund(p) \/ RescueJob(p) \/ CleanJob(p) \/ CustomerPays(p)

Spec == Init /\ [][Next]_vars

\* Handlers and jobs run on; River fetches waiting jobs in order of age, and
\* its rescuer and the periodic sweep run for ever.
Fairness ==
  /\ \A t \in Threads : WF_vars(Continue(t))
  /\ \A p \in Payments : /\ SF_vars(\E t \in Workers : RefundStart(t, p))
                         /\ WF_vars(RescueJob(p))
  /\ \A o \in Orders : /\ WF_vars(RecoverStale(o))
                       /\ WF_vars(\E t \in Sweepers : ExpireRead(t, o))

FairSpec == Spec /\ Fairness

(***************************************************************************)
(* What the pipeline promises.                                             *)
(***************************************************************************)
Calls == [at : Labels, by : Callers,
          ord : Orders \cup {NoOrder}, pay : Payments \cup {NoPayment},
          ded : BOOLEAN, rev : BOOLEAN, sent : BOOLEAN]

CallTypeOK == call \in [Threads -> Calls] /\ crashes \in Nat

\* Every variable has its type: rows, jobs and call records hold values the
\* code can write.
TypeOK ==
  /\ OrderTypeOK /\ StockTypeOK /\ CouponTypeOK
  /\ PaymentTypeOK /\ JobTypeOK /\ GatewayTypeOK
  /\ CallTypeOK

\* Rows and calls refer to what exists: a payment to an order that was placed, a
\* job to a payment, a handler to the order and the payment it was called for.
RowsLinked ==
  \A p \in Payments :
    /\ pstatus[p] # "none" => porder[p] \in Orders /\ Placed(porder[p])
    /\ job[p] # "none" => pstatus[p] # "none"

HasPayment == {"gateway", "finalize", "compensate", "hookdrop", "hookread",
               "refund", "settle", "settling", "ack"}

CallsLinked ==
  \A t \in Threads :
    /\ call[t].at # "idle" => Ord(t) \in Orders
    /\ call[t].at \notin {"idle", "place"} => Placed(Ord(t))
    /\ call[t].at = "free" => Ord(t) \in FreeOrders
    /\ call[t].at \in HasPayment =>
         Pay(t) \in Payments /\ pstatus[Pay(t)] # "none" /\ porder[Pay(t)] = Ord(t)

\* What a handler may rely on when it reaches a step: the provider captured what
\* is being finalized, and it returned a recorded payment that is being settled.
CallsInformed ==
  \A t \in Threads :
    /\ call[t].at \in {"finalize", "compensate"} => Captured(Pay(t))
    /\ call[t].at \in {"settle", "settling"} =>
         pstatus[Pay(t)] \in Recorded /\ gateway[Pay(t)] = "refunded"
    /\ call[t].at = "ack" => pstatus[Pay(t)] = "refunded"

\* Only the refund of a payment completes its job.
CompletedIsRefunded ==
  \A p \in Payments : job[p] = "completed" => pstatus[p] = "refunded"

Money(o) == \E p \in Payments : porder[p] = o /\ pstatus[p] \in Recorded

\* Once a payment is recorded as collected its order can never be paid, swept
\* or charged again: FinalizeSuccess and CompensateRefund move both rows or
\* neither, although every failure of their second update is only logged.
RecordedNotPayable ==
  \A o \in Orders : Money(o) => status[o] \notin Payable \cup {"none"}

\* Units are given back only for an order that is marked as reversed.
\* SettleRefund restores even when MarkRefunded did not apply and was logged.
RestoredImpliesReversed ==
  \A o \in Orders : restores[o] > 0 => reversed[o]

\* The payments table never claims more than the provider did: a collected
\* payment was captured, a refunded one was returned, under lost answers,
\* replayed charges and webhooks in any order.
BooksMatchProvider ==
  \A p \in Payments :
    /\ pstatus[p] \in Recorded => Captured(p)
    /\ pstatus[p] = "refunded" => gateway[p] = "refunded"

\* A payment under review has a refund job, or one that was cancelled or
\* discarded: it is never left without one, nor with one that succeeded.
ReviewHasRefundJob ==
  \A p \in Payments :
    pstatus[p] = "requires_review" => job[p] \notin {"none", "completed"}

\* used_count is the number of coupon_usages rows and within max_uses, although
\* every release is best effort and may run more than once.
CouponCounted == usedCount = Cardinality(usages) /\ usedCount <= MaxUses

\* A coupon is spent exactly by the orders that are still alive; the two
\* statuses an order leaves it in either way are none and fulfillment_failed.
CouponHeldIffLive ==
  \A o \in CouponOrders :
    /\ status[o] \in Payable \cup Fulfilled => o \in usages
    /\ status[o] \in {"none", "cancelled", "expired", "refunded"} => o \notin usages

\* The coupon's count, its usages and the orders that hold it agree.
CouponExact == CouponCounted /\ CouponHeldIffLive

\* The units that a set of orders takes.
Units(S) == SumFunctionOnSet(Qty, S)

\* The orders whose units are set aside, have left the stock for good, or went
\* out before their refund and do not come back.
Reserving == {o \in Orders : Placed(o) /\ ~deducted[o] /\ ~reversed[o]}
Sold      == {o \in Orders : deducted[o] /\ ~reversed[o]}
Gone      == {o \in Orders : deducted[o] /\ reversed[o] /\ restores[o] = 0}

\* While handlers do not overlap, and whichever of them dies, no unit is lost or
\* invented: reserved_stock is what the open orders hold (and
\* those that failed before they were deducted), and every other unit missing
\* from available_stock was sold or sent.
StockConserved ==
  /\ reserved = Units(Reserving)
  /\ available + Units(Reserving \cup Sold \cup Gone) = StockOnHand

\* While handlers do not overlap, the step that marks an order as reversed gives
\* its units back exactly once, unless they were dispatched.
ReversalRestoresOnce ==
  [][\A o \in Orders : ~reversed[o] /\ reversed'[o] =>
       restores'[o] = restores[o] + (IF status[o] \in Dispatched THEN 0 ELSE 1)]_vars

\* Money that was returned stays returned and collected money stays collected:
\* a late or repeated webhook, charge or job never reopens a payment, and a
\* refunded order keeps that status.
SettledForever ==
  [][/\ \A p \in Payments :
          /\ pstatus[p] = "refunded" => pstatus'[p] = "refunded"
          /\ pstatus[p] \in Recorded => pstatus'[p] \in Recorded
     /\ \A o \in Orders : status[o] = "refunded" => status'[o] = "refunded"]_vars

\* A refund job that waits is worked on until it is completed, cancelled or
\* discarded, whatever the worker does.
RefundJobsEnd ==
  \A p \in Payments :
    job[p] = "available" ~> job[p] \in {"completed", "cancelled", "discarded"}

\* When customers stop retrying, no order keeps its reservation for ever: the
\* sweep takes back abandoned attempts and expires what nobody paid.
PayableEnds ==
  (<>[][\A o \in Orders : status[o] = "awaiting_payment" =>
                            status'[o] # "payment_processing"]_vars)
  => \A o \in Orders : status[o] \in Payable ~> status[o] \notin Payable

(***************************************************************************)
(* The abstract sale this pipeline implements.                             *)
(***************************************************************************)
PhaseOf ==
  [none |-> "absent", awaiting_payment |-> "open", payment_processing |-> "open",
   paid |-> "sold", processing |-> "sold", shipped |-> "sent", delivered |-> "sent",
   fulfillment_failed |-> "failed", cancelled |-> "void", expired |-> "void",
   refunded |-> "refunded"]

Abstract == INSTANCE Sale WITH
  Free      <- FreeOrders,
  phase     <- [o \in Orders |-> PhaseOf[status[o]]],
  collected <- [o \in Orders |-> Money(o)],
  returned  <- reversed

\* Every transaction of every handler is one step of the sale or none: nothing
\* is sold unpaid, given up while its money is booked, or refunded unpaid.
ImplementsSale == Abstract!Spec
==============================================================================

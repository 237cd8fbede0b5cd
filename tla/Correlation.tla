------------------------------ MODULE Correlation -----------------------------
(****************************************************************************)
(* How a payment, the provider's charge, its webhooks and the refund find   *)
(* each other: by the payment id, which is the idempotency key and travels  *)
(* in the metadata, and by the transaction id the provider hands out, which *)
(* Charge writes to the row in a statement of its own, whose failure is     *)
(* only logged. What the order decides (whether a captured payment still    *)
(* has an order to pay for) is left open here; Checkout has it.  Nothing is *)
(* taken for granted of a provider's refunds: it may look at the id that it *)
(* is sent or, as the mock does, not.                                       *)
(****************************************************************************)
EXTENDS Naturals, FiniteSets

CONSTANTS
  Attempts,  \* payments of one order: the unique index lets one be active
  TxnIds,    \* transaction ids of the provider
  IdOf,      \* the one each charge is given, unless it is given none
  Blank,     \* an answer, or an event, without a transaction id
  Hooks      \* webhook deliveries under way at once

ASSUME CorrelationAssumption ==
  /\ Blank \notin TxnIds
  /\ IdOf \in [Attempts -> TxnIds]
  /\ \A a, b \in Attempts : IdOf[a] = IdOf[b] => a = b

VARIABLES
  payRow,      \* status and gateway_txn_id, none or one
  provider,    \* what the provider has for each idempotency key: a charge and a refund
  chargeCall,  \* the next step of each Charge
  hookCall,    \* what each delivery has resolved
  refundCall   \* each payment's refund job, and the id it has read

correlationVars == <<payRow, provider, chargeCall, hookCall, refundCall>>

NoRow == [status |-> "none", txn |-> {}]
NoCharge == [answer |-> "none", txn |-> Blank, captured |-> FALSE, refundKey |-> FALSE]
NoHook == [found |-> {}, event |-> "none"]
NoRefund == [step |-> "none", txn |-> {}]

StatusOf(a) == payRow[a].status
IsActive(a) == StatusOf(a) \in {"pending", "requires_review"}
SetStatus(a, s) == payRow' = [payRow EXCEPT ![a].status = s]

Queue(a) == refundCall' = [refundCall EXCEPT ![a].step = IF @ = "none" THEN "queued" ELSE @]

(****************************************************************************)
(* Charge.                                                                  *)
(****************************************************************************)
CreateRow(a) ==
  /\ StatusOf(a) = "none" /\ \A b \in Attempts : ~IsActive(b)
  /\ SetStatus(a, "pending")
  /\ UNCHANGED <<provider, chargeCall, hookCall, refundCall>>

\* The provider repeats its answer to a key it has seen; the answer may be lost.  An
\* open charge is pending or declined.
SendCharge(a) ==
  /\ IsActive(a) /\ chargeCall[a] = "none"
  /\ \/ provider[a].answer # "none" /\ UNCHANGED provider
     \/ /\ provider[a].answer = "none"
        /\ \E t \in {IdOf[a], Blank}, s \in {"success", "open"} :
             provider' = [provider EXCEPT ![a].answer = s, ![a].txn = t, ![a].captured = (s = "success")]
  /\ chargeCall' \in {chargeCall, [chargeCall EXCEPT ![a] = "record"]}
  /\ UNCHANGED <<payRow, hookCall, refundCall>>

NextStep(a) == IF provider[a].answer = "success" THEN "finalize" ELSE "none"

UpdateGateway_ByOrder(a) ==
  /\ chargeCall[a] = "record"
  /\ payRow' = [b \in Attempts |-> IF payRow[b] = NoRow THEN NoRow ELSE [payRow[b] EXCEPT !.txn = {provider[a].txn}]]
  /\ chargeCall' = [chargeCall EXCEPT ![a] = NextStep(a)]
  /\ UNCHANGED <<provider, hookCall, refundCall>>

UpdateGateway(a) ==
  /\ chargeCall[a] = "record"
  /\ payRow' = [payRow EXCEPT ![a].txn = {provider[a].txn}]
  /\ chargeCall' = [chargeCall EXCEPT ![a] = NextStep(a)]
  /\ UNCHANGED <<provider, hookCall, refundCall>>

\* Logged, and the charge goes on.
UpdateGatewayFails(a) ==
  /\ chargeCall[a] = "record"
  /\ chargeCall' = [chargeCall EXCEPT ![a] = NextStep(a)]
  /\ UNCHANGED <<payRow, provider, hookCall, refundCall>>

ChargeStops(a) ==
  /\ chargeCall[a] # "none"
  /\ chargeCall' = [chargeCall EXCEPT ![a] = "none"]
  /\ UNCHANGED <<payRow, provider, hookCall, refundCall>>

\* FinalizeSuccess and CompensateRefund: paid; or captured for an order that cannot
\* be paid any more, and to be returned; or finalized before.
Finalize(a) ==
  \/ StatusOf(a) \in {"pending", "requires_review", "cancelled"} /\ SetStatus(a, "success") /\ UNCHANGED refundCall
  \/ StatusOf(a) \in {"pending", "requires_review", "cancelled", "success"} /\ SetStatus(a, "requires_review") /\ Queue(a)
  \/ UNCHANGED <<payRow, refundCall>>

ChargeFinalize(a) ==
  /\ chargeCall[a] = "finalize"
  /\ Finalize(a)
  /\ chargeCall' = [chargeCall EXCEPT ![a] = "none"]
  /\ UNCHANGED <<provider, hookCall>>

\* The customer finishes a payment that was left pending, or had been declined.
Capture(a) ==
  /\ provider[a].answer = "open"
  /\ provider' = [provider EXCEPT ![a].captured = TRUE]
  /\ UNCHANGED <<payRow, chargeCall, hookCall, refundCall>>

(****************************************************************************)
(* Webhooks about the charge of a, with the metadata or without it.         *)
(****************************************************************************)
Events(a) == {e \in {"success", "failed"} : e = "success" => provider[a].captured}

ByGatewayTxnID(t) == {b \in Attempts : payRow[b].txn = {t}}

\* resolveWebhookPayment
Resolved(a, named) ==
  IF named THEN {a}
  ELSE IF provider[a].txn = Blank THEN {} ELSE ByGatewayTxnID(provider[a].txn)

\* A payment that is settled, and a delivery that names none, are answered and
\* forgotten.
ReceiveHook(h, a) ==
  /\ hookCall[h] = NoHook /\ provider[a].answer # "none"
  /\ \E named \in BOOLEAN, event \in Events(a) : \E b \in Resolved(a, named) :
       /\ StatusOf(b) \notin {"success", "refunded", "requires_review"}
       /\ hookCall' = [hookCall EXCEPT ![h] = [found |-> {b}, event |-> event]]
  /\ UNCHANGED <<payRow, provider, chargeCall, refundCall>>

EndHook(h) == hookCall' = [hookCall EXCEPT ![h] = NoHook]

HookSucceeded(h) ==
  /\ hookCall[h].event = "success" /\ \E a \in hookCall[h].found : Finalize(a)
  /\ EndHook(h)
  /\ UNCHANGED <<provider, chargeCall>>

\* UpdateStatus is a compare-and-set whose refusal is logged.
HookFailed(h) ==
  /\ hookCall[h].event = "failed"
  /\ \E a \in hookCall[h].found :
       IF StatusOf(a) = "pending" THEN SetStatus(a, "cancelled") ELSE UNCHANGED payRow
  /\ EndHook(h)
  /\ UNCHANGED <<provider, chargeCall, refundCall>>

HookStops(h) ==
  /\ hookCall[h] # NoHook
  /\ EndHook(h)
  /\ UNCHANGED <<payRow, provider, chargeCall, refundCall>>

(****************************************************************************)
(* The refund, asked for by an administrator or by Finalize.                *)
(****************************************************************************)
MayRefund(a) == StatusOf(a) \in {"success", "requires_review"}

RequestRefund(a) ==
  /\ MayRefund(a)
  /\ refundCall[a].step = "none" /\ Queue(a)
  /\ UNCHANGED <<payRow, provider, chargeCall, hookCall>>

\* The job reads the row; a payment that is not refundable any more ends it.
LoadRefund(a) ==
  /\ refundCall[a].step = "queued"
  /\ refundCall' = [refundCall EXCEPT ![a] = IF MayRefund(a) THEN [step |-> "loaded", txn |-> payRow[a].txn] ELSE NoRefund]
  /\ UNCHANGED <<payRow, provider, chargeCall, hookCall>>

Retry(a) == refundCall' = [refundCall EXCEPT ![a] = [step |-> "queued", txn |-> {}]]

\* The provider takes a refund for done, whatever id it is sent, one that is empty too,
\* and repeats its answer to a key it has seen; the answer may be lost.
Return(a) ==
  /\ refundCall[a].step = "loaded"
  /\ provider' = [provider EXCEPT ![a].refundKey = TRUE]
  /\ \/ refundCall' = [refundCall EXCEPT ![a] = [step |-> "returned", txn |-> {}]]
     \/ Retry(a)
  /\ UNCHANGED <<payRow, chargeCall, hookCall>>

\* The provider refuses, or a call fails: the job is tried again, or given up.
RefundStops(a) ==
  /\ refundCall[a].step \in {"loaded", "returned"}
  /\ \/ Retry(a)
     \/ refundCall' = [refundCall EXCEPT ![a] = NoRefund]
  /\ UNCHANGED <<payRow, provider, chargeCall, hookCall>>

SettleRefund(a) ==
  /\ refundCall[a].step = "returned"
  /\ IF MayRefund(a) THEN SetStatus(a, "refunded") ELSE UNCHANGED payRow
  /\ refundCall' = [refundCall EXCEPT ![a] = NoRefund]
  /\ UNCHANGED <<provider, chargeCall, hookCall>>

CorrelationInit ==
  /\ payRow = [a \in Attempts |-> NoRow]
  /\ provider = [a \in Attempts |-> NoCharge]
  /\ chargeCall = [a \in Attempts |-> "none"]
  /\ hookCall = [h \in Hooks |-> NoHook]
  /\ refundCall = [a \in Attempts |-> NoRefund]

CorrelationNext ==
  \/ \E a \in Attempts :
       \/ CreateRow(a) \/ SendCharge(a) \/ UpdateGateway(a) \/ UpdateGatewayFails(a)
       \/ ChargeStops(a) \/ ChargeFinalize(a) \/ Capture(a)
       \/ RequestRefund(a) \/ LoadRefund(a) \/ Return(a) \/ RefundStops(a) \/ SettleRefund(a)
       \/ \E h \in Hooks : ReceiveHook(h, a)
  \/ \E h \in Hooks : HookSucceeded(h) \/ HookFailed(h) \/ HookStops(h)

CorrelationSpec == CorrelationInit /\ [][CorrelationNext]_correlationVars

-----------------------------------------------------------------------------
\* None, or one.
MaybeTxn == {{}} \cup {{t} : t \in TxnIds \cup {Blank}}
MaybePayment == {{}} \cup {{a} : a \in Attempts}

PaymentRows == [status : {"none", "pending", "success", "cancelled", "requires_review", "refunded"}, txn : MaybeTxn]
ProviderCharges == [answer : {"none", "success", "open"}, txn : TxnIds \cup {Blank},
            captured : BOOLEAN, refundKey : BOOLEAN]
RefundJobs == [step : {"none", "queued", "loaded", "returned"}, txn : MaybeTxn]

CorrelationTypeOK ==
  /\ payRow \in [Attempts -> PaymentRows]
  /\ provider \in [Attempts -> ProviderCharges]
  /\ chargeCall \in [Attempts -> {"none", "record", "finalize"}]
  /\ hookCall \in [Hooks -> [found : MaybePayment, event : {"none", "success", "failed"}]]
  /\ refundCall \in [Attempts -> RefundJobs]

\* No webhook, named or not, marks a payment paid whose own charge was not captured,
\* whatever rows of other charges say, blank ids included (resolveWebhookPayment).
HookFindsItsPayment ==
  \A a \in Attempts : StatusOf(a) \in {"success", "requires_review", "refunded"} => provider[a].captured

\* A payment is refunded only after the provider took a refund under its key, no refund
\* is asked for under the key of a charge that was not captured, and the id sent with it
\* is that of the payment's own charge, though the id is written late, or not at all: it
\* may be empty then, and the provider's word is taken for it, but it never names another
\* charge (Charge, LoadRefund, SettleRefund).
RefundNamesOwnCharge ==
  \A a \in Attempts :
    /\ StatusOf(a) = "refunded" => provider[a].refundKey
    /\ provider[a].refundKey => provider[a].captured
    /\ refundCall[a].step = "loaded" => refundCall[a].txn \subseteq {provider[a].txn}

\* Money is booked on the payment it was captured for, and asked back in its name.
MoneyFindsItsPayment == HookFindsItsPayment /\ RefundNamesOwnCharge
===============================================================================

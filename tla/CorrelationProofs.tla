--------------------------- MODULE CorrelationProofs --------------------------
(****************************************************************************)
(* Theorems about Correlation, for any number of payments and deliveries.   *)
(* Everything that names a charge by its transaction id, a row or a job     *)
(* that read it, names its own charge or none (OwnIds); the provider hands  *)
(* out no id twice, so whatever is found by an id is the payment itself.    *)
(* The provider of the development environment keeps what that relies on    *)
(* (MockGateway).                                                           *)
(****************************************************************************)
EXTENDS Correlation, MockGateway, TLAPS

\* The ids that may stand for the charge of a: none, and the provider's for it, which
\* may be blank.
OwnId(a, txn) == txn # {} => provider[a].answer # "none" /\ txn = {provider[a].txn}

\* The ids that the provider, a row and a refund hold of an attempt are its own, or blank.
OwnIds ==
  \A a \in Attempts :
    /\ provider[a].txn \in {IdOf[a], Blank}
    /\ OwnId(a, payRow[a].txn) /\ OwnId(a, refundCall[a].txn)

\* Whoever is about to finalize knows of a capture.
CapturesKnown ==
  /\ \A a \in Attempts :
       /\ provider[a].answer = "success" => provider[a].captured
       /\ provider[a].captured => provider[a].answer # "none"
       /\ chargeCall[a] = "record" => provider[a].answer # "none"
       /\ chargeCall[a] = "finalize" => provider[a].captured
  /\ \A h \in Hooks : hookCall[h].event = "success" => \A a \in hookCall[h].found : provider[a].captured

\* A refund is asked for only of a charge that was captured.
RefundsKnown ==
  \A a \in Attempts :
    /\ refundCall[a].step # "none" \/ provider[a].refundKey => provider[a].captured
    /\ refundCall[a].step = "returned" => provider[a].refundKey

CorrelationInv ==
  CorrelationTypeOK /\ OwnIds /\ CapturesKnown /\ RefundsKnown /\ MoneyFindsItsPayment

\* What one may hold.
LEMMA MaybeFacts ==
  /\ {} \in MaybeTxn /\ \A t \in TxnIds \cup {Blank} : {t} \in MaybeTxn
  /\ {} \in MaybePayment /\ \A a \in Attempts : {a} \in MaybePayment
  /\ \A m \in MaybePayment : m \subseteq Attempts
BY DEF MaybeTxn, MaybePayment

\* Nothing has happened yet.
LEMMA CorrelationInitInv == CorrelationInit => CorrelationInv
<1> SUFFICES ASSUME CorrelationInit PROVE CorrelationInv
  OBVIOUS
<1> USE DEF CorrelationInit, NoRow, NoCharge, NoHook, NoRefund
<1>1. CorrelationTypeOK
  BY MaybeFacts DEF CorrelationTypeOK, PaymentRows, ProviderCharges, RefundJobs
<1>2. OwnIds /\ CapturesKnown /\ RefundsKnown
  BY DEF OwnIds, OwnId, CapturesKnown, RefundsKnown
<1>3. MoneyFindsItsPayment
  BY DEF MoneyFindsItsPayment, HookFindsItsPayment, RefundNamesOwnCharge, StatusOf
<1>. QED  BY <1>1, <1>2, <1>3 DEF CorrelationInv

\* What is found by the id of a's charge is a itself, also by a delivery that carries
\* no metadata, and never by a blank id.
LEMMA FoundByIdIsItself ==
  ASSUME CorrelationInv, NEW a \in Attempts, NEW named \in BOOLEAN, NEW b \in Resolved(a, named)
  PROVE  b = a
<1>1. CASE named
  BY <1>1 DEF Resolved
<1>2. CASE ~named
  <2>1. provider[a].txn # Blank /\ b \in Attempts /\ payRow[b].txn = {provider[a].txn}
    BY <1>2 DEF Resolved, ByGatewayTxnID
  <2>2. provider[a].txn = IdOf[a] /\ provider[b].txn = provider[a].txn /\ provider[b].txn \in {IdOf[b], Blank}
    BY <2>1 DEF CorrelationInv, OwnIds, OwnId
  <2>. QED  BY <2>1, <2>2, CorrelationAssumption
<1>. QED  BY <1>1, <1>2

\* What the statements write keeps its type.
LEMMA RowTypes ==
  ASSUME payRow \in [Attempts -> PaymentRows], NEW a \in Attempts
  PROVE  /\ \A s \in {"pending", "success", "cancelled", "requires_review", "refunded"} :
              SetStatus(a, s) => payRow' \in [Attempts -> PaymentRows]
         /\ \A m \in MaybeTxn : [payRow EXCEPT ![a].txn = m] \in [Attempts -> PaymentRows]
<1>1. payRow[a] \in PaymentRows
  OBVIOUS
<1>2. \A s \in {"pending", "success", "cancelled", "requires_review", "refunded"} : [payRow[a] EXCEPT !.status = s] \in PaymentRows
  BY <1>1 DEF PaymentRows
<1>3. \A m \in MaybeTxn : [payRow[a] EXCEPT !.txn = m] \in PaymentRows
  BY <1>1 DEF PaymentRows
<1>. QED  BY <1>2, <1>3 DEF SetStatus

\* What a step makes of a refund job is one.
LEMMA RefundTypes ==
  ASSUME refundCall \in [Attempts -> RefundJobs], NEW a \in Attempts
  PROVE  /\ Queue(a) => refundCall' \in [Attempts -> RefundJobs]
         /\ Retry(a) => refundCall' \in [Attempts -> RefundJobs]
         /\ [refundCall EXCEPT ![a] = [step |-> "returned", txn |-> {}]] \in [Attempts -> RefundJobs]
         /\ [refundCall EXCEPT ![a] = NoRefund] \in [Attempts -> RefundJobs]
<1>1. refundCall[a] \in RefundJobs
  OBVIOUS
<1>2. [refundCall[a] EXCEPT !.step = IF @ = "none" THEN "queued" ELSE @] \in RefundJobs
  BY <1>1 DEF RefundJobs
<1>3. NoRefund \in RefundJobs /\ \A step \in {"queued", "returned"} : [step |-> step, txn |-> {}] \in RefundJobs
  BY MaybeFacts DEF RefundJobs, NoRefund
<1>. QED  BY <1>2, <1>3 DEF Queue, Retry

\* Finalize leaves rows and jobs well typed.
LEMMA FinalizeTypes ==
  ASSUME payRow \in [Attempts -> PaymentRows], refundCall \in [Attempts -> RefundJobs], NEW a \in Attempts, Finalize(a)
  PROVE  payRow' \in [Attempts -> PaymentRows] /\ refundCall' \in [Attempts -> RefundJobs]
BY RowTypes, RefundTypes DEF Finalize

\* The charges keep their type.
LEMMA ChargeTypes ==
  ASSUME provider \in [Attempts -> ProviderCharges], [CorrelationNext]_correlationVars
  PROVE  provider' \in [Attempts -> ProviderCharges]
<1>1. ASSUME NEW a \in Attempts, NEW t \in {IdOf[a], Blank}, NEW s \in {"success", "open"},
             provider' = [provider EXCEPT ![a].answer = s, ![a].txn = t, ![a].captured = (s = "success")]
      PROVE  provider' \in [Attempts -> ProviderCharges]
  <2>1. provider[a] \in ProviderCharges /\ t \in TxnIds \cup {Blank}
    BY CorrelationAssumption
  <2>2. [provider[a] EXCEPT !.answer = s, !.txn = t, !.captured = (s = "success")] \in ProviderCharges
    BY <2>1 DEF ProviderCharges
  <2>3. provider' = [provider EXCEPT ![a] = [provider[a] EXCEPT !.answer = s, !.txn = t, !.captured = (s = "success")]]
    BY <1>1
  <2>. QED  BY <2>2, <2>3
<1>2. ASSUME NEW a \in Attempts, SendCharge(a) PROVE provider' \in [Attempts -> ProviderCharges]
  BY <1>1, <1>2 DEF SendCharge
<1>3. ASSUME NEW a \in Attempts, Capture(a) PROVE provider' \in [Attempts -> ProviderCharges]
  BY <1>3 DEF Capture, ProviderCharges
<1>4. ASSUME NEW a \in Attempts, Return(a) PROVE provider' \in [Attempts -> ProviderCharges]
  BY <1>4 DEF Return, ProviderCharges
<1>5. ASSUME UNCHANGED provider PROVE provider' \in [Attempts -> ProviderCharges]
  BY <1>5
<1>. QED  BY <1>2, <1>3, <1>4, <1>5
          DEF CorrelationNext, correlationVars, CreateRow, UpdateGateway, UpdateGatewayFails, ChargeStops,
              ChargeFinalize, ReceiveHook, HookSucceeded, HookFailed, HookStops, RequestRefund, LoadRefund,
              RefundStops, SettleRefund

\* What a delivery has resolved is a payment.
LEMMA ResolvedTypes ==
  ASSUME CorrelationTypeOK, NEW a \in Attempts, NEW h \in Hooks, ReceiveHook(h, a)
  PROVE  hookCall' \in [Hooks -> [found : MaybePayment, event : {"none", "success", "failed"}]]
<1>1. PICK named \in BOOLEAN, event \in {"success", "failed"} : \E b \in Resolved(a, named) :
        hookCall' = [hookCall EXCEPT ![h] = [found |-> {b}, event |-> event]]
  BY DEF ReceiveHook, Events
<1>2. Resolved(a, named) \subseteq Attempts
  BY DEF Resolved, ByGatewayTxnID
<1>3. PICK b \in Attempts : hookCall' = [hookCall EXCEPT ![h] = [found |-> {b}, event |-> event]]
  BY <1>1, <1>2
<1>. QED  BY <1>3, MaybeFacts DEF CorrelationTypeOK

\* Types, action by action.
LEMMA CorrelationStepType ==
  ASSUME CorrelationTypeOK, [CorrelationNext]_correlationVars
  PROVE  CorrelationTypeOK'
<1>1. provider' \in [Attempts -> ProviderCharges]
  BY ChargeTypes DEF CorrelationTypeOK
<1> USE <1>1, RowTypes, RefundTypes, FinalizeTypes DEF CorrelationTypeOK
<1>2. ASSUME NEW a \in Attempts, CreateRow(a) PROVE CorrelationTypeOK'
  BY <1>2 DEF CreateRow
<1>3. ASSUME NEW a \in Attempts, SendCharge(a) PROVE CorrelationTypeOK'
  BY <1>3 DEF SendCharge
<1>4. ASSUME NEW a \in Attempts, UpdateGateway(a) PROVE CorrelationTypeOK'
  <2>1. {provider[a].txn} \in MaybeTxn
    BY MaybeFacts DEF ProviderCharges
  <2>. QED  BY <1>4, <2>1 DEF UpdateGateway, NextStep
<1>5. ASSUME NEW a \in Attempts, UpdateGatewayFails(a) \/ ChargeStops(a) PROVE CorrelationTypeOK'
  BY <1>5 DEF UpdateGatewayFails, ChargeStops, NextStep
<1>6. ASSUME NEW a \in Attempts, ChargeFinalize(a) PROVE CorrelationTypeOK'
  BY <1>6 DEF ChargeFinalize
<1>7. ASSUME NEW a \in Attempts, Capture(a) PROVE CorrelationTypeOK'
  BY <1>7 DEF Capture
<1>8. ASSUME NEW a \in Attempts, NEW h \in Hooks, ReceiveHook(h, a) PROVE CorrelationTypeOK'
  <2>1. hookCall' \in [Hooks -> [found : MaybePayment, event : {"none", "success", "failed"}]]
    BY <1>8, ResolvedTypes
  <2>. QED  BY <1>8, <2>1 DEF ReceiveHook
<1>9. ASSUME NEW h \in Hooks, EndHook(h)
      PROVE  hookCall' \in [Hooks -> [found : MaybePayment, event : {"none", "success", "failed"}]]
  BY <1>9, MaybeFacts DEF EndHook, NoHook
<1>10. ASSUME NEW h \in Hooks PROVE hookCall[h].found \subseteq Attempts
  BY MaybeFacts
<1>11. ASSUME NEW h \in Hooks, HookSucceeded(h) PROVE CorrelationTypeOK'
  <2>1. PICK a \in Attempts : Finalize(a)
    BY <1>10, <1>11 DEF HookSucceeded
  <2>. QED  BY <1>9, <1>11, <2>1 DEF HookSucceeded
<1>12. ASSUME NEW h \in Hooks, HookFailed(h) PROVE CorrelationTypeOK'
  <2>1. PICK a \in Attempts : SetStatus(a, "cancelled") \/ UNCHANGED payRow
    BY <1>10, <1>12 DEF HookFailed
  <2>. QED  BY <1>9, <1>12, <2>1 DEF HookFailed
<1>13. ASSUME NEW h \in Hooks, HookStops(h) PROVE CorrelationTypeOK'
  BY <1>9, <1>13 DEF HookStops
<1>14. ASSUME NEW a \in Attempts, RequestRefund(a) PROVE CorrelationTypeOK'
  BY <1>14 DEF RequestRefund
<1>15. ASSUME NEW a \in Attempts, LoadRefund(a) PROVE CorrelationTypeOK'
  <2>1. [step |-> "loaded", txn |-> payRow[a].txn] \in RefundJobs /\ NoRefund \in RefundJobs
    BY MaybeFacts DEF RefundJobs, PaymentRows, NoRefund
  <2>. QED  BY <1>15, <2>1 DEF LoadRefund
<1>16. ASSUME NEW a \in Attempts, Return(a) PROVE CorrelationTypeOK'
  <2>1. /\ refundCall' = [refundCall EXCEPT ![a] = [step |-> "returned", txn |-> {}]] \/ Retry(a)
        /\ UNCHANGED <<payRow, chargeCall, hookCall>>
    BY <1>16 DEF Return
  <2>. QED  BY <2>1
<1>17. ASSUME NEW a \in Attempts, RefundStops(a) PROVE CorrelationTypeOK'
  BY <1>17 DEF RefundStops
<1>18. ASSUME NEW a \in Attempts, SettleRefund(a) PROVE CorrelationTypeOK'
  BY <1>18 DEF SettleRefund
<1>19. CASE UNCHANGED correlationVars
  BY <1>19 DEF correlationVars
<1>. QED  BY <1>2, <1>3, <1>4, <1>5, <1>6, <1>7, <1>8, <1>11, <1>12, <1>13, <1>14, <1>15, <1>16, <1>17, <1>18, <1>19
          DEF CorrelationNext

\* Only a first answer names a charge, once and for all; every other id is copied.
LEMMA OwnIdsStep ==
  ASSUME CorrelationInv, [CorrelationNext]_correlationVars
  PROVE  OwnIds'
<1> USE DEF CorrelationInv, CorrelationTypeOK
<1>1. ASSUME \A b \in Attempts : provider'[b].txn = provider[b].txn /\ provider'[b].answer = provider[b].answer,
             \A b \in Attempts : payRow'[b].txn = payRow[b].txn,
             \A b \in Attempts : refundCall'[b].txn \in {{}, refundCall[b].txn, payRow[b].txn}
      PROVE  OwnIds'
  BY <1>1 DEF OwnIds, OwnId
<1>2. ASSUME NEW a \in Attempts, NEW s, SetStatus(a, s)
      PROVE  \A b \in Attempts : payRow'[b].txn = payRow[b].txn
  BY <1>2 DEF SetStatus, PaymentRows
<1>3. ASSUME NEW a \in Attempts, Queue(a)
      PROVE  \A b \in Attempts : refundCall'[b].txn = refundCall[b].txn
  BY <1>3 DEF Queue, RefundJobs
<1>4. ASSUME NEW a \in Attempts, Finalize(a)
      PROVE  \A b \in Attempts : payRow'[b].txn = payRow[b].txn /\ refundCall'[b].txn = refundCall[b].txn
  BY <1>2, <1>3, <1>4 DEF Finalize
<1>5. ASSUME NEW a \in Attempts, CreateRow(a) PROVE OwnIds'
  BY <1>1, <1>2, <1>5 DEF CreateRow
<1>6. ASSUME NEW a \in Attempts, SendCharge(a) PROVE OwnIds'
  <2>1. CASE UNCHANGED provider
    BY <1>1, <1>6, <2>1 DEF SendCharge
  <2>2. ASSUME provider[a].answer = "none", NEW t \in {IdOf[a], Blank}, NEW s \in {"success", "open"},
               provider' = [provider EXCEPT ![a].answer = s, ![a].txn = t, ![a].captured = (s = "success")]
        PROVE  OwnIds'
    <3>1. provider[a] \in ProviderCharges
      OBVIOUS
    <3>2. \A b \in Attempts : provider'[b].txn = (IF b = a THEN t ELSE provider[b].txn)
                              /\ provider'[b].answer = (IF b = a THEN s ELSE provider[b].answer)
      BY <2>2, <3>1 DEF ProviderCharges
    <3>3. payRow' = payRow /\ refundCall' = refundCall
      BY <1>6 DEF SendCharge
    <3>. QED  BY <2>2, <3>2, <3>3 DEF OwnIds, OwnId
  <2>. QED  BY <1>6, <2>1, <2>2 DEF SendCharge
<1>7. ASSUME NEW a \in Attempts, UpdateGateway(a) PROVE OwnIds'
  <2>1. \A b \in Attempts : payRow'[b].txn = IF b = a THEN {provider[a].txn} ELSE payRow[b].txn
    BY <1>7 DEF UpdateGateway, PaymentRows
  <2>2. provider[a].answer # "none" /\ provider' = provider /\ refundCall' = refundCall
    BY <1>7 DEF UpdateGateway, CapturesKnown
  <2>. QED  BY <2>1, <2>2 DEF OwnIds, OwnId
<1>8. ASSUME NEW a \in Attempts, UpdateGatewayFails(a) \/ ChargeStops(a) PROVE OwnIds'
  BY <1>1, <1>8 DEF UpdateGatewayFails, ChargeStops
<1>9. ASSUME NEW a \in Attempts, ChargeFinalize(a) PROVE OwnIds'
  BY <1>1, <1>4, <1>9 DEF ChargeFinalize
<1>10. ASSUME NEW a \in Attempts, Capture(a) PROVE OwnIds'
  <2>1. \A b \in Attempts : provider'[b].txn = provider[b].txn /\ provider'[b].answer = provider[b].answer
    BY <1>10 DEF Capture, ProviderCharges
  <2>. QED  BY <1>1, <1>10, <2>1 DEF Capture
<1>11. ASSUME NEW a \in Attempts, NEW h \in Hooks, ReceiveHook(h, a) PROVE OwnIds'
  BY <1>1, <1>11 DEF ReceiveHook
<1>12. ASSUME NEW h \in Hooks PROVE hookCall[h].found \subseteq Attempts
  BY MaybeFacts
<1>13. ASSUME NEW h \in Hooks, HookSucceeded(h) PROVE OwnIds'
  <2>1. PICK a \in Attempts : Finalize(a)
    BY <1>12, <1>13 DEF HookSucceeded
  <2>. QED  BY <1>1, <1>4, <1>13, <2>1 DEF HookSucceeded
<1>14. ASSUME NEW h \in Hooks, HookFailed(h) PROVE OwnIds'
  <2>1. PICK a \in Attempts : SetStatus(a, "cancelled") \/ UNCHANGED payRow
    BY <1>12, <1>14 DEF HookFailed
  <2>. QED  BY <1>1, <1>2, <1>14, <2>1 DEF HookFailed
<1>15. ASSUME NEW h \in Hooks, HookStops(h) PROVE OwnIds'
  BY <1>1, <1>15 DEF HookStops
<1>16. ASSUME NEW a \in Attempts, RequestRefund(a) PROVE OwnIds'
  BY <1>1, <1>3, <1>16 DEF RequestRefund
<1>17. ASSUME NEW a \in Attempts, LoadRefund(a) PROVE OwnIds'
  BY <1>1, <1>17 DEF LoadRefund, NoRefund
<1>18. ASSUME NEW a \in Attempts,
              \/ refundCall' \in {[refundCall EXCEPT ![a] = NoRefund], [refundCall EXCEPT ![a] = [step |-> "returned", txn |-> {}]]}
              \/ Retry(a)
       PROVE  \A b \in Attempts : refundCall'[b].txn \in {{}, refundCall[b].txn}
  BY <1>18 DEF Retry, NoRefund, RefundJobs
<1>19. ASSUME NEW a \in Attempts, Return(a) PROVE OwnIds'
  <2>2. \A c \in Attempts : provider'[c].txn = provider[c].txn /\ provider'[c].answer = provider[c].answer
    BY <1>19 DEF Return, ProviderCharges
  <2>3. payRow' = payRow /\ (refundCall' = [refundCall EXCEPT ![a] = [step |-> "returned", txn |-> {}]] \/ Retry(a))
    BY <1>19 DEF Return
  <2>. QED  BY <1>1, <1>18, <2>2, <2>3
<1>20. ASSUME NEW a \in Attempts, RefundStops(a) \/ SettleRefund(a) PROVE OwnIds'
  <2>1. refundCall' = [refundCall EXCEPT ![a] = NoRefund] \/ Retry(a)
    BY <1>20 DEF RefundStops, SettleRefund
  <2>2. \A b \in Attempts : payRow'[b].txn = payRow[b].txn
    BY <1>2, <1>20 DEF RefundStops, SettleRefund
  <2>3. provider' = provider
    BY <1>20 DEF RefundStops, SettleRefund
  <2>. QED  BY <1>1, <1>18, <2>1, <2>2, <2>3
<1>21. CASE UNCHANGED correlationVars
  BY <1>1, <1>21 DEF correlationVars
<1>. QED  BY <1>5, <1>6, <1>7, <1>8, <1>9, <1>10, <1>11, <1>13, <1>14, <1>15, <1>16, <1>17, <1>19, <1>20, <1>21
          DEF CorrelationNext

\* A charge is answered for only once, and what was captured or asked back stays so.
LEMMA ProviderGrows ==
  ASSUME CorrelationInv, [CorrelationNext]_correlationVars, NEW a \in Attempts
  PROVE  /\ provider[a].answer # "none" => provider'[a].answer = provider[a].answer
         /\ provider[a].captured => provider'[a].captured
         /\ provider[a].refundKey => provider'[a].refundKey
         /\ provider'[a].answer = "success" => provider'[a].captured
         /\ provider'[a].captured => provider'[a].answer # "none"
<1> DEFINE Grows == /\ provider[a].answer # "none" => provider'[a].answer = provider[a].answer
                    /\ provider[a].captured => provider'[a].captured
                    /\ provider[a].refundKey => provider'[a].refundKey
                    /\ provider'[a].answer = "success" => provider'[a].captured
                    /\ provider'[a].captured => provider'[a].answer # "none"
<1> USE DEF CorrelationInv, CorrelationTypeOK
<1>1. CASE UNCHANGED provider
  BY <1>1 DEF CapturesKnown
<1>2. ASSUME NEW b \in Attempts, SendCharge(b) PROVE Grows
  <2>1. ASSUME provider[b].answer = "none", NEW t \in {IdOf[b], Blank}, NEW s \in {"success", "open"},
               provider' = [provider EXCEPT ![b].answer = s, ![b].txn = t, ![b].captured = (s = "success")]
        PROVE  Grows
    <3>1. provider[b] \in ProviderCharges /\ provider[a] \in ProviderCharges
      OBVIOUS
    <3>2. /\ provider'[a].answer = (IF a = b THEN s ELSE provider[a].answer)
          /\ provider'[a].captured = (IF a = b THEN (s = "success") ELSE provider[a].captured)
          /\ provider'[a].refundKey = provider[a].refundKey
      BY <2>1, <3>1 DEF ProviderCharges
    <3>. QED  BY <2>1, <3>1, <3>2 DEF CapturesKnown
  <2>. QED  BY <1>1, <1>2, <2>1 DEF SendCharge
<1>3. ASSUME NEW b \in Attempts, Capture(b) PROVE Grows
  BY <1>3 DEF Capture, ProviderCharges, CapturesKnown
<1>4. ASSUME NEW b \in Attempts, Return(b) PROVE Grows
  BY <1>4 DEF Return, ProviderCharges, CapturesKnown
<1>. QED  BY <1>1, <1>2, <1>3, <1>4
          DEF CorrelationNext, correlationVars, CreateRow, UpdateGateway, UpdateGatewayFails, ChargeStops,
              ChargeFinalize, ReceiveHook, HookSucceeded, HookFailed, HookStops, RequestRefund, LoadRefund,
              RefundStops, SettleRefund

\* A charge is finalized only by who has its answer, a delivery only by who resolved it.
LEMMA CapturesKnownStep ==
  ASSUME CorrelationInv, [CorrelationNext]_correlationVars
  PROVE  CapturesKnown'
<1> USE DEF CorrelationInv, CorrelationTypeOK
<1>1. ASSUME NEW a \in Attempts
      PROVE  /\ chargeCall'[a] = "record" => provider'[a].answer # "none"
             /\ chargeCall'[a] = "finalize" => provider'[a].captured
  <2>1. /\ chargeCall[a] = "record" => provider'[a].answer # "none"
        /\ chargeCall[a] = "finalize" => provider'[a].captured
    BY ProviderGrows DEF CapturesKnown
  <2>2. CASE UNCHANGED chargeCall
    BY <2>1, <2>2
  <2>3. ASSUME NEW b \in Attempts, SendCharge(b) PROVE chargeCall'[a] = "record" => provider'[a].answer # "none"
    <3>1. ASSUME provider[b].answer = "none", NEW t \in {IdOf[b], Blank}, NEW s \in {"success", "open"},
                 provider' = [provider EXCEPT ![b].answer = s, ![b].txn = t, ![b].captured = (s = "success")]
          PROVE  provider'[b].answer # "none"
      <4>1. provider[b] \in ProviderCharges
        OBVIOUS
      <4>. QED  BY <3>1, <4>1 DEF ProviderCharges
    <3>2. provider'[b].answer # "none"
      BY <2>3, <3>1 DEF SendCharge
    <3>3. chargeCall'[a] = chargeCall[a] \/ a = b
      BY <2>3 DEF SendCharge
    <3>. QED  BY <2>1, <3>2, <3>3
  <2>4. ASSUME NEW b \in Attempts, SendCharge(b) PROVE chargeCall'[a] = "finalize" => chargeCall[a] = "finalize"
    BY <2>4 DEF SendCharge
  <2>5. ASSUME NEW b \in Attempts, UpdateGateway(b) \/ UpdateGatewayFails(b) \/ ChargeStops(b) \/ ChargeFinalize(b)
        PROVE  /\ chargeCall'[a] = "record" => chargeCall[a] = "record"
               /\ chargeCall'[a] = "finalize" => chargeCall[a] = "finalize" \/ provider[a].answer = "success"
    BY <2>5 DEF UpdateGateway, UpdateGatewayFails, ChargeStops, ChargeFinalize, NextStep
  <2>6. provider[a].answer = "success" => provider'[a].captured
    BY ProviderGrows DEF CapturesKnown
  <2>. QED  BY <2>1, <2>2, <2>3, <2>4, <2>5, <2>6
            DEF CorrelationNext, correlationVars, CreateRow, Capture, ReceiveHook, HookSucceeded, HookFailed,
                HookStops, RequestRefund, LoadRefund, Return, RefundStops, SettleRefund
<1>2. ASSUME NEW h \in Hooks, hookCall'[h].event = "success", NEW a \in hookCall'[h].found
      PROVE  provider'[a].captured
  <2>1. hookCall[h].found \subseteq Attempts
    BY MaybeFacts
  <2>2. CASE hookCall'[h] = hookCall[h]
    BY <1>2, <2>1, <2>2, ProviderGrows DEF CapturesKnown
  <2>3. ASSUME NEW b \in Attempts, NEW g \in Hooks, ReceiveHook(g, b), hookCall'[h] # hookCall[h]
        PROVE  provider'[a].captured
    <3>1. PICK named \in BOOLEAN, event \in Events(b) : \E c \in Resolved(b, named) :
            hookCall' = [hookCall EXCEPT ![g] = [found |-> {c}, event |-> event]]
      BY <2>3 DEF ReceiveHook
    <3>2. PICK c \in Resolved(b, named) : hookCall' = [hookCall EXCEPT ![g] = [found |-> {c}, event |-> event]]
      BY <3>1
    <3>3. h = g /\ a = c /\ event = "success"
      BY <1>2, <2>3, <3>2
    <3>4. c = b
      BY FoundByIdIsItself
    <3>5. provider[b].captured
      BY <3>3 DEF Events
    <3>. QED  BY <3>3, <3>4, <3>5, ProviderGrows
  <2>4. ASSUME NEW g \in Hooks, EndHook(g) PROVE hookCall'[h] = hookCall[h] \/ hookCall'[h] = NoHook
    BY <2>4 DEF EndHook
  <2>5. hookCall'[h] # NoHook
    BY <1>2 DEF NoHook
  <2>. QED  BY <2>2, <2>3, <2>4, <2>5
            DEF CorrelationNext, correlationVars, CreateRow, SendCharge, UpdateGateway, UpdateGatewayFails, ChargeStops,
                ChargeFinalize, Capture, HookSucceeded, HookFailed, HookStops, RequestRefund, LoadRefund,
                Return, RefundStops, SettleRefund
<1>. QED  BY <1>1, <1>2, ProviderGrows DEF CapturesKnown

\* A refund is queued by who knows of the capture, and its key goes to the provider
\* before the job goes on.
LEMMA RefundsKnownStep ==
  ASSUME CorrelationInv, [CorrelationNext]_correlationVars
  PROVE  RefundsKnown'
<1> USE DEF CorrelationInv, CorrelationTypeOK
<1>1. ASSUME NEW a \in Attempts,
             /\ refundCall'[a].step # "none" => refundCall[a].step # "none" \/ provider[a].captured
             /\ provider'[a].refundKey => provider[a].refundKey \/ refundCall[a].step # "none"
             /\ refundCall'[a].step = "returned" => refundCall[a].step = "returned" \/ provider'[a].refundKey
      PROVE  /\ refundCall'[a].step # "none" \/ provider'[a].refundKey => provider'[a].captured
             /\ refundCall'[a].step = "returned" => provider'[a].refundKey
  BY <1>1, ProviderGrows DEF RefundsKnown
<1>2. CASE UNCHANGED refundCall /\ \A a \in Attempts : provider'[a].refundKey = provider[a].refundKey
  BY <1>1, <1>2 DEF RefundsKnown
<1>3. ASSUME NEW a \in Attempts, Queue(a), provider[a].captured, UNCHANGED provider PROVE RefundsKnown'
  <2>1. \A b \in Attempts : refundCall'[b].step \in {refundCall[b].step, "queued"} /\ (b # a => refundCall'[b] = refundCall[b])
    BY <1>3 DEF Queue, RefundJobs
  <2>. QED  BY <1>1, <1>3, <2>1 DEF RefundsKnown
<1>4. ASSUME NEW a \in Attempts, Finalize(a), provider[a].captured, UNCHANGED provider PROVE RefundsKnown'
  BY <1>2, <1>3, <1>4 DEF Finalize
<1>5. ASSUME NEW a \in Attempts, SendCharge(a) \/ Capture(a) PROVE RefundsKnown'
  <2>1. ASSUME NEW t \in {IdOf[a], Blank}, NEW s \in {"success", "open"},
               provider' = [provider EXCEPT ![a].answer = s, ![a].txn = t, ![a].captured = (s = "success")]
        PROVE  \A b \in Attempts : provider'[b].refundKey = provider[b].refundKey
    BY <2>1 DEF ProviderCharges
  <2>2. ASSUME Capture(a) PROVE \A b \in Attempts : provider'[b].refundKey = provider[b].refundKey
    BY <2>2 DEF Capture, ProviderCharges
  <2>. QED  BY <1>2, <1>5, <2>1, <2>2 DEF SendCharge, Capture
<1>6. ASSUME NEW a \in Attempts, ChargeFinalize(a) PROVE RefundsKnown'
  BY <1>4, <1>6 DEF ChargeFinalize, CapturesKnown
<1>7. ASSUME NEW h \in Hooks, HookSucceeded(h) PROVE RefundsKnown'
  <2>1. PICK a \in hookCall[h].found : Finalize(a)
    BY <1>7 DEF HookSucceeded
  <2>2. a \in Attempts /\ provider[a].captured
    BY <1>7, MaybeFacts DEF HookSucceeded, CapturesKnown
  <2>. QED  BY <1>4, <1>7, <2>1, <2>2 DEF HookSucceeded
<1>8. ASSUME NEW a \in Attempts, RequestRefund(a) PROVE RefundsKnown'
  <2>1. provider[a].captured
    BY <1>8 DEF RequestRefund, MayRefund, MoneyFindsItsPayment, HookFindsItsPayment
  <2>. QED  BY <1>3, <1>8, <2>1 DEF RequestRefund
<1>9. ASSUME NEW a \in Attempts, LoadRefund(a) \/ RefundStops(a) \/ SettleRefund(a) PROVE RefundsKnown'
  <2>1. \A b \in Attempts : refundCall'[b].step \in {"none", "queued", "loaded"} \/ refundCall'[b] = refundCall[b]
    BY <1>9 DEF LoadRefund, RefundStops, SettleRefund, Retry, NoRefund
  <2>2. \A b \in Attempts : refundCall'[b].step # "none" => refundCall[b].step # "none"
    BY <1>9 DEF LoadRefund, RefundStops, SettleRefund, Retry, NoRefund
  <2>3. provider' = provider
    BY <1>9 DEF LoadRefund, RefundStops, SettleRefund
  <2>. QED  BY <1>1, <2>1, <2>2, <2>3 DEF RefundsKnown
<1>10. ASSUME NEW a \in Attempts, Return(a) PROVE RefundsKnown'
  <2>1. \A b \in Attempts : provider'[b].refundKey = (b = a \/ provider[b].refundKey)
    BY <1>10 DEF Return, ProviderCharges
  <2>2. refundCall[a].step # "none" /\ \A b \in Attempts \ {a} : refundCall'[b] = refundCall[b]
    BY <1>10 DEF Return, Retry
  <2>. QED  BY <1>1, <2>1, <2>2 DEF RefundsKnown
<1>. QED  BY <1>2, <1>5, <1>6, <1>7, <1>8, <1>9, <1>10
          DEF CorrelationNext, correlationVars, CreateRow, UpdateGateway, UpdateGatewayFails, ChargeStops,
              ReceiveHook, HookFailed, HookStops

\* A payment is booked by who knows of its capture, and refunded by who knows of its
\* return.
LEMMA MoneyFindsItsPaymentStep ==
  ASSUME CorrelationInv, [CorrelationNext]_correlationVars
  PROVE  MoneyFindsItsPayment'
<1> USE DEF CorrelationInv, CorrelationTypeOK
<1> DEFINE Booked(s) == s \in {"success", "requires_review", "refunded"}
<1>1. ASSUME \A a \in Attempts :
               /\ Booked(payRow'[a].status) => Booked(payRow[a].status) \/ provider'[a].captured
               /\ payRow'[a].status = "refunded" => payRow[a].status = "refunded" \/ provider'[a].refundKey
      PROVE  MoneyFindsItsPayment'
  <2>1. OwnIds' /\ RefundsKnown' /\ CorrelationTypeOK'
    BY OwnIdsStep, RefundsKnownStep, CorrelationStepType
  <2>2. \A a \in Attempts : refundCall'[a].txn \subseteq {provider'[a].txn}
    BY <2>1 DEF OwnIds, OwnId
  <2>. QED  BY <1>1, <2>1, <2>2, ProviderGrows
            DEF RefundsKnown, MoneyFindsItsPayment, HookFindsItsPayment, RefundNamesOwnCharge, StatusOf
<1>2. ASSUME NEW a \in Attempts, NEW s \in {"pending", "cancelled"}, SetStatus(a, s) PROVE MoneyFindsItsPayment'
  <2>1. \A b \in Attempts : payRow'[b].status = s \/ payRow'[b] = payRow[b]
    BY <1>2 DEF SetStatus, PaymentRows
  <2>. QED  BY <1>1, <2>1
<1>3. ASSUME NEW a \in Attempts, Finalize(a), provider[a].captured PROVE MoneyFindsItsPayment'
  <2>1. ASSUME NEW s \in {"success", "requires_review"}, SetStatus(a, s) PROVE MoneyFindsItsPayment'
    <3>1. \A b \in Attempts : (b = a /\ payRow'[b].status = s) \/ payRow'[b] = payRow[b]
      BY <2>1 DEF SetStatus, PaymentRows
    <3>2. provider'[a].captured
      BY <1>3, ProviderGrows
    <3>. QED  BY <1>1, <3>1, <3>2
  <2>2. CASE UNCHANGED payRow
    BY <1>1, <2>2
  <2>. QED  BY <1>3, <2>1, <2>2 DEF Finalize
<1>4. CASE UNCHANGED payRow
  BY <1>1, <1>4
<1>5. ASSUME NEW a \in Attempts, UpdateGateway(a) PROVE MoneyFindsItsPayment'
  <2>1. \A b \in Attempts : payRow'[b].status = payRow[b].status
    BY <1>5 DEF UpdateGateway, PaymentRows
  <2>. QED  BY <1>1, <2>1
<1>6. ASSUME NEW a \in Attempts, CreateRow(a) PROVE MoneyFindsItsPayment'
  BY <1>2, <1>6 DEF CreateRow
<1>7. ASSUME NEW a \in Attempts, ChargeFinalize(a) PROVE MoneyFindsItsPayment'
  BY <1>3, <1>7 DEF ChargeFinalize, CapturesKnown
<1>8. ASSUME NEW h \in Hooks, HookSucceeded(h) PROVE MoneyFindsItsPayment'
  <2>1. PICK a \in hookCall[h].found : Finalize(a)
    BY <1>8 DEF HookSucceeded
  <2>2. a \in Attempts /\ provider[a].captured
    BY <1>8, MaybeFacts DEF HookSucceeded, CapturesKnown
  <2>. QED  BY <1>3, <2>1, <2>2
<1>9. ASSUME NEW h \in Hooks, HookFailed(h) PROVE MoneyFindsItsPayment'
  <2>1. PICK a \in Attempts : SetStatus(a, "cancelled") \/ UNCHANGED payRow
    BY <1>9, MaybeFacts DEF HookFailed
  <2>. QED  BY <1>2, <1>4, <2>1
<1>10. ASSUME NEW a \in Attempts, SettleRefund(a) PROVE MoneyFindsItsPayment'
  <2>1. CASE UNCHANGED payRow
    BY <1>4, <2>1
  <2>2. CASE MayRefund(a) /\ SetStatus(a, "refunded")
    <3>1. \A b \in Attempts : (b = a /\ payRow'[b].status = "refunded") \/ payRow'[b] = payRow[b]
      BY <2>2 DEF SetStatus, PaymentRows
    <3>2. Booked(payRow[a].status) /\ provider[a].refundKey
      BY <1>10, <2>2 DEF SettleRefund, MayRefund, StatusOf, RefundsKnown
    <3>3. provider'[a].refundKey
      BY <3>2, ProviderGrows
    <3>. QED  BY <1>1, <3>1, <3>2, <3>3
  <2>. QED  BY <1>10, <2>1, <2>2 DEF SettleRefund
<1>. QED  BY <1>4, <1>5, <1>6, <1>7, <1>8, <1>9, <1>10
          DEF CorrelationNext, correlationVars, SendCharge, UpdateGatewayFails, ChargeStops, Capture, ReceiveHook,
              HookStops, RequestRefund, LoadRefund, Return, RefundStops

\* No step breaks one of the five.
LEMMA CorrelationStepInv == CorrelationInv /\ [CorrelationNext]_correlationVars => CorrelationInv'
BY CorrelationStepType, OwnIdsStep, CapturesKnownStep, RefundsKnownStep, MoneyFindsItsPaymentStep DEF CorrelationInv

\* Whatever the ids say and in whatever order answers, events and refunds come, money is
\* booked on the payment it was captured for, and asked back in its name (Charge,
\* resolveWebhookPayment, SettleRefund).
THEOREM MoneyFindsItsPaymentHolds == CorrelationSpec => []MoneyFindsItsPayment
<1>1. CorrelationInv => MoneyFindsItsPayment
  BY DEF CorrelationInv
<1>. QED  BY <1>1, CorrelationInitInv, CorrelationStepInv, PTL DEF CorrelationSpec

\* The rows, the jobs, the hooks and what the provider has have their types.
THEOREM CorrelationTypeOKHolds == CorrelationSpec => []CorrelationTypeOK
<1>1. CorrelationInv => CorrelationTypeOK
  BY DEF CorrelationInv
<1>. QED  BY <1>1, CorrelationInitInv, CorrelationStepInv, PTL DEF CorrelationSpec

(****************************************************************************)
(* The provider of the development environment.                             *)
(****************************************************************************)
\* What the server knows of a key: its charge, or its refund.
Known(kind, key) == IF kind = "charge" THEN charges[key] ELSE refunds[key]
PostKinds == {"charge", "refund"}
Answers == [id : 0..MaxIds, status : {"none", "pending", "failed", "success"}]

\* The types of the server and of its clients, up to the bound on ids.
MockShape ==
  /\ ids \in 0..MaxIds
  /\ charges \in [Keys -> Answers] /\ refunds \in [Keys -> Answers]
  /\ post \in [Posts -> [kind : {"none"} \cup PostKinds, key : Keys, card : BOOLEAN,
                         step : {"idle", "sent", "abandoned", "answered"}, answer : Answers]]
  /\ made \subseteq [kind : PostKinds, key : Keys, id : 1..MaxIds]
  /\ told \subseteq [kind : PostKinds, key : Keys, answer : Answers]
  /\ hooks \subseteq [event : {"success", "failed"}, id : 0..MaxIds, key : Keys]

\* What was created is what the server knows, and nothing else; whoever was told, is being
\* told, or is called back, learns that.
KnownIsMade ==
  \A kind \in PostKinds, key \in Keys :
    Known(kind, key) # NoAnswer => [kind |-> kind, key |-> key, id |-> Known(kind, key).id] \in made
MadeIsKnown == \A a \in made : Known(a.kind, a.key) # NoAnswer /\ a.id = Known(a.kind, a.key).id
ToldIsKnown == \A a \in told : Known(a.kind, a.key) # NoAnswer /\ a.answer = Known(a.kind, a.key)
AnswerIsKnown(c) ==
  post[c].step = "answered" =>
    /\ post[c].kind \in PostKinds
    /\ Known(post[c].kind, post[c].key) # NoAnswer
    /\ post[c].answer = Known(post[c].kind, post[c].key)
AnswersAreKnown == \A c \in Posts : AnswerIsKnown(c)
HooksAreKnown == \A h \in hooks : charges[h.key] # NoAnswer /\ h.id = charges[h.key].id

BooksAgree == KnownIsMade /\ MadeIsKnown /\ ToldIsKnown /\ HooksAreKnown
MockInv == MockShape /\ BooksAgree /\ AnswersAreKnown

\* A client at rest has the type of a client.
LEMMA QuietType ==
  Quiet \in [kind : {"none"}, key : Keys, card : BOOLEAN, step : {"idle"}, answer : Answers]
<1>1. NoAnswer \in Answers
  BY MockGatewayAssumption DEF NoAnswer, Answers
<1>2. (CHOOSE k \in Keys : TRUE) \in Keys
  BY MockGatewayAssumption
<1>. HIDE DEF NoAnswer
<1>. QED  BY <1>1, <1>2 DEF Quiet

\* At first nothing is known.
LEMMA MockInitInv == MockInit => MockInv
<1>. SUFFICES ASSUME MockInit  PROVE MockInv
  OBVIOUS
<1>1. \A c \in Posts : post[c] = Quiet /\ post[c].step = "idle"
  BY QuietType DEF MockInit
<1>2. MockShape
  <2>1. NoAnswer \in Answers
    BY MockGatewayAssumption DEF NoAnswer, Answers
  <2>2. post \in [Posts -> [kind : {"none"} \cup PostKinds, key : Keys, card : BOOLEAN,
                            step : {"idle", "sent", "abandoned", "answered"}, answer : Answers]]
    BY QuietType DEF MockInit
  <2>. QED  BY <2>1, <2>2, MockGatewayAssumption DEF MockInit, MockShape
<1>3. BooksAgree
  BY DEF MockInit, BooksAgree, KnownIsMade, MadeIsKnown, ToldIsKnown, HooksAreKnown, Known, PostKinds
<1>. QED  BY <1>1, <1>2, <1>3 DEF MockInv, AnswersAreKnown, AnswerIsKnown

\* What a client asks.
Asked(kind, key, card) == [Quiet EXCEPT !.kind = kind, !.key = key, !.card = card, !.step = "sent"]

\* What a client asks is a request.
LEMMA AskedType ==
  ASSUME NEW kind \in PostKinds, NEW key \in Keys, NEW card \in BOOLEAN
  PROVE  Asked(kind, key, card) \in [kind : {"none"} \cup PostKinds, key : Keys, card : BOOLEAN,
                                     step : {"idle", "sent", "abandoned"}, answer : Answers]
<1>. DEFINE R(k, y, b, s) == [kind |-> k, key |-> y, card |-> b, step |-> s, answer |-> Quiet.answer]
<1>1. Quiet = R(Quiet.kind, Quiet.key, Quiet.card, Quiet.step)
  BY QuietType
<1>2. [Quiet EXCEPT !.kind = kind] = R(kind, Quiet.key, Quiet.card, Quiet.step)
  BY <1>1
<1>3. [R(kind, Quiet.key, Quiet.card, Quiet.step) EXCEPT !.key = key] = R(kind, key, Quiet.card, Quiet.step)
  OBVIOUS
<1>4. [R(kind, key, Quiet.card, Quiet.step) EXCEPT !.card = card] = R(kind, key, card, Quiet.step)
  OBVIOUS
<1>5. [R(kind, key, card, Quiet.step) EXCEPT !.step = "sent"] = R(kind, key, card, "sent")
  OBVIOUS
<1>6. Asked(kind, key, card) = R(kind, key, card, "sent")
  BY <1>2, <1>3, <1>4, <1>5 DEF Asked
<1>. QED  BY <1>6, QuietType

\* A new answer is one.
LEMMA NewAnswer ==
  ASSUME MockInv, NEW status  PROVE [id |-> NewId, status |-> status] # NoAnswer
BY DEF MockInv, MockShape, NewId, NoAnswer

\* What a client does changes nothing that is known.
LEMMA ClientStep ==
  ASSUME MockInv, NEW c \in Posts,
         NEW w \in [kind : {"none"} \cup PostKinds, key : Keys, card : BOOLEAN,
                    step : {"idle", "sent", "abandoned"}, answer : Answers],
         post' = [post EXCEPT ![c] = w],
         UNCHANGED <<charges, refunds, ids, hooks, made>>,
         \/ told' = told
         \/ /\ post[c].step = "answered"
            /\ told' = told \cup {[kind |-> post[c].kind, key |-> post[c].key, answer |-> post[c].answer]}
  PROVE  MockInv'
<1>1. \A d \in Posts : post'[d] = IF d = c THEN w ELSE post[d]
  BY DEF MockInv, MockShape
<1>2. \A kind, key : Known(kind, key)' = Known(kind, key)
  BY DEF Known
<1>3. \A a \in told' \ told :
        /\ a \in [kind : PostKinds, key : Keys, answer : Answers]
        /\ Known(a.kind, a.key) # NoAnswer /\ a.answer = Known(a.kind, a.key)
  BY DEF MockInv, MockShape, AnswersAreKnown, AnswerIsKnown
<1>4. MockShape'
  <2>1. post' \in [Posts -> [kind : {"none"} \cup PostKinds, key : Keys, card : BOOLEAN,
                             step : {"idle", "sent", "abandoned", "answered"}, answer : Answers]]
    BY DEF MockInv, MockShape
  <2>. QED  BY <1>3, <2>1 DEF MockInv, MockShape
<1>5. BooksAgree'
  BY <1>2, <1>3 DEF MockInv, BooksAgree, KnownIsMade, MadeIsKnown, ToldIsKnown, HooksAreKnown
<1>6. AnswersAreKnown'
  BY <1>1, <1>2 DEF MockInv, AnswersAreKnown, AnswerIsKnown
<1>. QED  BY <1>4, <1>5, <1>6 DEF MockInv

\* What a handler does to a book of answers: it reads it, or adds the answer of a new key.
Handled(kind, key) ==
  \/ UNCHANGED <<charges, refunds, ids, made>>
  \/ /\ Known(kind, key) = NoAnswer
     /\ HandOut(key, kind)
     /\ \E status \in {"pending", "failed", "success"} :
          LET answer == [id |-> NewId, status |-> status] IN
          \/ kind = "charge" /\ charges' = [charges EXCEPT ![key] = answer] /\ refunds' = refunds
          \/ kind = "refund" /\ refunds' = [refunds EXCEPT ![key] = answer] /\ charges' = charges

\* Such a step keeps what was known, and makes what it adds.
LEMMA HandledKnows ==
  ASSUME MockInv, NEW kind \in PostKinds, NEW key \in Keys, Handled(kind, key)
  PROVE  /\ ids' \in 0..MaxIds /\ charges' \in [Keys -> Answers] /\ refunds' \in [Keys -> Answers]
         /\ made \subseteq made' /\ made' \subseteq [kind : PostKinds, key : Keys, id : 1..MaxIds]
         /\ \A k \in PostKinds, y \in Keys :
              /\ Known(k, y) # NoAnswer => Known(k, y)' = Known(k, y)
              /\ k # kind \/ y # key => Known(k, y)' = Known(k, y)
         /\ Known(kind, key) = NoAnswer /\ Known(kind, key)' # NoAnswer =>
              [kind |-> kind, key |-> key, id |-> Known(kind, key)'.id] \in made'
         /\ made' = made \/ (/\ Known(kind, key)' # NoAnswer
                             /\ made' = made \cup {[kind |-> kind, key |-> key, id |-> Known(kind, key)'.id]})
<1>1. CASE UNCHANGED <<charges, refunds, ids, made>>
  BY <1>1 DEF MockInv, MockShape, Known
<1>2. CASE Known(kind, key) = NoAnswer /\ HandOut(key, kind) /\ ~UNCHANGED <<charges, refunds, ids, made>>
  <2>1. PICK status \in {"pending", "failed", "success"} :
          \/ kind = "charge" /\ charges' = [charges EXCEPT ![key] = [id |-> ids + 1, status |-> status]] /\ refunds' = refunds
          \/ kind = "refund" /\ refunds' = [refunds EXCEPT ![key] = [id |-> ids + 1, status |-> status]] /\ charges' = charges
    BY <1>2 DEF Handled, NewId
  <2>. DEFINE answer == [id |-> ids + 1, status |-> status]
  <2>2. ids + 1 \in 1..MaxIds /\ ids + 1 # 0 /\ answer \in Answers /\ answer # NoAnswer /\ answer.id = ids + 1
    BY <1>2, MockGatewayAssumption DEF HandOut, NewId, MockInv, MockShape, Answers, NoAnswer
  <2>3. Known(kind, key)' = answer
    BY <2>1 DEF MockInv, MockShape, Known, PostKinds
  <2>4. charges' \in [Keys -> Answers] /\ refunds' \in [Keys -> Answers]
    BY <2>1, <2>2 DEF MockInv, MockShape
  <2>5. \A k \in PostKinds, y \in Keys : k # kind \/ y # key => Known(k, y)' = Known(k, y)
    BY <2>1 DEF MockInv, MockShape, Known, PostKinds
  <2>6. ids' = ids + 1 /\ made' = made \cup {[kind |-> kind, key |-> key, id |-> ids + 1]}
    BY <1>2 DEF HandOut, NewId
  <2>. HIDE DEF answer
  <2>. QED  BY <1>2, <2>2, <2>3, <2>4, <2>5, <2>6 DEF MockInv, MockShape
<1>. QED  BY <1>1, <1>2 DEF Handled

\* A handler answers what it then knows.
LEMMA HandlerStep ==
  ASSUME MockInv, NEW c \in Posts, NEW kind \in PostKinds, NEW key \in Keys, post[c].key = key, Posted(c, kind),
         Handled(kind, key), Known(kind, key)' # NoAnswer, Respond(c, Known(kind, key)'),
         UNCHANGED <<hooks, told>>
  PROVE  MockInv'
<1>. DEFINE answer == Known(kind, key)'
<1>1. post[c].kind = kind /\ post[c].step \in {"sent", "abandoned"}
  BY DEF MockInv, MockShape, Posted
<1>2. /\ ids' \in 0..MaxIds /\ charges' \in [Keys -> Answers] /\ refunds' \in [Keys -> Answers]
      /\ made \subseteq made' /\ made' \subseteq [kind : PostKinds, key : Keys, id : 1..MaxIds]
      /\ \A k \in PostKinds, y \in Keys :
           /\ Known(k, y) # NoAnswer => Known(k, y)' = Known(k, y)
           /\ k # kind \/ y # key => Known(k, y)' = Known(k, y)
      /\ made' = made \/ made' = made \cup {[kind |-> kind, key |-> key, id |-> answer.id]}
  BY <1>1, HandledKnows
<1>3. answer \in Answers /\ answer # NoAnswer
  BY <1>1, <1>2 DEF Known
<1>4. /\ \A d \in Posts \ {c} : post'[d] = post[d]
      /\ post'[c] = IF post[c].step = "sent" THEN [[post[c] EXCEPT !.step = "answered"] EXCEPT !.answer = answer]
                    ELSE Quiet
  BY DEF MockInv, MockShape, Respond
<1>. HIDE DEF answer
<1>5. /\ post'[c] \in [kind : {"none"} \cup PostKinds, key : Keys, card : BOOLEAN,
                        step : {"idle", "sent", "abandoned", "answered"}, answer : Answers]
      /\ post'[c].step = "answered" => post'[c].kind = kind /\ post'[c].key = key /\ post'[c].answer = answer
  <2>1. CASE post[c].step = "sent"
    BY <1>1, <1>3, <1>4, <2>1 DEF MockInv, MockShape
  <2>2. CASE post[c].step # "sent"
    BY <1>4, <2>2, QuietType
  <2>. QED  BY <2>1, <2>2
<1>6. MockShape'
  <2>1. DOMAIN post' = Posts /\ post' = [d \in Posts |-> post'[d]]
    BY DEF MockInv, MockShape, Respond
  <2>2. post' \in [Posts -> [kind : {"none"} \cup PostKinds, key : Keys, card : BOOLEAN,
                             step : {"idle", "sent", "abandoned", "answered"}, answer : Answers]]
    BY <1>4, <1>5, <2>1 DEF MockInv, MockShape
  <2>. QED  BY <1>2, <2>2 DEF MockInv, MockShape
<1>7. KnownIsMade'
  <2>. SUFFICES ASSUME NEW k \in PostKinds, NEW y \in Keys, Known(k, y)' # NoAnswer
                PROVE  [kind |-> k, key |-> y, id |-> Known(k, y)'.id] \in made'
    BY DEF KnownIsMade
  <2>1. CASE Known(k, y) # NoAnswer
    BY <1>2, <2>1 DEF MockInv, BooksAgree, KnownIsMade
  <2>2. CASE Known(k, y) = NoAnswer
    <3>1. k = kind /\ y = key
      BY <1>2, <2>2
    <3>. QED  BY <1>1, <1>2, <2>2, <3>1, HandledKnows DEF answer
  <2>. QED  BY <2>1, <2>2
<1>8. MadeIsKnown'
  BY <1>1, <1>2, <1>3 DEF MockInv, MockShape, BooksAgree, MadeIsKnown, answer
<1>9. ToldIsKnown' /\ HooksAreKnown'
  <2>1. ToldIsKnown'
    BY <1>2 DEF MockInv, MockShape, BooksAgree, ToldIsKnown
  <2>2. \A h \in hooks : Known("charge", h.key) # NoAnswer /\ h.id = Known("charge", h.key).id /\ h.key \in Keys
    BY DEF MockInv, MockShape, BooksAgree, HooksAreKnown, Known
  <2>3. \A h \in hooks : Known("charge", h.key)' # NoAnswer /\ h.id = Known("charge", h.key)'.id
    BY <1>2, <2>2 DEF PostKinds
  <2>. QED  BY <2>1, <2>3 DEF HooksAreKnown, Known
<1>10. AnswersAreKnown'
  <2>1. ASSUME NEW d \in Posts \ {c}  PROVE AnswerIsKnown(d)'
    <3>. SUFFICES ASSUME post[d].step = "answered"  PROVE AnswerIsKnown(d)'
      BY <1>4 DEF AnswerIsKnown
    <3>1. PICK k \in PostKinds, y \in Keys :
            /\ k = post[d].kind /\ y = post[d].key
            /\ Known(k, y) # NoAnswer /\ post[d].answer = Known(k, y)
      BY DEF MockInv, MockShape, AnswersAreKnown, AnswerIsKnown
    <3>2. Known(k, y)' = Known(k, y)
      BY <1>2, <3>1
    <3>. QED  BY <1>4, <3>1, <3>2 DEF AnswerIsKnown, Known
  <2>2. AnswerIsKnown(c)'
    BY <1>3, <1>5 DEF AnswerIsKnown, Known, answer
  <2>. QED  BY <2>1, <2>2 DEF AnswersAreKnown
<1>. QED  BY <1>6, <1>7, <1>8, <1>9, <1>10 DEF MockInv, BooksAgree

\* No step of a client or of the server breaks it.
LEMMA MockStepInv == MockInv /\ [MockNext]_mockVars => MockInv'
<1>. SUFFICES ASSUME MockInv, [MockNext]_mockVars  PROVE MockInv'
  OBVIOUS
<1>1. ASSUME NEW c \in Posts, HangUpCall(c)  PROVE MockInv'
  <2>. DEFINE w == IF post[c].step = "sent" THEN [post[c] EXCEPT !.step = "abandoned"] ELSE Quiet
  <2>1. w \in [kind : {"none"} \cup PostKinds, key : Keys, card : BOOLEAN,
               step : {"idle", "sent", "abandoned"}, answer : Answers]
    BY QuietType DEF MockInv, MockShape
  <2>2. post' = [post EXCEPT ![c] = w]
    BY <1>1 DEF HangUpCall, MockInv, MockShape
  <2>. HIDE DEF w
  <2>. QED  BY <1>1, <2>1, <2>2, ClientStep DEF HangUpCall
<1>2. ASSUME NEW c \in Posts, Receive(c)  PROVE MockInv'
  BY <1>2, QuietType, ClientStep DEF Receive
<1>3. ASSUME NEW c \in Posts, NEW kind \in PostKinds, NEW key \in Keys, NEW card \in BOOLEAN, Send(c, kind, key, card)
      PROVE  MockInv'
  <2>1. post' = [post EXCEPT ![c] = Asked(kind, key, card)] /\ UNCHANGED <<charges, refunds, ids, hooks, made, told>>
    BY <1>3 DEF Send, Asked
  <2>. QED  BY <2>1, AskedType, ClientStep
<1>4. ASSUME NEW c \in Posts, HandleCharge(c)  PROVE MockInv'
  <2>1. PICK key \in Keys : key = post[c].key
    BY DEF MockInv, MockShape
  <2>2. Handled("charge", key) /\ Known("charge", key)' # NoAnswer
    BY <1>4, <2>1, NewAnswer DEF HandleCharge, NewCharge, ChargeStatus, Handled, Known, MockInv, MockShape
  <2>3. Posted(c, "charge") /\ Respond(c, Known("charge", key)') /\ UNCHANGED <<hooks, told>> /\ "charge" \in PostKinds
    BY <1>4, <2>1 DEF HandleCharge, Known, PostKinds
  <2>. QED  BY <2>1, <2>2, <2>3, HandlerStep
<1>5. ASSUME NEW c \in Posts, HandleRefund(c)  PROVE MockInv'
  <2>1. PICK key \in Keys : key = post[c].key
    BY DEF MockInv, MockShape
  <2>2. Handled("refund", key) /\ Known("refund", key)' # NoAnswer
    BY <1>5, <2>1, NewAnswer DEF HandleRefund, Handled, Known, MockInv, MockShape
  <2>3. Posted(c, "refund") /\ Respond(c, Known("refund", key)') /\ UNCHANGED <<hooks, told>> /\ "refund" \in PostKinds
    BY <1>5, <2>1 DEF HandleRefund, Known, PostKinds
  <2>. QED  BY <2>1, <2>2, <2>3, HandlerStep
<1>6. ASSUME UNCHANGED <<charges, refunds, ids, post, made, told>>,
             \A h \in hooks' \ hooks :
               /\ h \in [event : {"success", "failed"}, id : 0..MaxIds, key : Keys]
               /\ charges[h.key] # NoAnswer /\ h.id = charges[h.key].id
      PROVE  MockInv'
  BY <1>6 DEF MockInv, MockShape, BooksAgree, KnownIsMade, MadeIsKnown, ToldIsKnown, HooksAreKnown, AnswersAreKnown, AnswerIsKnown, Known
<1>7. ASSUME NEW key \in Keys, NEW event \in {"success", "failed"}, HandleWebhookTrigger(key, event)
      PROVE  MockInv'
  <2>1. charges[key].id \in 0..MaxIds
    BY DEF MockInv, MockShape, Answers
  <2>. QED  BY <1>6, <1>7, <2>1 DEF HandleWebhookTrigger
<1>8. ASSUME NEW h \in hooks, HookEnds(h)  PROVE MockInv'
  BY <1>6, <1>8 DEF HookEnds
<1>9. CASE UNCHANGED mockVars
  BY <1>6, <1>9 DEF mockVars
<1>. QED  BY <1>1, <1>2, <1>3, <1>4, <1>5, <1>7, <1>8, <1>9 DEF MockNext, PostKinds

\* What the server knows settles what was made and told.
LEMMA MockInvIsEnough == MockInv => ChargesKeyed
<1>. SUFFICES ASSUME MockInv  PROVE ChargesKeyed
  OBVIOUS
<1>1. \A a, b \in made : a.kind = b.kind /\ a.key = b.key => a = b
  BY DEF MockInv, MockShape, BooksAgree, MadeIsKnown
<1>2. \A a, b \in told : a.kind = b.kind /\ a.key = b.key => a = b
  BY DEF MockInv, MockShape, BooksAgree, ToldIsKnown
<1>3. \A a \in told : [kind |-> a.kind, key |-> a.key, id |-> a.answer.id] \in made
  BY DEF MockInv, MockShape, BooksAgree, ToldIsKnown, KnownIsMade
<1>4. \A h \in hooks : [kind |-> "charge", key |-> h.key, id |-> h.id] \in made
  BY DEF MockInv, MockShape, BooksAgree, HooksAreKnown, KnownIsMade, Known, PostKinds
<1>. QED  BY <1>1, <1>2, <1>3, <1>4 DEF ChargesKeyed, KeyedOnce, HooksNameTheirCharge

\* A key is charged once and refunded once, everybody is told the same of it, and a webhook
\* names its charge, whatever is sent again, abandoned or answered late (handleCharge,
\* handleRefund, handleWebhookTrigger).
THEOREM ChargesKeyedHolds == MockSpec => []ChargesKeyed
<1>. QED  BY MockInvIsEnough, MockInitInv, MockStepInv, PTL DEF MockSpec

\* Answers, records and webhooks have their types, and no id is given out beyond the bound.
THEOREM MockTypeOKHolds == MockSpec => []MockTypeOK
<1>1. MockInv => MockTypeOK
  BY DEF MockInv, MockShape, MockTypeOK, PostKinds, Answers
<1>. QED  BY <1>1, MockInitInv, MockStepInv, PTL DEF MockSpec
===============================================================================

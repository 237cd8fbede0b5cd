------------------------------- MODULE MockGateway ------------------------------
(****************************************************************************)
(* The payment provider of the development environment (cmd/mockgateway)    *)
(* and its client (payment/adapter/gateway/mock): the one implementation of *)
(* payment.Gateway in the repository, and so the evidence for what module   *)
(* Gateway assumes of a provider.                                           *)
(*                                                                          *)
(* A client that gives up on a call does not recall it: the server may      *)
(* handle it after the retry, and answer nobody.                            *)
(****************************************************************************)
EXTENDS Naturals

CONSTANTS
  Keys,     \* idempotency keys: ids of payments
  Amount,   \* the amount charged under each key
  Posts,    \* calls under way at once
  MaxIds    \* bound on the transaction and refund ids handed out

ASSUME MockGatewayAssumption == Keys # {} /\ Amount \in [Keys -> Nat] /\ MaxIds \in Nat

VARIABLES
  charges,  \* chargeRecord by key
  refunds,  \* RefundResponse by key
  ids,      \* ids handed out
  post,     \* what each call asks, and its answer
  hooks,    \* webhooks on their way
  made,     \* history: the charges and refunds created
  told      \* history: the answers that reached a client

mockVars == <<charges, refunds, ids, post, hooks, made, told>>

NoAnswer == [id |-> 0, status |-> "none"]
Quiet == [kind |-> "none", key |-> CHOOSE k \in Keys : TRUE, card |-> FALSE,
          step |-> "idle", answer |-> NoAnswer]

Posted(c, kind) == post[c].kind = kind /\ post[c].step \in {"sent", "abandoned"}
NewId == ids + 1
HandOut(key, kind) ==
  /\ ids < MaxIds /\ ids' = NewId
  /\ made' = made \cup {[kind |-> kind, key |-> key, id |-> NewId]}

(****************************************************************************)
(* The client: Charge and Refund post a request and wait, up to a timeout.  *)
(****************************************************************************)
Send(c, kind, key, card) ==
  /\ post[c].step = "idle"
  /\ post' = [post EXCEPT ![c] = [Quiet EXCEPT !.kind = kind, !.key = key, !.card = card, !.step = "sent"]]
  /\ UNCHANGED <<charges, refunds, ids, hooks, made, told>>

HangUpCall(c) ==
  /\ post[c].step \in {"sent", "answered"}
  /\ post' = [post EXCEPT ![c] = IF @.step = "sent" THEN [@ EXCEPT !.step = "abandoned"] ELSE Quiet]
  /\ UNCHANGED <<charges, refunds, ids, hooks, made, told>>

Receive(c) ==
  /\ post[c].step = "answered"
  /\ told' = told \cup {[kind |-> post[c].kind, key |-> post[c].key, answer |-> post[c].answer]}
  /\ post' = [post EXCEPT ![c] = Quiet]
  /\ UNCHANGED <<charges, refunds, ids, hooks, made>>

(****************************************************************************)
(* The server: one mutex, so that each handler is a step.                   *)
(****************************************************************************)
Respond(c, answer) ==
  post' = [post EXCEPT ![c] = IF @.step = "sent" THEN [@ EXCEPT !.step = "answered", !.answer = answer] ELSE Quiet]

\* Amounts that end in 99 are declined; without a card the customer pays later.
ChargeStatus(key, card) ==
  IF ~card THEN "pending" ELSE IF Amount[key] % 100 = 99 THEN "failed" ELSE "success"

NewCharge(key, card) ==
  /\ HandOut(key, "charge")
  /\ charges' = [charges EXCEPT ![key] = [id |-> NewId, status |-> ChargeStatus(key, card)]]

HandleCharge_KeepsSuccess(c) ==
  LET key == post[c].key IN
  /\ Posted(c, "charge")
  /\ IF charges[key].status = "success"
     THEN UNCHANGED <<charges, ids, made>>
     ELSE NewCharge(key, post[c].card)
  /\ Respond(c, charges'[key])
  /\ UNCHANGED <<refunds, hooks, told>>

\* A key that was charged gets its first answer, with another card too.
HandleCharge(c) ==
  LET key == post[c].key IN
  /\ Posted(c, "charge")
  /\ IF charges[key] # NoAnswer
     THEN UNCHANGED <<charges, ids, made>>
     ELSE NewCharge(key, post[c].card)
  /\ Respond(c, charges'[key])
  /\ UNCHANGED <<refunds, hooks, told>>

\* Always a success, for a key that was never charged too.
HandleRefund(c) ==
  LET key == post[c].key IN
  /\ Posted(c, "refund")
  /\ \/ /\ refunds[key] # NoAnswer
        /\ UNCHANGED <<refunds, ids, made>>
     \/ /\ refunds[key] = NoAnswer
        /\ HandOut(key, "refund")
        /\ refunds' = [refunds EXCEPT ![key] = [id |-> NewId, status |-> "success"]]
  /\ Respond(c, refunds'[key])
  /\ UNCHANGED <<charges, hooks, told>>

\* Any event for any charge, whatever its status, as often as asked; the goroutine
\* posts it once, at some time.
HandleWebhookTrigger(key, event) ==
  /\ charges[key] # NoAnswer
  /\ hooks' = hooks \cup {[event |-> event, id |-> charges[key].id, key |-> key]}
  /\ UNCHANGED <<charges, refunds, ids, post, made, told>>

\* It arrives or fails; nobody retries it.
HookEnds(h) ==
  /\ h \in hooks /\ hooks' = hooks \ {h}
  /\ UNCHANGED <<charges, refunds, ids, post, made, told>>

MockInit ==
  /\ charges = [k \in Keys |-> NoAnswer] /\ refunds = [k \in Keys |-> NoAnswer]
  /\ ids = 0 /\ post = [c \in Posts |-> Quiet]
  /\ hooks = {} /\ made = {} /\ told = {}

MockNext ==
  \/ \E c \in Posts :
       \/ HangUpCall(c) \/ Receive(c) \/ HandleCharge(c) \/ HandleRefund(c)
       \/ \E kind \in {"charge", "refund"}, key \in Keys, card \in BOOLEAN : Send(c, kind, key, card)
  \/ \E key \in Keys, event \in {"success", "failed"} : HandleWebhookTrigger(key, event)
  \/ \E h \in hooks : HookEnds(h)

MockSpec == MockInit /\ [][MockNext]_mockVars

-----------------------------------------------------------------------------
MockTypeOK ==
  LET Answer == [id : 0..MaxIds, status : {"none", "pending", "failed", "success"}] IN
  /\ charges \in [Keys -> Answer] /\ refunds \in [Keys -> Answer]
  /\ ids \in 0..MaxIds
  /\ post \in [Posts -> [kind : {"none", "charge", "refund"}, key : Keys, card : BOOLEAN,
                         step : {"idle", "sent", "abandoned", "answered"}, answer : Answer]]
  /\ hooks \subseteq [event : {"success", "failed"}, id : 0..MaxIds, key : Keys]
  /\ made \subseteq [kind : {"charge", "refund"}, key : Keys, id : 1..MaxIds]
  /\ told \subseteq [kind : {"charge", "refund"}, key : Keys, answer : Answer]

\* Whatever is sent again, abandoned or answered late, a key is charged once and
\* refunded once, and everybody is told the same of it: what module Gateway
\* assumes of a provider (handleCharge, handleRefund).
KeyedOnce ==
  /\ \A a, b \in made : a.kind = b.kind /\ a.key = b.key => a = b
  /\ \A a, b \in told : a.kind = b.kind /\ a.key = b.key => a = b
  /\ \A a \in told : [kind |-> a.kind, key |-> a.key, id |-> a.answer.id] \in made

\* A webhook names the transaction of the charge it is about, so that the shop, which
\* finds the payment by the metadata or the transaction, finds the same one
\* (handleWebhookTrigger).
HooksNameTheirCharge ==
  \A h \in hooks : [kind |-> "charge", key |-> h.key, id |-> h.id] \in made

\* A key stands for one charge and one refund, in answers and in webhooks.
ChargesKeyed == KeyedOnce /\ HooksNameTheirCharge
===============================================================================

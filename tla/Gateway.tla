------------------------------- MODULE Gateway -------------------------------
(****************************************************************************)
(* The payment provider, an external service, as payment/gateway.go and the *)
(* webhook handler see it.  A charge is idempotent in its key, the payment  *)
(* id: a replayed key gets the first answer again.  A charge answered       *)
(* "pending" or "failed" may be captured later, when the customer finishes  *)
(* on the payment page.  Every change is announced by webhooks that may     *)
(* arrive late, in any order, more than once or never.                      *)
(****************************************************************************)
EXTENDS Payment

VARIABLE gateway  \* what the provider holds for a payment id

\* "captured" at once, or "late", after another answer; both hold the money.
GatewayStates == {"none", "pending", "declined", "captured", "late", "refunded"}

\* The provider took the customer's money for p, returned since or not.
Captured(p) == gateway[p] \in {"captured", "late", "refunded"}

\* The money is still with the shop.
Held(p) == gateway[p] \in {"captured", "late"}

Answers == [none     |-> {"success", "pending", "failed"},
            pending  |-> {"pending"},
            declined |-> {"failed"},
            captured |-> {"success"},
            late     |-> {"pending", "failed"},
            refunded |-> {"success", "pending", "failed"}]

Outcome == [success |-> "captured", pending |-> "pending", failed |-> "declined"]

GatewayCharge(p, answer) ==
  /\ answer \in Answers[gateway[p]]
  /\ gateway' = [gateway EXCEPT ![p] = IF @ = "none" THEN Outcome[answer] ELSE @]

GatewayRefund(p) ==
  /\ Captured(p)
  /\ gateway' = [gateway EXCEPT ![p] = "refunded"]

\* The customer completes a payment that was left pending or declined.
LateCapture(p) ==
  /\ gateway[p] \in {"pending", "declined"}
  /\ gateway' = [gateway EXCEPT ![p] = "late"]

\* The webhook events about p that may be on their way.  A failure announced
\* before a late capture may arrive after it.
Announced(p) ==
  {e \in {"success", "failed"} :
     \/ e = "success" /\ Captured(p)
     \/ e = "failed" /\ gateway[p] \in {"pending", "declined", "late"}}

GatewayInit == gateway = [p \in Payments |-> "none"]

GatewayTypeOK == gateway \in [Payments -> GatewayStates]
==============================================================================

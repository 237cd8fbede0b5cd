--------------------------------- MODULE Sale --------------------------------
(****************************************************************************)
(* What a customer and the shop may rely on, with no threads, payments,     *)
(* jobs or webhooks: each order is one sale that moves through a few        *)
(* phases, and the books either show its money as collected or not.         *)
(* Checkout implements this specification.                                  *)
(****************************************************************************)
CONSTANTS
  Orders,  \* the sales
  Free     \* those that cost nothing

VARIABLES
  phase,      \* absent, open, sold, sent, failed, void or refunded
  collected,  \* the books show that the customer's money was taken
  returned    \* its goods are marked as given back to the stock

vars == <<phase, collected, returned>>

Phases == {"absent", "open", "sold", "sent", "failed", "void", "refunded"}

Move(o, from, to) ==
  /\ phase[o] \in from
  /\ phase' = [phase EXCEPT ![o] = to]

Open(o) ==
  /\ Move(o, {"absent"}, "open")
  /\ UNCHANGED <<collected, returned>>

\* Nothing is sold without its money, except what costs nothing.
Sell(o) ==
  /\ Move(o, {"open"}, "sold")
  /\ \/ collected' = [collected EXCEPT ![o] = TRUE]
     \/ o \in Free /\ UNCHANGED collected
  /\ UNCHANGED returned

Send(o) ==
  /\ Move(o, {"sold"}, "sent")
  /\ UNCHANGED <<collected, returned>>

\* An open sale is given up only while no money was collected; a failed one by
\* its customer, whatever was collected.
Abandon(o) ==
  /\ Move(o, {"open", "failed"}, "void")
  /\ phase[o] = "open" => ~collected[o]
  /\ returned' = [returned EXCEPT ![o] = TRUE]
  /\ UNCHANGED collected

\* Money arrived that the order cannot use.  When not even that could be
\* recorded, the sale fails without it.
Fail(o) ==
  /\ Move(o, {"open", "sold", "void"}, "failed")
  /\ collected' \in {collected, [collected EXCEPT ![o] = TRUE]}
  /\ UNCHANGED returned

\* Money arrives for a sale that stays as it is; never for one still open.
Collect(o) ==
  /\ phase[o] \in {"sold", "sent", "failed", "refunded"}
  /\ ~collected[o]
  /\ collected' = [collected EXCEPT ![o] = TRUE]
  /\ UNCHANGED <<phase, returned>>

\* Only money that was collected is returned, and with it the goods.
Refund(o) ==
  /\ collected[o]
  /\ Move(o, {"sold", "sent", "failed"}, "refunded")
  /\ returned' = [returned EXCEPT ![o] = TRUE]
  /\ UNCHANGED collected

Init ==
  /\ phase     = [o \in Orders |-> "absent"]
  /\ collected = [o \in Orders |-> FALSE]
  /\ returned  = [o \in Orders |-> FALSE]

Next == \E o \in Orders :
  Open(o) \/ Sell(o) \/ Send(o) \/ Abandon(o) \/ Fail(o) \/ Collect(o) \/ Refund(o)

Spec == Init /\ [][Next]_vars
==============================================================================

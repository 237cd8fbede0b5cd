----------------------------- MODULE MCCheckout ------------------------------
(****************************************************************************)
(* Small instances of Checkout for TLC, and what the repository's tests say *)
(* of the pipeline and one instance refutes.                                *)
(****************************************************************************)
EXTENDS Checkout, TLC

\* One unit per order; every order of one customer, or each of its own.
OneUnit   == [o \in Orders |-> 1]
\* One order takes one unit, the others two.
UnevenUnits == [o \in Orders |-> IF o = CHOOSE x \in Orders : TRUE THEN 1 ELSE 2]
OneOwner  == [o \in Orders |-> "customer"]
OwnOwner  == [o \in Orders |-> o]

\* Clients and payment ids are only compared for equality.
Interchangeable == Permutations(Payments) \cup Permutations(Clients)

(****************************************************************************)
(* What the tests say and the code does not keep.                           *)
(****************************************************************************)
\* The units of an order are given back at most once, by its cancellation or by
\* its refund (fulfillment_failed_test.go:191).
RestoredAtMostOnce == \A o \in Orders : restores[o] <= 1

\* A handler that was told of a capture ends only when the money is booked, and
\* otherwise goes on to the compensation: what FinalizeSuccess reports as
\* finalized already, is (payment/service_test.go:500, 1595).
CaptureBookedOrCompensated ==
  [][\A t \in Threads :
       At(t, "finalize") /\ call'[t] = Idle => pstatus'[Pay(t)] \in Recorded]_vars

\* The provider never holds two captured payments for one order
\* (retry_payment_race_test.go:22-23, 113).
ChargedAtMostOnce ==
  \A p, q \in Payments :
    Held(p) /\ Held(q) /\ porder[p] = porder[q] => p = q

\* An order is only marked fulfillment_failed with its captured payment parked
\* for review (fulfillment_failed_test.go:151-152).
FailedIsParked ==
  \A o \in Orders : status[o] = "fulfillment_failed" => Money(o)
==============================================================================

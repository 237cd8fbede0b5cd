--------------------------------- MODULE Review --------------------------------
(****************************************************************************)
(* Reviews (features/review): only who was delivered a product may review   *)
(* it, and once.  Create asks the orders, then the reviews, and inserts in  *)
(* a third statement, so that deliveries, refunds and other reviews come in *)
(* between.                                                                 *)
(****************************************************************************)
EXTENDS Shipping

CONSTANTS
  Buyers,      \* users
  Buyer,       \* orders.user_id
  Goods,       \* products
  Items,       \* the products of each order
  ReviewCalls  \* requests under way at once

ASSUME ReviewAssumption == Buyer \in [PaidOrders -> Buyers] /\ Items \in [PaidOrders -> SUBSET Goods]

VARIABLES
  reviews,    \* the rows of the table
  reviewCall, \* what each request does
  everDelivered \* history: the orders that were delivered, refunded since or not

reviewVars == <<reviews, reviewCall, everDelivered>>

ReviewRows == [user : Buyers, product : Goods, order : PaidOrders]

NoReview == [step |-> "idle", rows |-> {}]

(****************************************************************************)
(* The repositories.                                                        *)
(****************************************************************************)

HasDeliveredOrder(rv) ==
  /\ Buyer[rv.order] = rv.user
  /\ rv.product \in Items[rv.order]
  /\ fulfilment[rv.order] = "delivered"

HasUserReviewed(rv) == \E old \in reviews : old.user = rv.user /\ old.product = rv.product

\* An INSERT: one review of a user and product, by the UNIQUE constraint.
InsertReview(rv) ==
  /\ ~HasUserReviewed(rv)
  /\ reviews' = reviews \cup {rv}

(****************************************************************************)
(* review.Create, and Delete by an administrator.                           *)
(****************************************************************************)
ReviewStep(q, from, to, rv) ==
  /\ reviewCall[q].step = from
  /\ reviewCall' = [reviewCall EXCEPT ![q] = IF to = "idle" THEN NoReview ELSE [step |-> to, rows |-> {rv}]]

AskPurchase(q, rv) ==
  /\ ReviewStep(q, "idle", "purchased", rv)
  /\ HasDeliveredOrder(rv)
  /\ UNCHANGED reviews

AskReviewed(q, rv) ==
  /\ rv \in reviewCall[q].rows
  /\ ReviewStep(q, "purchased", IF HasUserReviewed(rv) THEN "idle" ELSE "checked", rv)
  /\ UNCHANGED reviews

CreateReview(q, rv) ==
  /\ rv \in reviewCall[q].rows
  /\ ReviewStep(q, "checked", "idle", rv)
  /\ InsertReview(rv) \/ (HasUserReviewed(rv) /\ UNCHANGED reviews)

DeleteReview(rv) ==
  /\ rv \in reviews
  /\ reviews' = reviews \ {rv}
  /\ UNCHANGED reviewCall

ReviewInit == reviews = {} /\ reviewCall = [q \in ReviewCalls |-> NoReview] /\ everDelivered = {}

ReviewNext ==
  \/ /\ ShippingNext
     /\ UNCHANGED <<reviews, reviewCall>>
     /\ everDelivered' = everDelivered \cup {o \in PaidOrders : fulfilment'[o] = "delivered"}
  \/ /\ \/ \E q \in ReviewCalls, rv \in ReviewRows :
             AskPurchase(q, rv) \/ AskReviewed(q, rv) \/ CreateReview(q, rv)
        \/ \E rv \in reviews : DeleteReview(rv)
     /\ UNCHANGED <<shippingVars, everDelivered>>

ReviewSpec == ShippingInit /\ ReviewInit /\ [][ReviewNext]_<<shippingVars, reviewVars>>

-----------------------------------------------------------------------------
\* Whoever reviewed a product was delivered it in the order named, by a parcel or on an
\* administrator's word, though that order may have been refunded between the check and
\* the insert, and no one reviewed a product twice, whatever requests overlap
\* (review.Create).
ReviewsAreOfBuyers ==
  \A rv \in reviews :
    /\ Buyer[rv.order] = rv.user /\ rv.product \in Items[rv.order]
    /\ rv.order \in everDelivered /\ (deliveredAt[rv.order] \/ "delivered" \in byHand[rv.order])
    /\ \A other \in reviews : other.user = rv.user /\ other.product = rv.product => other = rv

\* Order, parcel and review agree on what was sent and delivered (shipping, review).
DeliveriesAgree == ShippedTogether /\ DeliveredTogether /\ ReviewsAreOfBuyers
===============================================================================

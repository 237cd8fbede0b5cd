-------------------------------- MODULE Coupon -------------------------------
(****************************************************************************)
(* One coupon: promotions.used_count and its coupon_usages rows, as         *)
(* promotion.Reserve and promotion.Release change them inside the caller's  *)
(* transaction.  The coupon is active and in its window throughout.         *)
(****************************************************************************)
EXTENDS Order, Naturals, FiniteSets

CONSTANTS
  CouponOrders,  \* the orders placed with the coupon code
  Owner,         \* the user who places an order
  MaxUses        \* promotions.max_uses

ASSUME CouponAssumption ==
  /\ IsFiniteSet(Orders)
  /\ CouponOrders \subseteq Orders
  /\ MaxUses \in Nat

VARIABLES
  usedCount,  \* promotions.used_count
  usages      \* the orders that have a coupon_usages row

couponVars == <<usedCount, usages>>

\* ValidatePromotion and ApplyPromotion's WHERE clause, then the unique index
\* coupon_usage_per_user that CreateUsage relies on.
CouponUsable(o) ==
  /\ usedCount < MaxUses
  /\ \A u \in usages : Owner[u] # Owner[o]

ReserveCoupon(o) ==
  /\ CouponUsable(o)
  /\ usedCount' = usedCount + 1
  /\ usages'    = usages \cup {o}

ReleaseCoupon_Always(o) ==
  /\ usages'    = usages \ {o}
  /\ usedCount' = usedCount - 1

\* Release: DeleteUsageByOrderID decides whether there is anything to give back.
ReleaseCoupon(o) ==
  IF o \in usages
  THEN /\ usages'    = usages \ {o}
       /\ usedCount' = IF usedCount > 0 THEN usedCount - 1 ELSE usedCount
  ELSE UNCHANGED couponVars

CouponInit == usedCount = 0 /\ usages = {}

CouponTypeOK == usedCount \in Nat /\ usages \subseteq CouponOrders
==============================================================================

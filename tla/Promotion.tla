------------------------------- MODULE Promotion ------------------------------
(****************************************************************************)
(* One promotion code (features/promotion): its row, its coupon_usages,     *)
(* what the administrator may change, and the discount it gives.  An        *)
(* optional column is a set of at most one value.                           *)
(****************************************************************************)
EXTENDS Order, Integers, FiniteSets

CONSTANTS
  Customers,
  CustomerOf, \* who places each order
  TermSet     \* the terms the administrator may give the code

\* What the columns that an administrator writes may hold.
Column == [kind |-> {"percentage", "fixed_amount"}, value |-> Nat, minAmount |-> Nat,
           maxDiscount |-> SUBSET Int, maxUses |-> SUBSET Int, active |-> BOOLEAN, current |-> BOOLEAN]

Terms == [kind : Column.kind, value : Column.value, minAmount : Column.minAmount,
          maxDiscount : Column.maxDiscount, maxUses : Column.maxUses,
          active : Column.active, current : Column.current]

ASSUME CustomerAssumption == CustomerOf \in [Orders -> Customers]
ASSUME TermsAssumption == TermSet \subseteq Terms

VARIABLES
  terms,      \* every column of the row but used_count
  exists,     \* the row is there
  usedCount,  \* promotions.used_count
  usages      \* the orders that have a coupon_usages row

promotionVars == <<terms, exists, usedCount, usages>>

(****************************************************************************)
(* The domain: pure functions of the row.                                   *)
(****************************************************************************)
\* ValidatePercentageValue, and the positive value the table demands.  An update
\* may set a cap or a limit to any number.
ValidTerms(t) == t.value > 0 /\ (t.kind = "percentage" => t.value <= 100)

\* Floating point is exact here: amounts in cents stay far below 2^46.
Percentage(t, subtotal) == (subtotal * t.value) \div 100

LessOf(a, b) == IF a <= b THEN a ELSE b

\* The cap applies to percentages only; no discount exceeds the subtotal.
ComputeDiscount(t, subtotal) ==
  LET discount ==
        IF t.kind = "fixed_amount" THEN t.value
        ELSE IF t.maxDiscount = {} THEN Percentage(t, subtotal)
        ELSE LessOf(Percentage(t, subtotal), CHOOSE m \in t.maxDiscount : TRUE)
  IN LessOf(discount, subtotal)

\* ValidatePromotion: active, within its dates, not used up, a large enough order.
ValidatePromotion(t, used, subtotal) ==
  /\ t.active /\ t.current
  /\ \A m \in t.maxUses : used < m
  /\ subtotal >= t.minAmount

(****************************************************************************)
(* The repository: one operator per statement.                              *)
(****************************************************************************)
\* The WHERE clause of ApplyPromotion looks at the row as it is then, but not at
\* its value.
CanApplyPromotion ==
  /\ exists
  /\ terms.active /\ terms.current
  /\ \A m \in terms.maxUses : usedCount < m

\* coupon_usage_per_user.
CanCreateUsage(o) == \A u \in usages : CustomerOf[u] # CustomerOf[o]

\* ApplyPromotion and CreateUsage, as one transaction commits them.
UsePromotion(o) ==
  /\ usedCount' = usedCount + 1
  /\ usages' = usages \cup {o}
  /\ UNCHANGED <<terms, exists>>

\* DeleteUsageByOrderID and, when it deleted a row, ReleasePromotion.
UnusePromotion(o) ==
  /\ usages' = usages \ {o}
  /\ usedCount' = IF o \in usages /\ usedCount > 0 THEN usedCount - 1 ELSE usedCount
  /\ UNCHANGED <<terms, exists>>

InsertPromotion(t) ==
  /\ exists' = TRUE /\ terms' = t /\ usedCount' = 0
  /\ UNCHANGED usages

UpdatePromotion_Counts(read, t, n) ==
  /\ terms' = t /\ usedCount' = n
  /\ UNCHANGED <<exists, usages>>

\* Update writes every column, as it was read or as it was changed, except
\* used_count (n is what was read of that).
UpdatePromotion(read, t, n) ==
  /\ terms' = t
  /\ UNCHANGED <<exists, usedCount, usages>>

DeletePromotion ==
  /\ exists' = FALSE
  /\ UNCHANGED <<terms, usedCount, usages>>

PromotionInit ==
  /\ terms \in TermSet /\ ValidTerms(terms)
  /\ exists = TRUE /\ usedCount = 0 /\ usages = {}
===============================================================================

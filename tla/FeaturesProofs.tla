---------------------------- MODULE FeaturesProofs ----------------------------
(****************************************************************************)
(* Theorems about MCFeatures, which composes the features beside the        *)
(* checkout.  Every step of it is a step of one feature, or of two that     *)
(* share state, and stutters in the others, so that the conjunction of      *)
(* their invariants is inductive.                                           *)
(****************************************************************************)
EXTENDS MCFeatures, IdentityProofs, FulfilmentProofs, CorrelationProofs

\* The invariants that the proofs of the features use.
AccountsInv  == IdentityInv /\ SlotsHeld
BasketsInv   == CartInv /\ UnitsInv
StoreInv     == LockInv /\ PromotionInv /\ StockInv /\ StoreTypes
DeliveredInv == ShippingInv /\ ReviewInv

FeaturesInv ==
  /\ AccountsInv /\ BasketsInv /\ StoreInv /\ DeliveredInv
  /\ CatalogInv /\ FeedInv /\ MockInv /\ CorrelationInv

\* Every feature starts in one of its initial states.
LEMMA FeaturesInitInv == FeaturesInit => FeaturesInv
<1>. SUFFICES ASSUME FeaturesInit  PROVE FeaturesInv
  OBVIOUS
<1>1. /\ IdentityInit /\ CartInit /\ StoreInit /\ FeedInit /\ ShippingInit /\ ReviewInit
      /\ CatalogInit /\ MockInit /\ CorrelationInit
  BY DEF FeaturesInit
<1>2. AccountsInv /\ BasketsInv
  BY <1>1, IdentityInitInv, SlotsHeldInit, CartInitInv, AccountsInitInv DEF AccountsInv, BasketsInv
<1>3. StoreInv /\ DeliveredInv
  BY <1>1, StoreInitInv, PromotionInitInv, StockInitInv, StoreTypesInit, DeliveriesInit DEF StoreInv, DeliveredInv
<1>4. CatalogInv /\ FeedInv /\ MockInv /\ CorrelationInv
  BY <1>1, CatalogInitInv, FeedInitInv, MockInitInv, CorrelationInitInv
<1>. QED  BY <1>2, <1>3, <1>4 DEF FeaturesInv

\* Who follows one feature takes its steps, or some of them, and rests in the others.
LEMMA StepsOfParts ==
  ASSUME [FeaturesNext]_featureVars
  PROVE  /\ [IdentityNext]_identityVars /\ [CartNext]_cartVars /\ [StoreNext]_storeVars
         /\ [ReviewNext]_<<shippingVars, reviewVars>> /\ [CatalogNext]_catalogVars
         /\ [FeedNext]_feedVars /\ [MockNext]_mockVars /\ [CorrelationNext]_correlationVars
<1>1. ASSUME NEW r \in Requests, HashStep(r)  PROVE IdentityNext
  BY <1>1 DEF IdentityNext, SessionStep
<1>2. EditTree => CatalogNext
  BY DEF CatalogNext
<1>. QED  BY <1>1, <1>2 DEF FeaturesNext, featureVars, StoreNext

\* So every feature keeps its invariant.
LEMMA FeaturesStepInv == FeaturesInv /\ [FeaturesNext]_featureVars => FeaturesInv'
<1>. SUFFICES ASSUME FeaturesInv, [FeaturesNext]_featureVars  PROVE FeaturesInv'
  OBVIOUS
<1>1. AccountsInv' /\ BasketsInv'
  BY StepsOfParts, IdentityStepInv, SlotsHeldStep, CartStepInv, AccountsStepInv DEF FeaturesInv, AccountsInv, BasketsInv
<1>2. StoreInv'
  BY StepsOfParts, StoreStepInv, PromotionStepInv, StockStepInv, StoreTypesStep DEF FeaturesInv, StoreInv
<1>3. DeliveredInv'
  BY StepsOfParts, DeliveriesStep DEF FeaturesInv, DeliveredInv
<1>4. CatalogInv' /\ FeedInv' /\ MockInv' /\ CorrelationInv'
  BY StepsOfParts, CatalogStepInv, FeedStepInv, MockStepInv, CorrelationStepInv DEF FeaturesInv
<1>. QED  BY <1>1, <1>2, <1>3, <1>4 DEF FeaturesInv

\* And so the invariant holds for good.
LEMMA FeaturesInvariant == FeaturesSpec => []FeaturesInv
BY FeaturesInitInv, FeaturesStepInv, PTL DEF FeaturesSpec

\* The types of every feature's state, in the composition (users, sessions, carts, levels,
\* orders, promotions, shipments, categories, listings, provider and payments).
THEOREM FeaturesTypeOKHolds == FeaturesSpec => []FeaturesTypeOK
<1>1. FeaturesInv => FeaturesTypeOK
  <2>. SUFFICES ASSUME FeaturesInv  PROVE FeaturesTypeOK
    OBVIOUS
  <2>1. IdentityTypeOK /\ ShippingTypeOK /\ CatalogTypeOK /\ FeedTypeOK /\ CorrelationTypeOK
    BY DEF FeaturesInv, AccountsInv, DeliveredInv, IdentityInv, ShippingInv, CatalogInv, FeedInv, CorrelationInv
  <2>2. CartTypeOK
    BY DEF FeaturesInv, BasketsInv, CartInv, CartShape, UnitsInv, AccountsShape, CartTypeOK
  <2>3. StoreTypeOK
    BY StoreTypesEnough DEF FeaturesInv, StoreInv
  <2>4. MockTypeOK
    BY DEF FeaturesInv, MockInv, MockShape, MockTypeOK, PostKinds, Answers
  <2>. QED  BY <2>1, <2>2, <2>3, <2>4 DEF FeaturesTypeOK
<1>. QED  BY <1>1, FeaturesInvariant, PTL

\* What each feature promises by itself it promises in the composition: administrators,
\* hashes, carts, stock and coupons, deliveries, the category tree, pages, charges and the
\* payments they are for.
THEOREM FeaturesKeepTheirParts ==
  FeaturesSpec => [](/\ ActiveAdminExists /\ HashMemoryBounded /\ CartExact
                     /\ ReservedIsHeld /\ PromotionsAddUp /\ NoStockDeadlock
                     /\ DeliveriesAgree /\ TreeKept /\ PagesComplete
                     /\ ChargesKeyed /\ MoneyFindsItsPayment)
<1>1. FeaturesInv =>
        /\ ActiveAdminExists /\ HashMemoryBounded /\ CartExact
        /\ ReservedIsHeld /\ PromotionsAddUp /\ NoStockDeadlock
        /\ DeliveriesAgree /\ TreeKept /\ PagesComplete
        /\ ChargesKeyed /\ MoneyFindsItsPayment
  <2>. SUFFICES ASSUME FeaturesInv
                PROVE  /\ ActiveAdminExists /\ HashMemoryBounded /\ CartExact
                       /\ ReservedIsHeld /\ PromotionsAddUp /\ NoStockDeadlock
                       /\ DeliveriesAgree /\ TreeKept /\ PagesComplete
                       /\ ChargesKeyed /\ MoneyFindsItsPayment
    OBVIOUS
  <2>1. ActiveAdminExists /\ HashMemoryBounded /\ CartExact
    BY HeldSlotsFit DEF FeaturesInv, AccountsInv, IdentityInv, BasketsInv, UnitsInv
  <2>2. ReservedIsHeld /\ PromotionsAddUp /\ NoStockDeadlock
    BY CirclesNeedCoupon
       DEF FeaturesInv, StoreInv, StockInv, PromotionInv, UsagesKept, PromotionsAddUp
  <2>3. DeliveriesAgree
    BY DeliveriesInvIsEnough DEF FeaturesInv, DeliveredInv
  <2>4. TreeKept /\ PagesComplete
    BY FreshMovesKeepTree, FeedInvIsEnough DEF FeaturesInv, CatalogInv, TreeKept
  <2>5. ChargesKeyed /\ MoneyFindsItsPayment
    BY MockInvIsEnough DEF FeaturesInv, CorrelationInv
  <2>. QED  BY <2>1, <2>2, <2>3, <2>4, <2>5
<1>. QED  BY <1>1, FeaturesInvariant, PTL

\* The properties of steps too: a session that a role change ended stays ended and a deleted
\* account stays out; a product leaves a cart by its owner's hand or in an order, and no Add
\* comes between what the order read and what it clears (RevokeTokens, ActiveProfile, Place).
THEOREM FeaturesKeepTheirSteps == FeaturesSpec => RevokedStaysOut /\ NothingLost
<1>1. FeaturesInv /\ [FeaturesNext]_featureVars => [Revokes]_identityVars /\ [GoneStays]_identityVars
  BY StepsOfParts, StepRevokes, StepKeepsGone DEF FeaturesInv, AccountsInv
<1>2. FeaturesInv /\ [FeaturesNext]_featureVars =>
        [\A u \in Owners, p \in CartProducts :
           /\ quantity[u][p] > 0 /\ quantity'[u][p] = 0 =>
                \/ \E r \in CartRequests : Remove(r) \/ Clear(r, u)
                \/ \E r \in CartRequests : Snapped(r, u) /\ cartReq[r].snapshot[p] > 0
           /\ quantity'[u][p] > quantity[u][p] =>
                \/ \E r \in CartRequests : UpdateQuantity(r)
                \/ \A r \in CartRequests : ~Snapped(r, u)]_cartVars
  BY StepsOfParts, LinesAreTaken, RaisedByUpdate DEF FeaturesInv, BasketsInv, Taken, Snapped
<1>. QED  BY <1>1, <1>2, FeaturesInvariant, PTL
          DEF FeaturesSpec, RevokedStaysOut, RoleChangeRevokes, DeletedForGood, Revokes, GoneStays, NothingLost
===============================================================================

------------------------------- MODULE MCFeatures ------------------------------
(****************************************************************************)
(* The features beside the checkout: accounts and sessions, carts, the      *)
(* store's stock and promotion, shipments and the reviews that follow them, *)
(* the catalog, the listings, the mock provider and a payment's charge.     *)
(* They share no state in these models, so each behaviour follows one of    *)
(* them, chosen at the start; the others rest in one of their initial       *)
(* states.  w1 and w2 are the requests, transactions, clerks and editors of *)
(* all of them, so that one symmetry serves them all.                       *)
(*                                                                          *)
(* Some features are followed in parts, to keep the instance small: the     *)
(* store with a stock keeper, with edits of the promotion, or with orders   *)
(* that fail or leave after they were paid, clerks with or without reviews, *)
(* the category tree alone or with a product, and password hashes apart     *)
(* from the changes of accounts.  All products of the carts but one stay on *)
(* sale.                                                                    *)
(****************************************************************************)
EXTENDS Identity, Cart, Store, Review, Catalog, Feed, MockGateway, Correlation, TLC

CONSTANTS
  w1, w2, root, ann, bob, o1, o2, u1, p1, k1,
  MaxPairs,      \* bound on the sessions of one instance
  FewCategories, \* the categories of a tree that several edits share
  ProductCategories  \* the categories of a tree that has products

VARIABLE focus

featureVars == <<focus, identityVars, cartVars, storeVars, shippingVars, reviewVars,
                 catalogVars, feedVars, mockVars, correlationVars>>

FeaturesInit ==
  /\ focus \in {"hashes", "identity", "cart", "stock", "returns", "promotion", "shipping", "reviews", "tree", "catalog", "feed", "provider", "charge"}
  /\ IdentityInit /\ account[bob] = "live" /\ role[bob] = "user" /\ active[bob]
  /\ (focus # "identity" => IsActiveAdmin(root) /\ IsActiveAdmin(ann))
  /\ CartInit /\ published = (IF focus = "cart" THEN CartProducts ELSE {})
  /\ StoreInit /\ (focus # "stock" => leveled = Products /\ available = [p \in Products |-> MaxStock])
  /\ FeedInit /\ (focus # "feed" => listing = "products" /\ Present = {})
  /\ ShippingInit /\ ReviewInit /\ CatalogInit /\ MockInit /\ CorrelationInit

\* While administrators change accounts, nobody tries an address without one, and
\* one account is left alone.
BobStaysAway ==
  /\ \A r \in Requests :
       request'[r].step # "unknown" /\ (request'[r].user = bob => request'[r].step = "idle")
  /\ Cardinality(pairs') <= MaxPairs

\* Edits overlap in trees of three categories; one at a time sees four, or two and
\* a product.
Only(few) ==
  /\ listed' \subseteq few
  /\ \A e \in Editors : editor'[e].step # "idle" => editor'[e].category \in few /\ editor'[e].parent \subseteq few
OneEdits == \E e \in Editors : \A f \in Editors : f = e \/ editor'[f].step = "idle"

\* No charge comes late and no parcel leaves.
AllGoesWell == \A o \in Orders : status'[o] \notin {"fulfillment_failed", "shipped"}

NothingRefunded == \A t \in Transactions : tx'[t].op # "refund"

\* One clerk at a time works beside the reviews, and one of the payments is refunded.
OneClerk == \E c \in Clerks : \A d \in Clerks \ {c} : clerk'[d] = Resting
OneRefund == \E a \in Attempts : \A b \in Attempts \ {a} : refundCall'[b].step = "none" /\ ~provider'[b].refundKey

FeaturesNext ==
  /\ UNCHANGED focus
  /\ \/ /\ \/ focus = "hashes" /\ \E r \in Requests : HashStep(r)
           \/ focus = "identity" /\ IdentityNext /\ BobStaysAway
        /\ UNCHANGED <<cartVars, storeVars, shippingVars, reviewVars, catalogVars, feedVars, mockVars, correlationVars>>
     \/ /\ focus = "cart" /\ CartNext /\ published' \cup {p1} = CartProducts
        /\ UNCHANGED <<identityVars, storeVars, shippingVars, reviewVars, catalogVars, feedVars, mockVars, correlationVars>>
     \/ /\ \/ focus = "stock" /\ (Transact \/ KeepStock) /\ AllGoesWell
           \/ focus = "promotion" /\ (Transact \/ EditPromotion) /\ AllGoesWell /\ NothingRefunded
           \/ focus = "returns" /\ Transact
        /\ UNCHANGED <<identityVars, cartVars, shippingVars, reviewVars, catalogVars, feedVars, mockVars, correlationVars>>
     \/ /\ \/ focus = "shipping" /\ ReviewNext /\ reviews' = reviews /\ reviewCall' = reviewCall
           \/ focus = "reviews" /\ ReviewNext /\ OneClerk
        /\ UNCHANGED <<identityVars, cartVars, storeVars, catalogVars, feedVars, mockVars, correlationVars>>
     \/ /\ \/ focus = "tree" /\ EditTree /\ (Only(FewCategories) \/ (FewCategories \subseteq listed' /\ OneEdits))
           \/ focus = "catalog" /\ CatalogNext /\ Only(ProductCategories) /\ OneEdits
        /\ UNCHANGED <<identityVars, cartVars, storeVars, shippingVars, reviewVars, feedVars, mockVars, correlationVars>>
     \/ /\ focus = "feed" /\ FeedNext
        /\ UNCHANGED <<identityVars, cartVars, storeVars, shippingVars, reviewVars, catalogVars, mockVars, correlationVars>>
     \/ /\ focus = "provider" /\ MockNext
        /\ UNCHANGED <<identityVars, cartVars, storeVars, shippingVars, reviewVars, catalogVars, feedVars, correlationVars>>
     \/ /\ focus = "charge" /\ CorrelationNext /\ OneRefund
        /\ UNCHANGED <<identityVars, cartVars, storeVars, shippingVars, reviewVars, catalogVars, feedVars, mockVars>>

FeaturesSpec == FeaturesInit /\ [][FeaturesNext]_featureVars

Workers == Permutations({w1, w2})

\* root's stored hash takes the most memory that is allowed, bob's far more.
StoredHashes == root :> [memory |-> 4, iterations |-> 3, threads |-> 1]
             @@ ann :> [memory |-> 1, iterations |-> 2, threads |-> 1]
             @@ bob :> [memory |-> 99, iterations |-> 2, threads |-> 1]
OneCurrency == [p \in CartProducts |-> "usd"]
Baskets == o1 :> <<1, 1>> @@ o2 :> <<1, 2>>
Prices == o1 :> 3 @@ o2 :> 2
OfOne == o1 :> u1 @@ o2 :> u1
AmountOff == [kind |-> "fixed_amount", value |-> 2, minAmount |-> 0, maxDiscount |-> {},
               maxUses |-> {}, active |-> TRUE, current |-> TRUE]
Codes == {AmountOff}
TermEdits == {[kind |-> "percentage", maxDiscount |-> {-1}], [value |-> 200]}
BothOrders == o1 :> {p1} @@ o2 :> {p1}
SameId == [a \in Attempts |-> a]
Charges == [k \in Keys |-> 200]

\* The types of every feature's state.
FeaturesTypeOK ==
  /\ IdentityTypeOK /\ CartTypeOK /\ StoreTypeOK /\ ShippingTypeOK /\ CatalogTypeOK
  /\ FeedTypeOK /\ MockTypeOK /\ CorrelationTypeOK
===============================================================================

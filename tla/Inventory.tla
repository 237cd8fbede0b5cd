------------------------------- MODULE Inventory -------------------------------
(****************************************************************************)
(* The stock of every product (features/inventory): one row of              *)
(* inventory_levels each, and one operator per statement of the repository. *)
(* A batch is a function from products to quantities, 0 where the batch     *)
(* does not name the product.                                               *)
(****************************************************************************)
EXTENDS Naturals

CONSTANTS
  Products,   \* ids, compared by ORDER BY
  MaxStock    \* bound on the units of a product on hand

ASSUME ProductsAssumption == Products \subseteq Nat
ASSUME MaxStockAssumption == MaxStock \in Nat

VARIABLES
  leveled,    \* the products that have a row
  available,  \* available_stock
  reserved    \* reserved_stock

inventoryVars == <<leveled, available, reserved>>

Named(batch) == {p \in Products : batch[p] > 0}

\* lockLevels: the rows a batch locks, and the order in which it asks for them.
LevelsOf(batch) == Named(batch) \cap leveled

FirstOf(S) == CHOOSE p \in S : \A q \in S : p <= q

\* AdjustStock: an upsert that sets what is on hand and refuses to go below what
\* is reserved.
AdjustStock(p, n) ==
  /\ p \in leveled => reserved[p] <= n
  /\ leveled' = leveled \cup {p}
  /\ available' = [available EXCEPT ![p] = n - reserved[p]]
  /\ UNCHANGED reserved

Restock(p, n) ==
  /\ p \in leveled
  /\ available[p] + reserved[p] + n <= MaxStock
  /\ available' = [available EXCEPT ![p] = @ + n]
  /\ UNCHANGED <<leveled, reserved>>

\* EnsureLevel: an empty row for a new product, nothing for one that has a row.
EnsureLevel(p) ==
  /\ leveled' = leveled \cup {p}
  /\ UNCHANGED <<available, reserved>>

\* A batch statement changes the rows that pass its condition; the caller fails,
\* and with it its transaction, unless that was every row it named.
ReserveMatches(batch) == \A p \in Named(batch) : p \in leveled /\ available[p] >= batch[p]

ReserveBatch(batch) ==
  /\ available' = [p \in Products |-> available[p] - batch[p]]
  /\ reserved'  = [p \in Products |-> reserved[p] + batch[p]]
  /\ UNCHANGED leveled

ReservedMatches(batch) == \A p \in Named(batch) : p \in leveled /\ reserved[p] >= batch[p]

DeductBatch(batch) ==
  /\ reserved' = [p \in Products |-> reserved[p] - batch[p]]
  /\ UNCHANGED <<leveled, available>>

\* The rows a release changes, the others being left as they are.
Released(batch) == {p \in Named(batch) : p \in leveled /\ reserved[p] >= batch[p]}

ReleaseBatch(batch) ==
  /\ available' = [p \in Products |-> IF p \in Released(batch) THEN available[p] + batch[p] ELSE available[p]]
  /\ reserved'  = [p \in Products |-> IF p \in Released(batch) THEN reserved[p] - batch[p] ELSE reserved[p]]
  /\ UNCHANGED leveled

\* RestockBatch does not count the rows it changed.
RestockBatch(batch) ==
  /\ available' = [p \in Products |-> IF p \in leveled THEN available[p] + batch[p] ELSE available[p]]
  /\ UNCHANGED <<leveled, reserved>>

\* Every product on sale has its row; an unsold one may have none yet.
InventoryInit ==
  /\ leveled \in SUBSET Products
  /\ available \in [Products -> {0, MaxStock}]
  /\ \A p \in Products : p \notin leveled => available[p] = 0
  /\ reserved = [p \in Products |-> 0]
===============================================================================

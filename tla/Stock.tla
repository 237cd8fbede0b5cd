-------------------------------- MODULE Stock --------------------------------
(****************************************************************************)
(* The inventory level of the product the orders are for: every order takes *)
(* Qty[o] units of it.  Each operation is one guarded UPDATE under the row  *)
(* lock lockLevels takes; RowsAffected # 1 is the error its caller sees.    *)
(*                                                                          *)
(* restores counts, per order, how often Restore gave its units back.  It   *)
(* is a history variable: no guard reads it.                                *)
(****************************************************************************)
EXTENDS Order, Naturals

CONSTANTS
  Qty,         \* units an order takes
  StockOnHand  \* units available before the first order

ASSUME StockAssumption ==
  /\ Qty \in [Orders -> Nat \ {0}]
  /\ StockOnHand \in Nat

VARIABLES
  available,  \* inventory_levels.available_stock
  reserved,   \* inventory_levels.reserved_stock
  restores    \* history: how often each order's stock was given back

stockVars == <<available, reserved, restores>>

Reserve(o) ==
  /\ available >= Qty[o]
  /\ available' = available - Qty[o]
  /\ reserved'  = reserved + Qty[o]
  /\ UNCHANGED restores

Deduct(o) ==
  /\ reserved >= Qty[o]
  /\ reserved' = reserved - Qty[o]
  /\ UNCHANGED <<available, restores>>

\* RestockBatch when the units were deducted, ReleaseBatch when they were only
\* reserved; `sold` is the caller's stock_deducted flag.
CanRestore(o, sold) == sold \/ reserved >= Qty[o]

Restore_AlwaysRelease(o, sold) ==
  /\ CanRestore(o, sold)
  /\ available' = available + Qty[o]
  /\ reserved'  = IF reserved >= Qty[o] THEN reserved - Qty[o] ELSE reserved
  /\ restores'  = [restores EXCEPT ![o] = @ + 1]

Restore(o, sold) ==
  /\ CanRestore(o, sold)
  /\ available' = available + Qty[o]
  /\ reserved'  = IF sold THEN reserved ELSE reserved - Qty[o]
  /\ restores'  = [restores EXCEPT ![o] = @ + 1]

StockInit ==
  /\ available = StockOnHand
  /\ reserved  = 0
  /\ restores  = [o \in Orders |-> 0]

StockTypeOK ==
  /\ available \in Nat
  /\ reserved  \in Nat
  /\ restores  \in [Orders -> Nat]
==============================================================================

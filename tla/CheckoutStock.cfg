\* Two orders of different sizes, one handler at a time, any of which may die.
SPECIFICATION Spec
CONSTANTS
  Orders = {o1, o2}
  Payments = {p1, p2}
  Clients = {c1}
  Workers = {w1}
  Sweepers = {s1}
  NoOrder = NoOrder
  NoPayment = NoPayment
  CouponOrders = {o2}
  FreeOrders = {o2}
  Owner <- OneOwner
  Qty <- UnevenUnits
  StockOnHand = 3
  MaxUses = 1
  MaxAttempts = 1
  MaxOverlap = 1
  MaxCrashes = 1
SYMMETRY Interchangeable
INVARIANTS
  StockConserved
PROPERTIES
  ReversalRestoresOnce

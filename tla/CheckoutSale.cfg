\* Two orders, one of them free, that compete for the last use of a coupon.
SPECIFICATION Spec
CONSTANTS
  Orders = {o1, o2}
  Payments = {p1}
  Clients = {c1, c2}
  Workers = {w1}
  Sweepers = {s1}
  NoOrder = NoOrder
  NoPayment = NoPayment
  CouponOrders = {o1, o2}
  FreeOrders = {o2}
  Owner <- OwnOwner
  Qty <- OneUnit
  StockOnHand = 2
  MaxUses = 1
  MaxAttempts = 1
  MaxOverlap = 2
  MaxCrashes = 0
SYMMETRY Interchangeable
INVARIANTS
  CouponExact
PROPERTIES
  ImplementsSale

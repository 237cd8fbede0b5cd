SPECIFICATION Spec
CONSTANTS
  Orders = {o1}
  Payments = {p1}
  Clients = {c1}
  Workers = {w1}
  Sweepers = {s1}
  NoOrder = NoOrder
  NoPayment = NoPayment
  CouponOrders = {}
  FreeOrders = {}
  Owner <- OneOwner
  Qty <- OneUnit
  StockOnHand = 1
  MaxUses = 0
  MaxAttempts = 1
  MaxOverlap = 2
  MaxCrashes = 0
INVARIANTS
  FailedIsParked

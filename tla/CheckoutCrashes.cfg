\* The same with one thread that dies half-way and refund jobs that are retried.
SPECIFICATION Spec
CONSTANTS
  Orders = {o1}
  Payments = {p1, p2}
  Clients = {c1}
  Workers = {w1}
  Sweepers = {s1}
  NoOrder = NoOrder
  NoPayment = NoPayment
  CouponOrders = {o1}
  FreeOrders = {}
  Owner <- OneOwner
  Qty <- OneUnit
  StockOnHand = 1
  MaxUses = 1
  MaxAttempts = 2
  MaxOverlap = 2
  MaxCrashes = 2
SYMMETRY Interchangeable
INVARIANTS
  ReviewHasRefundJob
  CompletedIsRefunded

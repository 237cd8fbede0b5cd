\* One order under the fairness of handlers, River and the sweep.
SPECIFICATION FairSpec
CONSTANTS
  Orders = {o1}
  Payments = {p1}
  Clients = {c1}
  Workers = {w1}
  Sweepers = {s1}
  NoOrder = NoOrder
  NoPayment = NoPayment
  CouponOrders = {}
  FreeOrders = {}
  Owner <- OneOwner
  Qty <- OneUnit
  StockOnHand = 1
  MaxUses = 0
  MaxAttempts = 2
  MaxOverlap = 3
  MaxCrashes = 1
PROPERTIES
  RefundJobsEnd
  PayableEnds

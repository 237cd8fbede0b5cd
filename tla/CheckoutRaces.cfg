\* One order, two payment attempts, two requests racing the refund worker.
SPECIFICATION Spec
CONSTANTS
  Orders = {o1}
  Payments = {p1, p2}
  Clients = {c1, c2}
  Workers = {w1}
  Sweepers = {s1}
  NoOrder = NoOrder
  NoPayment = NoPayment
  CouponOrders = {o1}
  FreeOrders = {}
  Owner <- OneOwner
  Qty <- OneUnit
  StockOnHand = 1
  MaxUses = 1
  MaxAttempts = 1
  MaxOverlap = 3
  MaxCrashes = 0
SYMMETRY Interchangeable
INVARIANTS
  TypeOK
  FlagsMatchStatus
  RecordedNotPayable
  RestoredImpliesReversed
  BooksMatchProvider
  ReviewHasRefundJob
PROPERTIES
  SettledForever

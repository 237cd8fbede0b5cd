\* Two requests at once, of an account, an order, an editor or a clerk.
\* Two orders of one customer compete for two products and one promotion.
SPECIFICATION FeaturesSpec
CONSTANTS
  w1 = w1  w2 = w2  root = root  ann = ann  bob = bob  o1 = o1  o2 = o2  u1 = u1  p1 = p1  k1 = k1
  Users = {root, ann, bob}
  Requests = {w1, w2}
  Slots = 1
  Foreign = Foreign
  Stored <- StoredHashes
  ArgonMemory = 1
  MaxStoredMemory = 4
  MaxIterations = 10
  MaxVersion = 1
  MaxPairs = 1
  Owners = {u1}
  CartProducts = {p1, p2}
  CartRequests = {w1, w2}
  MaxItems = 1
  MaxQuantity = 2
  NoRequest = NoRequest
  OrderKeys = {k1, k2}
  MaxAsked = 2
  Currency <- OneCurrency
  Products = {1, 2}
  MaxStock = 2
  Orders = {o1, o2}
  NoOrder = NoOrder
  Customers = {u1}
  CustomerOf <- OfOne
  TermSet <- Codes
  Transactions = {w1, w2}
  NoTx = NoTx
  Promo = Promo
  Basket <- Baskets
  Subtotal <- Prices
  WithCode = {o1, o2}
  Edits <- TermEdits
  PaidOrders = {o1, o2}
  Clerks = {w1, w2}
  Carriers = {a}
  Buyers = {u1}
  Buyer <- OfOne
  Goods = {p1}
  Items <- BothOrders
  ReviewCalls = {w1, w2}
  Categories = {1, 2, 3, 4}
  CatalogProducts = {p1}
  Editors = {w1, w2}
  FewCategories = {1, 2, 3}
  ProductCategories = {1, 2}
  MaxDrafts = 1
  MaxDepth = 3
  RowIds = {1, 2, 3}
  PageLimit = 1
  MaxTime = 2
  Keys = {k1}
  Amount <- Charges
  Posts = {w1, w2}
  MaxIds = 2
  Attempts = {w1, w2}
  TxnIds = {w1, w2}
  IdOf <- SameId
  Blank = Blank
  Hooks = {h1}
SYMMETRY Workers
INVARIANTS
  FeaturesTypeOK
  ActiveAdminExists HashMemoryBounded
  CartExact
  ReservedIsHeld PromotionsAddUp NoStockDeadlock
  DeliveriesAgree
  TreeKept
  PagesComplete
  ChargesKeyed MoneyFindsItsPayment
PROPERTIES
  RevokedStaysOut NothingLost
CHECK_DEADLOCK FALSE

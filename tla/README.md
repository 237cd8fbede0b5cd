# The service in TLA+

A TLA+ model of this Go service: a shop's API, its background worker, the mock
payment provider it ships, and what they keep in PostgreSQL, in Redis and in
their own memory. The core is the order pipeline: placing an order, charging it,
finalizing or compensating the charge, cancelling, expiring and refunding it.
Around it stand the other features and the platform they run on. TLC checks the
models on small instances; TLAPS proves the safety properties they check, of the
pipeline and of the other parts, for every size. Where the code keeps a property only
under a condition, the theorem names it (section 4).

## 1. Inventory

| component | state | operations that change it | talks to |
|---|---|---|---|
| `checkout` | none | PlaceOrder, RetryPayment, CancelOrder | calls order, payment |
| `order` | `orders` (status, stock_deducted, stock_reversed), items | Place, BeginPaymentAttempt, Mark*, CancelByUser, CancelUnpaid, ChangeStatus, RecoverStale, ExpireStale, finalizeFreeOrder | cart, inventory, promotion, notification; called by payment, shipping, the sweep |
| `payment` | `payments` (status, order, transaction id) | Charge, FinalizeSuccess, CompensateRefund, HandleWebhook, Refund, SettleRefund | provider, order, inventory, promotion, River |
| `inventory` | `inventory_levels` (available, reserved) per product | Reserve, Deduct, Release, Restock (batches), AdjustStock, Restock, EnsureLevel | called inside order and payment transactions; product |
| `promotion` | `promotions`, `coupon_usages` | Reserve, Release, Create, Update, Delete | called inside order and payment transactions |
| `cart` | carts, cart items | Add, UpdateQuantity, Remove, Clear, lock | emptied by order.Place |
| `shipping` | shipments | Create, Deliver, UpdateTracking | moves the order |
| `review` | reviews | Create, Delete | asks order whether the product was delivered |
| `auth`, `user` | users (role, active, deleted, token version), tokens held by clients, hash slots | Register, Login, Refresh, Authenticate, AdminUpdate, UpdateRole, Delete | middleware of every handler |
| `category`, `product` | category tree, products, their stock level | Create, Update, Delete | Redis cache, inventory |
| `notification` | rows, send jobs, unread counter in Redis | Create, MarkRead, MarkAllRead, CountUnread, Send | worker, Redis |
| `wishlist`, listings | one table each | add, remove; pages by cursor and by offset | database |
| `worker` | River's job table; one process | refund and notification jobs, periodic sweep, soft stop | payment, order, notification |
| API server | one process | boot, serve, shutdown | everything |
| provider | charges and refunds by idempotency key | charge, late capture, refund, webhooks | calls HandleWebhook |
| circuit breaker | streak, probe flag, end of the cooldown, per process | Allow, ReportResult | the cache's Redis client |
| read-through cache | entries in Redis, flights in a process | Take, fill, write through, invalidate | category, product, promotion |
| rate limit | windows in Redis, or in the process when Redis is away | Allow | middleware |
| `dashboard`, web, tracing, storage, config | none that matters here | reads, formatting, wiring | |

What is hard: several handlers and jobs work on one row at once; every
transition is a compare-and-set and many callers only *log* its failure; what a
handler decides from is often a row it read without a lock; charges and refunds
happen outside any transaction; webhooks and jobs are late, repeated or lost;
handlers die between two statements; a transaction locks several rows; a cache
is written by who read before and deletes may fail; processes are told to stop
while they work. What makes each part correct:

- order: the flags say what the status implies; an order follows its table;
- payment: the books never claim more than the provider did, money once recorded
  stays so and never belongs to an order that can be paid again, a payment
  under review has a refund job, and money finds the payment it was captured for;
- inventory: no unit is lost, invented or given back twice, and what is reserved is
  what orders hold, unless units are given back on a read of the order that is out of
  date; levels are locked in one order;
- promotion: the count is exact, within its limit, held by live orders only, and
  a discount never passes the subtotal;
- cart: never more lines than allowed, nothing ordered twice; a product leaves by its
  owner or in an order, and no Add is cleared unread;
- shipping and review: order, parcel and review agree on what was delivered, but for
  an order that an administrator sets to shipped or delivered by hand;
- auth and user: an active administrator remains; a revoked session and a deleted
  account stay out; password hashing stays within its memory;
- category and product: references are whole, moves that do not overlap keep a tree;
- notification: each is sent or given up; the unread counter heals;
- worker and server: every job ends, every abandoned order is expired, a process cuts
  nothing short and ends when told to, as soon as the replica has answered;
- cache: staleness is bounded; breaker: one probe per cooldown, and a server
  that answers is used again; rate limit: a flood without Redis is bounded;
- altogether: each order is one sale, sold only for money, refunded only after
  the money was collected.

`PROJECT.json` lists every component with its status, and every hazard at its
line.

## 2. Modules

### The pipeline

| module | models | state |
|---|---|---|
| `Order` | `order/domain/state.go`, `Repository.Apply`, the order row | `status`, `deducted`, `reversed` |
| `Stock` | `inventory` for one product | `available`, `reserved`, history `restores` |
| `Coupon` | `promotion` for one coupon | `usedCount`, `usages` |
| `Payment` | `payments` and its partial unique index | `pstatus`, `porder` |
| `RefundJob` | River's `payment.refund` jobs | `job`, `attempts` |
| `Gateway` | the provider (external) | `gateway` |
| `Checkout` | composes them: the handlers of checkout, order and payment, the refund worker and the sweep | `call`, `crashes` |
| `Sale` | abstract specification | `phase`, `collected`, `returned` |
| `MCCheckout` | instances for TLC, the claims the code does not keep | |

`Order` to `Gateway` hold one operator per repository or queue operation, with
its guard. `Checkout` is where the actions are. A *thread* is a handler or a job
in progress, and `call[t]` is its record: its next step `at`, who runs it `by`,
its arguments and `ded`, `rev`, `sent`, the three facts it remembers of the order
row. One action is one transaction, one autocommitted statement or one call to
the provider.

| code | actions |
|---|---|
| PlaceOrder | PlaceLookup, PlaceCommit / PlaceFails, FinalizeFreeOrder / FreeFails, then Charge |
| RetryPayment | BeginPaymentAttempt, Charge, ReleaseAttempt on error |
| Charge | ChargeLookup, ChargeCreate, ChargeGateway, ChargeFails |
| FinalizeSuccess | FinalizePaid, FinalizeAlready, FinalizeLate, FinalizeFails |
| CompensateRefund | CompensateRefund, CompensateFails |
| CancelOrder | CancelRead, CancelCommit / CancelFails, DropJobs |
| HandleWebhook | WebhookSuccess (then FinalizeSuccess); WebhookFailed, WebhookDropJobs, WebhookCancelRead (then CancelCommit) |
| order.expire-stale | RecoverStale, ExpireRead, ExpireCommit / ExpireSkips |
| ChangeStatus, shipping's moves, Refund | ChangeStatus, Refund |
| payment.refund | RefundStart, RefundGateway / NotRefundable, SettleRead, SettleRefund, RefundDone, RefundFails; RescueJob, CleanJob |

### The features around it

| module | models | state |
|---|---|---|
| `Inventory` | every statement on the levels of several products | `leveled`, `available`, `reserved` |
| `Promotion` | extends Order: the code's terms, validity, discount, usages, administration | `terms`, `exists`, `usedCount`, `usages` |
| `Store` | composes both with the order row of `Order`: Place, FinalizeSuccess, cancellation and refund as transactions that wait for row locks, with a stock keeper and editors | `status`, `deducted`, `reversed`, `discount`, `holder`, `tx`, `editing`; histories `strayed`, `left` |
| `Cart` | cart rows, their lock, and Place's share in them | `quantity`, `cartLock`, `cartReq`, `ordered` |
| `Shipping` | the shipment row and the order it moves | `fulfilment`, `shipment`, `deliveredAt`, `clerk`, history `byHand` |
| `Review` | extends Shipping: the checks before a review, and its insert | `reviews`, `reviewCall` |
| `Identity` | the users row, tokens, the middleware's check, hash slots | `account`, `role`, `active`, `tokenVersion`, `pairs`, `request`, `hashing` |
| `Catalog` | category tree, products, whole-row updates | `listed`, `parent`, `product`, `level`, `editor`, `drafts` |
| `Feed` | cursor pages and offset pages of a list that changes | `rowState`, `created`, `cursor` |
| `MockGateway` | `cmd/mockgateway` and its client | `charges`, `refunds`, `post`, `hooks` |
| `Correlation` | the transaction id: who finds which payment by it | `payRow`, `provider`, `chargeCall`, `hookCall`, `refundCall` |
| `MCFeatures` | one instance of all of them | `focus` |

| code | actions |
|---|---|
| order.Place, FinalizeSuccess, cancelWithReversal / expireOne, SettleRefund (`Store`) | PlaceStart or UpdateStart, LockOrder, LockLevel once per row, UpdateLevels, PriceOrder, LockPromotion, LockUsage, CommitPlace / CommitPay / CommitCancel / CommitRefund; Fails and DeadlockVictim end it; FailOrder and ShipOrder are the other changes of the row |
| inventory and promotion administration | StockKeeper; EditRead then EditWrite, EditAtOnce, AddPromotion, RemovePromotion |
| cart.Add, Update, Remove, Clear, order.Place | AddStart, AddLock, AddCount, AddCommit; ChangeStart, UpdateQuantity; RemoveStart, Remove; Clear; PlaceLookup, PlaceLock, PlaceSnapshot, PlaceOrder; RollbackCart, HangUp |
| shipping.Create, Deliver, UpdateTracking | ReadOrderToShip then CreateCommit; ReadShipment then Deliver or UpdateTracking; ClerkFails |
| ChangeStatus, SettleRefund (`Shipping`) | ChangeStatus, to processing, shipped or delivered; Refund |
| review.Create, Delete | AskPurchase, AskReviewed, CreateReview; DeleteReview |
| auth.Login, Register | LoginRead or RegisterStart, TakeSlot or GiveUp, LoginEnd or RegisterEnd |
| auth.Refresh, the middleware | Refresh, Expire; Authenticate, Answer |
| user.AdminUpdate, UpdateRole, Delete | a *Read* action each, then AdminUpdate, UpdateRole then RevokeTokens, DeleteUser; Abandon when the caller is gone |
| category.Create, Update, Delete | StartCreate or StartUpdate, CheckParent, InsertCategory or UpdateCategory; CountPublished and StartDelete, DeleteCategory; EditFails |
| product.Create, Update, Delete | CreateProduct with EnsureProductLevel; ReadForUpdate, UpdateProduct or UpdateProductFails; DeleteProduct |
| list queries | NextPage, while InsertRow, RemoveRow, ToggleRow happen |
| the mock provider | Send, Receive, HangUpCall (client); HandleCharge, HandleRefund, HandleWebhookTrigger, HookEnds (server) |
| Charge, webhooks and refunds by id (`Correlation`) | CreateRow, SendCharge, UpdateGateway / UpdateGatewayFails, ChargeFinalize / ChargeStops; Capture; ReceiveHook, HookSucceeded, HookFailed, HookStops; RequestRefund, LoadRefund, Return, SettleRefund, RefundStops |

### The platform

| module | models | state |
|---|---|---|
| `CircuitBreaker` | `platform/redis/circuit_breaker.go`, the commands and the clock it meets | `failures`, `probing`, `open`, `remaining`, `cmd`, `age` |
| `ReadThrough` | `platform/cache` for one key, and how its owners write | `row`, `entry`, `flight`, `deleting` |
| `RateLimit` | the local limiter that stands in for Redis | `tracked`, `count`, `left`, `overflow` |
| `Notification` | rows, send jobs and the unread counter | `note`, `counter`, `noteReq`, `sendJob` |
| `Lifecycle` | one process, API or worker, from boot to exit | `phase`, `opened`, `signalled`, `waited`, `task`, `told`, `result` |
| `MCPlatform` | one instance of all of them | `focus` |

`CircuitBreaker` has one action per outcome of its two functions, which hold a
mutex: AllowClosed and AllowProbe (a refused caller changes nothing), Reply,
Cancelled and Failure, and Tick for the clock. `openUntil` is the pair `open`,
`remaining`. `cmd` and `age` are the environment: which commands were allowed and
how long ago. That each of them is reported once, within `Timeout` ticks, is how
go-redis uses a Limiter with the socket timeouts of `app/config.go`.

`ReadThrough` follows a flight: Take, then Hit or Miss, Load, and StoreValue or
StoreAbsent; FlightFails ends it anywhere. The owners of a key write without
telling the cache (WriteOnly), or commit and then delete the key (WriteThrough,
then Invalidate, which may fail). `RateLimit` has the three branches of
`fallbackLimiter.allow`: AllowTracked, AllowNew (with the reclaiming of
expired windows) and AllowOverflow. In `Notification` a Create moves the counter
before its transaction commits (CreateNote, CreateNoteCommit / NoteFails) and a
MarkRead after its statement (MarkRead, MarkReadAdjust), as the Redis decorator
does; Work is the send job. `Lifecycle` opens what RunContext opens in its order
(Open, BootFails), runs requests or jobs, which hold a connection of the primary
(Query, EndQuery) or of the replica (Read, EndRead), and ends by Shutdown, SoftStop,
Drained or TimesOut, CloseLast and Exit; closing a pool, the replica's first, waits
for its connections in use.

`Store` reads an order before its transaction begins (UpdateStart), as the callers of
cancelWithReversal, expireOne and SettleRefund do. What the flags it read say is to be
given back (`Owed`: nothing, a release or a restock) is what it gives back when it
commits. A cancellation ends if its order has left the statuses it may cancel; a refund,
whose failed MarkRefunded is only logged, goes on, and its release leaves out the rows
that have not the units. The histories count both kinds of deviation: `strayed` the units
released on a read that was out of date, `left` those a release could not find.

### Proofs

| module | theorems about |
|---|---|
| `CheckoutProofs` | Checkout: types, then the safety of the pipeline |
| `SaleProofs` | Checkout implements Sale |
| `FulfilmentProofs` | Cart, Store (with Inventory and Promotion), Shipping, Review |
| `IdentityProofs` | Identity, Catalog, Feed |
| `CorrelationProofs` | Correlation, MockGateway |
| `FeaturesProofs` | MCFeatures, the composition that `features` checks |
| `PlatformProofs` | Lifecycle, ReadThrough, Notification, CircuitBreaker, RateLimit, and MCPlatform, the composition that `breaker` checks |
| `CountingTheorems` | finite sums, places in a finite order, induction over subsets and numbers |

Section 4 says what is proved and how.

### Abstractions, and why they lose nothing the properties can tell

- PostgreSQL runs at READ COMMITTED. In `Checkout` a transaction of guarded updates
  only is one action: each row stays locked from its update to the commit, and a
  failed guard stays failed for the rows already locked. Where a transaction
  decides from an unlocked read (SettleRefund) the read and the updates are two
  actions. `Store` takes the same transactions apart, lock by lock, to see
  who waits for whom; there a transaction's writes appear when it commits, since
  nobody else could read or write those rows before.
- A statement that PostgreSQL rejects aborts the transaction. That is a
  *Fails* action, and for the first update of FinalizeSuccess it is
  FinalizeAlready, because the code cannot tell the two apart.
- FinalizePaid tolerates a payment that refuses the update, as the code does.
- Thresholds of the sweep are times, so any order may be old enough. A sweep that
  fails to read is one that has not read yet.
- Listing and cancelling waiting jobs is one step; a job fetched between the two
  would be caught by DropJobs not applying, which is allowed.
- Available, scheduled, retryable and pending jobs are all "available". A job
  is rescued only when no worker holds it: the job timeout is shorter than
  `RescueStuckJobsAfter`.
- `Store` has the order row but no payments, charges or jobs: a refund may start for
  any order that can no longer be paid, and FailOrder stands for a charge that came late
  or could not be booked. What races for an order's status is the subject of `Checkout`,
  what happens to its rows that of `Store`. `Correlation` leaves open whether a captured
  payment still has an order to pay for, and lets the provider take any transaction id
  with a refund, as the mock does.
- A deleted or duplicated row that the database refuses (foreign key, unique
  index, check constraint) is a disabled action or a failed one.
- A flight of the cache stands for every reader that joined it. Time is counted in
  ticks, and histories that measure time stop at a bound on the safe side.
- Amounts (but for the discount), addresses, names, payment URLs and message texts
  are not modelled. The amount check of FinalizeSuccess always succeeds: a payment
  takes its amount from the order it is for.
- An order that asks for a key already used returns the stored order and changes
  nothing, so it is not an action of `Checkout`; `Cart` has the lookup.

## 3. Runs

| run | instance | question |
|---|---|---|
| `races` | 1 order, 2 payments, 2 clients, 1 worker, 1 sweeper, 3 at once | do rows, provider and jobs agree under every interleaving? |
| `crashes` | 1 order, 2 payments, 2 at once, 2 crashes, 2 attempts | does what a dead handler leaves behind stay recoverable? |
| `sale` | 2 orders, 1 payment, a coupon for one use, one order free | does the pipeline implement `Sale`; is the coupon exact? |
| `stock` | 2 orders of 1 and 2 units, 2 payments, one handler at a time, 1 crash | is every unit accounted for? |
| `live` | 1 order, 1 payment, `FairSpec` | do jobs and unpaid orders end? |
| `features` | `MCFeatures`, see below | are the features around the pipeline correct under overlapping requests? |
| `breaker` | `MCPlatform`, see below | do Redis's stand-ins and the processes recover, heal and end? |

The properties are named and explained above their definitions. In `Checkout`,
`FlagsMatchStatus`, `RecordedNotPayable`, `RestoredImpliesReversed`,
`BooksMatchProvider`, `ReviewHasRefundJob`, `CompletedIsRefunded`, `CouponExact`
and `StockConserved` are invariants; `SettledForever` and `ReversalRestoresOnce`
say what a step may never do; `ImplementsSale` is the refinement; `RefundJobsEnd`
and `PayableEnds` are liveness properties.

`features` and `breaker` compose parts that share no state in these models. A
behaviour follows one of them, chosen at the start (`focus`), while the others
rest in an initial state: TLC checks each part's whole state space, and the
number of states is the sum of theirs, not the product.

| property | of | says |
|---|---|---|
| `ReservedIsHeld` | Store | what is reserved is what orders hold, to the unit, but for what was released on an old read of an order and what a refund then could not find |
| `PromotionsAddUp` | Store | the count of uses, the discount and the terms are right, whatever customers and administrators write over each other |
| `NoStockDeadlock` | Store | a circle of waiting transactions always goes through a coupon, where the code does not prevent it: levels alone never close one |
| `CartExact`, `NothingLost` | Cart | within the limit, no unit ordered twice; a product leaves by its owner or in an order, and only an UpdateQuantity adds units to it between what the order reads and what it clears |
| `DeliveriesAgree` | Shipping, Review | order, parcel and review agree on what was sent and delivered, or the status was set by hand, and then there is no parcel for it |
| `ActiveAdminExists` | Identity | administrators who act on each other at once leave one |
| `RevokedStaysOut` | Identity | a role change whose revocation succeeded ends earlier sessions; a deleted account is gone (nothing is said of the role) |
| `HashMemoryBounded` | Identity | all hashes under way fit the slots, whatever stored hashes ask for |
| `TreeKept` | Catalog | no reference to what is gone; a checked move closes no circle and goes no deeper than allowed |
| `PagesComplete` | Feed | who walks a list to its end has seen it all, no row twice |
| `ChargesKeyed` | MockGateway | a key is charged and refunded once and everybody is told the same |
| `MoneyFindsItsPayment` | Correlation | a payment is booked only for its own capture, and refunded only under its own key, with its own id or none |
| `ProbeRunsAlone`, `OnlyProbeCloses`, `Recovers` | CircuitBreaker | one probe at a time, only it closes the breaker, and it does once the server is back |
| `FloodBounded` | RateLimit | what gets through without Redis is bounded, however many callers come |
| `BoundedStaleness`, `AbsentHidesNothing` | ReadThrough | nothing is served that stopped being true longer ago than a flight and a time to live; a placeholder gives way |
| `CounterHeals`, `EveryNoteSent` | Notification | the counter is right or gone one time to live after the last disturbance; each notification is sent or given up |
| `OrderlyExit`, `ExitsAfterSignal` | Lifecycle | nothing is cut short behind its back; a signalled process ends though a task hangs, if the replica answers what it was asked |

**Bounds of the pipeline.** `MaxOverlap` limits the threads busy at once and
`MaxCrashes` those that die; `Payments` limits the attempts of one behaviour,
`MaxAttempts` the attempts of a job (3 in the code: 1 or 2 already reach
discarding and retrying). One order is enough for the races, because orders only
meet in the stock and in the coupon: those runs have two. Two payments reach the
duplicate charge and the unique index; two clients, the worker and the sweeper at
once are each pair of flows and most triples. Clients and payments are
interchangeable in `races` and `crashes` (symmetry; no liveness is checked there).

`stock` runs one handler at a time on purpose. With two, the code itself gives
units back twice (below), so its conservation holds only for handlers that do not
overlap: it covers every sequence of handlers, deaths half-way included. It
says nothing of concurrent ones. For these the theorems of section 4 have the exact
condition, and `Store`, in which two transactions overlap, says how far the
reserved units are off when it is not met (`strayed`, `left`). The available units of
overlapping handlers are counted by no run.

**Bounds of the features.** Two requests, transactions, clerks or editors at once
(interchangeable): every property here is about what one request does between two
statements of another.

- Identity: three accounts, two of them administrators when hashing is not the
  subject, at most one role change of each account and one session held (`MaxVersion`,
  `MaxPairs`). Hashes have a focus of their own, with one slot and stored hashes at the
  bound, below it and far beyond it; while administrators act nobody tries an
  unknown address, and bob's account is left alone (`BobStaysAway`).
- Cart: one owner, two products of which a cart may hold one (`MaxItems`: 1, so that
  the limit is reached at once), up to two units, two order keys, and two units
  put in by a customer altogether (`MaxAsked`); one of the products may go off sale.
- Store: two orders of one customer, two products of two units each, all in both
  baskets, one code. Followed in three parts (`focus`): `stock` with a stock keeper,
  `promotion` with edits of the terms, a negative cap and a percentage of 200 among
  them, and without refunds, and `returns`, where orders also fail and ship, the case in
  which a cancellation and a refund meet.
- Shipping and Review: two paid orders, of one buyer and the same product. `shipping`
  has two clerks and no reviews, `reviews` has reviews and one clerk at a time (`OneClerk`).
- Catalog: edits that overlap see trees of three categories, edits one at a time
  trees of four (deeper than `MaxDepth` 3), and trees of two with a product.
- Feed: three rows, a page of one, three instants of which rows may share one.
- MockGateway: one key, two calls. Correlation: two attempts, one delivery at a
  time, a refund of one of the two (`OneRefund`).

Deadlock is not checked in `features`: several parts simply stop when their
bounds are used up (every order closed, every list walked to its end).

**Bounds of the platform.** The breaker has the constants of the code; a tick is a
second, and 4 of them are the four socket timeouts of the default configuration,
each used up. Three commands are a straggler, a probe and a caller behind it. The
limiter has three callers for two entries, so that the overflow window is used;
the cache two processes, a row that exists or not, times to live of none and of
three ticks against one for a placeholder, with jitter and slow flights; notifications two
rows, two requests and two attempts; the lifecycle two tasks and a timeout of
four ticks, half of it before the soft stop. Deadlock is checked.

**Fairness.** In the pipeline `Continue(t)` is weakly fair: a handler or job runs
on, be it into an error. `RefundStart` is strongly fair per payment because River
fetches waiting jobs in order of age and other jobs may take the worker in between.
`RescueJob`, `RecoverStale` and `ExpireRead` are weakly fair: River's maintenance
and the periodic job run for ever (`worker.go:119-150`). Customers, webhooks and
administrators are not fair. `PayableEnds` has a premise, that customers stop
starting attempts at some time: each attempt takes the order out of the sweep's
reach. Every run of the pipeline checks deadlock; none occurs, although
identifiers and crashes are used up, since an administrator may always ask again
for a refund or a status change.

The breaker's fairness: the clock runs, a command ends within its timeouts, and
somebody uses the cache after a cooldown. `Recovers` has the premise that the
server is back: if probes are sent again and again, some probe is answered (strong
fairness); failures and hang-ups before that are allowed. For notifications only
the worker is fair: it fetches what waits and ends what it runs (`NoteFairness`).
For the lifecycle RunContext goes on, time passes, River cancels at the soft stop,
and the primary ends a query (`statement_timeout`,
`idle_in_transaction_session_timeout`, which `DSN()` sets); requests and jobs themselves
are not fair and may hang for ever. Nor is a read of the replica: `REPLICA_DATABASE_URL`
is used as it is, without these timeouts, a Shutdown that times out cancels no request, and
the replica's pool is closed before the primary's. So `ExitsAfterSignal` has the premise
`ReplicaAnswers`, that no task reads the replica for ever; it holds at once where none is
configured. In `PlatformSpec` these conditions stand together; none of
the fair actions is enabled in a part that rests.

### Where the code disagrees with its tests and comments

| run | what TLC finds |
|---|---|
| `restore_twice` | a cancellation and a refund that both read a fulfillment_failed order give its units back twice |
| `charge_twice` | a retry between the placing and the first charge: the provider captures two payments for one order |
| `failed_unparked` | an order becomes fulfillment_failed while its captured payment stays cancelled |
| `capture_lost` | a failed statement in FinalizeSuccess is taken for "finalized already"; the capture is neither booked nor compensated |
| `straggler_closes` | with timeouts as long as the cooldown, a command from before the trip answers during a probe and closes the breaker |

Each run checks one formula that states what a test or a comment says; `PROJECT.json`
quotes the lines.

Some behaviour is accepted by the code, contradicts nothing it says, and is in
the models: a promotion and a usage row are locked in opposite orders by Place and
Release, so those two may deadlock and the database fails one (`DeadlockVictim`); two moves
of categories that overlap can close a circle (`CheckedMovesKeepTree` is about
moves whose check is still fresh); an UpdateTracking that read the shipment before Deliver puts
"shipped" back into its status column, though not into `delivered_at` or the order
(`DeliveredTogether`); a whole-row update of a product or a promotion undoes what
was written since its read, and an AdminUpdate that read the user before a role was taken
gives the role back; a role change whose revocation fails after it committed ends no
session; units that an UpdateQuantity adds while an order is being placed are cleared
with the cart and not ordered (`NothingLost` excepts them); an administrator may set an
order to shipped or delivered without a shipment (`byHand`), and the parcel of an order
set to delivered can then not be marked any more; a
refund is asked for with an empty transaction id when Charge could not write it, and an
answer of success is believed; cancelling an order removes a refund job that still waits,
and a refund is given up after its last attempt, both with the payment left under review
(`ReviewHasRefundJob` counts such jobs as had).

## 4. Proofs

### The pipeline

The theorems about `Checkout` hold for any number of orders, payments and
threads, any stock, coupon limit, attempts, overlap and crashes. They assume the
named ASSUMEs of the modules: the special values are no members of the sets, the
kinds of threads are disjoint and finite, `Orders` is finite (units are summed and
the coupon is counted), free orders have the coupon, and the bounds are natural
numbers. The two about the units in stock have a premise on the behaviour besides.

`TypeOK` is not inductive: an action writes `porder[Pay(t)]`, so one must know
that a handler past its first steps holds an existing payment of its order.
`Linked == TypeOK /\ RowsLinked /\ CallsLinked` is
(`LinkedInvariant`); `TypeCorrect` follows. Every other proof uses it and goes
the same way: a lemma classifies how one step may change a group of variables
(`OrderStep`, `PaymentStep`, `GatewayStep`, `JobStep`, `CouponStep`), and the
invariant is proved from that classification instead of from 40 actions.

| theorem | rests on |
|---|---|
| `FollowsTransitionTable`: the order rows follow `OrderSpec` | Linked |
| `FlagsInvariant` | OrderStep: the table alone preserves it |
| `SettledForeverHolds` | PaymentStep, OrderStep |
| `InformedInvariant` (CallsInformed) | what a handler was told by the provider stays true |
| `BooksInvariant` | CallsInformed: only an informed handler records |
| `NotPayableInvariant` | CallsInformed, OrderStep |
| `RestoredInvariant` | NotPayable and CallsInformed: SettleRefund restores although MarkRefunded may not apply, but then the order was reversed before |
| `CompletedInvariant`, `ReviewInvariant` | JobStep: a completed job cannot block the insert |
| `CouponCountedInvariant`, `CouponHeldInvariant`, `CouponExactHolds` | CouponStep |
| `OnlyOldReadsLoseUnits`, `OnlyOldReadsRestoreTwice` | the premise `GivesBackUpToDate`; Linked, CallsInformed, NotPayable, Flags, Restored |
| `CheckoutImplementsSale` | all of Linked, CallsInformed, NotPayable, and that no handler writes the status failed |

The refinement maps statuses to phases (`PhaseOf`), "some payment of the order is
recorded" to `collected` and the reversed flag to `returned`.

`StockConserved` is not a theorem of `Spec`: the code breaks it (`restore_twice`). What is
proved is when it can break, whatever overlaps and dies: only by a cancellation, an expiry
or a refund that commits although the order's row changed after it was read.
`GivesBackUpToDate` says that none does, `UpToDate(t)` that what `t` remembers of the row
is the row; in every behaviour of which this is true the account of each unit is kept
(`Spec /\ [][GivesBackUpToDate]_vars => []StockConserved`), and so is
`ReversalRestoresOnce`. The proof: every step changes the account of one order at most, by
what it moves in stock (`StockStep`), and `ConservedMove` adds up; deaths are allowed at
every step, since the handler that follows a dead one reads again. The lemma
`AloneUpToDate` derives the premise from `MaxOverlap = 1`, which is why the run `stock`
needs none.

### The other parts

Each of these theorems is about the part's own specification (`CartSpec`, `StoreSpec`,
`ReviewSpec`, `CorrelationSpec`, `MockSpec`, `IdentitySpec`, `CatalogSpec`, `FeedSpec`,
`LifeSpec`, `CacheSpec`, `NoteSpec`, `LimitSpec`, and the breaker's `Spec`), for any size
of its sets and any constants its ASSUMEs admit. These say that sets a request
chooses from are not empty, that rows of different tables differ
(`Products \cap Orders = {}`), that what an administrator sends fits the columns of a
promotion (`TermsAssumption`, the edits of `StoreAssumption`), and that what is counted or
summed is finite: products, orders, lines of a cart and its order keys, categories, rows of a
list, notifications, callers of the limiter. Hardly any of the properties is inductive
alone; the invariant adds what the requests under way know.

| theorem | inductive invariant, and what it adds |
|---|---|
| `NothingLostHolds` | `CartInv` adds `LocksHeld` and `SnapshotsCover`: a request in its transaction has the cart locked, so that the snapshot an order is made of names every line there is when the cart is emptied, and no Add commits in between |
| `CartExactHolds` | `UnitsInv` adds `RoomKept` (who has counted the lines still has room for his, since the cart is locked) and `SnapshotsAsked` (what is ordered and what a snapshot is about to order were put in) |
| `NoStockDeadlockHolds` | `LockInv` adds `LockedInOrder`: whoever waits for a level holds only lesser ones. In a circle without a coupon everybody waits for a level, and the greatest of these levels is held by somebody who waits for a greater one |
| `PromotionsAddUpHolds` | `LockInv` and `PromotionInv`, which adds `TxKnows`, what a transaction knows at each of its stages (who has the promotion row locked knows that it exists, who holds an order that it is still in the status it asked for), and `PlacesApart`: one placement per customer |
| `ReservedIsHeldHolds`, `NeverOversold`, `OnlyStaleReadsStarve` | `StockInv`, on top of the two before, adds `TxMatched`: from the update of its levels to its commit a transaction has every level of its batch locked, and a placement or a payment finds in them what it is about to move. So a payment, a cancellation or a refund finds all its units among the reserved, unless somebody released units of that product on an old read |
| `DeliveriesAgreeHolds` | `ShippingInv` adds `ReadsHold` (what a clerk has read is of a shipment that exists, and was delivered if it says so) and `HandsLater` (nobody has set an order to what it has yet to become). `ReviewInv` adds that whoever is past the purchase check was delivered the product, which no step undoes (`DeliveredForGood`) |
| `RefundedStaysHomeHolds` | the same `ShippingInv`: a refunded order stays refunded and gets no shipment |
| `MoneyFindsItsPaymentHolds` | `CorrelationInv` adds `OwnIds` (an id on a row or in a job is the provider's for that very charge), `CapturesKnown` (who finalizes knows of a capture) and `RefundsKnown` (a refund key the provider knows is of a captured charge, and a refund that came back, or is booked, is known there) |
| `ChargesKeyedHolds` | `MockInv` adds `BooksAgree` and `AnswersAreKnown`: what was created, told, is being answered or is called back for a key is what the server knows of it |
| `ActiveAdminExistsHolds` | `IdentityInv`; the guard counts the active administrators with their rows locked, so that the last one is refused (`UpdateKeepsAdmin`) |
| `RevokedStaysOutHolds` | `IdentityInv` adds `SessionsDated`: `token_version` counts the role changes, and every token and every row in a request's hands carries the number of its time |
| `HashMemoryBoundedHolds` | `SlotsHeld`: a sum over the requests that hash is at most the slots times the bound that each obeys |
| `NoOrphansHolds` (of `TreeKept`) | types: what keeps the references are the foreign keys of the statements that write, not the checks before them |
| `TreeKeptHolds` | `CatalogInv` adds `FreshWalks`: a check whose tree nobody changed since is still what the walk would find. A circle that the move would close goes through the moved category, and the walk up from the new parent would meet it within `MaxDepth` (`Ring`, `Climbs`) |
| `PagesCompleteHolds` | `FeedInv` adds `Walked`: what was returned is not below the cursor, and what stayed listed was returned or is below it. Which rows are a page, and how many an offset skips, is counted by their places in the order (`Ranks`, `FirstOnes`) |
| `FloodBoundedHolds` | `LimitInv` adds `Accounted`, for every stretch of ticks that ends now: what was let through in it is what the windows begun in it let through, and at most what older windows had room for |
| `CounterHealsHolds` | `NoteInv` adds types only: every step that makes the counter wrong begins a new calm, and none but a recount lengthens the counter's life |
| `OrderlyExitHolds` | `LifeInv` adds `TasksHoldPools` (who runs a query, or a read, keeps its pool from closing) and `ShutdownOrder` (past the soft stop every job left has been told). That the soft stop comes first needs `SoftStopDivisor` of at least 2 (`SoftStopComesFirst`) |
| `BoundedStalenessHolds`, `AbsentHidesNothingHolds` | `CacheInv` adds `RowIsFresh` and `OneEntry`; a flight ages together with its answer and an entry together with what it says |
| `BreakerTypeCorrect`, `ProbesRunAlone`, `OnlyProbesClose` | `AgedOut`: while the breaker is open, every command under way is at least as old as the cooldown |

`ProbesRunAlone` and `OnlyProbesClose` assume `Timeout < Cooldown`, which the code
relies on and does not check (`straggler_closes` is what happens without it). By
`AgedOut` no command is left when a cooldown is over, the probe starts alone, and
while `probing` is set nothing else can report. The margin is one second: the four
timeouts add up to 4 s by default.

Every module's type invariant is proved too (`CartTypeOKHolds`, `StoreTypeOKHolds`,
`IdentityTypeOKHolds`, `CatalogTypeOKHolds`, `FeedTypeOKHolds`, `CorrelationTypeOKHolds`,
`MockTypeOKHolds`, `LimitTypeOKHolds`, `BreakerTypeCorrect`; those of the others are
conjuncts of the invariants above). For the promotion it says more than types: what an
editor read, mixed with what the request names, and wrote back later is a row the table admits.

### The compositions

What the runs `features` and `breaker` check are the compositions, and the theorems carry
over to them. A step of `MCFeatures` is a step of one feature and stutters in the others
(`StepsOfParts`), so that the conjunction of the invariants is inductive:
`FeaturesTypeOKHolds`, `FeaturesKeepTheirParts` (its eleven other invariants) and
`FeaturesKeepTheirSteps`. For `MCPlatform` these are `PlatformTypeOKHolds`,
`PlatformKeepsItsParts` and, assuming `Timeout < Cooldown`, `PlatformKeepsItsSteps`.

### Counting

Sums, places and walks need induction, and no prover here can instantiate the library's
induction over a predicate. `CountingTheorems` states induction for a *set* instead
(`SubsetInduction`, `NumberInduction`: a set of subsets, or of numbers, that has all if
it has the smaller ones), which follows from the well-foundedness of strict inclusion.
From it come the laws of `SumFunctionOnSet` of the community modules (`SumRemove`,
`SumAdd`, `SumUpdate`, `SumBounded` ...: in whatever order `CHOOSE` takes the elements) and
the places of the elements of a finite order (`Ranks`), lemmas that serve the theorems above. Walks up the category tree are
a function of the height (`Up`), which is shown to have its defining equation at every
height.

### Only model-checked

- `RefundJobsEnd`, `PayableEnds`, `Recovers`, `EveryNoteSent`, `ExitsAfterSignal`:
  liveness under fairness and ENABLED are out of the prover's reach.
- The five violation runs: they are counterexamples.

Every other property of the passing runs is the subject of a theorem: of the specification
as it stands, or, for `StockConserved` and `ReversalRestoresOnce`, of its behaviours that
meet `GivesBackUpToDate`, and, for `ProbeRunsAlone` and `OnlyProbeCloses`, for
`Timeout < Cooldown`.

## 5. Not modelled

- `dashboard`: aggregate queries that change nothing.
- Routing, request decoding, tracing, storage, configuration, money formatting and
  slugs: input, output and wiring without state of their own. What a transaction
  means for its statements is built into the actions.
- product: images (stored files; DeleteImage does not invalidate the cached
  product) and the enrichment of reads.
- rate limit: the window in Redis is one script that the server runs; how the
  client's address is found is string handling.
- wishlist: rows of a list that is paged through (`Feed`), and nothing else.
- The LIMIT of a batch of the sweep: any order that is old enough may be next.
- A refund answered with 200 and a status other than success, which SettleRefund does
  not look at: the provider of the models answers 200 only for a refund it made.
- The webhook's signature, the mock's URL filter, payment URLs, names, addresses and
  changes of an e-mail address.

What would come next: a per-order specification that `Store` refines, so that its
transactions and those of `Checkout` are shown to keep one contract.

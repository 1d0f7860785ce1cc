# MyPetMart backend: a TLA+ verification project

This directory holds TLA+ models of the MyPetMart commerce backend (Node.js, Express, Sequelize on MySQL 8.4), the TLC
configurations that model-check them on small instances, and proofs that TLAPS checks for every size of instance. Source
paths below are relative to the repository, whose code is under `src/`.

| File | What it is |
|---|---|
| `Purchase.tla` | the abstract specification: what an order promises the shopper and the shop |
| `OrderPayment.tla` | the core: orders, payments, cancellation refunds, carts, stock, gateway and courier; implements `Purchase` |
| `StockBalance.tla` | what was in stock at first against what is on the shelf and what orders hold |
| `OrderPaymentProofs.tla` | theorems about `OrderPayment`: rows, money and goods; that it implements `Purchase`; its books |
| `Shipment.tla`, `ShipmentProofs.tla` | one parcel: booking, provider actions, tracking and the tracking job, and what they settle; its theorems |
| `BreezeCheckout.tla`, `BreezeProofs.tla` | Breeze one-click checkout: sessions, webhook events, leases, staff, the guard against the standard checkout; its theorems |
| `AfterSales.tla`, `AfterSalesProofs.tla` | returns, reverse pickups, refunds, replacements and cancellations of returns; its theorems |
| `Sums.tla` | lemmas about sums over finite sets, least and greatest members, ranks and quotients, for the proofs that count |
| `Catalogue.tla`, `ProductMedia.tla` | products, variants, SKUs, categories; images, videos, content blocks, object storage and its cleanup |
| `Cart.tla`, `Pricing.tla` | carts of customers and guests; what an order costs and how it may be paid |
| `StorefrontProofs.tla` | theorems about `Cart`, `Pricing`, `Catalogue` and `ProductMedia`, for every size |
| `MCStorefrontProofs.tla` | the same for the instances that the run `storefront` checks |
| `Accounts.tla` | one account: sign-up, codes, sign-in, refresh tokens, reset |
| `Notifications.tla` | mails about milestones: claim, sending, record |
| `Addresses.tla`, `Reviews.tla`, `WelcomePopup.tla`, `Announcements.tla`, `Newsletter.tla` | the smaller contents |
| `SiteProofs.tla` | theorems about accounts, mails and contents |
| `Schema.tla`, `MigrationPlan.tla`, `Migrations.tla` | the tables, the migrations as statements, and the runs of `db:migrate` over them |
| `MC*.tla`, `*.cfg` | finite instances for TLC |
| `PROJECT.json` | components, runs, mutants, the definition-to-source map, findings, hazards, theorems |

Run `tlc -config OneOrder.cfg MCOrderPayment.tla` (or any other `.cfg` with the module of its run) and
`tlapm OrderPaymentProofs.tla` (or another `*Proofs.tla` or `Sums.tla`; from nothing up to six minutes each, `StorefrontProofs`
some fifteen).

## 1. Inventory

The process is a stateless Express server: all shared state is in MySQL rows, all concurrency is between transactions
of concurrent HTTP requests, webhooks and interval jobs, and calls to providers (PayU, Breeze, iThink, R2, mail) are made
between transactions. `src/models/*` hold the services, `src/database/tables/*` the rows they write. Two facts of
Sequelize decide much of what follows: `save` and `update` of an instance write only the columns that differ from the copy
that was read, and a read takes no lock unless the code asks for one.

| Component | State | Talks to | What is hard | What makes it correct | Module |
|---|---|---|---|---|---|
| Order | `orders`, `order_items` | Cart, Payment, Refund, stock | jumps in the status graph; cancellation against a late capture | goods, money and coupon follow the status | `OrderPayment`, `Purchase` |
| Payment: PayU and cash | `payments` | Order, Cart, stock, PayU | the order is read two transactions before the attempt is written; repeated, late, reordered verdicts | one charge per provider; never online and at the door; every capture accounted for | `OrderPayment` |
| Payment: Breeze | `breeze_checkout_sessions`, `breeze_webhook_events` | Cart, Order, Payment | several transactions per event, crash between them, lease expiry | one order per session; an event is applied once and concluded | `BreezeCheckout` |
| Refund | `refunds` | Payment, Order, Return, PayU | request lost before PayU's id is stored; proration; concurrent returns | at most what was captured, once; queued refunds settle | `OrderPayment`, `AfterSales` |
| Return, Replacement, Return shipment | `return_requests`, `replacements`, `return_shipments` | Order, Refund, stock, iThink | concurrent requests for one item; cancellation in two transactions; late answers of iThink | a unit is settled once; what is cancelled here is cancelled there | `AfterSales` |
| Cart | `carts`, `cart_items` | Product, Order | no unique keys; merge against update | one active cart, one line per item | `Cart` |
| Checkout pricing | the order's amounts | Cart, Settings, Product | integer shares of a discount; a setting that changes between preview and order | shares add up; payable by an allowed method | `Pricing` |
| Shipment and tracking job | `shipments`, tracking events | Order, Payment, iThink | provider call between two transactions; scans late or out of order | booked once; no end the courier did not reach | `Shipment` |
| Product, SKU, category | `products`, `product_variants`, `catalog_sku_reservations`, `categories` | Cart, Order | checks made before another request's write; cached stock | a SKU has one owner; what is on sale can be bought | `Catalogue` |
| Media and object storage | `product_images`, `media_assets`, content blocks, R2 | Product | object before row, row before object; the cleanup script | an image in use has its object; one primary | `ProductMedia` |
| Accounts | `users`, `auth_challenges`, `password_reset_tokens`, `auth_sessions` | mail | unlocked reads everywhere but in rotation | a refresh token is exchanged once; what ended stays ended | `Accounts` |
| Notifications | `notification_log` | every service, mail | several reporters of one milestone; death after the claim | a mail leaves at most once, and is true | `Notifications` |
| Address, review, welcome popup, announcement bar, newsletter | their tables | customer, admin | read, then write | one default; vetted texts; one popup; opt-outs hold | five modules |
| Migrations | all tables, `SequelizeMeta` | MySQL | every DDL statement commits on its own | a verified schema is the final one | `Migrations` |
| Coupon, Id sequences | `coupon_redemptions`, `id_sequences` | Order | coupons are retired: older orders still hold them | a held coupon is consumed or released | `OrderPayment` |
| Wishlist, contact, testimonial, settings texts, customers, dashboards, documents, health, seeders, middlewares | | | | | not modelled |

The hazards each of these is exposed to, with the line where each bites and the properties that cover it, are listed in
`PROJECT.json`.

The modules share rows but not their detail. `OrderPayment` sees a parcel as far as it moves goods and cash (none, booked,
moving, delivered); `Shipment` opens the booking and tracking up and sees an order as far as fulfilment writes it;
`AfterSales` starts at a delivered, paid order; `BreezeCheckout` sees the standard checkout of a cart as none, pending or
bought. Each lets the others' writes happen at any time: `BookShipment`, `CourierMoves` and `CourierDelivers` in
`OrderPayment`, `AdminUpdatesOrder` and `AllocateReplacement` in `Shipment`, `StartPayu`, `ConfirmCod` and `PayuSettles` in
`BreezeCheckout`, `StockChanges` in `Cart`, `ProductEligibilityChanges` in `Pricing`, `Advance` in `Notifications`.

## 2. What is modelled

One action is one database transaction, one call to a provider, or one read without a lock that a later step relies on.
A handler is cut wherever a later step uses something an earlier one read; where the last transaction reads everything again
under its locks, the handler is one action. A request between two steps is a record in a variable (`inflight`, `handlers`,
`workers`, `requests`, ...), and may die there. A transaction is atomic; a deadlock of MySQL is a request that failed.

### 2.1 `Purchase`, the abstract specification

One function, `deals`: for each order its stage (absent, open, going, arrived, closed), the money (pending, paid, refunded),
whether the goods are set aside, and whether an operator was told that money came without goods. Its seven actions are what
a shop may do with an order: `Place`, `Buy` (for money, or for cash at the door: the goods are set aside in the same step),
`Owe` (money without goods is flagged), `Overrule` (an operator finds the goods by hand), `Arrive` (what is unpaid is
collected at the door, and only for goods), `Cancel`, `Refund` (only of goods that came back). It is deliberately true to two
things the code does: cancelling a cash deal leaves its goods where they are, and a cancelled order arrives if its parcel was
already underway.

`OrderPayment` implements it: `DealOf(o)` reads the stage off `orders.status` and `cancelled_at`, the money off
`payment_status`, the goods off `held`, the flag off `commerce_exception`. `KeepsPromise == Promise!Spec` is checked by TLC
in `one_order` and proved in `OrderPaymentProofs`. Attempts, transaction ids, dispatches, carts, the coupon and all that the
gateway does are stutters; confirmation is `Buy`, an exception `Owe`, a delivery `Arrive`, a successful refund `Refund`.

### 2.2 `OrderPayment`

| Variable | Code |
|---|---|
| `orders` | `orders` row: status, payment_status, commerce_exception, cancelled_at, the shopper, the cart it came from, its lines, and the status of the coupon redemption it holds |
| `payments` | `payments` row: status, provider, order, whether provider_order_id (the transaction reference) is assigned |
| `refunds` | `refunds` row: status, payment, whether provider_request_id is known |
| `carts` | each shopper's newest cart: a generation number standing for the row id, and status active or ordered |
| `stock` | `products.stock` / `product_variants.stock` |
| `shipments` | how far the courier has the parcel of an order: none, booked, moving, delivered |
| `gateway`, `payout` | the provider's own record of a transaction and of a refund request (external) |
| `inflight` | requests between two of their transactions, with what they remember |
| `held` | history variable: the order's lines were taken from stock and not put back (a confirmed cash order keeps them when it is cancelled: see 3.3) |

A row that does not exist has status `"absent"`; ids are handed out in increasing order, as `allocateNextId` does.

* `initiatePayuCheckout` / `initiateBreezeCheckout` read the order without a lock, create or reuse an attempt
  (`CreatePaymentAttempt`, `ReuseActiveAttempt`, `RejectPaymentAttempt`) and assign the reference
  (`EnsureProviderTransactionId`): three steps with anything in between.
* the cancellation of a paid order commits the refund row (`CancelPaidOrder`) and calls PayU afterwards
  (`DispatchAccepted`, `DispatchRefused`, `DispatchLost`). `RequestDies` ends any such request between two steps.
* `processVerifiedPaymentResult` is one transaction with four outcomes: `RecordDeclined`, `RecordRepeatedCapture` (order
  already paid), `ConfirmPaidOrder`, `FlagPaidOrder` (money kept with a commerce exception). Reconciliation inside other
  handlers is that same action; one that fails is that action not taken.
* `confirmCodOrder`, `performPendingOrderCancellation` and `createOrder` are single actions. Admin `updateStatus` is
  `AdvanceStatus`, `DeliverByHand`, `CancelUnpaidOrder` or `CancelPaidOrder`, by target and payment status.

Left out: a later verdict for a terminal payment, an amount mismatch and an unknown transaction id change no row. A provider
gives one verdict per transaction reference, reported any number of times. Only `LegacyOrders`, orders that exist at the
start, hold a coupon, because new orders take none (`order.service.ts:832`). A cancellation refund is of the whole payment.
`bulkUpdateStatus` takes the same step per order as `updateStatus`, in one transaction.

### 2.3 `Shipment`

| Variable | Code |
|---|---|
| `shipments` | `shipments` row of an order or a replacement: status, what `claimProviderMutation` tells apart in provider_status, whether it has an AWB |
| `orders`, `replacements` | what fulfilment writes of the order, the replacement and its return request |
| `parcels` | the courier (external): how many Add Orders it accepted for a source, and the last scan |
| `handlers` | requests and runs of the job between two transactions |

No transaction is open while iThink is called, so every request is cut around the call: the transaction before it
(`Prepare`, `Claim`) or the plain read (`SelectDue` of the job, `RequestRefresh`); the call (`AddOrder`, `Dispatch`,
`Track`); the transaction after it (`RecordBooking`, `RecordAnswer`, `Ingest`). An answer is acceptance, rejection, or
*uncertain*: the call may or may not have taken effect. `CourierScans` is the courier's own progress, including exceptions,
reattempts, a cancellation of its own, status texts `normalizeIThinkStatus` does not know, and return to origin. Ingestion
updates the order or the replacement and its return request in the same transaction, so in the same action. One assumption:
an Add Order answer that succeeds as a whole but leaves out the shipment's own result, which the client reports as a rejection
(`CREATE_REJECTED`, `ithink.client.ts:176-181`), means that iThink did not book it.

Left out: an AWB is a Boolean; package data, rates and the choice of a courier are the answer `rejected`; a claim that finds
its own marker is a stutter; `last_synced_at` and the list of tracking events decide nothing else.

### 2.4 `BreezeCheckout`

`sessions` are `breeze_checkout_sessions`, `events` are `breeze_webhook_events` with status, attempts and claim, `orders` the
order and payment made for a session, `workers` the webhook requests, job runs and staff retries between two of their
transactions, `standard` what PayU or cash did with the cart. `Payload` says once and for all what each event's authenticated
body is: its class (paid, unpaid, partial, failed, refund, unknown), whether it is cash, its reference and whether
verification holds. A worker claims the event, validates the session, creates the order, records the references, finalizes
the payment and concludes, each in a transaction of its own; it may die before any of them, and its lease may lapse at any
time, so two workers may be inside one event. Left out: the launch status of a session, alerts, backoff intervals (a retry is
possible at any time), the amounts (collapsed into `verified`), and a server without AMOUNT_UNIT, whose handler always dies.

### 2.5 `AfterSales`

Returns, their pickups, refunds and replacements of one delivered order line; `line` chooses once what a behaviour is about
(ids in use, quantity, price, discounts). `courier` is what became of each booking at iThink (`Moves`): a courier may miss the
item and try again, or lose it and deliver it after all; the scan of such an exception makes the shop's row failed, and a
later scan makes it live again. `sent` is a history variable: the address that each courier was given. A booking is prepare, call, record (`BookReverse`, `CreateReverseShipment`,
`RecordBooking`, `MarkFailure`) with the late-cancellation branch (`CancelLateBooking`, `MarkLateCancelled`). A cancellation
checks in one transaction (`CancelLocally` or `RecordIntent`), calls iThink (`CancelAtProvider`) and settles in a second one
(`ReconcileCancellation`), which does not look again at what the first checked. Refunds are prorated and rounded down
(`RefundAmount`). Left out: in_transit and out_for_delivery (as picked up), legacy rows without provider_status, notes,
shipping charges (0). The return window closes at any time (the
step is left out once no return can be requested any more), and PayU answers as it likes.

### 2.6 `Catalogue` and `ProductMedia`

Most handlers of both read and validate outside any transaction and write later: `Begin...(a)` fills `requests[a]` with what
was read, the action without `Begin` writes from it. `drift` is a history variable that remembers whether requests
overlapped or a variant was sold: `PublishedIsSellable`, `CachedStockFollows` and `GalleryIntact` are only promised without
(see 3.3); `SkuOwned` and `OwnObjectStored` always. In `ProductMedia` an upload is authorized, stored by the browser,
completed by a request that checks the object, and may be swept by `scripts/r2-cleanup-orphans` if its key is old and no row
names it; deletion removes the row first and the object in a third step that may fail. A request is assumed to end within
the script's grace period (an hour at least). The id of a removed content block is not used again while an edit of that block is
under way (`FreeRows`: ids are never used twice, and an edit of a row that is gone fails). Left out: prices, slugs, pet types, measurements, positions of variants and
images, features, specifications, FAQs; archived counts as draft.

### 2.7 `Cart` and `Pricing`

No unique key keeps a customer to one active cart, nor a cart to one line per item. What does is the row that a request locks
first: the user's, or the guest's cart. `AddCartItem` and `MergeGuestCartIntoCustomerCart` are one locked transaction;
changing or removing a line and emptying a cart find the cart without a lock (`BeginTouch`) and write later. An item that
cannot be bought has stock 0.

`Pricing` has the arithmetic: the Pay Online discount (percentage in basis points or a fixed amount), its cap that keeps the
payable amount at the minimum, its allocation over lines in whole paise, the payment methods that the lines' products and
the amount allow, and the order's frozen copy of them. The setting and the products change between preview, order and
payment. It is checked for every cart of three lines of 0 to 3 paise.

### 2.8 `Accounts`

A password, a mailed code and a refresh token are their version numbers; a code is usable only once it is in `inbox`. Only
`rotateSession` locks what it read; every other handler is cut between its read and its write. `TimePasses` ends cooldowns and
validity of codes, tokens and sessions (a cooldown is shorter than a validity: 60 s and 600 s). Left out: rate limits,
cookies, hashing, disabled accounts and changed roles (no code writes either).

### 2.9 `Notifications`

After its commit a handler calls the function of the milestone, which reads the entity again, decides whether the milestone
still stands (`due`), claims the mail by inserting into `notification_log` under its unique key (`Claim`), sends it, and
records the outcome; the administrators' mail follows with a claim of its own and one more read (`Build`). `Milestones`
lists the twenty-six milestones with the states in which each still stands. `Advance` moves the entity on at any time, and any handler may
call any function, also one whose milestone was not reached. One caller may stop half-way. Recipients are always known.

### 2.10 Contents

* `Addresses`: every change locks the customer's row, so it is `Begin` (lock and reads) and an operation; the unique key
  counts deleted rows too.
* `Reviews`: a text is the number of times it was written; `vouched` is a ghost for a text an administrator saw when deciding.
* `WelcomePopup`: `Accepted` is the CHECK and the unique key that MySQL applies to every write.
* `Announcements`: the request schema compares the dates of one request (`InOrder`), the service those of its copy of the row
  (`ValidSchedule`); `crossed` remembers overlapping edits.
* `Newsletter`: each operation is one transaction that holds the subscriber's row and sends the mail inside; the
  mail leaves also when the transaction is rolled back afterwards.

### 2.11 `Schema`, `MigrationPlan`, `Migrations`

A table is a set of *parts*: columns, keys, checks and values of enumerations that some migration or probe tells apart.
`Schema` has what the CREATE of each table in `schema-definition.ts` holds; `MigrationPlan` has each of the ninety-one migrations
as its statements with its probes (`IF NOT EXISTS`, `columnExists`, ...); `LeftByRelease` has the databases that earlier
releases created, because the CREATEs are edited along with the migrations. `Migrations` runs `db:migrate`, `db:migrate:down`
and `db:migrate:down:all`: one holder of `GET_LOCK` at a time, statement by statement, recording a migration after its last
statement; a process may die before any statement. Left out: the loss of the lock holder's connection, the production guard
of `down:all`, seeders, and `ALTER` is atomic as in MySQL 8.4.

## 3. What is checked

`CHECK_DEADLOCK FALSE` everywhere: a shop whose orders are all delivered or cancelled, and whose bounded ids are used up,
has nothing left to do.

| Run | Instance | Distinct states | Properties |
|---|---|---|---|
| `one_order` | 1 order with a coupon, 3 payments over PayU, Breeze and cash, 1 refund | 513,878 | CodExcludesOnline, NoDoubleChargePerProvider, RefundLedger, CouponSettled, CapturedMoneyAccounted, CancellationSticks, KeepsPromise |
| `last_unit` | a customer's and a guest's order, 1 unit of stock, 2 payments, 1 refund | 1,346,481 | TypeOK (stock never negative), FulfilmentBacked, StockAccounted, CartSpent |
| `settlement` | 1 order, 2 payments, 1 refund, fairness | 47,358 | CaptureRecorded, QueuedRefundSettles |
| `parcel` | a replacement's parcel, 2 admin requests, 1 run of the job | 502,871 | TypeOK, NoDoubleBooking, RowTruthful, TerminalLostOnlyToSilence |
| `journey` | a cash order's parcel, 1 admin request, 1 run of the job, fairness | 182,382 | DeliverySettlesSource, JourneyEndRecorded |
| `breeze` | 2 sessions of one cart, 2 events (three pairs of payloads), 2 workers, 2 attempts, fairness | 494,165 | OneOrderPerSession, CaptureNotDropped, CrossProviderExclusion, OneSessionPerCart, EventConcluded |
| `after_sales` | one return with two pickups and a refund; three returns of a line of 2 units whose discounts do not divide | 1,163,846 | UnitsSettledOnce, RefundsWithinCapture, CancellationConfirmed, CancelledReturnHasNoPickup, PickupAtCurrentAddress |
| `storefront` | seven instances of four modules (below) | 1,639,712 | SkuOwned, PublishedIsSellable, CachedStockFollows, OwnObjectStored, GalleryIntact, CartsConsistent, PricedAndPaid |
| `site` | eight instances of eight modules (below) | 2,573,955 | SessionsSound, SiteMailsSound, ContentsSound, SchemaSound |

What the properties say is written above each in the modules. Every property has a mutant of the code (a dropped guard, a
stale read, a missing reset; see `PROJECT.json`) under which the same run finds it violated.

The runs `storefront` and `site` drive one instance of several in each behaviour, chosen at the start by the variable
`driven`; the components do not share state, so the behaviours of each instance are exactly those of a run of its own.
`Callers` of `site` are the overlapping requests, administrators or processes of each instance; they are interchangeable in
all of them, hence the symmetry, which is sound for invariants.

### 3.1 Why the bounds are enough to be interesting

* Three payments let an order have a PayU attempt, a Breeze attempt and a cash attempt, or a declined, a retried and a
  repeated one. Two orders and one unit is the smallest instance with a race for stock, a late capture, a restock, and an
  order whose cart is not the cart the shopper has now. One refund is all an order can have.
* A parcel interacts with no other parcel; two admin requests and a run of the job are the smallest number in which two
  requests compete for a claim while a third writes over it.
* Two workers on two events of one session or of two sessions of a cart are enough for a lapsed lease, a contradiction
  between events and a second capture; two attempts for a retry and its exhaustion.
* Three returns of two units: the smallest number in which one too many can be asked for after one was cancelled. Prices
  5 and discounts 1 do not divide by 2, so every rounding occurs.
* Catalogue and media: one long request at a time, and every handler that is a single transaction at any point of
  it. Two variants, two products and three SKUs let a SKU move, be trashed and be asked for again.
* Carts: a customer, a guest, a merge and two requests; three units asked for reach the limit of two.
* Accounts: an address nobody signed up with, a customer, an administrator; two requests, one challenge whose code is sent
  twice and stands one wrong attempt, a reset token, and two sessions that are each refreshed once: enough for a reset
  between the two steps of a sign-in or a sign-out and for a token presented twice. Mails: every kind of entity, two callers,
  two calls. Contents: two overlapping requests over two or three rows. Migrations: a database that is
  empty or at release 35 or 66 (before and after the migrations that restate what CREATEs already have), three commands by
  two processes, one of them dying or throwing once.

### 3.2 Fairness, and why the code justifies it

`OrderPayment` (`FairSpec`, run `settlement`): PayU repeats a webhook until it is answered, and browser return, polling and the
admin check lead to the same handler (`ProcessVerifiedPaymentResult`); the request that committed a refund goes on to call
PayU, though `RequestDies` can prevent it; PayU decides every request it queued; the refund webhook or the admin recheck
records the outcome. Nothing is assumed of shoppers, administrators or couriers.

`Shipment` (`journey`): the interval timer starts the job over and over (`SelectDue`, weakly fair for each shipment, as the
query orders by the oldest `last_synced_at`), and not every run is lost on the way (`Track` and `Ingest` of the job, strongly
fair, because `RequestDies` disables them again and again). Admin requests and the courier are under no fairness.

`BreezeCheckout` (`breeze`): a worker that is alive goes on, and the job's timer marks exhausted events and claims those
that are due. Nothing is assumed of Breeze, buyers or staff, and workers may die. Fairness of a worker that handles an
event begins when the event has arrived: whether Breeze delivers a verdict again that it could not deliver is unknown, and the
code says that those terms are not confirmed (`breeze-webhook.controller.ts:23-30`). The one place that leans on them is
`settlement`, where a Breeze capture, like PayU's, is taken to reach its handler sooner or later.

### 3.3 Statements the code does not keep

Three runs expect a violation; `PROJECT.json` quotes the statement each refutes.

| Run | Statement | What happens |
|---|---|---|
| `lost_refund` | a failed refund call is reconciled later | without PayU's request id, recheck and webhook both do nothing |
| `second_capture` | a different Breeze order id is a second payment event and never merged silently | two captures handled at once are both acknowledged as processed, and one payment is recorded |
| `refund_overtaken` | a return with a refund underway cannot be cancelled | the second transaction of a cancellation does not look again |

More statements are not kept; the models take these steps, and the properties are worded so that they hold with them present.

* Order and stock: cancelling a confirmed cash order leaves its units taken (`order.service.ts:1419`), although the comment above
  says that no stock ever moved for an order cancelled before payment (`:1416`). These units are lost: no shelf counts them and
  no parcel has them. `StockAccounted` calls such orders `Stranded`, leaves them out of the orders that have their goods, and
  says that nothing else loses a unit. Cancelling a paid order puts its units back even if the courier has the parcel, and
  restores stock that an inventory exception never took (`:1450`, the surplus that `StockAccounted` allows); a delivery scan makes a
  cancelled order delivered (`shipment.service.ts:563`, allowed by `CancellationSticks` and by `Arrive` of `Purchase`). `initiatePayuCheckout` does
  not look for a pending Breeze attempt (`payment.service.ts:256`); an attempt cancelled before its reference was assigned
  can still get one and be captured (`order.service.ts:546`).
* Shipment: an unheard answer leaves `provider_status_unknown` with nothing in flight, and the job skips the row for good
  (`shipment.service.ts:739`, excepted by `JourneyEndRecorded`); a run of the job ingests over a claim it selected before
  (`shipment-sync.job.ts:72`); of two refreshes the older answer may be written last.
* Breeze: a capture that arrives after a failure has reached its payment is answered as processed and recorded nowhere
  (NOOP_ALREADY_TERMINAL, `breeze-order-create.service.ts:605`): the payment stays failed and the order unpaid. It takes two
  events of Breeze that contradict each other; `CaptureNotDropped` names the case as `Contradicted` and allows no other.
  A buyer's release and an abandoned-checkout webhook unblock a cart though
  `breeze-attempt-guard.ts:25` says otherwise (`unblocked` in `CrossProviderExclusion`).
* After sales: a retried pickup drops the AWB of the first (`return-shipment.service.ts:399`). The pickup address may be edited
  once the pickup's row is failed, though a courier may still be on the way, to the old address: one whose acceptance was never
  heard (`:451-463`), one whose number was dropped (`:399`), or one who missed the item and tries again (`:93-100`).
  `PickupAtCurrentAddress` speaks of the rows that wait for a pickup and of the courier whose number they hold, and names these
  three as what it does not cover.
* Catalogue and media: a sale decrements the variant and not the product's cached stock (`payment-finalization.service.ts:225`
  against `product.service.ts:1251`); two administrators can retire the last two variants (`product.errors.ts:133`); making the
  primary image primary again leaves none (`product-image.service.ts:191`); an asset can be attached and deleted at once; two
  edits of a block can empty it; objects under `media/` whose deletion failed are never swept.
* Cart: lines added between the order and its payment disappear with the cart.
* Accounts: two overlapping verifications accept one code or reset token twice and count one attempt; two first requests make
  two challenges; a sign-in that overlaps a reset keeps its session (`late` in `CurrentPassword`).
* Notifications: at most once, not at least once; a customer's mail may describe a state the entity left meanwhile.
* Reviews: an approval between the read and the write of an edit leaves the new text approved (`review.service.ts:304`, the
  exception in `ShownIsVetted`). Announcements: two overlapping partial edits can invert the dates (`crossed`). Welcome popup:
  an edit may remove the image of a published popup.
* Migrations: 025 throws on duplicate SKUs after its CREATE and cannot be rerun; a cut of 036 after its first statement is
  recorded incomplete by the rerun (`db:schema:verify` notices); a cut rollback of 083 or 084 is recorded and nothing notices
  (`rollback cut`); 039 throws while legacy shipments exist; 032, 057 and 062 narrow enumerations until 037 and 066; the
  rollbacks of 068 and 070 are empty.

## 4. What is proved

All theorems hold for every value of the constants that satisfies the named assumptions of the modules, all of which TLC
evaluates: ids are natural numbers and some exist, baskets and initial stock are natural quantities, legacy orders are well
formed; in `Shipment`, there is a source, orders are not replacements, admins are not runs of the job; in `StockBalance`, order
ids are finitely many (`FiniteAssumption`: `id_sequences.next_value` is an INT UNSIGNED); in `BreezeCheckout`, the payloads name
sessions and references that exist; in `AfterSales`, returns and refunds are finitely many and something was captured
(`CasesAssumption`: a delivered, paid order); in `MCSite`, ids are positive and finitely many where a sequence hands them out, and
the bounds are natural numbers. The four assumptions of `StorefrontProofs` are hypotheses of its theorems, since one module is about
four components: `CartAssumption` (ids are positive, lines finitely many, a customer is not a guest's cookie), `PriceAssumption`
(amounts and the numbers of a setting are natural), `ShopAssumption` (ids are handed out from 1 up; the initial product and
variants have different SKUs, none of which a copy would generate) and `MediaAssumption` (the keys of uploads and of the gallery
differ, videos are assets). `CartFits`, `PriceFits`, `ShopFits` and `MediaFits` of `MCStorefrontProofs` prove that the constants of
the run satisfy them. Nothing is assumed about how requests overlap.

| Module | Theorem | Statement |
|---|---|---|
| `OrderPaymentProofs` | `TypeCorrect` | `Spec => []TypeOK`, which includes that stock never goes below zero |
| | `CodExcludesOnlineAlways`, `NoDoubleChargeAlways`, `FulfilmentBackedAlways`, `CapturedMoneyAccountedAlways`, `CancellationSticksAlways` | `Spec => []` the property of that name |
| | `RefundedOrderHoldsNoGoodsAlways` | an order with a refund row never holds its goods |
| | `PromiseKept` | `Spec => KeepsPromise`: `OrderPayment` implements `Purchase` |
| | `DealsCorrect` | `Spec => []DealInv`, the invariant it rests on |
| | `RefundLedgerAlways`, `CouponsSettledAlways`, `CartsSpentAlways`, `StockAccountedAlways` | refunds, coupons, carts and stock agree with payments and orders, for any number of each |
| `BreezeProofs` | `OrderMadeOnce`, `CaptureRecordedOrParked`, `ProvidersExcludeEachOther`, `OneWaitingSession` | `OneOrderPerSession`, `CaptureNotDropped`, `CrossProviderExclusion`, `OneSessionPerCart`, whatever the events say and for any number of workers |
| `AfterSalesProofs` | `UnitsSettledOnceAlways`, `RefundsWithinCaptureAlways`, `CancellationConfirmedAlways`, `CancelledReturnHasNoPickupAlways`, `PickupAtCurrentAddressAlways` | the property of that name, for any number of returns, prices and quantities |
| | `ReturnSettledOnce` | a return is settled by at most one refund or one replacement, never both |
| `ShipmentProofs` | `TypeCorrect`, `NoDoubleBookingAlways`, `RowTruthfulAlways`, `DeliverySettlesSourceAlways`, `TerminalLostOnlyToSilenceAlways` | the property of that name, for every number of sources, requests and runs of the job |
| `SiteProofs` | `SessionsSoundAlways`, `SiteMailsSoundAlways`, `ContentsSoundAlways` | the property of that name, for any number of overlapping requests, sessions, codes, mails, addresses, reviews, popups and messages |
| `StorefrontProofs` | `CartsConsistentAlways`, `PricedAndPaidAlways` | `CartsConsistent` of `Cart` and `PricedAndPaid` of `Pricing`, for any number of shoppers, requests, lines and amounts |
| | `SkuOwnedAlways`, `PublishedIsSellableAlways` | `SkuOwned`, `PublishedIsSellable`, `CachedStockFollows` and `PlacesDistinct` of `Catalogue`, for any number of products, variants, SKUs and administrators |
| | `OwnObjectStoredAlways`, `GalleryIntactAlways` | the property of that name of `ProductMedia`, for any number of uploads, images, assets and content blocks |
| `MCStorefrontProofs` | `StorefrontSkuOwned`, `StorefrontPublishedIsSellable`, `StorefrontCachedStockFollows`, `StorefrontOwnObjectStored`, `StorefrontGalleryIntact`, `StorefrontCartsConsistent`, `StorefrontPricedAndPaid` | `Spec => []` the invariant of that name of the run `storefront` |

### `OrderPaymentProofs`: rows, money and goods

The argument has three layers, each an induction that uses the ones before.

1. `TypeOK` is inductive by itself. Confirmation decrements stock under the lock it checked it with, so the difference is
   a natural number.
2. `PaymentInv`. `CodExcludesOnline` alone is not inductive: a COD confirmation only looks for *pending* payments, so it
   must be known that no captured one can exist. That is `CaptureShows` (a capture leaves its order paid or out of
   `pending`), which in turn needs that a refund, which clears `paid`, only happens to an order that has left `pending`
   (`RefundOfCapture`), and that requests in flight refer to rows that exist (`RequestHasRow`). `CodStartsOrder` gives the
   converse, that a pending order has no COD payment. `RowsForward` states once what most actions do (rows only move
   forward), so that only the two actions that insert a payment need an argument of their own.
3. `GoodsInv`. `FulfilmentBacked` alone is not inductive: an administrator may advance a *pending* order that is paid or
   has a COD payment. `GoodsOf` adds that a pending paid order carries an exception and that a parcel is only booked for
   backed orders; `CodHoldsGoods` adds that a COD payment implies goods taken, which the cancellation of a paid order, the
   only step that returns goods, preserves because of `CodExcludesOnline`. `CapturedMoneyAccounted` and
   `RefundedOrderHoldsNoGoods` follow from the same facts and `RefundOfCapture`.

### `OrderPaymentProofs`: the implementation of `Purchase`

To map a handler's step to a step of `Purchase`, more must be known of the rows it finds than its guards say; `DealInv` is that.
A delivery collects money only for goods: a parcel is underway only for an order that is paid or holds its goods
(`DealOfRow`). Goods held by an order that is not paid are owed in cash, by a pending COD payment of an unpaid order
(`HeldIsPaidOrOwed`, `OwedIsUnpaid`), so that a cancellation that is mapped to `Cancel` returns goods exactly when
the deal is paid. A refund is of a cancelled order with no goods (`RefundOfCancelled`), and a verdict exists only for an
online payment (`VerdictIsOnline`), so that a capture never meets an order confirmed for cash. `DealFrame` and
`StepOfNoOrder` dispose of the actions that touch no deal (they stutter); `StepOfOneOrder` reduces the others to the row of
one order; `StepDeals` has one step per action.

### `ShipmentProofs`

1. `BookingInv`. `NoDoubleBooking` alone is not inductive: that a row may be booked again must exclude that a booking is
   under way. `BookingAlone` says that a booking request has a `pending` row to itself until it records its answer; this
   holds because `pending` is left by that request only, and a request that dies leaves it there. `WorkHasAwb` says
   that all other requests work on rows with an AWB, which `RowBooked` keeps apart from the rows that can be booked.
   `BookingFrame` disposes of every action that does not book.
2. `TruthInv`. A row may be written long after its request read the courier's answer, so what requests *remember* must still
   be true: `RequestTruth`. That rests on `StepLater`, that the courier's scan only moves on (a booking finds its parcel
   unscanned because of `BookingInv`), and `TruthLasts`, that moving on makes no recorded end false.
3. `SettleInv` adds to `DeliverySettlesSource` that a replacement with a shipment has its stock, without which a delivery
   would not complete it. `TerminalLostOnlyToSilence` follows from `BookingInv` and `TruthInv`: an accepted cancellation,
   which is written whatever the row says, can only meet a terminal row that says cancelled already.

### `OrderPaymentProofs`: the books

1. `RefundInv`. `RefundLedger` alone is not inductive: the process that commits a refund row calls PayU later and writes what it
   heard, so it must be known that a refund still to be sent is pending (`DispatchIsPending`). That a payment with a refund is
   a PayU capture and stays one comes from `PaymentInv` and `RowsForward`.
2. `BooksInv` is `CouponSettled`, `CartSpent`, and that an order comes from a cart its shopper had by then (`CartIsKnown`), so that
   a cart opened later is never mistaken for the one a sale spends. Declined, repeated and late captures, cash and cancellation
   each meet the coupon in one state only; which one follows from `DealInv`.
3. `StockAccounted` is inductive beside `TypeOK`, `PaymentInv`, `GoodsInv` and `DealInv`. `StockTaken` and `StockReturned` say what
   the two kinds of step that move units do to both sides; `StockForward` disposes of the rest. Units are a sum over the set of
   orders that hold goods. The provers cannot do induction over data, so `Sums` proves what is needed of
   `MapThenSumSet` (adding, removing and changing one summand, monotony, images, a linear bound) from smallest
   counterexamples, a well-founded order on cardinalities and the recursion theorem for functions of the library.

`StockAccounted` has two halves, and the books prove both. `StockBalanced`, which is what is inductive, counts the units of all
orders that hold goods (`Held`). `ClosedIsOwed` says that a cancelled order which holds goods
is still to be paid; it follows the steps of `Purchase` (`PromiseKept`: only cancelling a cash deal leaves its goods where they are), and
with `DealInv` it makes every stranded order one with a pending cash payment (`StrandedIsOwed`). `TotalSplit` then divides the
units of `Held` into those of `Stranded` and those of `Holders`. The bound on the surplus names all refunded orders with any exception and not
only `inventory_unavailable`: an order flagged `inventory_unavailable` may be cancelled and refunded, which puts units on
the shelf that were never taken, and then a capture by the other provider overwrites the exception with
`order_not_confirmable` (`payment-finalization.service.ts:247`) while the shelf is still off.

### `BreezeProofs`

The invariant has two parts. `SessionSound`: a session has made one order exactly if it says it has one, and keeps the standard
checkout off its cart from its start until it is unblocked, through every status in between. `JobSound`: how far a worker is says
what is already committed for the session of its event (an order before `settle`, a recorded capture before `mark`). Two workers may
be inside one event after a lapsed lease; `JobSound` is stable because what it says is never undone. A capture answered as processed
is on its order or the payment of its order is failed (`AnswerIsConcluded`); a payment is failed only if Breeze reported a failure of
the session (`FailedIsReported`), and the two make `CaptureNotDropped`. `CrossProviderExclusion` follows from `SessionSound`; `ClaimedIsStored`
belongs to the typing, because a worker reads its event by id.

### `AfterSalesProofs`

1. `PickupInv` (`PickupSound` of each return) relates the row of a pickup, the booking in flight, the last scan and the courier's own
   record. `CancelledReturnHasNoPickup` needs that a booking which is still owed an answer will find its marker, an AWB, or a
   cancelled return (it then cancels late); `CancellationConfirmed` that a scan says cancelled only if the courier did;
   `PickupAtCurrentAddress` that the address is frozen while the row of the pickup is neither absent nor failed. Its second half, about
   couriers, needs that the address a known courier was sent to is the one in the row; that the courier of a row that failed or is
   booked again is past "booked"; and that a scan never says "booked", so that an old courier cannot make a row scheduled.
2. `SettledInv` (`SettledSound`): what a return's status says of its refund and its replacement; a cancellation in two
   transactions is the one case where an active refund and a cancelled return meet, and then it is in `overtaken`.
3. `UnitsInv`: quantities of returns that hold units never exceed the line; `UnitsSettledOnce` follows, since by `SettledSound` each
   unit that is refunded or replaced belongs to one such return, or to an overtaken one. `MoneyInv`: every refund has the amount
   that its return prorates to, and the payment's status is the sum's. `RefundsWithinCapture` follows by `TotalLinear` of `Sums`:
   each amount is rounded down from the share of a quantity, and the quantities are bounded by `UnitsInv`.

### `SiteProofs`

A behaviour drives one component, so each has an invariant of its own and the theorem combines them.

* `AccountsInv`: `RequestFits` says what each request that is between two steps has read and that it is still there; a sign-in carries the
  present password unless a reset called it late, and a rotation the present version of its session, which only `OneRotation` (the row
  lock) makes stable. `SessionFits` adds that a free id has no history. Without `RowsHaveAccount` a sign-up could meet rows of
  an account that does not exist yet.
* `MailsInv`: how many of a mail have left follows from how far its caller is (`CallFits`), and there is one caller past the claim
  (`OneOwner`, from the unique key). `MailFits` says the same of a mail whose caller is gone.
* `ContentsInv`: `BookInv`, that what a transaction has read of its customer's addresses is still so, because it has the lock;
  `OpinionsInv`, that a review marked as a verified purchase was delivered and that a decision is vouched for; `PopupsInv`, that a popup
  which was complete when a request read it and no longer is was reworked; `BarInv`, that dates are in order unless two edits
  crossed; `LettersInv`, that the link a pending address waits for is newer than its last unsubscription.

### `StorefrontProofs`

* `CartInv`. `CartsConsistent` is not inductive: a request to add inserts a cart or a line because it has found none. `AddFits`
  says that what it found is still so, which `OneAddPerCustomer` (the lock of the user's row) keeps for customers and the lock
  of the cart's row for guests. `UnitsInCarts` is a sum over lines; a merge moves the guest's lines onto the customer's, each to
  a line of its own, so that no unit is counted twice (`TotalMoved` of `Sums`).
* `PriceInv`. A discount is allocated by quotients of products, rounded down, and the remainder is filled from the last line up.
  `QuotientUpTo` bounds each share by its line; `Room` is what the shares leave of the lines, its total is at least the remainder, so
  filling it up ends with the shares adding up to the discount exactly. `ShownFits` says that a preview shows what the present
  setting gives, `OrderAddsUp` that the order's frozen copy adds up whatever the setting has become.
* `NamesInv`. `SkuOwned` needs that reservations are never forgotten, that a generated SKU is reserved by its own row only
  (`OwnNames`) and that ids are handed out in order (`NumberedInOrder`), so that the variants that a copy inserts, numbered from
  the next id on, are free (`CopiesFit`, with the ranks of `RanksDense`). `EditRefers` says that a request which has read a row
  finds it: rows are trashed and never deleted. `PlacesDistinct` follows the orders of the shelf through insertions and
  exchanges.
* `SalesInv`. `PublishedIsSellable` and `CachedStockFollows` are promised until requests overlap. Until then there is one request
  (`EditingAlone`), what it read is what is there (`ReadStands`), and so what it validated is still valid when it writes.
* `ObjectsInv`. An object may be removed only when no row names it. `KeysDistinct` counts deleted rows too, so that removing the
  object of one row never takes another's; `UploadRefers` says that a key which is being attached is stored or named already;
  `CleanupSafe` that the keys the cleanup script holds are too old for any request, and that those an image owns it has read
  as referenced.
* `IntactInv` is to `GalleryIntact` what `SalesInv` is to the catalogue: one request, what it read stands (`UploadStands`), one of
  the live images is primary (`OnePrimary`), and what images, blocks and gallery rows show is live (`AllShown`), hence stored.

### `MCStorefrontProofs`

The run instantiates the components under other names and lets one of them move at a time. For each instance there is a twin
among three instances of `StorefrontProofs`; `Same...` proves, definition by definition, that both describe the same initial states
and steps, `Steps...` that a step of the run is one of the driven instance or a stutter, and `Runs...` that a behaviour of the
run is one of the twin. The theorems then say, of exactly the definitions TLC checks, what the general ones prove.

### Only model-checked

* `CaptureRecorded`, `QueuedRefundSettles`, `JourneyEndRecorded`, `EventConcluded`: liveness; fairness and ENABLED are out of the
  provers' reach.
* `SchemaSound`: a fixed computation over ninety-one concrete migrations from three releases, with nothing left to generalize but
  the number of commands; it is TLC's job, and a proof would unfold every statement of the plan.

## 5. Plan

Done in this order: `OrderPayment` and its theorems, `Shipment` and its theorems, `BreezeCheckout`, `AfterSales`, `Catalogue`,
`ProductMedia`, `Cart`, `Pricing`, `Accounts`, `Notifications`, the contents, `Migrations`, `Purchase` and the refinement; then the
proofs about the books of `OrderPayment`, `BreezeProofs`, `Sums`, `AfterSalesProofs`, `SiteProofs`, `StorefrontProofs` and
`MCStorefrontProofs`.

Left: the row locks of transactions that lock several rows (`bulkUpdateStatus` against finalization; refund finalization against
review of a return). A transaction is one action here, so who waits for whom is not in the models; MySQL ends a deadlock by
failing one of the transactions, which is an action not taken.

## 6. Not modelled, and why

* Pure reads and reports: dashboards, customers, documents, health, testimonials, serviceability.
* Single-row edits without interaction: wishlists (a set under a unique key), contact enquiries, settings other than the Pay
  Online discount, product features, specifications and FAQs, order and return notes, address edits of orders, positions of
  images, variants, categories and announcements.
* Coupon evaluation and reservation: unreachable since coupons were retired (`order.service.ts:832`, `checkout.service.ts:60`);
  administrators can still edit coupons, which nothing applies.
* Alerts of the Breeze reconciliation: reported, read by staff, never acted upon by code.
* Seeders: one that creates the first administrator if there is none.
* Middlewares, routes and configuration: authorization and validation in front of the services, without state.
* Lock waits: a deadlock or a lock timeout is a request that failed; which one fails decides no property here.
* Provider clients, mail server and object store: external, modelled by the outcomes their callers distinguish.

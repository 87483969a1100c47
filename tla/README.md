# A TLA+ verification project for Dupli1

Dupli1 (this repository) is the backend of an online shop for bags: Go services
that talk over HTTP and NATS, each with a Postgres database of its own. This
directory models the services' state and what changes it - stock, orders, checkout,
payments, carts, the catalog, accounts, tokens, profiles, notifications and the
outbox between them - checks the models with TLC, and proves the theorems that
matter most about every part of it with TLAPS. Every safety property that a run checks
is also a theorem; liveness is model-checked only.

## 1. The system

### Parts, their state and their operations

| Part | State it keeps | Operations that change it |
|---|---|---|
| **product / inventory** (`product/pkg/service/inventory_service.go`, `infra/pg/inventory_store.go`) | `stock_items(quantity, reserved)`, `reservations`, `reservation_items`, `products.sold_count` | set and adjust a quantity, reserve, release, commit |
| **product / catalog** (`catalog_service.go`, `product_search_service.go`, `infra/pg/*_store.go`) | masters, products, variants, images, wishlists, views, coupons | staff's edits, uploads, visitors' counts; the listing |
| **order / lifecycle** (`order/pkg/service/service.go`, `payment_consumer.go`, `infra/pg/repository.go`) | `orders`, order items, outbox, idempotency keys | create, mark paid, ship, cancel, expire, cancel for a refund, fulfil |
| **order / checkout** (`order/pkg/service/checkout.go`) | `checkout_sessions` with their lines | start, edit, apply coupon, complete, expire |
| **payment** (`payment/pkg/service/service.go`, `nano_callback.go`, `handler/http.go`) | `payments`, payment cancels, outbox | create (card, bypass), the gateway's answers, fail, cancel and refund |
| **shared / outbox** (`shared/pkg/outbox`) | `published_at`, attempts of outbox rows | drain: list, publish, mark |
| **cart** (`cart/pkg`) | `carts`, `cart_items` | replace, add, remove, clear |
| **auth** (`auth/pkg`) | `users`, refresh tokens, the signing key | sign in, lock, refresh, revoke, manage, delete; the migration at start |
| **shared / JWT** (`shared/pkg/authjwt`) | the cached public keys | validate, refetch |
| **profile** (`profile/pkg`) | profiles, addresses | edit; erase on `user.deleted` |
| **notification** (`notification/pkg`) | Telegram chats, the cached allow list, the bot's offset | subscribe, accept, remove; dispatch events |
| adapters | - | HTTP handlers, wiring, NATS, S3, in-memory stores |

### How the parts interact

* The order service calls the product service over HTTP: `Reserve` when an order
  is created or reinstated, `CommitReservation` when it ships,
  `ReleaseReservation` when it is canceled. There is no transaction across the
  two: each call may be refused, or take effect and lose its reply. Checkout and cart
  ask it for prices, stock and coupons.
* The payment service publishes `payment.succeeded` and `payment.canceled` through
  its outbox and core NATS (at most once, no order between subjects). Every
  replica of the order service has one consumer goroutine per subject, in a queue
  group. A reconcile worker republishes recent `payment.succeeded`; nothing
  republishes `payment.canceled`.
* Every replica of the order service runs a worker that cancels orders whose
  payment window has passed. Staff ship, cancel and fulfil orders over HTTP.
* The notification service turns order events into Telegram messages; auth publishes
  `user.deleted` through its outbox, and the profile service erases on it.
* Every service checks tokens with public keys fetched from auth.

### What is hard

Every handler is a read-modify-write over several calls: it reads a row, calls
other services, and writes the row back. Some writes are guarded
(`UPDATE ... WHERE status = ...`); many are unconditional upserts of the whole row
(`CancelOrder`, `FulfillOrder`, the save of a session, of a payment, a user, an address, a
coupon, a product). Between two steps any other handler can run, any call can fail,
and the process can stop. The payment service calls the gateway inside the
transaction that records a refund. The inventory and cart stores rely on row locks;
several counters are kept beside the rows they count (`reserved`, `sold_count`, views,
wishlist). Caches (public keys, chats) are refreshed by requests that race.
`PROJECT.json` lists these hazards at the lines where they bite.

### What makes each part correct

* *Inventory*: `reserved` equals what the active reservations hold; never more is
  reserved than there is; an active reservation can always be closed; `sold_count`
  equals what was shipped; transactions that overlap behave as if one after another.
* *Order lifecycle*: a pending or paid order keeps its stock; a payment is only
  applied to its own order and in full; what shipped stays shipped and took its
  units once; a refund, and nothing else, undoes a payment; no stock is left
  reserved for nobody; a captured payment is eventually applied.
* *Checkout*: a session ends with one order, the one it shows; what lost the race is
  undone; creates under one key are answered alike.
* *Payment*: the books claim nothing the gateway did not do, and miss no refund but
  those whose answer was lost; no charge goes unnoticed; who was charged is not asked
  to pay again; an order is told of a full refund exactly when there was one.
* *Outbox*: every committed event reaches the broker, at least once, in order and once
  unless a failure explains otherwise.
* *Cart*: concurrent changes of one cart are atomic, and an answer shows a cart there was.
* *Catalog*: rows name rows that exist, counters count, edits that do not overlap stand.
* *Auth, profile, notification*: see the properties in section 3.

## 2. The modules

| Module | Models | Checked by run |
|---|---|---|
| `Inventory` | the inventory's operations, one step per database transaction: the abstract specification of the store | `inventory_tx`, `orders` |
| `InventoryTx` | the same transactions at the granularity of the row locks they take; implements `Inventory` | `inventory_tx`, `shipments` |
| `OrderLifecycle` | the handlers of the order service, a step per call; extends `Inventory` and uses its operations as the product service | `orders`, `one_replica`, `late_payment` |
| `Checkout` | checkout sessions and `CreateOrder` with idempotency keys, a step per call | `checkout` |
| `OrderStores` | the order service's Postgres and in-memory repositories side by side | `office` |
| `Payments` | the handlers of the payment service and NANO, the payment gateway, a step per call | `payments`, `refund_overwritten` |
| `NanoReturn` | the card windows of one payment: signed answers, reasons for refusing them, the page the shopper sees | `shop` |
| `EventFeed` | what an outbox promises: an event stays until the broker took it | `outbox` |
| `Outbox` | drainers that list, publish and mark; implements `EventFeed` | `outbox` |
| `CartStore` | the atomic store of carts, as the in-memory repository is one | `shop` |
| `Cart` | the cart's handlers and Postgres transactions, a step per statement and lock; implements `CartStore` | `shop` |
| `Catalog` | masters, products, variants, stock rows, with foreign keys and unique indexes | `office` |
| `ProductRows` | one product's rows under staff, visitors, shipments and uploads | `shop` |
| `Search` | the listing in Postgres and in memory, and a client that turns pages | `office` |
| `Coupons` | create, edit, delete, redeem | `office` |
| `Accounts` | accounts under logins, staff, boot syncs; lockout, rank, deletion | `office` |
| `Sessions` | refresh tokens: login, rotation, logout, lost answers | `shop` |
| `Keys` | auth's signing key over its restarts and one service's cached keys | `office` |
| `Migration` | auth's database migration by starts that race, stop and repeat | `office`, `user_managers` |
| `Profile` | the address book, its default, the profile's fields, the erasure | `office` |
| `Subscriptions` | the table of Telegram chats and its repository | with the next two |
| `TelegramBot` | the poller and the processor that registers chats | `office` |
| `Alerts` | the dispatcher and the cached list of chats | `office` |
| `ShopMC`, `OfficeMC` | instances of the components above that have no run of their own | `shop`, `office` |
| `InventoryTxMC`, `OrderLifecycleMC`, `PaymentsMC`, `CheckoutMC`, `OutboxMC`, `MigrationMC` | instances for TLC | |
| `InventoryProofs` | theorems about `Inventory` | |
| `InventoryTxProofs` | `InventoryTx` implements `Inventory`; only shipments deadlock | |
| `OrderLifecycleProofs` | types of `OrderLifecycle`, that it uses stock only through `Inventory`, that an open order keeps its stock, who paid for what, how a status may move, what ships, and what becomes of every reservation | |
| `CheckoutProofs` | sessions and their orders, the losers of a race, answers under one key | |
| `PaymentsProofs` | the payment service's books against the gateway's | |
| `OutboxProofs` | `Outbox` implements `EventFeed`; order and repetition are explained | |
| `ShopProofs` | the components of `ShopMC`: tokens, the answers of the card gateway, the rows of a product, the cart, which implements `CartStore` | |
| `OfficeProofs` | the components of `OfficeMC`: accounts, keys, the migration, the chats and the bot, coupons, the address book, the catalog, the listing, the two order stores | |

Operators whose comment says "gone wrong" are variants of a definition with a
plausible bug. No specification uses them. Each was substituted for the
definition beside it, to see that the property it is aimed at notices. `PROJECT.json` lists
one per property under `mutants`; where a property has several parts the other
variants break the other parts.

### Conventions

Handlers are records in a function from goroutines or requests (`handlers`, `req`,
`job`): `pc` is the next call, the other fields are what the handler has read, its
**copy**. The first step reads; each further step is one call to the database, to
another service or to the broker, in the code's order. A save writes the whole copy
where the code upserts and only the columns of the statement where it is guarded, so
what is lost by a stale copy is lost in the model. Variables marked *history* are read
by no guard; they let a property name the exact circumstance under which the code may
fall short (overlap, a lost answer), instead of switching it off.

### `Inventory`: the store

`stock` has a record per `stock_items` row, `reservations` a record per reservation
(with its lines as a function from sku to units: `resolveReservationItems` merges
lines that name one sku twice), `sold` is `products.sold_count`. The quantity column
is bounded by `MaxQuantity`; an adjustment past it is the error of the `UPDATE`.
Each action is a service operation together with its store method, e.g.
`CommitReservation` is `closeReservation` + `FinalizeReservation` with
`countSold`. Releasing or committing a reservation that is not active is an
error and no step. `UnitsOf` counts units as the cardinality of a set of (sku,
number) pairs, which stands for `SUM(quantity) ... GROUP BY product_id` and can be
reasoned about with the finite-set theorems. Stock rows go only with the deletion of
their product; `Inventory` speaks of the time without one, `Catalog` has it.

### `InventoryTx`: its transactions

A transaction is a record: the operation, its lines, the rows still to be locked
(`route`, in the code's order: reserve locks stock rows by sku id and then draws the
id; release and commit lock the reservation row, the stock rows by sku id and, for a
commit, the parent products in whatever order the plan visits them), and the rows
`held`. `Lock` takes the next row once nobody holds it and makes the check the code
makes on it; a failed check rolls back. A transaction's writes are invisible to
others until `COMMIT` and touch only rows it holds, so they are applied by the commit
step. `Rollback` may happen at any time; `DetectDeadlock` is Postgres breaking a wait
cycle. `Cart` is built the same way.

### `OrderLifecycle`: the handlers

| Code | Steps |
|---|---|
| `CreateOrder` | `BeginCreate`, `CallReserve`, `SaveCreated`, on error `CallRelease` |
| `MarkOrderPaid`, order pending | `BeginPay`, `Reread`, `Persist`; if the status changed, `Reconcile`, `CallReserve`, `PersistAgain` |
| `MarkOrderPaid`, order canceled | `BeginPay`, `CallReserve`, `Persist`, ... |
| `ShipOrder` | `BeginShip`, `CallCommit`, `ShipIfPaid` |
| `CancelOrder` | `BeginCancel`, `SaveCanceled`, `CallRelease` |
| `FulfillOrder` | `BeginFulfil`, `SaveFulfilled` |
| expiry worker | `Expire`, `CallRelease` |
| `payment.canceled` | `CancelForRefund`, `CallRelease` |

The payment service is the environment: `Capture` makes a payment succeed, which
from then on is delivered any number of times (the reconcile worker); `Refund`
refunds it, whose one event may be consumed in vain, published twice by the
outbox, or lost. Faults are switched on per run with `Faults`:

* `"refused"` - a call fails and has no effect;
* `"lost"` - a call to the product service takes effect and its reply is lost; a
  `payment.canceled` is lost;
* `"unacked"` - a `COMMIT` of the order database takes effect and its reply is lost;
* `"crash"` - a handler stops between two steps.

Merged or left out, each because no other behaviour results: the first, unlocked
read of `cancelExpiredPendingOrder` and `CancelOrderForRefund`, whose guarded
`UPDATE ... RETURNING` repeats the test and supplies the row that is used; deliveries
that change nothing (`BeginPay`'s comment lists them); a read that fails, which ends
the handler like a return; the retry loop inside the product client, whose
repetitions are covered by a lost reply followed by another attempt.

### `Checkout`: sessions and creates

A session is read (`GetCheckoutSession` and the ownership check), changed in memory after calls to
the product service, and saved whole; a completion prices the lines again, redeems the coupon anew,
reserves, saves an order, claims the session by `UPDATE ... WHERE status = 'open'`, and
cancels its order if another was faster. A direct create may carry an idempotency key,
whose row is inserted with the order. `late` holds the sessions whose time has passed,
which happens at any moment.

### `Payments` and `NanoReturn`: money

| Code | Steps in `Payments` |
|---|---|
| `CreatePayment` (card, bypass) | `BeginCreate`, `Insert` |
| `CreatePayment` retried, `CompletePayment` | `BeginRetry`, `Reload`, `SaveSucceeded` |
| `HandleNanoResult` | `ReceiveApproval`, `SaveSucceeded`; `ReceiveDecline`, `SaveFailed` |
| `CancelPayment` | `BeginCancel`, `CallRefund`, `CommitCancel`; a bypass payment skips the second |
| `nanoCheckout` | `OpenCheckout` |

A cancel owns its row from `BeginCancel` to its end (`Locked`): other cancels cannot
begin and other saves wait, but the other handlers' reads do not. `opened`, `charged` and
`returned` are NANO's own books. NANO refunds what it is asked for if it still holds
that much, and may or may not say what remains; `Reconciled` is the clamping of that
answer. `NanoReturn` looks at one payment from the shopper's side: several windows, the
signed binding of each in its `receiveUrl` and its expiry, the return through the
browser and the webhook, two handled at once, why an answer is refused, and the page
the shopper gets.

### `Outbox` and `EventFeed`

A drainer is the worker's ticker or the call after a write; drainers of all replicas
run at once and lock nothing. `broker` says whether one is configured: without it rows are
marked and nothing is published. A failed publish is recorded, and the next row's turn
comes. The refinement maps a row's `published_at` and what the broker took.

### `OrderStores`, `Search`: two stores side by side

Every service test runs on the in-memory stores. The modules give both stores the same
calls with the same, possibly stale, copies and compare what they hold and answer. Three
differences are part of the model and stated in the properties: `ShipIfPaid` in memory
keeps the whole copy, a session over its time is completed by Postgres only, and a
row's payment may then differ once it is shipped.

### `ShopMC`, `OfficeMC`

The components they hold share no state, so one of them, `which`, runs in each
behaviour: the states explored are the sum of the components', not the product, and
what holds of one of them would hold if all ran. Every property is of the form
`which = ... => ...`, or groups statements of several components that say the same of
each. Each component has variables of its own, which are a placeholder (`Nothing`) where
another one runs, and all constants are open: so the theorems of `ShopProofs` and
`OfficeProofs` are about instances of any size.

## 3. Runs

Each finishes within five minutes on two workers.

| Run | Instance | Shows |
|---|---|---|
| `inventory_tx` | 2 skus of two products, 2 connections, 2 reservation ids, quantities to 2, every stock edit | overlapping transactions implement `Inventory`, whose counters agree with the rows and which promises nothing twice (`StockIsSound`); only shipments can wait for each other in a circle |
| `shipments` | 4 skus, two orders ready to ship that share no sku but both parents | the circle on `products` happens, is broken, and every transaction ends |
| `orders` | 1 order, 2 payments, 2 replicas' consumers, staff cancels; calls refused, replies lost, crashes | an open order never loses its stock, and stock moves by `Inventory`'s operations only |
| `one_replica` | 2 orders competing for stock that staff edit, 3 payments, one of a wrong amount; one consumer per subject, 2 request handlers; no faults, no staff cancels | what a single replica guarantees: reservations follow orders, what shipped stays shipped, only its own refund undoes a payment, a replay changes nothing |
| `late_payment` | 1 order, 1 payment, 2 consumers, fair | a captured payment is applied although expiry interferes; a refund announced after that takes the order out of the queue to ship |
| `checkout` | 1 session, 1 key, 2 bodies, 2 requests; refused calls, lost replies, crashes, expiry at any moment | one order per session, which matches it; losers undone; one answer per key |
| `payments` | 1 order, a card payment and one recorded by hand, of 2 units; 2 request handlers, 1 for answers; calls refused, answers lost, crashes | the payment service's books against the gateway's |
| `outbox` | 2 events of one order, 2 drainers, 1 recorded failure per row, with and without a broker; fair | at least once, order and repetition explained by failures, every event published |
| `shop` | cart: 2 requests, 2 variants, a customer and staff; rows: 2 requests, 1 visitor, 1 image, 1 unit; sessions: 2 requests, 3 tokens; windows: 2, answers handled at once: 2 | carts are atomic and answered truthfully; counters, edits and images of a product; tokens; charges are noticed |
| `office` | accounts: 2 requests, 2 ids, lock after 2; profile: 3 ids, limit 2; keys: 2 ids, 3 starts; migration: 2 users, 2 starts; bot: 3 updates, 2 chats of one user; alerts: 2 requests; catalog: 2 products, 2 skus, 2 colors; search: 3 products, limits 0, 1, 5; coupons: 1 code, 2 discounts; stores: 2 orders, 2 payments, 2 callers | tables keep their constraints; rows follow their requests unless these overlap; memory agrees with Postgres; pages cover the matches; changes are told; caches follow; what was withdrawn is refused; the migration takes no right away |

and two that end in a violation, each a disagreement between the code and a document:

| Run | What happens |
|---|---|
| `refund_overwritten` | a webhook, or a retried create, reads a payment, a refund is recorded, and the handler saves its copy: the refund is off the books and can be made again, against `docs/payment-service.md` |
| `user_managers` | the migration replaces role names by permissions before the statements that look for the role names run, so a `user_manager` stays a customer, against `docs/permissions.md` |

### Known limits

Runs check what the code guarantees; where it guarantees less than one might expect,
a constant or a history variable says so. To see what lies beyond, change what is named
here:

* **A staff cancel that read the order as paid writes its copy over `in_transit`**
  (`order-v1.yaml` has no such transition): `ShippedStaysShipped` in `OneReplica.cfg` with
  `StaffCancels = TRUE`.
* **A late payment reopens an order that staff canceled**, though `order.go:192` speaks of
  expiry: `StaffCancelIsFinal` with no expiry worker and `StaffCancels = TRUE`.
* **A refund that overtakes its payment is lost**: `payment.canceled` finds a pending order
  and is dropped, `payment.succeeded` then pays it, and the refunded order stays in the
  queue to ship: `RefundStopsShipping` in `LatePayment.cfg`. `RefundStopsPaidOrder` is what holds.
* **A create whose `COMMIT` took effect and lost its reply** releases the stock of an order that
  exists: `OpenOrderHasStock` in `Orders.cfg` with `Faults = {"unacked"}`.
* **Two consumers of one subject** (two replicas): a handler of `MarkOrderPaid` overtaken
  between its first reservation and `Reconcile` reinstates a second time and
  forgets the first (`service.go:330`), against `NoStockLeak`; two deliveries that
  both read the order canceled can pay it, and after a refund pay it again
  (`SavePaidIfCanceled` compares the status only), against `ReplayIsNoOp`.
* **Two payments of the right amount for one order**: `ShipOrder` can commit the
  reservation it read and mark the row in transit after a refund canceled the order
  and the second payment reinstated it, against `ShippedStockIsCommitted`.
* **An edit of a session during its completion** reopens it, and a second order is created:
  `OneOrderPerSession` in `Checkout.cfg` with `EditsOverlap = TRUE`.
* **Two answers of the gateway at once** in `Payments` (`Callback` of two) save a decline over a
  success, or a success over a refund, against `HeldMoneyIsOnTheBooks` and
  `OnlyLostAnswersLoseRefunds`; `NanoReturn` has two and its property allows this one race.
* **An older cancel key retried** refunds again; `docs/payment-service.md:64` names it.
* **A save over a deletion brings an account back**, although its `user.deleted` is out:
  `GoneIffDurable` of `Accounts`.
* **A key replaced under the same key id** (`JWT_KEY_ID` unset) goes unnoticed by a service that cached
  the old one, which accepts old tokens and refuses new ones: `OldTokensStopValidating` of `Keys`.
* **The deletion of a product** takes the stock rows of reservations that open orders
  hold; `HoldsLostOnlyToDeletes` of `Catalog` says that nothing else does.

### Bounds, and why they are enough

* *Reservation ids.* Every `Reserve` uses one; when they are used up, further
  reservations are not explored. An order needs one to be created and one per
  reinstatement; three or four ids cover an order that is created, expires and is
  reinstated twice, or two orders reinstated once each.
* *Orders.* Handlers of different orders meet only in the stock; two orders that
  want the last units show that. Where faults make the state space large, one order.
* *Payments.* One pays, a second is late or a duplicate, a third has a wrong amount.
* *Quantities* to 2: enough for "enough for one, not for two" and for two units of a
  reservation. In the cart, whether a line is there and in stock is what matters.
* *Amount* 2: one partial refund and the rest, two partial refunds, or all at once.
* *Requests.* Two of a kind show every race between two of them; every kind is present.
  Races of three of one kind are not explored, except where a lock or an index makes
  the third one wait.
* *Ids ever drawn* (orders, users, addresses, tokens, keys, images): one more than can
  exist at once, so that something is deleted and created again.
* *Limits of the code* (wrong passwords, addresses per user, page sizes, rows listed by a drain) are
  constants with small values on both sides of which the instance goes.
* `SYMMETRY` is used in no run with liveness; requests, goroutines of one kind, reservation ids and
  things are interchangeable where it is: no definition orders or chooses among them.

`CHECK_DEADLOCK FALSE` is said where the system really stops: every order is fulfilled or
canceled and nobody pays, ids are used up, all answers were taken, or nobody asks for
anything any more. `InventoryTx` and `Outbox` are checked for deadlock.

### Fairness

* `InventoryTx`: a connection goes on executing its statements (weak fairness of the
  commits), the lock queue of a row is first come first served (strong fairness of
  `Lock`), and Postgres' deadlock detector runs. Nobody is obliged to begin, and
  nothing is assumed of `Rollback`.
* `OrderLifecycle`: a handler that has begun goes on (weak fairness of `Continue`; the
  run has no crashes). `payment.succeeded` is republished by the reconcile worker as
  long as the order does not carry the payment, so a delivery that is possible again
  and again happens (strong fairness of `BeginPay`); likewise `payment.canceled` once
  it is published and not lost. Nobody is obliged to pay, ship, cancel, refund or expire.
* `Outbox`: the ticker calls `Drain` for ever, a call ends, and a broker and a database that are asked
  again and again answer some time. Stops and failures may happen any number of times,
  but not every time.

## 4. Proofs

All are for any number of skus, orders, handlers, payments, reservation ids, customers,
variants, windows and requests.
Their assumptions are the modules' `ASSUME`s (types of the constants; finite sets of
skus, reservation ids, variants, visitors, products, codes and texts, and of requests where they
are counted; that the absent idempotency key is no key, nor the absent payment a payment) and, where named,
conditions on `Faults`, `StaffCancels` and the like. A theorem that needs such a condition
says so in its statement, and the known limits say what happens without it.

* **Inventory.** `InventoryTypeCorrect`, `NeverOversoldHolds`,
  `ReservedMatchesActiveHolds`, `ActiveCanCloseHolds`, `SoldMatchesCommittedHolds`, and
  `StockIsSoundHolds`, their conjunction. Each invariant is inductive together with the
  earlier ones. The counters are sums over reservations, stated as cardinalities, so the
  steps that take or close a reservation come down to adding or removing a finite set
  that is disjoint from the rest. `ActiveCanClose` is a consequence: the units of one
  active reservation are a subset of those its sku's `reserved` counts.
* **The inventory's transactions.** `TransactionsImplementInventory` (and with it
  `TransactionsKeepStockSound`), `OnlyShipmentsDeadlockHolds`, `TypeOKHolds`, for any number
  of connections. `LocksInv` says of every open transaction that what it is about
  stays put (`ClaimOK`), that every row it will write is locked or on its route and
  that routes and held rows ascend (`RouteOK`), and that the rows it holds are as it
  checked them and held by nobody else (`HeldOK`). A commit writes only rows it holds, so it
  disturbs nobody (`CommitDisturbsNobody`), and its checks still hold, so it is a step of
  `Inventory`. A cycle of waits would ascend for ever through the stock rows of a finite set
  of skus, unless it reaches the parent products, which only shipments lock.
* **Orders use the inventory.** `OrderTypeCorrect` needs that a handler at a given
  step works for an order and holds what the step uses (`JobsOK`). From it,
  `OrdersUseInventory`: every step is a step of `Inventory` or leaves it alone, so
  `Spec => InventorySpec`, under every fault, and (`OrderReservationsCanClose`)
  `StockIsSound` holds of the stock as the order service uses it.
* **Open orders keep their stock.** `OpenOrderHasStockHolds`, for staff cancels and
  all faults but `"unacked"`, which refutes it. The property is
  not inductive: a handler elsewhere may be about to release a reservation. The
  invariant `StockInv` adds *who may know a reservation*: one a handler took and has
  not saved (`HeldOK`) is active and unknown to every row and other handler; one about
  to be released (`ReleaseOK`) is not the reservation of an open order; rows and copies
  refer only to reservations of their own order (`ReferencesOK`); an order being created
  has no row and one creator (`CreateOK`); a copy of a started order has a reservation
  (`StartedOK`).
* **Payments of orders.** `PaidByItsPaymentHolds`, under every fault: `PaidInv` says that rows
  and copies carry only captured payments of their order and that a handler past the
  comparison of amounts works for one of the right amount.
* **Moves.** `ShippedStaysShippedHolds` and `OnlyRefundUndoesPaymentHolds`, if staff do not
  cancel and without `"unacked"`: every step moves
  a row by one of the moves listed in `Move`. Fulfilment writes a stale copy, and it
  is `StockInv` that says what that copy can be.
* **What ships, and what becomes of every reservation.** `ShippedOnceHolds`, `StockFollowsOrdersHolds`
  and `ReplayIsNoOpHolds` need `OnePayer`: one consumer of `payment.succeeded`, one payment of the
  right amount per order, no staff cancels and no `"unacked"`. Two consumers, or two good payments,
  refute each of them. `SettledInv` is about commitment: a paid row and a handler that is about to
  ship hold the one reservation that can be committed (`RowSettled`, `JobSettled`), and a committed
  one is that of a shipped order or of the handler about to mark it so (`CommittedOK`); it gives
  `ShippedStockIsCommitted` and `ShippedOnce` under every other fault. That nothing is left reserved
  for nobody needs that no call fails (`Faults = {}`): `TidyInv` says who owes what. Every active
  reservation is an open row's, or some handler has it and is on its way to save or to release it
  (`Kept`, `Owed`), and a handler that has one forgets it only by saving or releasing it (`JobTidy`).
* **Checkout.** `LosersAreUndoneHolds` and `AnswersAgreeHolds`, for any number of sessions, keys and
  requests and under every fault. An order id is drawn by one request and nobody knows the order
  before it is saved (`OwnersOK`), so a step touches one order at most (`Touches`, `ShapeStep`);
  `OrderStep` says what a request has done to its order when it has come so far. The row of a key is
  written once, by whoever finds it free inside the transaction of its order (`AnswersInv`).
  `SessionKeepsItsOrderHolds` needs that a client does not edit a session while it completes it
  (`~EditsOverlap`). `SessionInv` says how far a copy may lag behind its row (`CopyOK`): an edited
  copy is of a session that has no order yet, one that is written back is not open and its order is
  the session's, and a completion's copy has the lines of the row as long as that is open. Since
  `claims` only grows, a completed session is never open again.
* **The payment service.** `PaymentTypeCorrect`, `RefundsWereMadeHolds`,
  `SucceededWasChargedHolds` (together `BooksAreRealHolds`), `FullRefundIsToldHolds`, under every
  fault and for any number of handlers. No argument about the row lock is needed: `MoneyOK`
  says that a handler's copy records no more refunds than NANO has made, and NANO only
  gives more back; a cancel about to be committed comes to no more than that either,
  because `Reconciled` computes it from what NANO says is left. `JobOK` adds that the
  amount of a cancel fits its copy.
* **What the payment service's books must not miss.** `OnlyLostAnswersLoseRefundsHolds` and
  `HeldMoneyIsOnTheBooksHolds`, under every fault and for any number of clients and payments,
  if one answer of the gateway is handled at a time (`OneAnswer`; two at once refute both, see
  the known limits). Here the row lock matters: `RecordsInv` says that a cancel's copy is the
  row and nobody else is at a cancel of it (`TurnOK`), that what it is about to commit comes to
  exactly what NANO gave back and that no refund has overtaken a copy about to be saved
  (`ExactOK`), that a decline about to be saved cannot hit a payment whose money NANO holds
  (`SettledOK`), and that charged money is accounted for: on the books, given back, alerted, or
  in the hands of an answer that is on its way or being saved (`RowOK`).
* **The outbox.** `OutboxImplementsFeed` and `DisorderIsExplainedHolds`, for any number of
  events and drainers and any size of a page, of `Spec`, so without the fairness of the
  run. Neither is inductive alone. `OutboxInv` adds that a drainer's queue is
  ascending and holds only committed rows (`QueuesOK`); that what is marked or about to be,
  the broker has taken (`BrokerOK`, from which the refinement follows: `Mark` is the feed's
  `Settle`); that an event the broker took once is published or at the head of the one
  queue that has it, unless drainers shared it or an answer was lost (`SharedOK`); and
  that a queue with an event of an order has its earlier ones too, or they were taken
  or failed (`OrderOK`, which rests on pages being ordered by row number, `FirstOfIsAPage`).
* **Tokens.** `TokensFollowLoginsHolds`, for any number of requests and tokens. `SessionsInv`
  traces every token in use to a login (`TokensHaveLogins`). On a login whose client kept track
  of its token, one request runs at most, with the token the client holds, and it finds that
  token or its successor in the store (`UntroubledAlone`); so what such a client holds works. A
  request exchanges a token only after it saw the account usable (`UsableSeen`).
* **The answers of the card gateway.** `ChargesAreNoticedHolds`, two statements about states and
  one about steps, for any number of windows and answers handled at once. `NanoInv` needs to know
  that an answer is handled only of a window that NANO has decided, and that a payment that was
  paid when it was read is saved only with another charge (`JobsHaveAnswers`).
* **The rows of a product.** `ProductRowsAgreeHolds`, for any number of requests, visitors and
  images. The counters are cardinalities of the rows they count, and each statement adds or
  removes one row. An edit writes a copy, and `Held` says what a copy can be: the patch of an
  edit of a product names one column, and an image that is about to be listed has both its
  objects, which no action takes away.
* **The cart.** `CartAnswersAreTrueHolds` and `StoreIsImplemented`, for any number of customers,
  variants and requests, under every rollback. `CartInv` says how far a request has come in the
  plan of its transaction (`StageOK`, `RouteOK`) and what it holds by then: who writes lines holds
  the cart's row first, but for a removal from a cart that was not there, and `Clear` (`LocksOK`);
  no row has two holders (`Exclusive`). So only the holder of the cart's row adds lines and a
  commit takes out only lines that it holds (`CartSaved`, `CartTaken`), which is why what replaces
  or clears a cart holds, or is about to lock, every line that is there (`CoverOK`). A transaction
  that is no `Clear` and both holds a row and waits for one holds its cart's row, so two of them cannot
  wait for each other. `SeenOK` keeps what was stored while a request ran among what it has `seen`;
  since the plan's locks make a commit write exactly what the operation asks of the cart as it then
  is, the commit is `Finish` of `CartStore`, or, where it wrote nothing, `Fail`; every other step
  begins a call, ends one, or leaves the store alone. The second case is a removal that found no line
  and a `Clear` that found the cart empty before another request filled it: that its answer is true
  nevertheless is `AnswerWasTheCart`.
* **Types.** `TypesOKHolds`, of the components of `ShopMC`.

The theorems of `OfficeProofs` group the statements of several components as the properties of
`office` do; each component has one invariant, which its own module states and from which all
its statements follow.

* **Keys and tokens of the services** (`CachesFollowHolds`, `WithdrawnIsRefusedHolds`), for any number
  of requests and of restarts of auth. `KeysInv`: one request at a time leads a fetch, what auth
  answered to it is no older than what the service holds, and no older than the token it was asked for
  (`FetchOK`). So the cached key never moves back, and a request that looked for its key holds
  a document that has it.
* **The chats that are told** (the same two theorems), for any number of managers' requests. `AlertsInv`:
  a list that no change has overtaken since it was read is the table's, so the last one to be
  swapped in is right unless it was overtaken or failed.
* **Accounts** (`WithdrawnIsRefusedHolds`, `RowsFollowRequestsHolds`, `ChangesAreToldHolds`), for any number
  of requests and of failures before the lock. `AccountsInv`: a login that goes on holds a row that was not locked,
  one id has the address, and the row is what its history says unless a save overlapped; an id that
  is gone has its event in the outbox, and one that is back although it was announced came back by such a save.
* **The migration** (`RightsSurviveHolds`), for any number of users and of starts that race and stop.
  `MigrationInv` says how far the table is when a start has come so far (`StartOK`): a row that still
  holds roles is as the start read it, so replacing names by what they grant changes no right,
  however late; and a start beside which no other runs meets nothing that makes it fail (`AloneOK`).
* **The bot** (`ChangesAreToldHolds`), for any number of updates and restarts. `BotInv`: everything below
  the batch, or below the offset, is handled or is the update the processor is at; so what a
  new request for updates confirms has been handled.
* **Coupons** (`RowsFollowRequestsHolds`). `CouponsInv`: a code that no edit has overtaken is what staff said, and
  an edit of a deleted coupon saves nothing.
* **The address book and the profile** (`RowsFollowRequestsHolds`), for any limit and number of requests. `ProfileInv`:
  a request saves an address whose id the sequence has given out, and a default only after it has cleared
  the others; one address at most is the default, the one last picked, but while a default is being saved.
  The limit is a matter of counting: a create adds one row to a finite set that it has counted.
* **The two stores of orders** (`StoresAgreeHolds`, `ChangesAreToldHolds`), for any number of orders,
  callers and keys. `StoresInv`: what callers have read is the same in both stores too
  (`CopyOK`), and a copy of an order that is still pending is its row. Sessions agree until their time is over.
* **The catalog** (`TablesOKHolds`), for any number of products, skus and requests. `CatalogInv`: a row has a unit reserved
  exactly if somebody holds one (`HoldsOK`), an id that a request has drawn for its product is nobody
  else's (`OwnProduct`), and the rows that a deletion has locked are its product's (`RequestOK`), so only it can
  take a stock row from under a hold.
* **The listing** (`PagesCoverMatchesHolds`, `StoresAgreeHolds`), for any finite set of products, every query, order
  and limit. The comparison with its tie-break by id is a strict total order (`SearchOrder`), so a
  product's place is the number of those that come no later (`SearchOrderRanks`) and a set has exactly one
  order (`SearchOrderExists`, `SearchOneOrder`): no induction is needed, ranks are an injection into
  as many numbers. The comparison in memory is the same on distinct products (`SearchSorts`), so
  both stores give the same page. `SearchInv`: what a client has got while nothing changed is a
  beginning of that order; the next window goes on where it ended (`SearchTurns`), also past the end.
* **Types and constraints of the tables.** `TablesOKHolds`, from the invariants above.

Each invariant was checked by TLC as an invariant of the runs' instances before it was proved.

**Only model-checked**: liveness (`EveryTransactionEnds`, `CapturedIsApplied`,
`RefundStopsPaidOrder`, `EventuallyPublished`), which is beyond this prover, as are `ENABLED`,
induction over data and recursive operators. What is said under *known limits* is refuted by TLC,
not proved: the two runs that end in a violation check their property, the others can be repeated.

## 5. Not modelled

* The payment service together with the order service: `Capture` and `Refund` of
  `OrderLifecycle` stand for the steps of `Payments` and `Outbox`; the reconcile worker is
  their repetition. Whether the order is pending when a payment is created is left open.
* Prices, sums and the fraction of a coupon: computed in floating point and integers of
  won; the models know whether there is a discount. Texts, formatting, addresses' fields.
* In the catalog, renames of masters, and sizes and editions, which are referred to as colors are.
  In the listing, text matching and recommendations.
* The rate limiter and the seeding of the owner at auth's start; the webhook mode of the Telegram
  bot, which hands the same messages to the same processor.
* Other in-memory stores: one mutex over the operations their components' modules have.
* HTTP decoding, routing, configuration, logging, NATS and S3 clients, deployment
  files: no program state.

## 6. Plan

1. Compose `Payments`, `Outbox` and `OrderLifecycle`: `Capture`, `Refund` and the republished
   events as the payment service's steps.

# A verification project for Nest_Ecommerce

TLA+ modules of the shop's backend (NestJS services, gRPC, Kafka fed by Debezium
from outbox tables, PostgreSQL, Redis, BullMQ), checked with TLC and proved with
TLAPS. `PROJECT.json` lists components, runs, hazards, findings and, for every
definition, the source lines it models.

    tlc -workers 2 -config PaymentSafety.cfg MCPayment.tla     # a run
    tlapm PaymentProofs.tla                                  # the proofs

## The system

| part | state | operations | talks to |
|---|---|---|---|
| API gateway (`apps/api-gateway`) | none | one HTTP route per gRPC call; `checkout` makes two calls in sequence, each with a 10 s timeout | gRPC to every service |
| order (`apps/order`) | `orders`, `order_items`, `outbox` | CreateOrder, UpdateOrder, SyncOrder, OrderCheckout, reads; consumes `payment.successed`, `payment.canceled`, `payment.order.checkout.failed` | outbox → `order.checkout`, `order.canceled`, `order.checkout.failed` |
| inventory (`apps/inventory`) | `inventories`, `outbox`; Redis counters and idempotency keys | ReserveStockInventory, RestockInventory; consumes `order.canceled`, `order.checkout.failed`, `product.restock` | outbox → `product.restock` |
| payment (`apps/payment`) | `payments`, `outbox`; BullMQ queue `payment-timeout-queue` | PaymentSuccessed, PaymentCanceled, the timeout worker; consumes `order.checkout` | outbox → `payment.successed`, `payment.canceled` |
| product (`apps/product`) | MongoDB products with `stockSnapshot` | CRUD; consumes `product.restock`, `order.canceled`, `order.checkout` | emits `product.created` and `search.update_product` |
| search (`apps/search`) | Elasticsearch indices | queries; consumes product and order topics | – |
| user, storage, analytics | `users`, object store, none | one query or signature per call | – |
| Redis scripts (`libs/redis`) | – | reserve, release, add, each a Lua script | inventory |
| Kafka retry interceptor (`common/interceptor`) | – | declared by decorators on the handlers, registered nowhere | – |

A checkout: the gateway reserves stock (Redis, then database), then asks the order
service to place the draft; the order service publishes `order.checkout`; the
payment service creates a PENDING payment and a timer; the customer pays, cancels
or lets the timer fire; the order service confirms or cancels, and for a canceled
order the inventory service takes the units back.

**What is hard.** Every hand-over is two writes in different systems (Redis and
database, database and BullMQ, database and Kafka offset), so crashes and errors
fall in between. Topics are delivered at least once and in order within a topic, not
across topics. Handlers read outside transactions and write unconditionally. A Kafka
handler that throws is run again for ever, and what lies behind it waits. The
hazards are listed at their lines in `PROJECT.json`; each names the properties that
watch it.

What makes each part correct:

- *payment*: the outbox ends with the status the payment has; a settled payment stays
  settled; a PENDING payment is never forgotten, and never expires early.
- *order*: the events tell the orders' rows and status; a checkout gives one verdict;
  payment outcomes take effect, once.
- *inventory*: never oversold, nothing counted twice, both copies of the stock agree
  in the end, units of canceled orders return.
- *product and search*: a snapshot shows no unit nobody brought; search finds every
  product that was created and every order that was placed, whatever is replayed.
  What the indices hold was announced first and stays.
- *checkout as a whole*: a reservation is either sold or given back; clients are told what
  happened; order and payment agree; every placed order ends.

## Modules

| module | models | instance |
|---|---|---|
| `PaymentLedger` | what the payment service promises: a payment per order and the ordered list of announced outcomes | – |
| `Payment` | the payment service, with the `order.checkout` partition and the BullMQ queue | `MCPayment` |
| `PaymentProofs` | the inductive invariant, the safety theorems, the refinement of `PaymentLedger` | – |
| `Order` | the order service with the payment service's topics | `MCOrder` |
| `OrderProofs` | events, rows, verdicts and updates of the order service | – |
| `Inventory` | the inventory service, Redis, and what the gateway and the order service make of a reservation | `MCInventory` |
| `InventoryProofs` | both copies of the stock: nothing oversold, counted twice or kept back | – |
| `StockRows` | what `Inventory` and `Checkout` take the inventory service's transactions to be: a cart all at once or not at all, a restock before its announcement | – |
| `StockTransactions` | the same transactions statement by statement, with row locks, deadlocks, the connection pool and time limits | `MCStockTransactions` |
| `StockTransactionsProofs` | where deadlocks and lost restocks come from; that the transactions are the steps of `StockRows` | – |
| `Catalog` | the product service, the indices of the search service, how they come into being, and the queries | `MCCatalog` |
| `Gateway` | the API gateway: its routes with the calls they make, and what becomes of an error; operators, no state | in `Checkout` |
| `Checkout` | a checkout over gateway, inventory, order and payment service, each reduced to what the others see | `MCCheckout` |
| `CheckoutProofs` | what the gateway answers, and three safety theorems of the saga | – |
| `CheckoutStockProofs` | the units and the outcomes of the saga: sold within stock, given back, agreed upon | – |
| `SumLemmas` | what sums over finite sets are worth: sums of equal functions, of two functions, over a part, over more, after one change; images and extremes of finite sets | – |
| `CatalogProofs` | types, snapshots and indices: what stays in them, what never reaches them, what search finds | – |

`Checkout` EXTENDS `Gateway` for the statuses of its answers, and both `Payment` and `Checkout`
implement `PaymentLedger`: the payment service by itself and the saga as a whole make the
same promise about payments and their announcements.

Operators whose name ends in `_Something` next to a definition (`TimeoutJob_Immediate`,
`Handle_AnyStatus`, ...) are mutants: wrong versions of the code's definition which
show that a property notices the difference. No specification uses them.

### Conventions shared by the modules

- One database transaction that begins with a write is one step; a read outside a
  transaction, or one that locks nothing inside it, is a step of its own. PostgreSQL
  runs at READ COMMITTED, so a conditional update sees the latest committed row.
  A Prisma `update` with nested writes is taken as one conditional update.
- A Redis script is one step.
- Outbox rows reach their topic in commit order (Debezium reads the log). A connector that
  restarts may publish again what it has published, from some row on: `Inventory` has this for its
  three topics (`Redeliver`); `Payment` has any `order.checkout` twice, as two checkouts of a draft
  also cause it; `Order` has several outcomes of a payment, in any order.
- kafkajs handles one message at a time, commits offsets some time after the handler
  returned, and repeats a handler that throws without moving the offset.
  `KafkaRetryInterceptor` is registered by no module, so nothing limits the repeats.
- BullMQ: an `add` with a known jobId does nothing; `job.remove` throws if the worker
  holds the job; one attempt; a job that stalls twice is failed; failed jobs are kept.
- protobuf leaves out an empty repeated field, so a request with no items reaches a
  service with `items` undefined. Only `syncOrder` restores the empty list.
- A crash loses requests and the position between two writes, never a committed row.

### Payment

`payments`, `outbox` are the tables; `jobs[o]` is the job `payment-timeout-<o>` with
the minutes left; `checkouts`, `offset`, `committed`, `consumer`, `attempts` are the
partition and the running consumer; `calls` the gRPC requests, each between its read,
its transaction and the removal of the job. `age` counts how long a payment has been
PENDING. `CreatePayment`, `AddTimeoutJob` and `RejectDuplicate` are
`processPaymentForOrder` with its two writes apart; `ReadPayment`, `CommitOutcome` and
`RemoveTimeoutJob` are the two gRPC handlers; `StartJob` … `CompleteJob` the worker;
`Crash` restarts the process.

`PendingIsWatched` states what the code really keeps: a payment without a timer exists,
but only behind an unacknowledged message that blocks its partition or with a failed
job after a fault. `PoisonIsForever` is the price: such a message never goes away.

### Order

An order's `total` stands for the item list it was summed over; rows of `order_items`
have an identity, so that an update working on rows read earlier can meet rows that
are gone. The id of an order is named after the request that creates it. An item list
is a function from products to quantities (no product twice in a list; two concurrent
updates may still create two rows of one product, and `FirstRows` then takes any).
`CommitCheckout` updates by id alone, as the code does. `RemoveKillsProcess` is the
un-awaited `removeOrder` whose rejection ends the process through `main.ts`.
`handlePaymentOrderCheckoutFailed` is left out: its topic is written only by the
interceptor nobody registers.

### Inventory

`redis`, `processed` and `db` are the two copies of the stock and the idempotency keys.
The history variables let the properties speak of units: `stocked`, what was ever in stock; `given`
and `added`, which reservations and restocks Redis has counted; `again` and `readded`, what it has
counted a second time; `beyond`, what it was given back beyond a reservation. The gateway and the order
service appear as the actions that decide what becomes of a reservation. A draft's rows are set by
other requests than the checkout, so `CancelOrder` announces any cart or none: what comes back may be more
than was reserved, less, or other products. In this module a draft is placed once (`Order` and
`Checkout` have two checkouts of one draft).

`NotOversold` allows for exactly what the code does invent: restocks counted again, reservations given
back after their key has expired, and rows beyond a reservation. `NothingCountedTwice` says
when the first two are nothing. It is no use against lost units, which is what `FaultsCostOneCart` is
for: at rest, each database error has driven Redis and the rows apart by one cart at most. A failed
handler whose message finds its key when it is handled again, the cancellation that increments the database
though the script did nothing, and the draft whose key a rolled-back checkout has left all cost a
cart, and none of them costs another however often the handler fails on that message. Crashes
and duplicates are excluded: after those the code keeps no such bound.

### StockRows and StockTransactions

`calls[c]` is a call or message whose Redis script has run: how far it is (`pc`, `line`), whether
it holds the connection of its transaction and, for a restock, the `other` one of the upsert.
`rows` are the committed rows; `owner` and `draft` the row locks and what the transaction
behind a lock has written. `UpdateRow` is the body of the three loops over `data.items`
(`decrement` and `increment` differ in the sign of a line's change), `UpdateThrows` the error of
an `update` that finds no row, `Commit` the end of the callback. `restockInventory` is `Begin`,
`TakeOther`, `Upsert` and `WriteOutbox`: its upsert calls the service's own client, not
`tx`, so that it commits by itself, on a connection of its own.

Of PostgreSQL and Prisma, which are not in the repository, the module has what the service
relies on: an update locks its row until the transaction ends and works on the row as it is once it has
the lock; transactions that wait in a circle are detected and one is aborted
(`DeadlockDetected`); `$transaction` takes a connection of the pool (two per processor and one,
hence `Pools`) or gives up after two seconds (`BeginFails`); after five seconds of wall time
(`LimitPasses`) a transaction is rolled back unless a statement is being executed (`TimeOut`). The
service sets none of these limits. Any open transaction that has to wait for another call may last that
long: for a row of its cart, for the connection of its upsert, for the row its upsert needs, also when
the wait is over before the limit strikes. One that waits for nobody may be slow too; `MaxFaults` bounds
how often. `LostNeedsContention` says what it takes for a restock to lose its event without that: another
call that names its product, or fewer connections than one for every call and one more for every
restock. Crashes, database errors and the script before the transaction are in `Inventory`.

`StockTransactions` implements `StockRows` with `outcome` read off `pc`, which is proved for any
calls and carts: this justifies the convention above that a transaction is one step, and shows
that it does not hold for restocks.

### Catalog

`products[p]` holds the variants of a product with `stockSnapshot` and price, `isActive` and
the stored range of prices; a product without variants does not exist (the DTO asks for one
at least). `calls` are the creation requests with the products they have saved and still have
to announce, as they hold them: an event tells what was saved, whatever an update has done
since. A subscription is a consumer group's place in a topic, since product and search
service both read `order.checkout`. `InsertMany` with one document is `create`. A message of
`order.checkout` has `productSku` and no `sku`, as the order service writes it, so
`CountOrder` never gets past one that lists anything. `UpdatePrice` leaves the stored range
as it is, and what it and `Update` send goes to `search.update_product`, which nobody reads.

`index[i]` is an index of Elasticsearch: none, one with the mapping the service designs, or one
with a dynamic mapping that the first document has made; `boot[i]` is how far the service is
with `createProductIndex` and `createOrderIndex`, which `onModuleInit` does not wait for.
`CreateIndexFails` is the rejection of the second creation, which nobody handles and which
ends the process. `SearchProduct`, `SearchProductInventory` and `SearchOrders` are the queries
as sets of documents: a text is one that a single product has, a status matches a keyword
only, and a clause about a field that no document has (`userId` of products, `isActive` and
`all_text` of orders) matches nothing.

`SnapshotNeverFalls`, `OrphanIsForever` and `IndexIsFrozen` state what
follows from the code as it is, not what one would wish: orders are never subtracted from a
snapshot, a product whose event was not sent cannot be found by search, and an index shows the
price, stock and status of the day a product or order came in. An index made by a document keeps
its mapping, so `SearchComplete` asks it for texts and tabs only when the service has designed it.
`PlaceOrder` announces an order once; a second checkout of the same draft would announce the same
rows again, which overwrites a document with itself and subtracts nothing.

### Gateway

`OrderVerbs` … and `OrderCalls` … are the seven controllers and services as tables: each
route's verb, the gRPC calls in order, what is returned. All handlers share one shape (ten
seconds per call, `catchError`, `MicroserviceErrorHandler`), so one model of errors serves
them. An error is a record; its message is the set of phrases it contains, as written and
when case is ignored, because the status rules look at the lower-case text and the wording
rules at the text as written. `ExtractStatusCode`, `ExtractErrorMessage`, `CleanupErrorMessage`,
`HandleError` and `Catch` are the functions of those names. `Thrown` lists, service by service, the
exceptions its handlers throw or let pass, a class and the phrases of its message that the rules look
for; `OverGrpc` is what such an exception is by the time it reaches the gateway. Nest passes on the message
of an `RpcException` and of nothing else. No service throws one, and the `AllExceptionsFilter` that would
make one is given to the HTTP application, whose configuration `connectMicroservice` does not
pass on.

### Checkout

`attempts[a]` is a checkout request with the state of the three services it passes; `stock`
and `released` the counter in Redis and the idempotency keys; `orders`, `payments`, `ledger`
the tables; `topics` the three topics of the order service's outbox, `seen` the order
service's place in the two of the payment service; `payers` the payment requests. One
product, counted in units: a cart is its number of units, so a request can differ from the
rows of the draft. The gateway's steps are those of `checkout`; `GiveUp` is its timeout or a
lost connection, after which the services carry on. `Reserve` runs the script and then the
database transaction, whose failure leaks the units. `FindDraft` and `PlaceOrder` are apart,
as read and write are in `orderCheckout`, so two checkouts may place one draft; `RollBack`
reports the failure under the id the code has by then, `NoDraft` twice under none. `ReportFails` is
the order database gone altogether: nothing is placed, the report of the catch cannot be written either,
the client reads 502 and nothing gives the units back, which `UnitsComeBack` has to excuse.
`HandleOutcome` is both consumers of payment outcomes, which wait for a PENDING order.

What the component modules already have is left out here: redelivery, crashes between two
writes, the queue's jobs (`Expire` may fire at any time, as the two minutes of the timer bear
no relation to a client's), and the inventory database, whose copy `Inventory` compares.

## Runs

| run | bounds | shows |
|---|---|---|
| `PaymentSafety` | 2 orders, 3 checkout messages, 2 requests, 1 crash or error | type invariant, `PendingIsWatched`, `OutcomeAnnounced`, `OpenForDelay`, `PoisonIsForever`, `SettlementIsFinal`, `LedgerRefined` |
| `PaymentLive` | 2 orders, 3 checkout messages (so an order may be published twice in front of another), no faults, fair | `PendingSettles`, `CheckoutSettles` |
| `PaymentWindow` | delay 2, window 10 | finding: ten minutes promised, two given |
| `PaymentRetries` | attempts counted to 4 | finding: `maxRetries` is not enforced |
| `OrderSafety` | 3 requests, all carts over 2 products, 2 outcomes per order, 1 error, 1 restart | type invariant, `EventsMatchRows`, `EventsTellStatus`, `OneVerdict`, `OutcomeIsFinal`, `UpdateIsExact` |
| `OrderLive` | 3 requests, 1 outcome per order, 1 error, fair | `OutcomeTakesEffect` |
| `InventorySafety` | 3 checkouts, 1 order with rows of its own, 1 restock; any 2 of: 2 errors, 1 key expiry, 1 crash, 1 restarted connector | type invariant, `RestsInOrder` (without faults: both copies agree, and the rows of canceled orders are back), `NotOversold` (no counter below zero included), `NothingCountedTwice`, `FaultsCostOneCart` |
| `CatalogSafety` | 2 products, 2 variants, 2 creation requests, 1 order of up to two lines; five scenarios (see below) | type invariant, `SnapshotAccounted`, `SearchComplete`, `SnapshotNeverFalls`, `OrphanIsForever`, `IndexIsFrozen` |
| `CheckoutSaga` | 2 checkouts of 1 or 2 units, 3 units in stock, 0 to 2 drafts, 1 payment request, 1 timeout, 1 error, fair | type invariant, `AnswersAreTrue`, `SoldWithinStock`, `UnitsComeBack`, `Agreement`, `SettledWhenAnswered`, `SagaRefinesLedger`, `CheckoutEnds` |
| `StockTransactions` | 3 calls, 5 carts of 2 or 3 lines over 4 products, restocks of one, pools of 3 or 5, 1 slow transaction and any number that wait too long, fair | type invariant, `DeadlockNeedsDisorder`, `LostNeedsContention`, `TransactionsAreAtomic`, `EveryCallEnds` |
| `InventoryRepeated` | one cart naming a product twice | finding: a negative counter |
| `InventoryNullKey` | 3 checkouts, 1 draft | finding: units lost under the key of `null` |

Why the bounds are enough: every race in this code is between at most two requests and
one background step (worker, consumer, crash), so three requests and one fault already
contain each of them together with one bystander. Two products are what a script or an
update needs to treat lines differently; stock of two units lets one checkout succeed
and the next run out. A second fault only repeats the first, since handlers restart from
the same offsets. `MaxPublish`, `MaxAttempts`, `MaxFaults`, `MaxOutcomes`, `MaxCrashes`,
`MaxRestocks`, `MaxExpiries`, `MaxDuplicates`, `MaxMishaps` (errors, crashes, expiries and duplicates of
`Inventory` together) and `MaxTimeouts` are the bounds; the theorems hold for every
value of those of their module. `Catalog` takes its bounds from a record chosen in
`Init` (`Budgets`), since all of them at once are too many states: two creations with an
update and two failures; an order and a restock with a crash and a throwing attempt; a
creation and an order with a failure; a creation with an update and a restock; a creation, an
order and a restock with a throwing attempt. In
`StockTransactions` three calls make circles of two and of three; three restocks fill the pool of
three and wait for each other, two of them and a cart leave the cart at the door or a restock to wait,
and five connections are enough for two carts and a restock; the carts take rows in opposite orders, one names a product twice and one a
product that has no row until it is restocked. Requests, and orders in `Inventory`, are interchangeable in the runs
that use symmetry; no liveness run does. Deadlock is not checked: requests are finite and
a shop without customers rests.

**Fairness.** `Payment!FairSpec`: weak fairness of the consumer's and the worker's steps,
the clock and the steps of an accepted request. kafkajs polls, BullMQ workers poll, and a
handler without an error runs to its end, so an enabled step of theirs stays enabled
until it is taken. There is none for `PublishCheckout`, `ReadPayment` and faults.
`Checkout!FairSpec`: the steps of an accepted request in every service, each consumer, and the
timer of every payment; none for clients, for the gateway's timeout and for errors. A message
that no handler can take is not enabled, so that fairness does not help it: this is why
`CheckoutEnds` excepts orders placed twice and payments announced twice, and means it for
*every* order then, since one such message holds up its topic.
`StockTransactions!FairSpec`: statements return, deadlocks are looked for, and the limit of
five seconds passes for a call that goes on waiting and ends its transaction; none for slowness.
`Order!FairSpec`: weak fairness of the consumers' handlers. That canceled units return is liveness
only in `Checkout` (`CheckoutEnds` with `UnitsComeBack`); `Inventory` states it of every state at rest.

**Findings** (quoted in `PROJECT.json`): the payment window of two minutes against ten;
the retry limit that is not in force; a counter below zero through a cart naming a
product twice; failed checkouts without an order id sharing one idempotency key.

## Proofs

`PaymentProofs` proves, for every set of orders and requests, every delay (at most the
window) and every bound:

- `TypeCorrect`, `Announced`, `Watched`, `NeverEarly`: `TypeOK`, `OutcomeAnnounced`,
  `PendingIsWatched` and `OpenForDelay` are invariants;
- `SettledForGood` and `PoisonStays`: the action properties `SettlementIsFinal` and
  `PoisonIsForever`;
- `RefinesLedger`: `Spec` implements `PaymentLedger`.

They rest on `DelayAssumption` and `BoundsAssumption` only. None of the invariants is
inductive alone. `IInv` adds four facts: handled messages have a payment
(`HandledHavePayment`, otherwise a crash could forget a message whose payment was never
made), requests past their read and jobs name an order with a payment
(`CallsHavePayment`, `JobsHavePayment`, otherwise a commit could announce an outcome for
nothing), and a delayed job's remaining time plus the payment's age reach the delay
(`TimersInTime`, otherwise a job could fire early). `PendingIsWatched` needs the first of them: a redelivered message
is either still unacknowledged or has left a job. The proof has one lemma per group of
actions (`ConsumerKeeps`, `CallsKeep`, `WorkerKeeps`, `TickKeeps`, `CrashKeeps`), each
with a step per action; `Announce` is the lemma that a status change together with its
outbox row keeps `OutcomeAnnounced`. `SettledForGood` and `RefinesLedger` follow from
`PaymentChanges`, which says which steps touch a payment row at all.

`CheckoutProofs` proves, for every set of checkouts and payment requests, every stock, every
choice of drafts and every bound:

- `ExceptionsAreHidden`: every exception in `Thrown` is a 502 to the client, and were the same message
  an `RpcException`'s it would have the status of the first rule that finds its phrase;
- `Truthful`: `AnswersAreTrue`; `PaidIsSettled`: `SettledWhenAnswered`;
- `SagaIsLedger`: the saga implements `PaymentLedger`.

They rest on the named assumptions of `Checkout` alone. The status of an answer comes out of
`Gateway`'s rules (`OneHit`, `StatusFromText` and `StatusOfException` evaluate them, `Answers` collects
what a checkout needs). The inductive invariant has a part for each kind of request: `InStep` says how
far the gateway bounds the services (a 502 for a failed reservation is true because the order
service has not been asked by then), a payment request's part keeps that a
payment it has read stays in being and is settled once it has committed; and `order.checkout`
holds ids of orders, for `CreatePayment`. `CheckoutSteps`, `PayerSteps` and `ConsumerSteps`
go through the actions.

`CheckoutStockProofs` proves, for the same constants (the sets of checkouts and draft ids finite,
so that there are sums; the quantities a finite set of positive numbers, for the maximum in `AtRisk`):

- `TypeCorrect`: `TypeOK`, the stock not below zero included; `OutcomesAgree`: `Agreement`;
- `NothingFromNowhere`: `SoldWithinStock`; `NothingIsLost`: `UnitsComeBack`.

The invariant `Secure` adds to that of `CheckoutProofs`:

- `Told`, for `Agreement`: what is announced is settled, what is settled is announced, and what the
  order service has read was announced so. Two announcements of a payment then are the only
  way for an order to differ from it.
- `Backing`: behind each message that will release units, and each order that took some, there is a
  checkout that ended so; a checkout that ended, and an order that was canceled, has left its order,
  its message or its key in Redis. A failure reported under another id, or a cancel
  without a message, breaks it.
- `BooksBalance`: there is an account of what was given back for each id, which some checkout of
  that id was to have, and stock and taken units are what there was and what was given back. `Backing`
  and the account together give `UnitsComeBack`: at rest a checkout that is not excused is alone with its
  id, hence its units are sold or in the account of its id; these accounts are different ones, so the sum of
  all of them bounds the sum of those (`NetIsBack`, `SumInto`, `BooksMeanUnits`).
- `PromiseHolds`: there is a promise of units for each id that covers every unread message
  whose id has no key yet, and stock, sold units and promises stay within what there was, less what
  checkouts under way hold. `SoldWithinStock` alone is not inductive: a message still to be
  read will raise the stock, and a message whose id has a key will not.

Accounts and promises are functions that the code does not keep, so they are quantified
(`\E r`, `\E p`): each action's step names the new one. `StepIs` reduces the actions to six effects
on the accounts (`Stays`, `Reserves`, `Fails`, `Places`, `Ends`, `Releases`).

`OrderProofs` proves, for every set of requests, every cart with finitely many products, any
outcomes and every bound:

- `TypeCorrect`: `TypeOK`; `EventsAreTrue`: `EventsMatchRows`; `LastEventTells`: `EventsTellStatus`;
  `OneVerdictPublished`: `OneVerdict`;
- `FinalStays`: `OutcomeIsFinal`; `UpdatesAreExact`: `UpdateIsExact`.

A row in `order_items` is told from others by its id alone, and an update works on rows it
read before its transaction. `IInv` therefore says who makes names: a request makes its order and its
rows at its end and no others (`OrdersMade`, `RowsMade`), and what was read is of the
request's order, as is whatever has that id now (`ReadsKnown`); without it an update might touch
the rows of another order and make its events wrong. `Verdicts` says that only a request at its end
has published, for `OneVerdict`. `UpdateIsExact` needs in addition that there are finitely many rows
(`Finite`): the rows an update creates are new ones.

`InventoryProofs` proves, for every set of orders and products, every finite set of checkouts, carts of
any length and every bound:

- `TypeCorrect`: `TypeOK`; `CountedOnce`: `NothingCountedTwice`; `CopiesSettle`: `RestsInOrder`;
- `FaultsAreBounded`: `FaultsCostOneCart`, for any finite set of carts, so that there is a largest;
- `UnitsAreReal`: what Redis offers and what checkouts hold was in stock once, or is one of the
  units a replay counted twice or a draft listed beyond its reservation; it is the second half of
  `NotOversold`, for any carts;
- `NoneOversold`: `NotOversold`, when no cart names a product twice. The hypothesis cannot go:
  the script checks each line against the counter before it takes the first, and
  `InventoryRepeated` is the run in which two lines of a product take the counter below zero.

`IInv` relates the copies by the work between them. `Accounts` and `Balanced` are equations
of sums: the counter, what checkouts hold and what restocks will add; and, while nothing has failed, the
counter against the row, with what checkouts have still to subtract from it and the handler at work
has still to add. `MessagesFit`, `GivenEnded`, `OneId`, `KeysKept` and `NoReplay` say when the script may
run for a message again and why it then does nothing (`NothingCountedTwice`); `Ordered`, `CanceledOnce`,
`KeysFresh` and `KeysEnded` that no key of an order is there before its cancellation was handled, without
which `RestsInOrder` would lose units of a canceled order.

`Apart` is what the copies differ by once the work between them is taken off: `Balanced` says it is zero while
nothing has failed, and `FaultsCount` what errors make of it. A failed handler or a rolled-back checkout leaves
a key without its rows, and a later cancellation may collect that debt: the script is skipped, the
database incremented. `Debtors` are the orders with a debt still open, so that a fault either moves `Apart`
or adds a debtor, and a cancellation that moves it removes one (`ApartMoves`, `DebtorsStep`).

`SumLemmas` is what the last three rest on, and `CheckoutProofs`, `CatalogProofs` and `StockTransactionsProofs`
in part. A sum of the community modules is a recursive function on sets, a `CHOOSE` among functions, and the library's induction theorems take a predicate as a parameter.
The lemmas do their induction over a *set* of good subsets instead (`SubsetInduction`, from the
least element of a set of numbers), show that functions as the recursion asks for exist and agree
(`AddsExists`, `AddsAgree`), and from there what sums do (`SumPick`, `SumChanges`, `SumPlus`,
`SumGrows`, `SumInto`, ...).

`CatalogProofs` proves, for every set of products, variants, requests, orders and documents,
and every bound:

- `TypeCorrect`: `TypeOK`; `SnapshotsAccounted`: `SnapshotAccounted`; `SearchesComplete`:
  `SearchComplete`;
- `IndexFrozen`: `IndexIsFrozen`; `OrphansStay`: `OrphanIsForever`; `NeverFalls`:
  `SnapshotNeverFalls`.

They rest on the named assumptions of `Catalog`: stock and prices are not negative, and there are
finitely many documents of finitely many variants, so that the most a client sends and the range
of prices are defined. None is inductive as it stands. The consumers overwrite documents, so that
`IndexIsFrozen` needs that a product or an order never has two events (`EventsOnce`) and that a
document is one of them (`IndexFromEvents`): what is replayed after a crash is then what is
there already. `EventsOnce` needs in turn that a request holds what it saved once, and no
other request the same (`HeldOnce`), which MongoDB's fresh ids give (`Inserted`,
`HeldOnceKept`); a product that is held has not been announced. `CallsChange`, `TopicsChange`
and `IndexChange` say which steps touch the requests, the topics and the indices at all, and
`OrphansStay` follows from them with the same invariant.

`Sound` adds the types to it, for which every message must be one its topic may hold
(`TopicsTyped`) and the products of a request must not share variants. `StockChange` is the
lemma about snapshots: a step leaves one alone, sets it to what a client has sent, or adds what the
message at hand brings, which is nothing if it is of `order.checkout`. `NeverFalls` is read off it.
`SnapshotAccounted` compares a snapshot with all messages, read or not, and is kept by no handler
alone: `SnapshotCounted` says the same of the messages that have been read (`Seen`, a sum up to the
offset), each of which adds its units once. `SearchComplete` is about a state in which all is
read; `Searchable` says what holds before: what has been read is indexed (`ReadIndexed`),
placed orders are in their topic (`PlacedAnnounced`), and a product is announced or held by
a request while no event is lost (`CreatedHeld`).

`StockTransactionsProofs` proves, for every set of calls, carts of any length, products and
pools of any size:

- `TypeCorrect`: `TypeOK`, with the pool never overdrawn and locks held by open transactions only;
- `OrderedCartsNeverDeadlock`: `DeadlockNeedsDisorder`; `RestocksAreLostToContention`:
  `LostNeedsContention`;
- `CartsAreAtomic`: `TransactionsAreAtomic`, the refinement of `StockRows`.

The inductive invariant says what a lock stands for: a line of its owner that the
transaction has been through (`Locked`). In a circle every transaction therefore waits for a
row that comes after one it holds, so the ranks of the awaited rows rise along the circle
(`RanksRise`), while one of them is least (`Least`): the carts have no common order. For the
second, `Kept` says that a restock no other call contends with keeps its transaction until it is done: it never
waits, since the calls cannot hold as many connections as there are (`ShelteredFindsConnection`) and only
a call that names its product could hold its row (`ShelteredFindsRow`), and without a wait its limit does
not pass.

The refinement needs more: that a cart has *all* rows of the lines behind it (`ThroughLines`,
the converse of `Locked`), and that a draft is the committed row and the sum of what those lines
change of it (`Drafted`), a product named twice included. A commit then changes each of its rows
by `StockRows!Change` of the whole cart (`ChangeIsSum`, `PartGrows`) and no other row
(`PartIsNone`); an upsert finds its row unlocked, so that no draft was made of the row it changes
(`UpsertKeepsDrafts`), and rolling back shows nothing (`RollbackKeepsDrafts`). `RowsAssumption`
says that rows hold integers, as `stockQuantity Int` in the schema.

Model-checked only: liveness (`PendingSettles`, `CheckoutSettles`, `OutcomeTakesEffect`,
`CheckoutEnds`, `EveryCallEnds`), which together with ENABLED is out of the prover's reach. Every
other property of a passing run is a theorem of the specification, for every value of its
constants; `NotOversold` for carts that name no product twice, `FaultsCostOneCart` for finitely many carts.

## Not modelled, and the plan

Planned: `KafkaRetry`, the interceptor as written (retry topic, dead-letter topic through
outbox and producer) and what registering it would change.

Left out for good:

- `InventoryProcessor`, a buffer with a timer: no module provides it and nothing adds jobs to
  its queue, so that it has no behaviour in this program; likewise the search service's
  handlers of `product.updated`, `product.deleted` and `order.updated`, the order service's
  handler of `payment.order.checkout.failed` (topics without a producer) and `updateMany`,
  which the proto file does not declare.
- user, storage and analytics services: one call of a database, an object store, or none; the
  gateway's routes to them are in `Gateway`.
- view counts, brands and categories; `from`, `size`, `sort` and fuzziness of queries; guards,
  DTO validation and rate limits at the gateway; metrics, logging, tracing, health checks,
  configuration.

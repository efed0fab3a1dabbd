# Order service: a TLA+ model, its checks and its proofs

The repository is an order-management back end in Go: an HTTP API, a worker
process, PostgreSQL and Redis. This directory models its behaviour in TLA+,
checks small instances with TLC, and proves the main results for every instance
with TLAPS.

## 1. The system

| Part | State | Operations | Talks to |
|---|---|---|---|
| Order API (`internal/order`: service, repository) | `orders`, `order_items` rows | Create, Cancel, Ship, Get, List | customers, products (lookups), PostgreSQL, Redis (publish) |
| Order queue (`internal/queue`, `internal/order/queue.go`) | Redis lists `orders:processing`, `orders:dead-letter` | LPUSH (publish, requeue, dead-letter), BRPOP (dequeue) | API, worker |
| Worker pool (`internal/worker`, `cmd/worker`) | N goroutines, a message each, a cancelable context | runLoop, Process, handleProcessError, signal, drain, restart | Redis, PostgreSQL, payment |
| Payment (`simulatedProcessor`) and failure hook (`transientFailureRepo`) | none | ProcessPayment, failing UpdateStatus | worker |
| Metrics (`internal/metrics`) | counters, one registry per process | Inc*, Record | API, worker |
| Customers, products | one table each, a UNIQUE column each | Create, Update, Deactivate, Find, List | order creation |
| Money | int64 cents | Parse, Decimal, Add, Multiply, JSON | products, orders |
| Auth | `users` rows, signed tokens | Login, Register, Seed, Issue, Verify | middleware |
| HTTP pipeline (`internal/server`, `internal/middleware`, `internal/errors`, the handlers) | request context | request id, logging, recovery, authentication, authorization, error mapping | everything |
| Configuration and start-up (`internal/config`, `internal/database`, `cmd/*`) | configuration, open connections | Load, connect, seed, serve, release | everything |
| In-memory adapters (`internal/*/repository.go`, `internal/order/queue.go`, `processor.go`) and the phase-6 pool that runs on them (`dev/phase-6-worker-metrics`) | maps and slices behind mutexes, a one-slot notify channel, atomic counters | Enqueue, Dequeue, Close, Process, Snapshot, Create, Update, Deactivate | the tests of every service |

The API and the worker are separate processes. They share the tables and the two
lists and nothing else: no lock, no transaction spans a read and the write it
justifies, and no message acknowledgement exists. What is hard about the system
follows from that:

- every status change is *read, decide, write* with an unconditional
  `UPDATE orders SET status`, from handlers and workers at the same time;
- an order is committed first and published second;
- a message is gone from Redis as soon as BRPOP delivers it;
- a retry travels as a new message with a count in it;
- every call to PostgreSQL or Redis can fail with or without taking effect, and
  the go-redis client repeats commands whose reply it did not get;
- goroutines end on the first Dequeue error, processes are stopped by signals.

The in-memory adapters replace the database and Redis in every test of the services.
Their difficulty is that of shared memory: check and store are separate critical
sections, a queue signals its workers through a channel that holds one token, and a
metrics rendering is not one atomic look.

`PROJECT.json` lists these hazards line by line with the properties aimed at them.

What makes each part correct, in one line each:

| Part | Correct when |
|---|---|
| Order API, worker pool, queue | an order is charged at most once, is settled only after it was charged, follows the status table, is not forgotten once it was answered 201, and its retries end |
| Metrics | counters never exceed what happened |
| Order creation | prices come from one moment, customer and products were active, amounts agree |
| Customers, products | keys are unique, deactivation is final, overlapping Updates do not mix |
| Money | parsing is exact, both output formats read back |
| List endpoints | a walk through the pages misses no row, and is exact when nothing changes |
| Auth | one account per address, the administrator's address is the seeded account's, tokens expire when they should |
| HTTP pipeline | an operation runs exactly for the requests that parse and whose sender is entitled; the status says what happened; every request leaves one log record |
| Start-up | a process serves with the configuration it was given, and releases what it opened when a step fails |
| In-memory adapters | no message sleeps in the queue, the pool stops when told to, counters agree with the orders, and only overlapping requests can do what a constraint of the database would have prevented |

## 2. Modules and the code they model

`EXTENDS`: `OrderStatus` ← `OrderProcessing` ← `OrderProcessingInv` ←
`OrderProcessing_proofs`; `OrderStatus` ← `MemoryPool` ← `MemoryPool_proofs`;
`OrderStatus` ← `OrderLifecycle`; `Money` ← `Startup`; and each of `Catalog`,
`Accounts`, `MemoryCatalog`, `Listing` and `OrderIntake` ← its `_proofs` module.
`Server_proofs` extends `MCServer` and holds the proofs about `Money`, `HttpPipeline` and
`Startup`. `INSTANCE`: `OrderIntake` composes two copies of `Catalog`
(customers and products) and extends `Money`; `OrderProcessingInv` and `MemoryPool`
instantiate `OrderLifecycle` with a refinement mapping. The `MC*` modules give model
values and symmetry sets; `MCCatalog` runs `Catalog` or `MemoryCatalog`, and `MCServer`
runs `Money`, `HttpPipeline` or `Startup`, one of them per behaviour. `PROJECT.json`
maps every definition to its lines.

**OrderStatus** is the transition table of `status.go`.

**OrderLifecycle** is the abstract specification: what the service promises about one
order, with three variables (status, whether its processing time is recorded, how often
it was charged) and six actions (`Open`, `Start`, `Charge`, `Settle`, `Ship`, `Cancel`).
An order is started only while uncharged, charged at most once, settled once and by the
outcome of that charge, shipped only when the charge was accepted. `Cancel` is
unconditional there, because its UPDATE is. Both `OrderProcessing`
(`settled <- processedAt`, `charged <- payments`) and `MemoryPool` implement it.

**OrderProcessing** is the core. `status` and `processedAt` are the `orders` rows,
`queue` and `dlq` the Redis lists, `hd` the API goroutines, `wk` the worker
goroutines with the message each holds, `pool` the worker process's context,
`metrics` the counters; `acked`, `attempts` and `payments` are history. Every
database statement, Redis command and payment is a step of its own:

| Code | Actions |
|---|---|
| `Service.Create` | `CreateOrder` (transaction), `PublishOrderCreated` (LPUSH, count, answer) |
| `Service.Cancel`, `Service.Ship` → `transition` | `ReadForTransition`, `WriteTransition` |
| `OrderConsumer.Dequeue`, `runLoop` | `Dequeue`, `DequeueLost`, `DequeueError` |
| `Service.Process` | `LoadOrder`, `StartProcessing`, `ProcessPayment`, `MarkProcessed` |
| `handleProcessError` | `Requeue`, `DeadLetter` |
| `cmd/worker`, `cmd/api` | `Signal`, `Restart`, `WorkerCrash`, `ApiCrash` |

`FaultKinds` names what may go wrong in a run: a call fails without effect, takes
effect with its reply lost, an LPUSH is repeated by the client library, a BRPOP
loses its message, a process dies or is told to stop. An order is abstracted to its
status, the time stamp to a flag, an amount to membership in `Declined` (the
simulated payment declines it) or `Sentinel` (the failure hook rejects its UPDATE).

A worker at `"dequeue"` is about to send its BRPOP or waits in it. What go-redis does is
modelled from how `cmd/worker` builds the client, with an address and a password only:
`ContextTimeoutEnabled` is off, so a canceled context fails a call that has not taken its
connection yet and ends the client's retries, but does not interrupt a BRPOP with timeout
0 that waits. `LoopTop` therefore stops a worker that comes back after the signal,
`DequeueError` may stop one that was at `"dequeue"` when it came, and nothing makes it.
After a lost reply the client may repeat the BRPOP (`DequeueLost`), and the goroutine goes
on without the message.

**Catalog** is one table with a UNIQUE column and the Create, Update and Deactivate
of its service, one step per statement. Customers and products are the same code;
for customers `Prices` has one value.

**Money** is the int64 arithmetic of `money.go` in two's complement of `Width` bits,
`ParseString`, `Decimal` and `MarshalJSON`. A text is a sign, an integer literal and
the digits behind the point: what those functions distinguish. `ParseString`
hands the text behind the point to `ParseInt`, so it also accepts a sign there:
`1.-5` reads as 95 cents. The model keeps that; `ParseIsExact` is about decimal
numbers without it.

**OrderIntake** is `Service.Create` up to its commit, over the two catalog tables:
`LoadCustomer`, `LoadProducts` (one batch query, prices copied, totals computed),
`InsertOrder` (with the CHECK constraints and column limits). `OrderProcessing`
takes over from there.

**Listing** is the three List endpoints: `Count`, `ReadPage`, for orders
`ReadItems` per row, `Answer`; a client that walks through the pages; Creates that
take `created_at` first (`Stamp`) and insert later (`InsertRow`), so that rows
appear out of order; rows that enter or leave the filter (`ChangeRow`). `MemoryPage` is
the List of the in-memory repositories: filter, sort, slice. A sorted list is the
enumeration of its rows in their order (`InOrder`), which is unique.

**Accounts** is the `users` table, `SeedDefaultAdmin` in every process that starts
(`SeedFind`, `SeedCreate`), `Register`, `Login`, and the life of a token (`Issue`,
`Verify`, a clock finer than the second that `exp` is truncated to). Hash and
signature are abstracted: a password matches only itself, a token is one the service
signed. An e-mail is an address in normal form or not.

**HttpPipeline** is the way of one request through the server. A middleware is an
operator on the outcome of the handler it wraps: `Authenticator`, `RequireAnyRole`,
`RequireAction`, `Logging`, `RecoveryRecords`, `RequestId`, put together by
`ServeGuarded` and `ServeHTTP` as `router.go` does. `Routes` lists every route with its
guard, the parts of the request its handler parses, and its success status. A request is
reduced to what these tell apart: which parts do not parse, what `Verify` sees of a token,
and how the operation behind the handler ends (it succeeds, returns one of the error
codes or another error, panics, or panics while its body is written, after the header).
Some routes are public by the router's own comment although the matrix has a row for
them (`create_users`, `view_metrics`); those rows guard no route.

**Startup** is `config.Load` and the steps of `cmd/api`, `cmd/worker` and `cmd/seed` up
to serving: `NewPostgresPool`, `NewTokenManager`, `SeedDefaultAdmin`, `NewRedisClient`,
`ParseSentinel`, each with its failure; `opened` and `deferred` are the connections and
the deferred calls. `cmd/seed` leaves by `os.Exit`, which makes no deferred call
(`at = "exited"`). Minutes are converted to a `Duration` in the machine word of `Money`.

**MemoryPool** is the worker pool of `dev/phase-6-worker-metrics` over the adapters that
`internal/order` still ships and the current tests use. A step is a critical section, a
channel operation or an atomic operation:

| Code | Actions |
|---|---|
| `Service.Create` | `Create`, `PublishOrderCreated`, `IncOrdersCreated` |
| `FakeQueue.Enqueue`, `Close` | `Enqueue`, `EnqueueUnknown`, `Close`, then `Notify` outside the mutex |
| `FakeQueue.Dequeue` | `Check` under the mutex, `WaitNotified` or `WaitDone` in the `select` |
| `Service.Process` | `FindByID`, `Start`, `ProcessPayment`, `MarkProcessed`, `Count`, `RecordProcessingDuration` |
| `Service.Cancel`, `Ship` | `Cancel`, `Ship`, then `UpdateStatus` |
| `Collector.Snapshot` | `SnapshotSamples`, `LoadProcessed` |
| signal | `CancelContext` |

**MemoryCatalog** is the customer service of phase 3 and the product service of phase 4
over the in-memory repositories, which `internal/customer` and `internal/product` still
ship: `BeginCreate`, `Put`, `LoadItem`, `CheckKey`, `StoreItem`, `TurnOff`. Unlike a
table, a map has no UNIQUE constraint, and `Update` stores the whole record. History
variables record which requests overlapped.

## 3. What TLC checks

Passing runs:

| Run | Checks | Shows |
|---|---|---|
| `processing_faults` | `TokenInv`, `AtMostOnePayment`, `DeadLetterExhausted`, `MetricsNeverOvercount`, `OnlyCancelLeavesTable`, `ImplementsLifecycle` | safety of an order's whole life under every fault but a repeated LPUSH, for an order that the payment declines and one that the failure hook rejects unless its own read fails, and the refinement of `OrderLifecycle` |
| `settles` | `AckedSettles`, `DrainWaitsForMessageOnly`, `AckedStaysInFlight`, `SettledMeansCharged` | a worker process that got SIGTERM finishes what it holds and is replaced, or waits for goroutines in BRPOP on an empty queue; without failing calls, but with repeated LPUSHes, an acknowledged CREATED order has its message in flight, every acknowledged order settles for good and only after a payment, or is dead-lettered by the failure hook |
| `retries_end` | `RetriesEnd` | no message circulates for ever, however statements and LPUSHes fail |
| `catalog` | `KeysUnique`, `DeactivatedForGood`, `WritesAreWhole`; `DuplicatesNeedOverlap`, `RevivalNeedsOverlap` | two clients on one table with failing statements; two callers on the in-memory repositories |
| `server` | `ParseIsExact`, `RoundTrip`; `OneRecordPerRequest`, `GuardsHold`, `AnsweredAsDone`; `ReturnReleases`, `ServesAsAsked` | every text of the grammar against a reference definition; every kind of request on every route; every environment for each binary, with a failure at each step |
| `intake` | `AmountsAgree`, `PricesAreOneSnapshot`, `WasLegalAtStart` | a Create against changing tables |
| `listing` | `ListingTypeOK`, `WalkMissesNothing`, `QuietWalkIsExact`, `DoublesListAlike` | a walk under inserts, changes and failures; the in-memory List gives the pages the database gives |
| `accounts` | `AddressesUnique`, `AdminIsSeeded`, `TokenLifetime`, `SeedingSucceeds` | racing seeds, registrations, logins and expiry; once statements stop failing, the losers of the race for the INSERT start as well |
| `memory_pool` | `NoLostWakeup`, `CountsAgree`, `RenderedIsConsistent`, `PoolImplementsLifecycle`, `QueueDrains`, `CancelStops` | two workers on the one-slot notify channel with cancellations, Close and a signal: no message sleeps, the pool ends, counters and their renderings are consistent |

Type invariants and some consequences (`MessageHasRow`, `StatusMoves`, `CloseWakesOne`,
`ServesLiveTokens`) that are proved for every instance (section 4) are not repeated in
the runs.

Runs that find the code at odds with what the repository says of it (the
`findings` quote the line):

| Run | Property | What happens |
|---|---|---|
| `start_after_cancel` | `WorkerStartsCreated` | Cancel commits between Process's read and its unconditional UPDATE; the canceled order is processed |
| `stranded_processing` | `ProcessingIsRetried` | `MarkProcessed` fails once; the retry ignores the order because it is PROCESSING, and the message is dropped |
| `pool_dies` | `PoolStaysUp` | a Redis error ends each goroutine for good while the process stays up |

More deviations follow from the same models and are not kept as runs of their own:

- Cancel's UPDATE may land after a worker has charged, even settled, the order, so a
  CANCELED order was paid for (`src/order-service-go-architecture.md:179`: "canceled
  before processing or shipping"). `OnlyCancelLeavesTable` says that Cancel is the
  only source of such changes.
- A goroutine of the worker that waits in BRPOP does not notice SIGTERM (see section 2), so
  an idle worker process hangs at `<-poolDone` until messages come, one for each waiting
  goroutine, or until it is killed (`src/internal/queue/consumer.go:24`: "On cancellation
  it returns ctx.Err(), which stops the worker loop cleanly"). A message that comes then
  is still processed to its end. `DrainWaitsForMessageOnly` is what holds: nothing else
  holds a shutdown up. The tests of the pool run on `FakeQueue`, which does watch the
  context.
- Two Creates with one document or SKU both pass the service's check; the UNIQUE
  constraint stops the second, which is answered 500 and not 409. `KeysUnique` holds.
- A customer or product may be deactivated between Create's lookups and its INSERT
  (BR-CUS-003, BR-PRD-004). `WasLegalAtStart` is what holds.
- Price times quantity wraps in int64 (10^10 cents times 1844674408 is stored as
  62904483.84). `AmountsAgree` states the total modulo the word.
- `FakeQueue.Close` sends one token, and a worker that finds the queue closed sends none
  on, so with several sleeping workers all but one sleep until the context is canceled
  (`src/internal/order/queue.go:97`: "in-flight dequeue calls unblock"). `CloseWakesOne`
  is what holds; `cmd/worker` cancels the context.
- An `ORDER_WORKER_COUNT` below one is accepted and starts a worker without goroutines.
  `ServesAsAsked` says that it happens only when asked for.
- The in-memory repositories can hold two records with one document or SKU and can revive
  a deactivated record, both after overlapping requests only; the tables cannot.

Each property of a passing run has a mutant of the code in `PROJECT.json` that breaks it.

Things to know when reading the results:

- `AtMostOnePayment`, `TokenInv`, `DeadLetterExhausted`, `MetricsNeverOvercount` and
  the table properties assume that no LPUSH is repeated. go-redis repeats commands
  after a network error by default, and then two workers can both read CREATED.
- `AckedStaysInFlight` excludes a failed LPUSH (Create has committed and answers an
  error or dies), a lost BRPOP reply and a worker crash: each of them loses the only
  message of an order, and nothing in the repository looks for such orders. It is about
  shutdowns and repeated LPUSHes, and as a theorem also about failing statements and API
  crashes.
- The payment of every order of `settles` is accepted, so its `SettledMeansCharged` meets
  PAID and SHIPPED. FAILED occurs in `processing_faults`, where `TokenInv` contains it.
- `CancelStops` is about finitely many messages. A worker of the in-memory pool looks at
  the context only when the queue is empty, and would never leave under a load that never
  ceases.
- `DoublesListAlike` compares slicing, clamping and page counts. Both sides share the
  selection and the order of the rows: ILIKE against `strings.Contains` and the precision
  of the time stamps are not compared.
- Nothing in the repository deactivates a user, so the check of `active` in `Login` never
  fails in `accounts`.
- `AmountsAgree` states each line's total modulo the word, and the order's total
  exactly: the CHECK constraints refuse what the sum of a few lines could wrap to.
  Nothing in the code limits the number of lines, and with more of them than
  `2 * Half \div NumericMax` the sum can come round to a storable amount: four lines of 20
  are 16 in the six-bit word, and with 64 bits and NUMERIC(15,2) it takes 18 447 lines of
  nearly ten trillion each. Up to there it is proved (section 4).
- `WalkMissesNothing` is about a client that stops at the first page that is not
  full. One that stops at `total_pages` may miss a row that was inserted between the
  count and the page. A filter on a column that changes (`status`, `active`) can
  make any walk miss rows, which is why the property excludes such changes.

### Bounds

| Bound | Value | Why it is enough |
|---|---|---|
| `Orders`, `Handlers`, `Workers` | 2 (1 in the runs that find a violation), 2 (1 for liveness), 2 | two of each give every pairwise race; orders interact only through the queue's order and the pool's goroutines |
| `MaxRetries` | 1, 2 in `retries_end` | the limit, one below it and the retry after a partial success all occur |
| `Ids`, `Keys`, `Prices`, `Clients` (Catalog) | 3, 3, 2, 2 | a free row and a free key beside the two in a conflict |
| `Width`, `NumericMax`, `IntegerMax` | 6 bits, 20, 8; 12 bits, 999 in `server` | they keep the order of int64, NUMERIC(15,2) and INTEGER: a price fits the word, a product need not |
| `MaxItems`, `Quantities`, `ProductPrices` | 2, {7}, {1, 10} | two lines, of one product or of two; 7 times 10 wraps to 6, which the columns accept |
| `MaxWhole` | 25 | `server` passes the column limit (999 cents) on both sides of zero |
| `Ids`, `MaxTime`, `Sizes` (Listing) | 3, 1, {-1, 0, 2, 3} | equal and different `created_at`, a full, a partial and an empty last page, sizes below, at and above the limits |
| `Records`, `Documents`, `Callers` (MemoryCatalog) | 3, 3, 2 | as for Catalog |
| `Numbers`, `Minute` (Startup) | {-1, 0, 1, 300, 450}, 10 | a span that is negative, zero, good, and wrapped in 12 bits to a negative and to a positive one |
| `Ids` (HttpPipeline) | one client id, or none | ids are only passed on; routes, tokens and results are complete |
| `Workers`, `Clients`, `Orders`, `Unknown` (MemoryPool) | 2, 1, 2, 1 | two workers can both sleep, or one take the token and leave; a paid order, a declined one and an id without an order |
| `Servers`, `Seeders`, `UserIds`, `MaxTime` (Accounts) | 2, 1, 2, 6 ticks of half a second | three racing seeds, a second account, every phase of a token of two seconds |

Symmetry is used only in runs of invariants and action properties, over sets whose
members the configuration does not tell apart.

### Fairness

`FairSpec` of `OrderProcessing` assumes weak fairness of a handler's next step, of a
worker's next step on the message it holds, of a worker's BRPOP, and of the restart of
a stopped worker process. Goroutines that are not blocked are scheduled, statements and commands
return (with success or an error), and the deployment restarts the worker container.
A handler's *start* of a request has no fairness: clients may stay away. `Dequeue` is
fair per worker, not per message: that the queue is a FIFO list does the rest.
That a canceled context ends a waiting BRPOP is not assumed: only a message does.
`AckedSettles` excludes behaviours in which signals and restarts alternate for ever: each
signal could arrive before a worker reached the queue. It includes those in which a
shutdown never ends.
`FairSpec` of `Accounts` assumes that a process which has begun to seed goes on; that
the outage ends is not assumed, `SeedingSucceeds` speaks of the time after it.
`Spec` of `MemoryPool` has weak fairness of each worker and of each client that is in the
middle of an operation: Go schedules goroutines that can run. Nobody has to begin a
request, to close the queue, to send a signal or to scrape. Deadlock is not checked
there, nor in `server`: a pool whose workers have all left, an answered request and an
ended process are at rest.

## 4. What TLAPS proves

For every value of the constants that satisfies the named assumptions.

`OrderProcessing_proofs`, in layers:

1. `RowInv` = `TypeOK` ∧ `IdleNamesNone` ∧ `NamesExist` ∧ `ChargedFirst` is inductive
   whatever fails (`RowInvariant`). It gives `TypeCorrect`, `MessagesHaveRows` and
   `SettledOrdersAreCharged`. `SettledMeansCharged` alone is not inductive: a worker
   about to settle and a handler about to ship must be known to follow a payment.
2. `TokenInv` adds that each order has at most one live message (`OneToken`,
   `PublishingIsFresh`), that the message's retry count is the number of attempts
   made (`RetryCountsAttempts`), what the one worker that holds it knows
   (`WorkerKnows`), and that a charged order never looks CREATED again
   (`ChargedOnce`). It is inductive when `"pushDup" \notin FaultKinds`
   (`TokenInvariant`) and gives `ChargedAtMostOnce`, `DeadLettersAreExhausted` and
   `CancelIsTheOnlyRace`; with `"cancel" \notin Kinds` also
   `TableRespectedWithoutCancel`.
   `MetricsAreNeverAhead` (for finitely many orders) adds that a counted order is
   acknowledged or settled, and counts with `FiniteSetTheorems`.
3. `ServiceImplementsLifecycle`: every step of the service is a step of `OrderLifecycle`
   or leaves its variables alone, from `TokenInv`: that a worker which is about to charge
   finds the order uncharged is `WorkerKnows`.
4. `AckedWorkIsKept`: without `pushFail`, `popLost` and `workerCrash` an acknowledged
   CREATED order has its message in flight.

`Catalog_proofs`: `CatalogInv` (types, uniqueness, and `RequestsAtWork`: a running
request carries a valid body and an Update names an existing row) gives `CatalogTypeCorrect`, `KeysAreUnique`, and the action
properties `DeactivationIsFinal` and `UpdatesDoNotMix`.

`Accounts_proofs`: `AccountsInv` adds `UpMeansSeeded` (a process that serves has seen or
made the administrator) to types, uniqueness and `AdminIsSeeded`; registration preserves
`AdminIsSeeded` only because of it. It gives `AccountsTypeCorrect`,
`AddressesAreUnique`, `AdminAccountIsSeeded`. `TokensLiveAsConfigured` needs that `exp`
is the issue time plus the expiry, truncated to a second (`TokenIsExact`), and a lemma on
truncation (`Truncation`).

`Server_proofs`, about requests: `EveryRequestIsRecorded`, `RoutesAreGuarded`,
`AnswersAreTrue`, by cases on how the guarded handler ends; the routes are finite, the
client ids are any.

`Server_proofs`, about amounts: `ParsingIsExact` and `WritingRoundTrips`, for every
`Width`, `NumericMax` and `MaxWhole`. The text of a behaviour never changes, so both rest
on lemmas about the operators: a word holds every number of its range unchanged
(`WrapExact`); the padded fraction is worth its hundredths (`PaddedValue`,
`FractionDenotes`); whole part times 100 plus fraction stays in the range when the amount
does (`ParsedExactly`); quotient and remainder by 100 put an amount together again
(`WrittenReadsBack`).

`Server_proofs`, about start-up: `BootInv` adds to the types that everything open is deferred as long as
`run` has not returned, that a configuration past Load is the one asked for, and that an
API past `NewTokenManager` has its expiry. It gives `BootTypes`, `EveryReturnReleases`,
`ConfigurationIsAsAsked` and `TokensAreIssuedAlive` for every environment and word size.

`MemoryPool_proofs`, for any number of workers and clients. `PlaceInv` (`QueuedOnce`,
`OnePlace`, `PlacedExists`): an order is at one place only, in a client's hands, on the
queue or in a worker's hands. `KnowInv` (`FreshUncharged`, `WorkerKnows`, `ClientKnows`,
`PaidIsSettled`): what a worker or a client that has read an order still knows of it. Both
give `PoolKeepsLifecycle`. `EachOrderIsCountedOnce` counts sets of orders and of workers
(finite), and `RenderingsAreConsistent` follows because the counters only grow and the
samples never pass the processed orders. `NoWakeupIsLost` is inductive with the types
alone, and so is `CloseReachesAWorker`: a worker sleeps only after it found the queue
empty and open, and the token of the sender is still to come.

`MemoryCatalog_proofs`: two records with one key imply a race because a request that
looked before the key was stored carries the mark `missed`; an Update that loaded before
a Deactivate carries `late`. The marks of running requests are the strengthening. It gives
`MemoryTypes`, `DuplicatesComeFromOverlap`, `RevivalComesFromOverlap`.

`OrderIntake_proofs` composes: it instantiates `Catalog_proofs` for customers and for
products. `IntakeInv` adds to both tables' invariants what a Create knows before it reads
the products (the price list in force is in its window; if it was not legal at the start,
a product it uses is inactive now) and before it inserts (it was legal, and all prices
are from one list of its window). That a product which is active when it is read was
active before is `ProductsStayOff`. It gives `IntakeTypes`, `OrdersHaveOnePriceList` and
`OrdersWereLegal`. `StoredAmountsAgree` (for `MaxItems * NumericMax < 2 * Half`, that is
18 446 lines in the code's word and columns) uses the conjunct `StoredAsBuilt`: a stored
order has lines whose totals were computed in the word, their sum in the word, and fits
its columns. Then the word's sum and the exact one differ by a multiple of the modulus
and are both smaller than it (`SumIsExact`). What the loop over the lines computes is
proved from the smallest round that would go wrong (`LeastNumber`, `LoopRuns`), because
the induction theorems of the library cannot be instantiated.

`Listing_proofs`, for every set of ids, every clock and all limits of a page. First the
theory of an ordered enumeration: each finite set of rows has one (`OrderedExists`, by
counting the rows before each row), only one (`OrderedUnique`), and in it a row stands
behind as many rows as are before it (`OrderedRank`); consecutive pages join to a prefix of
it (`PagesJoin`). `DoublesAgree` needs no more than that and the division that counts pages
(`PagesNeeded`). The inductive invariant of a walk has three parts: `LimitsOK` (types,
finitely many rows, page and size within their limits), `NothingMissed` (a row of the
start that was not sent yet stands behind the pages already read: an insertion moves rows
back, never forward) and `QuietSoFar` (while nothing changes, what was sent is the prefix of
the first list). They give `ListingTypes`, `WalksMissNothing` and `QuietWalksAreExact`.

With this every invariant and every action property of the passing runs, and both
refinements, are theorems. Only model-checked are the liveness properties
(`AckedSettles`, `RetriesEnd`, `DrainWaitsForMessageOnly`, `SeedingSucceeds`, `QueueDrains`,
`CancelStops`): they need fairness, which is outside the prover's reach. The proofs assume
what is said above and nothing else; the assumptions on the constants are evaluated in the
runs.

## 5. Not modelled

- JSON codecs, request bodies, the content of the OpenAPI document, histogram buckets and
  the exposition format: no decision depends on them.
- The logger, and the in-memory user repository (one mutex, one step per call).
- The 15 seconds the API's HTTP server has to finish running requests at shutdown: a
  handler that is cut off is the `ApiCrash` of `OrderProcessing`.
- The other development phases under `dev/`: earlier or nearly identical copies of the
  code that is modelled at its current place.
- List details: the overflow of `(page - 1) * page_size` for absurd pages, and
  `end_date`, which is compared as the midnight that begins that day.

## 6. Plan

Done: the core with its proofs and its abstract specification; Catalog, Accounts, Money,
OrderIntake, Listing, HttpPipeline, Startup, MemoryPool and MemoryCatalog with their
proofs.

What is left is of lesser weight:

1. The HTTP server's own shutdown, with requests in flight and the deadline.
2. `OrderProcessing` with a repeated LPUSH: what still holds of the status table when two
   messages of one order are alive, as a theorem beside `RowInvariant`.
3. Filters that change under a walk through the pages, as a property of its own.

# Formal models of the order / inventory / payment saga

TLA+ models, TLC runs and TLAPS proofs for a sample system of three Go services
(`services/order`, `services/inventory`, `services/payment`) that share the
packages `pkg/events`, `pkg/outbox` and `pkg/messaging`. The services fulfil an
order together as a choreographed saga: each keeps its own PostgreSQL database,
tells the others what it did through a transactional outbox, and recognises
repeated messages by their event ids.

## 1. The system

| Part | State it keeps | Operations that change it | Interacts with |
|---|---|---|---|
| Order service | `orders` (PENDING, CONFIRMED, COMPLETED, CANCELLED) | `CreateOrder` (HTTP), `HandleStockReserved`, `HandlePaymentCompleted`, `HandlePaymentFailed`, `HandleStockReserveFailed` | clients, its outbox, four subscriptions |
| Inventory service | `inventory` (quantity, reserved quantity), `reservations` (RESERVED, RELEASED, COMMITTED) | `HandleOrderCreated`, `HandleOrderCancelled`, `HandleOrderCompleted` | its outbox, three subscriptions |
| Payment service | `payments` (COMPLETED, FAILED, REFUNDED) | `HandleStockReserved`, `HandleOrderCancelled` | its outbox, two subscriptions, a simulated provider |
| Outbox | `outbox` rows (PENDING/SENT, retry count) in each database | `PublishInTx`, called in the use case's transaction | the relay |
| Idempotency check | `processed_events` in each database | `CheckAndMark`, in the handler's transaction | handlers |
| Relay | one transaction per poll | `processPendingMessages`, every 5 s | the outbox table, the broker |
| Messaging | NATS queues, one per subscription, in memory; one connection per process with its reconnect buffer | `Publish`, `Subscribe`, `Close`, reconnecting | relays and consumers |
| Process | `main`, HTTP server, relay goroutine, consumer callbacks, the channels `quit` and `serverDone`, the context, the pool | start with retries, signals, failure of the server, shutdown | everything in it, compose's restart policy |

The normal flow: a client's order is stored PENDING with an `OrderCreated` row;
inventory answers `StockReserved` or `StockReserveFailed`; on `StockReserved` the
order becomes CONFIRMED *and* payment charges it, answering `PaymentCompleted`
or `PaymentFailed`; the order becomes COMPLETED or CANCELLED and says so;
inventory commits or releases the stock, payment refunds.

What is hard about it:

- **Interleaving.** Every subscription has its own goroutine, so events that reach
  a service on different subjects have no order, even when one caused the other.
- **Duplicates.** A relay publishes before it commits; a rollback in between
  publishes the same rows again.
- **Loss.** Core NATS neither stores nor redelivers. A handler's error is only
  logged, and the queues of a process that stops are gone.
- **Broker outages.** `Publish` is not acknowledged. It succeeds on a dead link
  and while reconnecting; after ten failed attempts the connection is closed for
  good, and the process lives on.
- **Retry limits.** A row is tried five times and then ignored.
- **Concurrency on rows.** Handlers read a row, decide on the copy and write it
  back; goroutines of several subscriptions and processes do so at once. Two orders
  compete for the last unit; two relays for one table.
- **Start and stop.** A failing server, signals, open transactions and `main`
  meet at two channels and a cancelled context.
- **Numbers.** Stock arithmetic with a saturating `Release` and a failing `Commit`
  inside loops that go on after an error; a float64 test on money; float64 amounts
  that a `DECIMAL(10,2)` column rounds after they were checked.
- **Order of rows.** `created_at` is the start of the writer's transaction, its row
  appears at commit, and the relay sorts by the former what it sees by the latter.

What makes each part correct: an order gets one verdict and it is final; stock is
neither oversold, lost nor given back twice; a customer is charged once, and only
for stock that is held; what a service announces is what its database says; an
outbox row is published at least once and marked only afterwards; the three
databases agree with the life cycle of an order whatever is repeated, reordered or
lost; and an order does eventually reach an end.

## 2. The modules

| Module | Models | Notes |
|---|---|---|
| `Events` | `pkg/events/events.go` | the constructors and the fields some handler reads |
| `Outbox` | tables `outbox`, `processed_events` | operators used inside the services' actions |
| `Money` | the rounding of a float64 to `DECIMAL(10,2)` | PostgreSQL's rounding |
| `OrderService` | `services/order` | one action per use case; alone in an arbitrary environment |
| `InventoryService` | `services/inventory` | likewise |
| `Transactions` | a handler's transaction, PostgreSQL's row locks | begin, lock, end, fail; the database is external |
| `OrderTx` | `services/order`, statement by statement | several goroutines; refines `OrderService` |
| `InventoryTx` | `services/inventory`, statement by statement | several goroutines; refines `InventoryService` |
| `PaymentAmount` | `int(amount*100) % 100 == 99` | float64 rounding by its exact error |
| `PaymentService` | `services/payment` | the provider's answer is a choice |
| `Relay` | `Relay.processPendingMessages` | poll, publish one by one, commit or roll back |
| `Messaging` | `pkg/messaging` over core NATS | the broker is external |
| `Connection` | the NATS connection of a process and the options of `NewClient` | client library and broker are external |
| `OutboxDelivery` | outbox + overlapping writers + relays + connections, outages, restarts | |
| `AtLeastOnce` | abstract: what an outbox promises | refined by `OutboxDelivery` |
| `Saga` | three services, three relays, the broker, faults | composes the modules above |
| `Fulfilment` | abstract: the life of an order in one database, no messages | refined by `Saga` |
| `Lifecycle` | `cmd/main.go` (the three are alike), `NewPool`, compose's `restart: on-failure` | |
| `MC...` | constants for TLC | |
| `OrderProofs`, `InventoryProofs`, `PaymentProofs`, `OrderTxProofs`, `InventoryTxProofs`, `OutboxDeliveryProofs`, `SagaProofs`, `LifecycleProofs` | theorems | |

Conventions.

- *One transaction, one action.* In `OrderService`, `InventoryService`,
  `PaymentService` and `Saga` a use case is one action. A return before `Commit`
  rolls back everything, the idempotency mark too, so such a delivery leaves all
  tables unchanged: the second disjunct of each handler. A handler that finds an
  illegal transition returns without commit and is *not* marked as processed; one
  that finds nothing to release or refund is.
- *Why that is allowed.* `OrderTx` and `InventoryTx` have the statements: `Begin`
  with the insert into `processed_events`, each `SELECT ... FOR UPDATE` into a
  copy, and `Commit`, with several goroutines interleaving and transactions
  failing anywhere. Their property `Serializable` is the specification of the
  atomic module: the same tables, and every step a step of it or a stutter.
  Statements on rows that the transaction has locked or inserted are merged with
  `Commit`, before which nobody sees them. A worker that must wait for a lock is a
  disabled action. The payment service has no such module: its only update writes
  REFUNDED, under `FOR UPDATE`, whatever was read.
- *Inventory's inputs.* `InventoryTx` lets a cancellation or completion arrive only
  after its order's `OrderCreated` was handled. Otherwise the two could overlap:
  the cancellation sees no reservation, commits last, and is equivalent only to an
  order of the two in which it came first; the tables would still be right, but not
  step by step. `Saga`'s `SettlementsFollowReservations` shows that the composed
  system has no such overlap.
- *The relay is the exception.* Its messages leave while its transaction is open,
  so `Poll`, each publish, `Commit` and `Rollback` are separate steps.
- *Connections.* `Publish` is accepted unless the connection is CLOSED; the message
  arrives (CONNECTED), is lost (BROKEN: the link is dead, nobody noticed yet) or is
  buffered (RECONNECTING). The client's write buffer on a healthy link is not
  distinguished from arrival. In `Saga`, where only the budget of losses and failures
  matters, a publish arrives or fails.
- *Ids.* An order's id is its position in the table, an event's id is the service
  and its position in that service's outbox: both stand for fresh uuids.
- *Order of rows.* In `OutboxDelivery` a writer is two steps, `BeginStore` and
  `CommitStore`. A row's position is its `created_at`, the start of its transaction;
  the relays see it once the transaction has committed, which the transactions do in
  any order or, rolled back, never. `before` records, for the property only, which
  rows were committed when a transaction began. `Saga` stores a row in the one step of
  its use case: the order in which rows of one service leave is no matter there,
  because subscriptions deliver in any order and no property looks at it.
- *Amounts* in requests and events are in tenths of a cent, enough to tell a float64
  from the nearest amount a column can hold; the tables hold `Decimal(amount)`, whole
  cents. So the row and the event of an order or payment differ where the code's do.
- *Shutdown.* `cancel()` comes before `serverDone` is awaited; from then on an open
  transaction of the relay or of a handler commits in time (`FinishTx`) or is rolled
  back with an error (`AbortTx`), which `cut` records.
- *Loops* over an order's reservations are one step. `Release` saturates, so the
  loop order does not matter; `Commit` may fail in the middle, so
  `HandleOrderCompleted` chooses any set that some loop order commits
  (`Committable`).
- *The services alone* (`OrderService`, `InventoryService`, `PaymentService`) are
  given any event of a set `Inbound`, at any time, any number of times: more than
  the other services and the broker can produce. In `Saga` the same actions get
  only what was published.
- *Mutated forms.* An operator named `X_Something` next to `X` is a plausible
  mistake in the code behind `X`. It is used by nothing; PROJECT.json names the
  property that fails when it replaces `X`.

Actions and code: the names of the source are kept (`HandleOrderCreated`,
`CanReserve`, `PublishInTx`, ...); `map` in PROJECT.json gives the lines.

## 3. The runs

| Run | Checks | Result |
|---|---|---|
| `order_tx` | `TypeOK`, `OneVerdict`, `OutboxMatchesOrders`, `CompensationsFollowFailures`, `DecisionsAreFinal`, `Serializable` | hold |
| `inventory_tx` | `TypeOK`, `StockAccounting`, `AnsweredOnce`, `SettledOnce`, `Serializable`, `TransactionsEnd` | hold |
| `payment_service` | `TypeOK`, `OutcomesAnnounced`, `OnePaymentPerReservation`, `CancelRefunds` | hold |
| `outbox_delivery` | `TypeOK`, `DuplicatesNeedRollback`, `CausalOrder`, `SentWasAccepted`, `ImplementsAtLeastOnce`, `EventuallySettled` | hold |
| `lifecycle` | `TypeOK`, `ExitCodeTellsFailure`, `StopsOnlyWhenTold`, `SignalEndsProcess`, `ServesUnlessStopped` | hold |
| `saga` | `ExactlyOnceEffects`, `CompletedIsPaidAndHeld`, `CancelledIsFree`, `StockFollowsDecision`, `SettlementsFollowReservations`, `ImplementsFulfilment` | hold |
| `saga_liveness` | `LeavesPending`, `DeclinedIsCompensated`, `CompletedIsCommitted` | hold |
| `saga_paid_is_completed` | `PaidIsCompleted` | **violated** |
| `saga_lost_event` | `LeavesPending` with one loss | **violated** |
| `outbox_gives_up` | `EventuallySent`, the code's constants, one outage | **violated** |
| `lifecycle_hang` | `FailureEndsProcess`, two signals | **violated** |
| `order_cancelled_again` | `CancelledIsSkipped` | **violated** |

Bounds, and why they are enough to be interesting:

- `order_tx`: two orders and their events, which may come before the order does; per
  order one `StockReserved`, one `StockReserveFailed`, two `PaymentCompleted` and two
  `PaymentFailed`, handled by two goroutines with one failed transaction. Two are
  enough for a stale read: what a third could do to a row, the second can. Amounts
  are 0, which is refused, and 1.006, which the column rounds. `order_cancelled_again`
  is the same instance.
- `inventory_tx`: 3 units of `p` wanted by orders of 2, 1 and 2, one unknown
  product; two cancellations and two completions, contradictory ones for order 1;
  two goroutines, one failed transaction. Every sum of quantities that can overflow
  the stock occurs.
- `payment_service`: five reservations, one that the .99 rule must decline, one that it
  misses, one of 0.004, which is rounded to nothing, one with a negative amount; up to
  two cancellations.
- `outbox_delivery`: two relays (a second instance, or the overlap of an old and a new
  one), two rows of writers that overlap or not, and batches of one, so that each batch
  has a boundary; one outage,
  at any time or from the start; one rollback or restart; two reconnect attempts and
  two retries, small so that both limits are reached together with the rest.
- `outbox_gives_up`: one relay and one row with the code's 10 reconnects, 5 retries
  and LIMIT 100; nothing is rolled back, the broker always comes back, and closed
  connections are replaced by restarting the process.
- `lifecycle`: the code's 10 attempts of `NewPool`; database, subscriptions and
  listener each working or not at the start, two more failures at any time, one
  signal at any time. `lifecycle_hang` adds the second signal.
- `saga`: two orders, one of them possibly invalid, for one unit; one rolled back
  relay transaction and one loss (a handler's error or a stopped and restarted
  process), anywhere. 1.5 million states.
- `saga_liveness`: one order, for a stocked or an unknown product, one rollback and
  one failed publish, no loss.

Deadlock checking is off where the bounds make the system stop (all orders
created, all events handled); the services alone never stop, because repeated
deliveries stay possible.

Fairness.

- `Saga`: weak fairness of each subscription's deliveries: the NATS client runs a
  dispatcher goroutine per subscription, the Go scheduler starves none, and a row
  lock is held for one transaction only. Weak fairness of each relay's
  poll-publish-commit: `Relay.Start` loops on a ticker until the process ends and
  polls again after an error. Weak fairness of `Restart`: `restart: on-failure` in
  compose.yml, or an operator after a regular stop.
- `InventoryTx`: weak fairness of a worker's statements, not of beginning one: a
  goroutine in a handler runs on unless it waits for a lock.
- `OutboxDelivery`: `FairSpec` has weak fairness of each relay only; a writer may never
  commit, the broker may
  stay down and connections may never notice. `RepairedSpec`, of the violated run,
  adds that outages end and that an operator replaces processes, to show that even
  then the row is not sent.
- `Lifecycle`: weak fairness of `main`, of the server's goroutine, of the end of each
  transaction (a cancelled context ends it too), of compose's restart, and of
  repairs: a database or a port that is never repaired leaves nothing to show.

Nothing forces clients to order, or faults to happen or not: faults are bounded by
`MaxLosses`, `MaxRollbacks`, `MaxFailures`, `MaxFaults`, `MaxOutages`, `MaxBreaks`
and `MaxSignals` instead.

### What the violated runs show

1. **A paid order may stay CONFIRMED for ever** (`saga_paid_is_completed`, no fault
   involved). `StockReserved` starts the payment and also confirms the order. If the
   order service's `payment.completed` goroutine runs before its
   `inventory.stock_reserved` goroutine, `Complete` refuses the PENDING order, the
   handler logs and returns nil, and nothing delivers the event again. The relays'
   5 s interval makes this rare; a database wait of the other handler is
   enough. The failure flow does not have the problem (`DeclinedIsCompensated`
   holds), because `Cancel` accepts a PENDING order.
2. **An event may be lost** (`saga_lost_event`): the row is SENT once NATS has
   taken the message, so an error in the handler, or a stopped consumer, loses it
   although the outbox was meant to make delivery reliable.
3. **The relay gives up silently** (`outbox_gives_up`): a short outage is bridged by
   the client's buffer; after ten failed attempts the connection is closed, and five
   refused polls, 25 s, use up the retries of every pending row. The rows stay
   PENDING and are never selected again, by a new process neither; `StatusFailed`
   is declared but never set.
4. **A process may hang in its shutdown** (`lifecycle_hang`): `quit` has room for one
   signal. If the server fails, and of two signals one is read by `main` and the
   other fills `quit` before the server's goroutine sends, that goroutine blocks,
   `serverDone` is never closed, and `main` waits for it for ever.
   With one signal this cannot happen (`SignalEndsProcess` holds).
5. **A cancelled order is cancelled again** (`order_cancelled_again`): a test says of a
   `PaymentFailed` for a CANCELLED order that it is skipped, and checks only that no error
   is returned. `Cancel` refuses COMPLETED alone, so the handler commits and stores one
   more `OrderCancelled`. What does hold is `CompensationsFollowFailures`: there is a
   compensation if a failure was handled, and not one more than distinct failures.
   In the composed system it is harmless, since there is one failure per order.

Two more facts about amounts, which the models have and no property denies.
`NewPayment` insists on an amount greater than 0, but of the float64: 0.004 passes, the
column stores 0.00, and the schema has no CHECK. And the rule that an amount ending in
.99 is declined, meant for tests of the compensation, misses those whose product with 100
is truncated to a cent less, 16.99 the first.

What does hold, whatever is lost: no contradiction between the databases. Orders
get stuck; they are never both paid and cancelled, never completed without payment
and stock.

`CancelledIsFree` says more than the code intends: no payment of a cancelled order is
ever COMPLETED, so the refund branch of the payment service is never taken in the
composed system (an order is only cancelled after `PaymentFailed` or
`StockReserveFailed`). The branch is exercised in `payment_service`, where
cancellations come from anywhere.

## 4. The proofs

Checked by tlapm for every value of the constants: any products, stocks and
quantities, any (also infinite) set of inbound events, any number and order of
deliveries. The assumptions are the modules' `ASSUME`s: stocks are natural numbers,
quantities in `OrderCreated` events are integers (zero and negative ones included,
which the handler rejects), amounts in `StockReserved` events are integers, a client's
quantities and amounts are natural, event ids (uuids) are distinct, `NewPool` makes at
least one attempt, the bounds of `OutboxDelivery` are natural numbers, for the payment
service alone, an order has one `StockReserved` event, and, for the interleaved
statements of the inventory service, an order has one `OrderCreated` event
(`CreationAssumption`). The last two are proved of the components that send these
events: by `EffectsHappenOnce` and the invariant behind it, and by `OutboxIsTrue`. Of
the theorems about `Saga`, only the refinement uses an assumption, `SagaAssumption`:
clients ask for whole quantities and stocks start as natural numbers.

`OrderProofs`
- `TypeCorrect`: `Spec => []TypeOK`.
- `VerdictIsUnique`: `Spec => []OneVerdict`.
- `DecisionsStay`: `Spec => DecisionsAreFinal`.
- `OneVerdict` relates pairs of outbox rows, and follows from a statement about single
  rows (`AllAgree`): a row with a verdict names an order of the table whose status is
  that verdict. The inductive invariant is `TypeOK /\ AllAgree`. `CreateOrder` adds
  an order with a new id, so no old row is about it (`FreshID`); a handler
  changes the status of one order, and the state machine's guards exclude that a
  contrary row for it exists (`TransitionIInv` covers the four handlers at once).
- `OutboxIsTrue`: `Spec => []OutboxMatchesOrders`, and `FailuresAreCompensated`:
  `Spec => []CompensationsFollowFailures`, from `BooksInv`, which adds both and the
  finiteness of the counted sets (`Counted`). Each step adds one row and one handled
  event, or neither; distinct event ids make a handled event count once.

`InventoryProofs`
- `TypeCorrect`: `Spec => []TypeOK`; in particular no quantity becomes negative, so
  the schema's CHECKs never fail.
- `StockConserved`: `Spec => []StockAccounting`.
- `ReservationsSettleOnce`: `Spec => SettledOnce`.
- The inductive invariant is `TypeOK /\ StockAccounting`: neither part is inductive
  alone, since a quantity stays non-negative only because the books balance.
- Sums without recursion: a total quantity is the number of elements of a set of
  units, `{i} \X 1..quantity` for each reservation `i` (`Units`, `Total`). Adding and
  moving reservations are then facts about cardinalities of disjoint unions
  (`TotalSplit`, `TotalSingleton`, `AppendTotal`, `SettleTotal`), proved from the
  library's theorems on finite sets.
- Because the books balance, `Release` never saturates and `Commit` never
  fails: `CancelledIInv` and `CompletedIInv` show that the loops over reservations
  settle all of them, so the `continue` branches of the handlers are dead code.
- `OrdersAnsweredOnce`: `Spec => []AnsweredOnce`: an answer tells the order, product and
  quantity of its `OrderCreated` and of the reservation made for it. `AnswerInv` adds that the counts of
  answers, reservations and handled `OrderCreated` events agree (`Balanced`) and are
  finite; `CountsGrow` is the one fact about them, and `AnswersGrow` and
  `CreatedGrows` say that a step adds one element to each set or to none.

`PaymentProofs`
- `TypeCorrect`, `OutcomesAreAnnounced`, `ChargedOnce` and `CancellationsRefund`:
  `TypeOK`, `OutcomesAnnounced`, `OnePaymentPerReservation`, `CancelRefunds`, whichever
  payments the provider declines. A stored amount is natural, not positive: 0.004
  is stored as 0.00. Announced and stored amounts agree up to `Decimal`.
- The invariant is `TypeOK /\ Books /\ Counted`: payments and outbox grow together, row
  by row, and there are as many payments of an order as reservations handled. That a
  cancellation leaves no COMPLETED payment behind is an action property: the handler
  refunds one row, and `Counted` with one reservation per order leaves no second.

`OrderTxProofs`
- `HandlersSerialize`: `TxSpec => Serializable`, for any number of goroutines and
  failing transactions. With it, what `OrderProofs` proves of the atomic handlers
  holds of the interleaved statements.
- The invariant `TxInv` (theorem `ReadsStayTrue`): no two transactions hold a common
  lock; an open transaction's event is not yet processed and is locked; the order it
  read is locked and still what it read. A commit changes only rows that its
  transaction has locked, hence no row that another one has read (`CommitStep`).
  `CommitIsHandle` is the simulation: the decision on the copy is the decision on
  the table.
- `InterleavedVerdicts`, `InterleavedOutbox`, `InterleavedCompensations`: the invariants
  of `OrderProofs`, of the interleaved statements, through `HandlersSerialize`.

`InventoryTxProofs`
- `HandlersSerialize`: `TxSpec => Serializable`, for any number of goroutines, products
  and reservations of an order, with the loops over reservations as single statements;
  `InterleavedStock`, `InterleavedAnswers`, `InterleavedSettlements` carry the invariants
  of `InventoryProofs` over to the interleaved statements.
- The invariant `TxInv` (theorem `ReadsStayTrue`): locks are disjoint; an open
  transaction's event is locked and not yet processed; what it read of a stock row or a
  reservation is locked and still true; in a loop, its copy of a stock row is the row
  less what the loop has settled so far. So the loop's last state is the atomic
  handler's result.
- The atomic handler settles every reservation because the books balance, and so does
  the loop: the copy of the stock row always covers what is left to settle.
- The list of reservations that a settlement read stays complete: its order was answered
  before (the guard of `Begin`, see "Inventory's inputs"), and with one `OrderCreated`
  event per order no later reservation can appear.

`OutboxDeliveryProofs`
- `TypeCorrect`, `OnlyRollbacksDuplicate`, `SentMeansAccepted`, `RelaysKeepCauses`, for any
  number of relays, rows, faults and any `LIMIT`; `RelaysImplementContract`:
  `Spec => ImplementsAtLeastOnce`, the refinement of the at-least-once contract.
- The invariant: transactions are well formed and lock disjoint sets of rows (`Locks`);
  a row marked sent in a transaction or in the table has arrived, is buffered or was
  dropped by a connection (`Delivered`); the copies of a row are bounded by the
  rollbacks, and one less while the row can still be published (`Counted`); the rows
  that were committed when a transaction began are committed and sorted before its row
  (`Earlier`); and, as long as nothing failed, those of a published row are done or in the
  hands of another relay (`InOrder`). So a relay never locks a row that one it published
  may rest on.
- Nothing more about order is true: rows of transactions that overlap leave in either
  order, even through one relay, and two relays do not wait for each other.
- `BatchOldest` is the fact about `ORDER BY ... LIMIT`: what a batch leaves out is
  younger than what it takes.

`SagaProofs`
- `EffectsHappenOnce`, `CompletedOrdersAgree`, `CancelledOrdersAgree`,
  `StockWaitsForDecision`, `SettlementsInOrder`: the five safety properties of the
  composed system, for any number of orders, relays, lost messages, stopped processes
  and rollbacks.
- The invariant `SagaInv` does not follow messages. It is about the set of events that
  any outbox holds, by type (`Published`), which only grows. Queues hold nothing else
  (`Queues`); an order is announced once (`Placed`); a reservation, and a refusal, is of
  an order whose `OrderCreated` event is marked as processed, and there is one
  (`Reserved`, `Refused`); the same for payments and `StockReserved` events (`Charged`);
  an order ended because some event said so, and what it announced is its status
  (`Decided`); stock is settled on such an announcement (`Settled`).
- Exactly once is the meeting of two facts: an event that is not marked was never acted
  on (`UnmarkedNotAsked`), and there is one event per order to act on. No refund
  ever happens in the composed system (`CancelledNotPaid`): a cancellation is only
  announced after a failed payment, and there is no other payment.
- Each action is first reduced to what it does to the tables and the announced events
  (`Announced`, `Silent`, `Moves`, `Settles`), and one lemma per effect shows that the
  invariant survives it. Relay steps and faults change no event (`TransportKeeps`).
- `SagaImplementsFulfilment`: `Spec => ImplementsFulfilment`. Seen through the three
  databases, the composed system is a table of orders that are placed, reserved or
  refused, confirmed, charged, completed or cancelled, and settled, in the order and
  under the conditions of `Fulfilment`; messages, relays, duplicates and faults are
  stuttering steps.
- `SagaInv` alone is too weak for this: `Fulfilment` reserves when its own count of the
  units of orders leaves enough, the code when the two numbers of a stock row do. `Books`
  adds that the numbers of every row are these counts (`Ledger`) and that a refusal is an
  answer stored by the inventory service (`Answered`). Then both conditions are the same
  (`InStockIsAvailable`), and a completion always finds enough held to commit
  (`CommitsHeld`), so that the error of a stock row that is short never occurs.
- The views that the refinement reads with CHOOSE are given by the tables (`Views`),
  because an order has one reservation and one payment. One lemma per effect
  (`ReserveSimulates`, `ChargeSimulates`, `SettleSimulates`...) shows the abstract step
  and that the books stay right; one lemma per service puts them together.

`LifecycleProofs`
- `FailureIsTold`, `NothingStopsUntold`, `TypeCorrect`: `ExitCodeTellsFailure`,
  `StopsOnlyWhenTold` and `TypeOK` for any number of attempts, signals and failures; so the hang found
  with two signals is the worst that they do, the exit code is right whenever there
  is one.
- The invariant says what is known wherever `main` is on its way out (`Leaving`): in
  the deferred calls the server has returned and has not failed, and a running process
  has aborted transactions only after `cancel()`; and what is known as long as no signal
  came (`Untold`): only the server's failure fills `quit`, so only it leads to `cancel()`.

Only model-checked: what the float arithmetic of payments computes, the progress of
connections, and all liveness properties (liveness under fairness is out of reach of the
prover).

## 5. Not modelled

- Row locks of the payment service: a payment is inserted once per event, and the
  only update writes REFUNDED under `FOR UPDATE`.
- JSON encoding and parsing: every event the services send is parsed back to what it
  was. A payload that cannot be parsed is dropped like a handler's error.
- Amounts of a hundred million or more, which overflow `DECIMAL(10,2)`: the INSERT fails
  and the use case is rolled back, as by any error of the database.
- Reads (`GetOrder`, `GetInventory`, `GetPayment`, health checks): no state change.
- Configuration (environment variables, pool sizes, middleware), `pkg/testutil`
  (containers for tests), build and CI files.
- `NewClient`'s retry loop: `RetryOnFailedConnect` makes the first `nats.Connect`
  succeed, so the loop goes round only for errors in the options, which are constant.
- The ten seconds that the HTTP server waits for requests when it stops: a request
  that takes longer is a transaction that `pool.Close` waits for.
- Repeated client requests: requests carry no key, so each is an order of its own.
- `StockReleased`, `PaymentStatusPending`, `StatusFailed`: declared, but never published
  or stored.

## 6. Plan

Done: events, outbox, services, relay, broker and connections, transactions with
row locks, process life cycle, composition, the two abstract specifications and the
two serializability refinements; proofs of the safety properties of the services, the
relays, the two services' transactions, the composed system and the life cycle, and of
all four refinements.

Left: nothing of the plan. What stays with TLC is listed at the end of section 4.

## 7. Running

    tlc -workers 2 -config MCOrderTx.cfg MCOrderTx
    tlapm InventoryProofs.tla

and likewise for the other configurations (`OutboxDelivery*.cfg` with module
`OutboxDelivery`, `Lifecycle*.cfg` with `Lifecycle`, `MCSaga*.cfg` with `MCSaga`).
The longest run takes about two and a half minutes, the proofs a few minutes.

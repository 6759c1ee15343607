-------------------------------- MODULE Saga --------------------------------
(***************************************************************************)
(* The whole system: the three services, each with its database, its       *)
(* consumer and its relay, composed over the broker (compose.yml runs one  *)
(* process of each).                                                       *)
(*                                                                         *)
(*   client -> order -> OrderCreated -> inventory -> StockReserved ->      *)
(*   order and payment -> PaymentCompleted/Failed -> order ->              *)
(*   OrderCompleted/Cancelled -> inventory (and payment)                   *)
(*                                                                         *)
(* Every step of a relay and every call of a handler is a step, so the     *)
(* goroutines of the subscriptions, the relays and the clients interleave  *)
(* freely.  Handlers that fail, processes that stop and restart, and relay *)
(* transactions that are rolled back are bounded by budgets.               *)
(***************************************************************************)
EXTENDS Naturals, Sequences, FiniteSets, Events

CONSTANTS
    ProductIDs, Quantities, Amounts, MaxOrders,   \* the clients' orders
    InitialStock,                                 \* the stock at the start
    Relays, BatchLimit, MaxRetryCount,            \* each service's relay
    MaxLosses,          \* bound: handler errors and processes stopped
    MaxRollbacks,       \* bound: relay transactions rolled back
    MaxFailures         \* bound: publish attempts that fail

\* Clients ask for whole quantities (int in the requests) and the rows of the inventory table
\* start with whole, non-negative stocks (CHECK of init-inventory-db.sql).
ASSUME SagaAssumption ==
    /\ Quantities \subseteq Nat
    /\ InitialStock \in [DOMAIN InitialStock -> Nat]

VARIABLES
    orders, order_outbox, order_processed, order_tx,
    inventory, reservations, inventory_outbox, inventory_processed, inventory_tx,
    payments, payment_outbox, payment_processed, payment_tx,
    inbox, up,
    losses, rollbacks, failures

Order == INSTANCE OrderService WITH
    outbox <- order_outbox, processed_events <- order_processed, Inbound <- {}

Inventory == INSTANCE InventoryService WITH
    outbox <- inventory_outbox, processed_events <- inventory_processed, Inbound <- {}

Payment == INSTANCE PaymentService WITH
    outbox <- payment_outbox, processed_events <- payment_processed, Inbound <- {}

OrderRelay     == INSTANCE Relay WITH outbox <- order_outbox,     tx <- order_tx
InventoryRelay == INSTANCE Relay WITH outbox <- inventory_outbox, tx <- inventory_tx
PaymentRelay   == INSTANCE Relay WITH outbox <- payment_outbox,   tx <- payment_tx

(* The consumers' Start functions. *)
Subscriptions == ({"order"} \X Order!Subjects) \cup ({"inventory"} \X Inventory!Subjects)
                     \cup ({"payment"} \X Payment!Subjects)

Services == {"order", "inventory", "payment"}

Broker == INSTANCE Messaging

orderVars     == <<orders, order_outbox, order_processed, order_tx>>
inventoryVars == <<inventory, reservations, inventory_outbox, inventory_processed, inventory_tx>>
paymentVars   == <<payments, payment_outbox, payment_processed, payment_tx>>
brokerVars    == <<inbox, up>>
faultVars     == <<losses, rollbacks, failures>>

vars == <<orderVars, inventoryVars, paymentVars, brokerVars, faultVars>>

Init ==
    /\ Order!Init /\ OrderRelay!RelayInit
    /\ Inventory!Init /\ InventoryRelay!RelayInit
    /\ Payment!Init /\ PaymentRelay!RelayInit
    /\ Broker!MessagingInit
    /\ losses = 0 /\ rollbacks = 0 /\ failures = 0

-----------------------------------------------------------------------------
(* Clients and consumers *)

CreateOrder ==
    /\ up["order"]
    /\ \E p \in ProductIDs, q \in Quantities, a \in Amounts : Order!CreateOrder(p, q, a)
    /\ UNCHANGED <<order_tx, inventoryVars, paymentVars, brokerVars, faultVars>>

(* The goroutine of a subscription hands its next message to the handler.  *)
DeliverToOrder(subject) ==
    LET s == <<"order", subject>> IN
    /\ Broker!HasMessage(s)
    /\ Order!Handle(Broker!Received(s))
    /\ Broker!Take(s)
    /\ UNCHANGED <<order_tx, inventoryVars, paymentVars, faultVars>>

DeliverToInventory(subject) ==
    LET s == <<"inventory", subject>> IN
    /\ Broker!HasMessage(s)
    /\ Inventory!Handle(Broker!Received(s))
    /\ Broker!Take(s)
    /\ UNCHANGED <<inventory_tx, orderVars, paymentVars, faultVars>>

DeliverToPayment(subject) ==
    LET s == <<"payment", subject>> IN
    /\ Broker!HasMessage(s)
    /\ Payment!Handle(Broker!Received(s))
    /\ Broker!Take(s)
    /\ UNCHANGED <<payment_tx, orderVars, inventoryVars, faultVars>>

-----------------------------------------------------------------------------
(* Relays *)

PublishRow(row) == Broker!Publish(row.payload.event_type, row.payload)

OrderRelayStep(r) ==
    /\ \/ (OrderRelay!Poll(r) \/ OrderRelay!Commit(r)) /\ UNCHANGED brokerVars
       \/ \E i \in DOMAIN order_outbox :
             OrderRelay!PublishMessage(r, i) /\ PublishRow(order_outbox[i])
    /\ UNCHANGED <<orders, order_processed, inventoryVars, paymentVars, faultVars>>

InventoryRelayStep(r) ==
    /\ \/ (InventoryRelay!Poll(r) \/ InventoryRelay!Commit(r)) /\ UNCHANGED brokerVars
       \/ \E i \in DOMAIN inventory_outbox :
             InventoryRelay!PublishMessage(r, i) /\ PublishRow(inventory_outbox[i])
    /\ UNCHANGED <<inventory, reservations, inventory_processed,
                   orderVars, paymentVars, faultVars>>

PaymentRelayStep(r) ==
    /\ \/ (PaymentRelay!Poll(r) \/ PaymentRelay!Commit(r)) /\ UNCHANGED brokerVars
       \/ \E i \in DOMAIN payment_outbox :
             PaymentRelay!PublishMessage(r, i) /\ PublishRow(payment_outbox[i])
    /\ UNCHANGED <<payments, payment_processed, orderVars, inventoryVars, faultVars>>

RelayStep(r) ==
    \/ up["order"] /\ OrderRelayStep(r)
    \/ up["inventory"] /\ InventoryRelayStep(r)
    \/ up["payment"] /\ PaymentRelayStep(r)

-----------------------------------------------------------------------------
(* Faults *)

(* One relay's transaction is rolled back, or one publish attempt fails.   *)
RelayRollback(r) ==
    /\ rollbacks < MaxRollbacks
    /\ rollbacks' = rollbacks + 1
    /\ \/ OrderRelay!Rollback(r)     /\ UNCHANGED <<inventory_outbox, inventory_tx,
                                                    payment_outbox, payment_tx>>
       \/ InventoryRelay!Rollback(r) /\ UNCHANGED <<order_outbox, order_tx,
                                                    payment_outbox, payment_tx>>
       \/ PaymentRelay!Rollback(r)   /\ UNCHANGED <<order_outbox, order_tx,
                                                    inventory_outbox, inventory_tx>>
    /\ UNCHANGED <<orders, order_processed, inventory, reservations, inventory_processed,
                   payments, payment_processed, brokerVars, losses, failures>>

PublishFails(r) ==
    /\ failures < MaxFailures
    /\ failures' = failures + 1
    /\ \/ OrderRelay!PublishFails(r)     /\ UNCHANGED <<inventory_outbox, inventory_tx,
                                                        payment_outbox, payment_tx>>
       \/ InventoryRelay!PublishFails(r) /\ UNCHANGED <<order_outbox, order_tx,
                                                        payment_outbox, payment_tx>>
       \/ PaymentRelay!PublishFails(r)   /\ UNCHANGED <<order_outbox, order_tx,
                                                        inventory_outbox, inventory_tx>>
    /\ UNCHANGED <<orders, order_processed, inventory, reservations, inventory_processed,
                   payments, payment_processed, brokerVars, losses, rollbacks>>

(* A handler returns an error (no connection, a cancelled context): the    *)
(* consumer logs it and the message is gone.                               *)
HandlerError(s) ==
    /\ losses < MaxLosses
    /\ losses' = losses + 1
    /\ Broker!HasMessage(s)
    /\ Broker!Take(s)
    /\ UNCHANGED <<orderVars, inventoryVars, paymentVars, rollbacks, failures>>

(* A process stops: its queues are lost, its open transactions rolled back.*)
Stop(service) ==
    /\ losses < MaxLosses
    /\ losses' = losses + 1
    /\ Broker!Disconnect(service)
    /\ order_tx' = IF service = "order" THEN [r \in Relays |-> OrderRelay!NoTx] ELSE order_tx
    /\ inventory_tx' = IF service = "inventory" THEN [r \in Relays |-> OrderRelay!NoTx]
                                                ELSE inventory_tx
    /\ payment_tx' = IF service = "payment" THEN [r \in Relays |-> OrderRelay!NoTx]
                                            ELSE payment_tx
    /\ UNCHANGED <<orders, order_outbox, order_processed,
                   inventory, reservations, inventory_outbox, inventory_processed,
                   payments, payment_outbox, payment_processed, rollbacks, failures>>

Restart(service) ==
    /\ Broker!Connect(service)
    /\ UNCHANGED <<orderVars, inventoryVars, paymentVars, faultVars>>

-----------------------------------------------------------------------------
Deliver ==
    \/ \E subject \in Order!Subjects : DeliverToOrder(subject)
    \/ \E subject \in Inventory!Subjects : DeliverToInventory(subject)
    \/ \E subject \in Payment!Subjects : DeliverToPayment(subject)

Next ==
    \/ CreateOrder
    \/ Deliver
    \/ \E r \in Relays : RelayStep(r) \/ RelayRollback(r) \/ PublishFails(r)
    \/ \E s \in Subscriptions : HandlerError(s)
    \/ \E service \in Services : Stop(service) \/ Restart(service)

Spec == Init /\ [][Next]_vars

(* Goroutines that can run do run: every subscription's dispatcher, every  *)
(* relay's ticker; a stopped process is started again (restart: on-failure *)
(* in compose.yml).  Nothing makes clients order or faults happen.         *)
Fairness ==
    /\ \A subject \in Order!Subjects : WF_vars(DeliverToOrder(subject))
    /\ \A subject \in Inventory!Subjects : WF_vars(DeliverToInventory(subject))
    /\ \A subject \in Payment!Subjects : WF_vars(DeliverToPayment(subject))
    /\ \A r \in Relays : /\ WF_vars(up["order"] /\ OrderRelayStep(r))
                         /\ WF_vars(up["inventory"] /\ InventoryRelayStep(r))
                         /\ WF_vars(up["payment"] /\ PaymentRelayStep(r))
    /\ \A service \in Services : WF_vars(Restart(service))

FairSpec == Spec /\ Fairness

-----------------------------------------------------------------------------
(* Safety: what holds across the three databases at every moment, whatever *)
(* is lost, repeated or reordered.                                         *)

OrderIDs == DOMAIN orders

PaymentsOf(id) == {i \in DOMAIN payments : payments[i].order_id = id}

ReservationsOf(id) == {i \in DOMAIN reservations : reservations[i].order_id = id}

(* Events are delivered more than once (a relay rolled back after it       *)
(* published), yet an order reserves stock at most once and is paid for at *)
(* most once, and only stock that was reserved is paid for.                *)
ExactlyOnceEffects ==
    \A id \in OrderIDs :
        /\ Cardinality(ReservationsOf(id)) <= 1
        /\ Cardinality(PaymentsOf(id)) <= Cardinality(ReservationsOf(id))

(* A COMPLETED order is paid, in full, and its stock is held or has left:  *)
(* the order service's word agrees with the other two databases.           *)
CompletedIsPaidAndHeld ==
    \A id \in OrderIDs :
        orders[id].status = "COMPLETED" =>
            /\ \E i \in PaymentsOf(id) : /\ payments[i].status = "COMPLETED"
                                         /\ payments[i].amount = orders[id].total_amount
            /\ \E i \in ReservationsOf(id) :
                  /\ reservations[i].status \in {"RESERVED", "COMMITTED"}
                  /\ reservations[i].product_id = orders[id].product_id
                  /\ reservations[i].quantity = orders[id].quantity

(* A CANCELLED order costs nothing and takes nothing: no payment of it     *)
(* stands, not even for the time until a refund, and no stock left.        *)
CancelledIsFree ==
    \A id \in OrderIDs :
        orders[id].status = "CANCELLED" =>
            /\ \A i \in PaymentsOf(id) : payments[i].status = "FAILED"
            /\ \A i \in ReservationsOf(id) : reservations[i].status # "COMMITTED"

(* Stock is only given back for cancelled orders and only taken out for    *)
(* completed ones: compensation never overtakes the decision.              *)
StockFollowsDecision ==
    \A i \in DOMAIN reservations :
        /\ reservations[i].status = "RELEASED"
              => orders[reservations[i].order_id].status = "CANCELLED"
        /\ reservations[i].status = "COMMITTED"
              => orders[reservations[i].order_id].status = "COMPLETED"

(* A cancellation or completion never overtakes the order it is about: when*)
(* one waits in inventory's queues, the reservation was decided and        *)
(* committed before.  The inventory service relies on it, since a          *)
(* cancellation that finds no reservation is marked as processed for good. *)
SettlementsFollowReservations ==
    \A subject \in Inventory!Subjects \ {EventTypeOrderCreated} :
        LET queue == inbox[<<"inventory", subject>>] IN
        \A n \in DOMAIN queue :
            \E i \in DOMAIN order_outbox :
                /\ order_outbox[i].payload.event_type = EventTypeOrderCreated
                /\ order_outbox[i].payload.order_id = queue[n].order_id
                /\ order_outbox[i].payload.event_id \in inventory_processed

(* The saga implements Fulfilment: seen through the three databases, every *)
(* step of a service is a legal step of an order's life or no step at all. *)
(* Repeated and reordered events, crashes and retries never show.          *)
StockOf(id) ==
    IF ReservationsOf(id) # {}
    THEN reservations[CHOOSE i \in ReservationsOf(id) : TRUE].status
    ELSE IF \E i \in DOMAIN inventory_outbox :
               inventory_outbox[i].payload.order_id = id
         THEN "REFUSED" ELSE "ASKED"

ChargeOf(id) ==
    IF PaymentsOf(id) = {} THEN "NONE"
    ELSE payments[CHOOSE i \in PaymentsOf(id) : TRUE].status

(* The amounts that the tables hold, in cents. *)
StoredAmounts == {Order!Decimal(a) : a \in Amounts \ {0}}

Abstract == INSTANCE Fulfilment WITH
    Amounts <- StoredAmounts,
    stock  <- [id \in OrderIDs |-> StockOf(id)],
    charge <- [id \in OrderIDs |-> ChargeOf(id)]

ImplementsFulfilment == Abstract!Spec

-----------------------------------------------------------------------------
(* Liveness: what the saga promises when nothing is lost. *)

Ids == 1 .. MaxOrders

HasStatus(id, status) == id \in OrderIDs /\ orders[id].status = status

(* An order does not wait forever: stock reserved or refused, it leaves    *)
(* PENDING.                                                                *)
LeavesPending == \A id \in Ids : HasStatus(id, "PENDING") ~> ~HasStatus(id, "PENDING")

(* The compensation of the README's failure flow: once a payment failed,   *)
(* the order is eventually CANCELLED and its stock RELEASED, in whichever  *)
(* order the order service sees StockReserved and PaymentFailed.           *)
DeclinedIsCompensated ==
    \A id \in Ids :
        (\E i \in PaymentsOf(id) : payments[i].status = "FAILED")
            ~> /\ HasStatus(id, "CANCELLED")
               /\ \A i \in ReservationsOf(id) : reservations[i].status = "RELEASED"

(* A COMPLETED order's stock eventually leaves the books. *)
CompletedIsCommitted ==
    \A id \in Ids :
        HasStatus(id, "COMPLETED")
            ~> \A i \in ReservationsOf(id) : reservations[i].status = "COMMITTED"

(* The last step of the README's normal flow: after the payment completed  *)
(* the order becomes COMPLETED.  It does not hold: StockReserved and       *)
(* PaymentCompleted reach the order service on different subscriptions, and*)
(* a PaymentCompleted handled first is dropped.                            *)
PaidIsCompleted ==
    \A id \in Ids :
        (\E i \in PaymentsOf(id) : payments[i].status = "COMPLETED")
            ~> HasStatus(id, "COMPLETED")
=============================================================================

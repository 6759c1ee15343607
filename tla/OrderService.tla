---------------------------- MODULE OrderService ----------------------------
(***************************************************************************)
(* services/order: the orders table, its state machine and the handlers of *)
(* the order service.                                                      *)
(*                                                                         *)
(* Every use case runs in one database transaction that locks the order's  *)
(* row (FindByIDForUpdate) and the event's row of processed_events, and is *)
(* one atomic action here; OrderTx shows that the statements of several    *)
(* goroutines amount to that.  A return before Commit rolls everything     *)
(* back, the mark in processed_events included: such a delivery changes    *)
(* nothing.                                                                *)
(*                                                                         *)
(* The specification at the end puts the service in the weakest            *)
(* environment: any event of Inbound may arrive at any time, any number of *)
(* times, in any order.                                                    *)
(***************************************************************************)
EXTENDS Naturals, Sequences, FiniteSets, Events, Outbox, Money

CONSTANTS
    ProductIDs,   \* product ids a client may order
    Quantities,   \* quantities a client may ask for, invalid ones included
    Amounts,      \* total amounts, in tenths of a cent, invalid ones included
    MaxOrders,    \* bound: how many orders clients create
    Inbound       \* the events the environment may deliver

VARIABLES
    orders,            \* the orders table; an order's id is its position
    outbox,            \* the outbox table of order-db
    processed_events   \* the processed_events table of order-db

vars == <<orders, outbox, processed_events>>

(* Event ids are uuids: no two events share one. *)
ASSUME OrderAssumption ==
    /\ Quantities \subseteq Nat
    /\ Amounts \subseteq Nat
    /\ \A e, f \in Inbound : e.event_id = f.event_id => e = f

-----------------------------------------------------------------------------
(* domain/order.go *)

OrderStatusPending   == "PENDING"
OrderStatusConfirmed == "CONFIRMED"
OrderStatusCompleted == "COMPLETED"
OrderStatusCancelled == "CANCELLED"

OrderStatuses ==
    {OrderStatusPending, OrderStatusConfirmed, OrderStatusCompleted, OrderStatusCancelled}

(* A row of the orders table (CHECK quantity > 0; the amount in cents).    *)
Orders ==
    [product_id : ProductIDs, quantity : Quantities \ {0},
     total_amount : {Decimal(a) : a \in Amounts \ {0}}, status : OrderStatuses]

ValidOrder_ZeroAllowed(quantity, total_amount) == quantity >= 0 /\ total_amount > 0
ValidOrder(quantity, total_amount) == quantity > 0 /\ total_amount > 0

(* NewOrder, as Save stores it: the column rounds the amount. *)
NewOrder(product_id, quantity, total_amount) ==
    [product_id |-> product_id, quantity |-> quantity, total_amount |-> Decimal(total_amount),
     status |-> OrderStatusPending]

(* When Confirm, Complete and Cancel do not return ErrInvalidTransition.   *)
CanConfirm_Unguarded(order) == TRUE
CanConfirm(order) == order.status = OrderStatusPending

CanComplete_Again(order) == order.status \in {OrderStatusConfirmed, OrderStatusCompleted}
CanComplete(order) == order.status = OrderStatusConfirmed

CanCancel_Always(order) == TRUE
CanCancel_ConfirmedOnly(order) == order.status = OrderStatusConfirmed
CanCancel(order) == order.status # OrderStatusCompleted

-----------------------------------------------------------------------------
(* application/usecase.go *)

Init ==
    /\ orders = <<>>
    /\ outbox = <<>>
    /\ processed_events = {}

(* CreateOrder: the row and its OrderCreated event, which carries the      *)
(* amount of the request, in one transaction.                              *)
CreateOrder(product_id, quantity, total_amount) ==
    /\ Len(orders) < MaxOrders
    /\ ValidOrder(quantity, total_amount)
    /\ orders' = Append(orders, NewOrder(product_id, quantity, total_amount))
    /\ outbox' = PublishInTx(outbox,
                    NewOrderCreatedEvent(NewEventID("order", outbox), Len(orders) + 1,
                                         product_id, quantity, total_amount))
    /\ UNCHANGED processed_events

(* The prologue the four handlers share: the event is new, the order is    *)
(* found, and the state machine accepts the transition.                    *)
Found(event) ==
    /\ ~AlreadyProcessed(processed_events, event)
    /\ event.order_id \in DOMAIN orders

Confirms(event)  == Found(event) /\ CanConfirm(orders[event.order_id])
Completes(event) == Found(event) /\ CanComplete(orders[event.order_id])
Cancels(event)   == Found(event) /\ CanCancel(orders[event.order_id])

SetStatus(event, status) ==
    /\ processed_events' = MarkProcessed(processed_events, event)
    /\ orders' = [orders EXCEPT ![event.order_id].status = status]

(* What the four handlers write once the transition is accepted.  For a    *)
(* rejected reservation nothing has to be compensated, so no event.        *)
Confirm(event) ==
    /\ SetStatus(event, OrderStatusConfirmed)
    /\ UNCHANGED outbox

Complete(event) ==
    /\ SetStatus(event, OrderStatusCompleted)
    /\ outbox' = PublishInTx(outbox,
                    NewOrderCompletedEvent(NewEventID("order", outbox), event.order_id))

CancelAndCompensate_NoEvent(event) ==
    /\ SetStatus(event, OrderStatusCancelled)
    /\ UNCHANGED outbox
CancelAndCompensate(event) ==
    /\ SetStatus(event, OrderStatusCancelled)
    /\ outbox' = PublishInTx(outbox,
                    NewOrderCancelledEvent(NewEventID("order", outbox), event.order_id))

Cancel(event) ==
    /\ SetStatus(event, OrderStatusCancelled)
    /\ UNCHANGED outbox

HandleStockReserved(event) ==
    \/ Confirms(event) /\ Confirm(event)
    \/ ~Confirms(event) /\ UNCHANGED vars

HandlePaymentCompleted(event) ==
    \/ Completes(event) /\ Complete(event)
    \/ ~Completes(event) /\ UNCHANGED vars

HandlePaymentFailed(event) ==
    \/ Cancels(event) /\ CancelAndCompensate(event)
    \/ ~Cancels(event) /\ UNCHANGED vars

HandleStockReserveFailed(event) ==
    \/ Cancels(event) /\ Cancel(event)
    \/ ~Cancels(event) /\ UNCHANGED vars

(* interfaces/consumer.go: one subscription, one handler per event type.   *)
Subjects == {EventTypeStockReserved, EventTypeStockReserveFailed,
             EventTypePaymentCompleted, EventTypePaymentFailed}

Handle(event) ==
    \/ event.event_type = EventTypeStockReserved      /\ HandleStockReserved(event)
    \/ event.event_type = EventTypeStockReserveFailed /\ HandleStockReserveFailed(event)
    \/ event.event_type = EventTypePaymentCompleted   /\ HandlePaymentCompleted(event)
    \/ event.event_type = EventTypePaymentFailed      /\ HandlePaymentFailed(event)

Next ==
    \/ \E p \in ProductIDs, q \in Quantities, a \in Amounts : CreateOrder(p, q, a)
    \/ \E event \in Inbound : Handle(event)

Spec == Init /\ [][Next]_vars

-----------------------------------------------------------------------------
(* Properties *)

OrderEvents ==
    OrderCreatedEvents(EventIDs("order"), Nat, ProductIDs, Quantities, Amounts)
      \cup PlainEvents(EventIDs("order"),
                       {EventTypeOrderCompleted, EventTypeOrderCancelled}, Nat)

(* The tables of order-db hold well-formed rows and the outbox only events *)
(* that this service publishes.                                            *)
TypeOK ==
    /\ orders \in Seq(Orders)
    /\ outbox \in Seq(Rows(OrderEvents))
    /\ processed_events \subseteq {event.event_id : event \in Inbound}

(* The outbox rows of one type for one order. *)
RowsFor(type, order_id) ==
    {i \in DOMAIN outbox : /\ outbox[i].payload.event_type = type
                           /\ outbox[i].payload.order_id = order_id}

(* However late, early or often its inputs arrive, the service never tells *)
(* the others both that an order completed and that it was cancelled       *)
(* (stock would be committed and released, a payment kept and refunded),   *)
(* and each verdict agrees with the status the order keeps.                *)
OneVerdict ==
    \A i, j \in DOMAIN outbox :
        /\ outbox[i].payload.event_type = EventTypeOrderCompleted
               => orders[outbox[i].payload.order_id].status = OrderStatusCompleted
        /\ outbox[j].payload.event_type = EventTypeOrderCancelled
               => orders[outbox[j].payload.order_id].status = OrderStatusCancelled
        /\ ~ /\ outbox[i].payload.event_type = EventTypeOrderCompleted
             /\ outbox[j].payload.event_type = EventTypeOrderCancelled
             /\ outbox[i].payload.order_id = outbox[j].payload.order_id

(* Transactional outbox: every order row has exactly one OrderCreated row  *)
(* with the same data (the amount unrounded), and a COMPLETED order exactly*)
(* one OrderCompleted.                                                     *)
OutboxMatchesOrders ==
    \A id \in DOMAIN orders :
        /\ \E i \in DOMAIN outbox :
              /\ RowsFor(EventTypeOrderCreated, id) = {i}
              /\ outbox[i].payload.product_id   = orders[id].product_id
              /\ outbox[i].payload.quantity     = orders[id].quantity
              /\ Decimal(outbox[i].payload.total_amount) = orders[id].total_amount
        /\ orders[id].status = OrderStatusCompleted
              => \E i \in DOMAIN outbox : RowsFor(EventTypeOrderCompleted, id) = {i}

(* The PaymentFailed events of an order that were handled and committed. *)
Failures(id) ==
    {event \in Inbound : /\ event.event_type = EventTypePaymentFailed
                         /\ event.order_id = id
                         /\ event.event_id \in processed_events}

(* Compensations follow failures: an order whose payment failed is         *)
(* compensated for, whatever else arrived about it, and repeating a        *)
(* PaymentFailed, or a rejected reservation, never adds an OrderCancelled. *)
CompensationsFollowFailures ==
    \A id \in DOMAIN orders :
        /\ Failures(id) # {} => RowsFor(EventTypeOrderCancelled, id) # {}
        /\ Cardinality(RowsFor(EventTypeOrderCancelled, id)) <= Cardinality(Failures(id))

(* A PaymentFailed that finds its order CANCELLED is skipped, so an order  *)
(* is compensated for once.  It does not hold: Cancel accepts a CANCELLED  *)
(* order, and HandlePaymentFailed goes on to publish OrderCancelled again. *)
CancelledIsSkipped ==
    \A id \in DOMAIN orders : Cardinality(RowsFor(EventTypeOrderCancelled, id)) <= 1

(* A decided order stays decided: no step changes the status of a          *)
(* COMPLETED or CANCELLED order, whichever event arrives afterwards.       *)
DecidedStays ==
    \A id \in DOMAIN orders :
        orders[id].status \in {OrderStatusCompleted, OrderStatusCancelled}
            => orders'[id].status = orders[id].status

DecisionsAreFinal == [][DecidedStays]_vars
=============================================================================

------------------------------- MODULE Events -------------------------------
(***************************************************************************)
(* pkg/events: the messages the three services exchange.                   *)
(*                                                                         *)
(* An event keeps the fields some handler reads: its id (the idempotency   *)
(* key), its type (the NATS subject) and the order's data.  Customer ids,  *)
(* reservation and payment ids, reasons and timestamps are carried by the  *)
(* code but decide nothing, so they are left out.  The id argument of the  *)
(* constructors stands for the uuid that NewBaseEvent draws.               *)
(***************************************************************************)

EventTypeOrderCreated       == "order.created"
EventTypeOrderCompleted     == "order.completed"
EventTypeOrderCancelled     == "order.cancelled"
EventTypeStockReserved      == "inventory.stock_reserved"
EventTypeStockReserveFailed == "inventory.stock_reserve_failed"
EventTypePaymentCompleted   == "payment.completed"
EventTypePaymentFailed      == "payment.failed"

NewOrderCreatedEvent(id, order_id, product_id, quantity, total_amount) ==
    [event_id |-> id, event_type |-> EventTypeOrderCreated,
     order_id |-> order_id, product_id |-> product_id,
     quantity |-> quantity, total_amount |-> total_amount]

NewOrderCompletedEvent(id, order_id) ==
    [event_id |-> id, event_type |-> EventTypeOrderCompleted,
     order_id |-> order_id]

NewOrderCancelledEvent_CopyPaste(id, order_id) == NewOrderCompletedEvent(id, order_id)
NewOrderCancelledEvent(id, order_id) ==
    [event_id |-> id, event_type |-> EventTypeOrderCancelled,
     order_id |-> order_id]

NewStockReservedEvent(id, order_id, product_id, quantity, total_amount) ==
    [event_id |-> id, event_type |-> EventTypeStockReserved,
     order_id |-> order_id, product_id |-> product_id,
     quantity |-> quantity, total_amount |-> total_amount]

NewStockReserveFailedEvent(id, order_id, product_id, quantity) ==
    [event_id |-> id, event_type |-> EventTypeStockReserveFailed,
     order_id |-> order_id, product_id |-> product_id,
     quantity |-> quantity]

NewPaymentCompletedEvent(id, order_id, amount) ==
    [event_id |-> id, event_type |-> EventTypePaymentCompleted,
     order_id |-> order_id, amount |-> amount]

NewPaymentFailedEvent(id, order_id) ==
    [event_id |-> id, event_type |-> EventTypePaymentFailed,
     order_id |-> order_id]

(***************************************************************************)
(* The sets of events, by type, over given sets of ids and data.           *)
(***************************************************************************)
OrderCreatedEvents(ids, orders, products, quantities, amounts) ==
    [event_id : ids, event_type : {EventTypeOrderCreated},
     order_id : orders, product_id : products,
     quantity : quantities, total_amount : amounts]

(* Events that carry nothing but the order. *)
PlainEvents(ids, types, orders) ==
    [event_id : ids, event_type : types, order_id : orders]
=============================================================================

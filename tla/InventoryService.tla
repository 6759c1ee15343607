-------------------------- MODULE InventoryService --------------------------
(***************************************************************************)
(* services/inventory: stock, reservations and the handlers of the         *)
(* inventory service.                                                      *)
(*                                                                         *)
(* Every handler is one database transaction that locks the stock row it   *)
(* reads (FindByProductIDForUpdate) and the reservations of the order, so  *)
(* it is one atomic action.  A delivery that ends before Commit (an event  *)
(* already processed, a database error) changes nothing.                   *)
(*                                                                         *)
(* The specification at the end puts the service in the weakest            *)
(* environment: any event of Inbound may arrive at any time, any number of *)
(* times, in any order.                                                    *)
(***************************************************************************)
EXTENDS Integers, Sequences, FiniteSets, Events, Outbox

CONSTANTS
    InitialStock,   \* product id -> quantity in stock at the start
    Inbound         \* the events the environment may deliver

VARIABLES
    inventory,          \* the inventory table: product id -> row
    reservations,       \* the reservations table, in insertion order
    outbox,             \* the outbox table of inventory-db
    processed_events    \* the processed_events table of inventory-db

vars == <<inventory, reservations, outbox, processed_events>>

Products == DOMAIN InitialStock

(* Event ids are uuids: no two events share one. *)
ASSUME InventoryAssumption ==
    /\ InitialStock \in [Products -> Nat]
    /\ \A event \in Inbound :
          event.event_type = EventTypeOrderCreated => event.quantity \in Int
    /\ \A e, f \in Inbound : e.event_id = f.event_id => e = f

-----------------------------------------------------------------------------
(* domain/inventory.go *)

ReservationStatusReserved  == "RESERVED"
ReservationStatusReleased  == "RELEASED"
ReservationStatusCommitted == "COMMITTED"

ReservationStatuses ==
    {ReservationStatusReserved, ReservationStatusReleased, ReservationStatusCommitted}

Stock == [quantity : Nat, reserved_quantity : Nat]

AvailableQuantity(stock) == stock.quantity - stock.reserved_quantity

CanReserve_IgnoresReserved(stock, quantity) == stock.quantity >= quantity
CanReserve(stock, quantity) == AvailableQuantity(stock) >= quantity

Reserve(stock, quantity) ==
    [stock EXCEPT !.reserved_quantity = @ + quantity]

Release_Nothing(stock, quantity) == stock
Release(stock, quantity) ==
    [stock EXCEPT !.reserved_quantity = IF @ < quantity THEN 0 ELSE @ - quantity]

Commit(stock, quantity) ==
    [stock EXCEPT !.quantity = @ - quantity, !.reserved_quantity = @ - quantity]

NewReservation(order_id, product_id, quantity) ==
    [order_id |-> order_id, product_id |-> product_id, quantity |-> quantity,
     status |-> ReservationStatusReserved]

IsReserved_Always(reservation) == TRUE
IsReserved(reservation) == reservation.status = ReservationStatusReserved

-----------------------------------------------------------------------------
(* Sets of reservations, named by their positions in a reservations table. *)

(* The units of stock a set of reservations is for, each one an element:   *)
(* the total quantity is their number.                                     *)
Units(table, I) == UNION {{i} \X (1 .. table[i].quantity) : i \in I}

Total(table, I) == Cardinality(Units(table, I))

OfProduct(table, I, p) == {i \in I : table[i].product_id = p}

WithStatus(table, status) == {i \in DOMAIN table : table[i].status = status}

(* FindByOrderIDForUpdate, less the rows the handlers' loops pass over.    *)
Held(order_id) ==
    {i \in DOMAIN reservations : /\ reservations[i].order_id = order_id
                                 /\ IsReserved(reservations[i])}

(* How many units of p the reservations of set I are for. *)
Quantity(I, p) == Total(reservations, OfProduct(reservations, I, p))

SetStatus(I, status) ==
    [i \in DOMAIN reservations |->
        IF i \in I THEN [reservations[i] EXCEPT !.status = status] ELSE reservations[i]]

-----------------------------------------------------------------------------
(* application/usecase.go *)

Init ==
    /\ inventory = [p \in Products |-> [quantity |-> InitialStock[p], reserved_quantity |-> 0]]
    /\ reservations = <<>>
    /\ outbox = <<>>
    /\ processed_events = {}

(* The product exists in the table read and Reserve returns no error.      *)
Reservable(table, event) ==
    /\ event.product_id \in DOMAIN table
    /\ event.quantity > 0
    /\ CanReserve(table[event.product_id], event.quantity)

(* The stock row is written back as it was read, with more units reserved. *)
ReserveStock(table, event) ==
    /\ inventory' = [inventory EXCEPT ![event.product_id] =
                        Reserve(table[event.product_id], event.quantity)]
    /\ reservations' = Append(reservations,
                          NewReservation(event.order_id, event.product_id, event.quantity))
    /\ outbox' = PublishInTx(outbox,
                    NewStockReservedEvent(NewEventID("inventory", outbox), event.order_id,
                        event.product_id, event.quantity, event.total_amount))

RejectReservation(event) ==
    /\ outbox' = PublishInTx(outbox,
                    NewStockReserveFailedEvent(NewEventID("inventory", outbox),
                        event.order_id, event.product_id, event.quantity))
    /\ UNCHANGED <<inventory, reservations>>

HandleOrderCreated(event) ==
    \/ /\ ~AlreadyProcessed(processed_events, event)
       /\ processed_events' = MarkProcessed(processed_events, event)
       /\ \/ Reservable(inventory, event) /\ ReserveStock(inventory, event)
          \/ ~Reservable(inventory, event) /\ RejectReservation(event)
    \/ /\ AlreadyProcessed(processed_events, event)
       /\ UNCHANGED vars

(* The loop over the order's reservations releases every one still held;   *)
(* releasing them one by one or all at once leaves the same stock, because *)
(* Release stops at zero.                                                  *)
HandleOrderCancelled(event) ==
    \/ /\ ~AlreadyProcessed(processed_events, event)
       /\ processed_events' = MarkProcessed(processed_events, event)
       /\ LET held == Held(event.order_id) IN
          /\ inventory' = [p \in DOMAIN inventory |->
                              Release(inventory[p], Quantity(held, p))]
          /\ reservations' = SetStatus(held, ReservationStatusReleased)
       /\ UNCHANGED outbox
    \/ /\ AlreadyProcessed(processed_events, event)
       /\ UNCHANGED vars

(* The loop commits the reservations one by one and passes over one whose  *)
(* quantity is not reserved any more (Commit returns ErrInsufficientStock).*)
(* C is what a loop in some row order commits: it fits into the reserved   *)
(* quantity and no reservation left out would still fit.                   *)
Committable(held, C) ==
    \A p \in DOMAIN inventory :
        LET reserved == inventory[p].reserved_quantity
            total    == Quantity(C, p)
        IN /\ total <= reserved
           /\ \A i \in OfProduct(reservations, held \ C, p) :
                 reservations[i].quantity > reserved - total

HandleOrderCompleted(event) ==
    \/ /\ ~AlreadyProcessed(processed_events, event)
       /\ processed_events' = MarkProcessed(processed_events, event)
       /\ LET held == Held(event.order_id) IN
          \E C \in SUBSET held :
             /\ Committable(held, C)
             /\ inventory' = [p \in DOMAIN inventory |->
                                 Commit(inventory[p], Quantity(C, p))]
             /\ reservations' = SetStatus(C, ReservationStatusCommitted)
       /\ UNCHANGED outbox
    \/ /\ AlreadyProcessed(processed_events, event)
       /\ UNCHANGED vars

(* interfaces/consumer.go: one subscription, one handler per event type.   *)
Subjects_NoCompleted == {EventTypeOrderCreated, EventTypeOrderCancelled}
Subjects == {EventTypeOrderCreated, EventTypeOrderCancelled, EventTypeOrderCompleted}

Handle(event) ==
    \/ event.event_type = EventTypeOrderCreated   /\ HandleOrderCreated(event)
    \/ event.event_type = EventTypeOrderCancelled /\ HandleOrderCancelled(event)
    \/ event.event_type = EventTypeOrderCompleted /\ HandleOrderCompleted(event)

Next == \E event \in Inbound : Handle(event)

Spec == Init /\ [][Next]_vars

-----------------------------------------------------------------------------
(* Properties *)

(* A row of the reservations table, for some sets of ids. *)
Reservations(OrderIDs) ==
    [order_id : OrderIDs, product_id : Products, quantity : Nat \ {0},
     status : ReservationStatuses]

(* The tables of inventory-db hold well-formed rows; stock and reserved    *)
(* quantities are never negative (the CHECKs of the schema), and every     *)
(* reservation is for a known product and at least one unit.               *)
TypeOK ==
    LET order_ids == {event.order_id : event \in Inbound} IN
    /\ inventory \in [Products -> Stock]
    /\ reservations \in Seq(Reservations(order_ids))
    /\ processed_events \subseteq {event.event_id : event \in Inbound}

(* The books balance, product by product: what the stock row counts as     *)
(* reserved is the total of the reservations still held, it never exceeds  *)
(* the stock (no overselling), and the stock that left is the total of the *)
(* committed reservations.                                                 *)
StockAccounting ==
    \A p \in Products :
        /\ inventory[p].reserved_quantity
               = Quantity(WithStatus(reservations, ReservationStatusReserved), p)
        /\ inventory[p].reserved_quantity <= inventory[p].quantity
        /\ inventory[p].quantity
               + Quantity(WithStatus(reservations, ReservationStatusCommitted), p)
               = InitialStock[p]

(* The same order, product and quantity, of events and rows. *)
SameDemand(x, y) ==
    x.order_id = y.order_id /\ x.product_id = y.product_id /\ x.quantity = y.quantity

(* Each answer is to an OrderCreated event that was handled; what it says  *)
(* is reserved is reserved, and what is reserved was said.                 *)
AnswersTellDemand ==
    /\ \A i \in DOMAIN reservations : \E j \in DOMAIN outbox :
          /\ outbox[j].payload.event_type = EventTypeStockReserved
          /\ SameDemand(outbox[j].payload, reservations[i])
    /\ \A j \in DOMAIN outbox :
          /\ \E event \in Inbound :
                /\ event.event_type = EventTypeOrderCreated
                /\ event.event_id \in processed_events
                /\ SameDemand(outbox[j].payload, event)
          /\ outbox[j].payload.event_type = EventTypeStockReserved
                => \E i \in DOMAIN reservations : SameDemand(outbox[j].payload, reservations[i])

(* As many StockReserved rows as reservations, as many answers as events   *)
(* handled, order by order.                                                *)
AnswersAreCounted ==
    LET Answers(type, id) == {i \in DOMAIN outbox : /\ outbox[i].payload.event_type = type
                                                    /\ outbox[i].payload.order_id = id}
    IN
    \A id \in {event.order_id : event \in Inbound} :
        /\ Cardinality(Answers(EventTypeStockReserved, id))
              = Cardinality({i \in DOMAIN reservations : reservations[i].order_id = id})
        /\ Cardinality(Answers(EventTypeStockReserved, id)
                          \cup Answers(EventTypeStockReserveFailed, id))
              = Cardinality({event \in Inbound :
                                /\ event.event_type = EventTypeOrderCreated
                                /\ event.order_id = id
                                /\ event.event_id \in processed_events})

(* Every OrderCreated event handled is answered exactly once, however      *)
(* often it was delivered: by StockReserved, with a reservation for the    *)
(* product and the quantity it asked for, or by StockReserveFailed.        *)
AnsweredOnce ==
    /\ AnswersTellDemand
    /\ AnswersAreCounted

(* A reservation is settled once: after RELEASED or COMMITTED no later     *)
(* event, late or repeated, gives its units back or takes them again.      *)
SettledStays ==
    \A i \in DOMAIN reservations :
        /\ i \in DOMAIN reservations'
        /\ reservations[i].status # ReservationStatusReserved
               => reservations'[i] = reservations[i]

SettledOnce == [][SettledStays]_vars
=============================================================================

---------------------------- MODULE OrderProofs -----------------------------
(***************************************************************************)
(* Proofs about the order service, for any clients, any set of inbound     *)
(* events and any order, number and repetition of deliveries.              *)
(*                                                                         *)
(* OneVerdict speaks of the status of the order an outbox row is about; it *)
(* is inductive together with TypeOK and the fact that there is such an    *)
(* order (the first conjunct of Agrees).  With that, the counts of outbox  *)
(* rows follow step by step: BooksInv adds OutboxMatchesOrders and, for    *)
(* every order id, existing or not, how many compensations (Counted).      *)
(***************************************************************************)
EXTENDS OrderService, FiniteSetTheorems, SequenceTheorems, TLAPS

(* What an outbox row with payload e says of the orders of a table. *)
Agrees(table, e) ==
    /\ e.order_id \in DOMAIN table
    /\ e.event_type = EventTypeOrderCompleted
          => table[e.order_id].status = OrderStatusCompleted
    /\ e.event_type = EventTypeOrderCancelled
          => table[e.order_id].status = OrderStatusCancelled

AllAgree == \A i \in DOMAIN outbox : Agrees(orders, outbox[i].payload)

IInv == TypeOK /\ AllAgree

(* If every row agrees with its order, no order has two verdicts.          *)
LEMMA AgreementIsOneVerdict == AllAgree => OneVerdict
<1> SUFFICES ASSUME AllAgree, NEW i \in DOMAIN outbox, NEW j \in DOMAIN outbox
             PROVE  /\ outbox[i].payload.event_type = EventTypeOrderCompleted
                        => orders[outbox[i].payload.order_id].status = OrderStatusCompleted
                    /\ outbox[j].payload.event_type = EventTypeOrderCancelled
                        => orders[outbox[j].payload.order_id].status = OrderStatusCancelled
                    /\ ~ /\ outbox[i].payload.event_type = EventTypeOrderCompleted
                         /\ outbox[j].payload.event_type = EventTypeOrderCancelled
                         /\ outbox[i].payload.order_id = outbox[j].payload.order_id
  BY DEF OneVerdict
<1>1. Agrees(orders, outbox[i].payload) /\ Agrees(orders, outbox[j].payload) BY DEF AllAgree
<1>2. OrderStatusCompleted # OrderStatusCancelled
  BY DEF OrderStatusCompleted, OrderStatusCancelled
<1> QED BY <1>1, <1>2 DEF Agrees

(* Storing an event keeps the outbox well formed and adds that one row.    *)
LEMMA PublishKeepsRows ==
    ASSUME NEW P, NEW table \in Seq(Rows(P)), NEW e \in P
    PROVE  /\ PublishInTx(table, e) \in Seq(Rows(P))
           /\ \A i \in DOMAIN PublishInTx(table, e) :
                 \/ i \in DOMAIN table /\ PublishInTx(table, e)[i] = table[i]
                 \/ PublishInTx(table, e)[i].payload = e
<1> DEFINE row == [payload |-> e, status |-> StatusPending, retry_count |-> 0]
<1>1. row \in Rows(P) BY DEF Rows
<1>2. PublishInTx(table, e) = Append(table, row) BY DEF PublishInTx
<1>3. row.payload = e OBVIOUS
<1> HIDE DEF row
<1> QED BY <1>1, <1>2, <1>3, AppendProperties

(* A fresh event id is one of the order service's. *)
LEMMA FreshID ==
    ASSUME NEW P, NEW table \in Seq(P)
    PROVE  NewEventID("order", table) \in EventIDs("order")
BY DEF NewEventID, EventIDs

(* Nothing has happened yet. *)
LEMMA InitIInv == Init => IInv
<1> SUFFICES ASSUME Init PROVE IInv OBVIOUS
<1>1. TypeOK BY DEF Init, TypeOK
<1>2. AllAgree BY DEF Init, AllAgree
<1> QED BY <1>1, <1>2 DEF IInv

(* A new order is a new row: the events stored so far are about the others.*)
LEMMA CreateOrderIInv ==
    ASSUME IInv, NEW p \in ProductIDs, NEW q \in Quantities, NEW a \in Amounts,
           CreateOrder(p, q, a)
    PROVE  IInv'
<1> DEFINE e == NewOrderCreatedEvent(NewEventID("order", outbox), Len(orders) + 1, p, q, a)
           o == NewOrder(p, q, a)
<1>1. orders \in Seq(Orders) /\ outbox \in Seq(Rows(OrderEvents)) BY DEF IInv, TypeOK
<1>2. o \in Orders
  <2>1. q # 0 /\ a # 0 BY OrderAssumption DEF CreateOrder, ValidOrder
  <2> QED BY <2>1 DEF NewOrder, Orders, OrderStatuses
<1>3. orders' = Append(orders, o) /\ outbox' = PublishInTx(outbox, e)
  BY DEF CreateOrder
<1>4. e \in OrderEvents
  <2>1. NewEventID("order", outbox) \in EventIDs("order") BY <1>1, FreshID
  <2>2. e \in OrderCreatedEvents(EventIDs("order"), Nat, ProductIDs, Quantities, Amounts)
    BY <1>1, <2>1 DEF NewOrderCreatedEvent, OrderCreatedEvents
  <2> QED BY <2>2 DEF OrderEvents
<1>5. /\ orders' \in Seq(Orders)
      /\ DOMAIN orders' = 1 .. Len(orders) + 1
      /\ \A i \in DOMAIN orders : i \in DOMAIN orders' /\ orders'[i] = orders[i]
  <2> HIDE DEF o
  <2> QED BY <1>1, <1>2, <1>3, AppendProperties
<1>6. /\ outbox' \in Seq(Rows(OrderEvents))
      /\ \A i \in DOMAIN outbox' : \/ i \in DOMAIN outbox /\ outbox'[i] = outbox[i]
                                   \/ outbox'[i].payload = e
  <2> HIDE DEF e
  <2> QED BY <1>1, <1>3, <1>4, PublishKeepsRows
<1>7. TypeOK' BY <1>5, <1>6 DEF TypeOK, IInv, CreateOrder
<1>8. Agrees(orders', e)
  BY <1>1, <1>5 DEF Agrees, NewOrderCreatedEvent, EventTypeOrderCreated,
                    EventTypeOrderCompleted, EventTypeOrderCancelled
<1>9. ASSUME NEW i \in DOMAIN outbox' PROVE Agrees(orders', outbox'[i].payload)
  <2>1. CASE i \in DOMAIN outbox /\ outbox'[i] = outbox[i]
    <3>1. Agrees(orders, outbox[i].payload) BY <2>1 DEF IInv, AllAgree
    <3> QED BY <1>5, <2>1, <3>1 DEF Agrees
  <2>2. CASE outbox'[i].payload = e
    <3> HIDE DEF e
    <3> QED BY <1>8, <2>2
  <2> QED BY <1>6, <2>1, <2>2
<1> QED BY <1>7, <1>9 DEF IInv, AllAgree

(* An accepted transition of an order that has no verdict against the new  *)
(* status, with at most a matching event stored.                           *)
LEMMA TransitionIInv ==
    ASSUME IInv, NEW event \in Inbound, event.order_id \in DOMAIN orders,
           NEW status \in OrderStatuses,
           SetStatus(event, status),
           orders[event.order_id].status = OrderStatusCompleted
               => status = OrderStatusCompleted,
           orders[event.order_id].status = OrderStatusCancelled
               => status = OrderStatusCancelled,
           \/ UNCHANGED outbox
           \/ \E e \in OrderEvents :
                /\ outbox' = PublishInTx(outbox, e)
                /\ e.order_id = event.order_id
                /\ e.event_type = EventTypeOrderCompleted => status = OrderStatusCompleted
                /\ e.event_type = EventTypeOrderCancelled => status = OrderStatusCancelled
    PROVE  IInv'
<1> DEFINE id == event.order_id
<1>1. orders \in Seq(Orders) /\ outbox \in Seq(Rows(OrderEvents)) BY DEF IInv, TypeOK
<1>2. /\ orders' \in Seq(Orders)
      /\ DOMAIN orders' = DOMAIN orders
      /\ orders'[id].status = status
      /\ \A i \in DOMAIN orders : i # id => orders'[i] = orders[i]
  <2>1. orders' = [orders EXCEPT ![id].status = status] BY DEF SetStatus
  <2>2. orders[id] \in Orders BY <1>1
  <2>3. [orders[id] EXCEPT !.status = status] \in Orders BY <2>2 DEF Orders
  <2> QED BY <1>1, <2>1, <2>2, <2>3 DEF Orders
<1>3. processed_events' \subseteq {e.event_id : e \in Inbound}
  BY DEF IInv, TypeOK, SetStatus, MarkProcessed
<1>4. ASSUME NEW e, Agrees(orders, e) PROVE Agrees(orders', e)
  BY <1>2, <1>4 DEF Agrees, OrderStatusCompleted, OrderStatusCancelled
<1>5. CASE UNCHANGED outbox
  <2>1. AllAgree' BY <1>4, <1>5 DEF IInv, AllAgree
  <2> QED BY <1>1, <1>2, <1>3, <1>5, <2>1 DEF IInv, TypeOK
<1>6. ASSUME NEW e \in OrderEvents, outbox' = PublishInTx(outbox, e), e.order_id = id,
             e.event_type = EventTypeOrderCompleted => status = OrderStatusCompleted,
             e.event_type = EventTypeOrderCancelled => status = OrderStatusCancelled
      PROVE  IInv'
  <2>1. /\ outbox' \in Seq(Rows(OrderEvents))
        /\ \A i \in DOMAIN outbox' : \/ i \in DOMAIN outbox /\ outbox'[i] = outbox[i]
                                     \/ outbox'[i].payload = e
    BY <1>1, <1>6, PublishKeepsRows
  <2>2. Agrees(orders', e) BY <1>2, <1>6 DEF Agrees
  <2>3. ASSUME NEW i \in DOMAIN outbox' PROVE Agrees(orders', outbox'[i].payload)
    <3>1. CASE i \in DOMAIN outbox /\ outbox'[i] = outbox[i]
      BY <1>4, <3>1 DEF IInv, AllAgree
    <3>2. CASE outbox'[i].payload = e BY <2>2, <3>2
    <3> QED BY <2>1, <3>1, <3>2
  <2> QED BY <1>2, <1>3, <2>1, <2>3 DEF IInv, TypeOK, AllAgree
<1> QED BY <1>5, <1>6

(* Every step of the service keeps the invariant.                          *)
LEMMA StepIInv == IInv /\ [Next]_vars => IInv'
<1> SUFFICES ASSUME IInv, [Next]_vars PROVE IInv' OBVIOUS
<1> USE DEF OrderStatusPending, OrderStatusConfirmed, OrderStatusCompleted,
            OrderStatusCancelled, OrderStatuses
<1>1. CASE UNCHANGED vars BY <1>1 DEF vars, IInv, TypeOK, AllAgree
<1>2. ASSUME NEW p \in ProductIDs, NEW q \in Quantities, NEW a \in Amounts,
             CreateOrder(p, q, a)
      PROVE  IInv'
  BY <1>2, CreateOrderIInv
<1>3. ASSUME NEW event \in Inbound, Handle(event) PROVE IInv'
  <2> DEFINE fresh == NewEventID("order", outbox)
  <2>1. fresh \in EventIDs("order") BY FreshID DEF IInv, TypeOK
  <2>2. DOMAIN orders \subseteq Nat BY DEF IInv, TypeOK
  <2>3. CASE HandleStockReserved(event)
    <3>1. CASE Confirms(event)
      BY <1>1, <2>3, <3>1, TransitionIInv DEF HandleStockReserved, Confirm, Found, Confirms, CanConfirm
    <3> QED BY <1>1, <2>3, <3>1 DEF HandleStockReserved
  <2>4. CASE HandleStockReserveFailed(event)
    <3>1. CASE Cancels(event)
      BY <2>4, <3>1, TransitionIInv DEF HandleStockReserveFailed, Cancel, Found, Cancels, CanCancel
    <3> QED BY <1>1, <2>4, <3>1 DEF HandleStockReserveFailed
  <2>5. CASE HandlePaymentCompleted(event)
    <3>1. CASE Completes(event)
      <4> DEFINE e == NewOrderCompletedEvent(fresh, event.order_id)
      <4>1. e \in OrderEvents /\ e.order_id = event.order_id
            /\ e.event_type # EventTypeOrderCancelled
        BY <2>1, <2>2, <3>1
        DEF OrderEvents, PlainEvents, NewOrderCompletedEvent, Found, Completes,
            EventTypeOrderCompleted, EventTypeOrderCancelled
      <4>2. outbox' = PublishInTx(outbox, e) /\ SetStatus(event, OrderStatusCompleted)
        BY <2>5, <3>1 DEF HandlePaymentCompleted, Complete
      <4> HIDE DEF e
      <4> QED BY <3>1, <4>1, <4>2, TransitionIInv DEF Found, Completes, CanComplete
    <3> QED BY <1>1, <2>5, <3>1 DEF HandlePaymentCompleted
  <2>6. CASE HandlePaymentFailed(event)
    <3>1. CASE Cancels(event)
      <4> DEFINE e == NewOrderCancelledEvent(fresh, event.order_id)
      <4>1. e \in OrderEvents /\ e.order_id = event.order_id
            /\ e.event_type # EventTypeOrderCompleted
        BY <2>1, <2>2, <3>1
        DEF OrderEvents, PlainEvents, NewOrderCancelledEvent, Found, Cancels,
            EventTypeOrderCompleted, EventTypeOrderCancelled
      <4>2. outbox' = PublishInTx(outbox, e) /\ SetStatus(event, OrderStatusCancelled)
        BY <2>6, <3>1 DEF HandlePaymentFailed, CancelAndCompensate
      <4> HIDE DEF e
      <4> QED BY <3>1, <4>1, <4>2, TransitionIInv DEF Found, Cancels, CanCancel
    <3> QED BY <1>1, <2>6, <3>1 DEF HandlePaymentFailed
  <2> QED BY <1>3, <2>3, <2>4, <2>5, <2>6 DEF Handle
<1> QED BY <1>1, <1>2, <1>3 DEF Next

-----------------------------------------------------------------------------
(* What the outbox holds, row by row *)

(* There are as many compensations as failures: with that a failure is     *)
(* never without one, and a repetition adds none.                          *)
Counted ==
    \A id \in Nat :
        /\ IsFiniteSet(RowsFor(EventTypeOrderCancelled, id))
        /\ IsFiniteSet(Failures(id))
        /\ Cardinality(RowsFor(EventTypeOrderCancelled, id)) = Cardinality(Failures(id))

BooksInv == IInv /\ OutboxMatchesOrders /\ Counted

(* Without orders there is nothing to announce. *)
LEMMA InitBooks == Init => BooksInv
<1> SUFFICES ASSUME Init PROVE BooksInv OBVIOUS
<1>1. orders = <<>> /\ outbox = <<>> /\ processed_events = {} BY DEF Init
<1>2. OutboxMatchesOrders BY <1>1 DEF OutboxMatchesOrders
<1>3. \A id : RowsFor(EventTypeOrderCancelled, id) = {} /\ Failures(id) = {}
  BY <1>1 DEF RowsFor, Failures
<1>4. Counted BY <1>3, FS_EmptySet DEF Counted
<1> QED BY <1>2, <1>4, InitIInv DEF BooksInv

(* Row n is new, and the only new one, and it is about order id. *)
NewRow(n, type, id) ==
    /\ n \notin DOMAIN outbox /\ DOMAIN outbox' = DOMAIN outbox \cup {n}
    /\ \A i \in DOMAIN outbox : outbox'[i] = outbox[i]
    /\ \A t, o :
          /\ t = type /\ o = id => RowsFor(t, o)' = RowsFor(t, o) \cup {n}
          /\ t # type \/ o # id => RowsFor(t, o)' = RowsFor(t, o)

(* Storing event e adds one row, to the rows of its type and order.        *)
LEMMA RowsGrow ==
    ASSUME TypeOK, NEW e \in OrderEvents, outbox' = PublishInTx(outbox, e)
    PROVE  \E n : outbox'[n].payload = e /\ NewRow(n, e.event_type, e.order_id)
<1> DEFINE row == [payload |-> e, status |-> StatusPending, retry_count |-> 0]
<1> PICK n : n = Len(outbox) + 1 OBVIOUS
<1>1. row \in Rows(OrderEvents) /\ row.payload = e BY DEF Rows
<1>2. outbox' = Append(outbox, row) BY DEF PublishInTx
<1> HIDE DEF row
<1>3. outbox \in Seq(Rows(OrderEvents)) /\ Len(outbox) \in Nat /\ DOMAIN outbox = 1 .. Len(outbox)
  BY DEF TypeOK
<1>4. /\ outbox' \in Seq(Rows(OrderEvents)) /\ Len(outbox') = n /\ outbox'[n] = row
      /\ \A i \in 1 .. Len(outbox) : outbox'[i] = outbox[i]
  BY <1>1, <1>2, <1>3, AppendProperties
<1>5. /\ n \notin DOMAIN outbox /\ DOMAIN outbox' = DOMAIN outbox \cup {n}
      /\ outbox'[n].payload = e
      /\ \A i \in DOMAIN outbox : outbox'[i] = outbox[i]
  BY <1>1, <1>3, <1>4
<1>6. \A type, id : type = e.event_type /\ id = e.order_id
         => RowsFor(type, id)' = RowsFor(type, id) \cup {n}
  BY <1>5 DEF RowsFor
<1>7. \A type, id : type # e.event_type \/ id # e.order_id
         => RowsFor(type, id)' = RowsFor(type, id)
  BY <1>5 DEF RowsFor
<1> QED BY <1>5, <1>6, <1>7 DEF NewRow

(* A created order has its OrderCreated row, and no other rows before.     *)
LEMMA CreateOrderBooks ==
    ASSUME BooksInv, NEW p \in ProductIDs, NEW q \in Quantities, NEW a \in Amounts,
           CreateOrder(p, q, a)
    PROVE  BooksInv'
<1> PICK new : new = Len(orders) + 1 OBVIOUS
<1> DEFINE e == NewOrderCreatedEvent(NewEventID("order", outbox), new, p, q, a)
           o == NewOrder(p, q, a)
<1>1. /\ TypeOK /\ orders \in Seq(Orders) /\ Len(orders) \in Nat
      /\ DOMAIN orders = 1 .. Len(orders) /\ outbox \in Seq(Rows(OrderEvents))
      /\ outbox' = PublishInTx(outbox, e) /\ orders' = Append(orders, o)
      /\ UNCHANGED processed_events
  BY DEF BooksInv, IInv, TypeOK, CreateOrder
<1>2. /\ e.event_type = EventTypeOrderCreated /\ e.order_id = new
      /\ e.product_id = p /\ e.quantity = q /\ e.total_amount = a
      /\ o.product_id = p /\ o.quantity = q /\ o.total_amount = Decimal(a)
      /\ o.status = OrderStatusPending
  BY DEF NewOrderCreatedEvent, NewOrder
<1>3. e \in OrderEvents
  <2>1. NewEventID("order", outbox) \in EventIDs("order") BY <1>1, FreshID
  <2>2. e \in OrderCreatedEvents(EventIDs("order"), Nat, ProductIDs, Quantities, Amounts)
    BY <1>1, <2>1 DEF NewOrderCreatedEvent, OrderCreatedEvents
  <2> QED BY <2>2 DEF OrderEvents
<1> HIDE DEF e, o
<1>4. /\ DOMAIN orders' = DOMAIN orders \cup {new} /\ new \notin DOMAIN orders
      /\ orders'[new] = o /\ \A id \in DOMAIN orders : orders'[id] = orders[id]
  BY <1>1
<1>5. PICK n : outbox'[n].payload = e /\ NewRow(n, EventTypeOrderCreated, new)
  BY <1>1, <1>2, <1>3, RowsGrow
<1>6. RowsFor(EventTypeOrderCreated, new) = {}
  BY <1>4 DEF BooksInv, IInv, AllAgree, Agrees, RowsFor
<1>7. OutboxMatchesOrders'
  <2>1. ASSUME NEW id \in DOMAIN orders'
        PROVE  /\ \E i \in DOMAIN outbox' :
                     /\ RowsFor(EventTypeOrderCreated, id)' = {i}
                     /\ outbox'[i].payload.product_id   = orders'[id].product_id
                     /\ outbox'[i].payload.quantity     = orders'[id].quantity
                     /\ Decimal(outbox'[i].payload.total_amount) = orders'[id].total_amount
               /\ orders'[id].status = OrderStatusCompleted
                     => \E i \in DOMAIN outbox' : RowsFor(EventTypeOrderCompleted, id)' = {i}
    <3>1. CASE id = new
      BY <1>2, <1>4, <1>5, <1>6, <3>1 DEF NewRow, OrderStatusPending, OrderStatusCompleted
    <3>2. CASE id \in DOMAIN orders
      <4>1. \A type : RowsFor(type, id)' = RowsFor(type, id) BY <1>4, <1>5, <3>2 DEF NewRow
      <4> QED BY <1>4, <1>5, <3>2, <4>1 DEF NewRow, BooksInv, OutboxMatchesOrders
    <3> QED BY <1>4, <3>1, <3>2
  <2> QED BY <2>1 DEF OutboxMatchesOrders
<1>8. Counted'
  <2>1. \A id : Failures(id)' = Failures(id) BY <1>1 DEF Failures
  <2>2. \A id : RowsFor(EventTypeOrderCancelled, id)' = RowsFor(EventTypeOrderCancelled, id)
    BY <1>5 DEF NewRow, EventTypeOrderCancelled, EventTypeOrderCreated
  <2> QED BY <2>1, <2>2 DEF BooksInv, Counted
<1> QED BY <1>7, <1>8, CreateOrderIInv DEF BooksInv

(* What an accepted event does, in one formula. *)
Transition(event, status) ==
    /\ event.order_id \in DOMAIN orders
    /\ event.event_id \notin processed_events
    /\ SetStatus(event, status)
    /\ orders[event.order_id].status # OrderStatusCompleted
    /\ \/ /\ status # OrderStatusCompleted /\ UNCHANGED outbox
          /\ event.event_type # EventTypePaymentFailed
       \/ /\ status = OrderStatusCompleted
          /\ event.event_type # EventTypePaymentFailed
          /\ outbox' = PublishInTx(outbox,
                          NewOrderCompletedEvent(NewEventID("order", outbox), event.order_id))
       \/ /\ status = OrderStatusCancelled
          /\ event.event_type = EventTypePaymentFailed
          /\ outbox' = PublishInTx(outbox,
                          NewOrderCancelledEvent(NewEventID("order", outbox), event.order_id))

(* A handler does nothing or moves its order to one status. *)
LEMMA HandlersTransition ==
    ASSUME NEW event, Handle(event)
    PROVE  UNCHANGED vars \/ \E status \in OrderStatuses : Transition(event, status)
<1> USE DEF OrderStatusPending, OrderStatusConfirmed, OrderStatusCompleted,
            OrderStatusCancelled, OrderStatuses, Found, Transition, AlreadyProcessed,
            EventTypeStockReserved, EventTypeStockReserveFailed, EventTypePaymentCompleted,
            EventTypePaymentFailed
<1>1. CASE event.event_type = EventTypeStockReserved /\ HandleStockReserved(event)
  BY <1>1 DEF HandleStockReserved, Confirms, CanConfirm, Confirm
<1>2. CASE event.event_type = EventTypeStockReserveFailed /\ HandleStockReserveFailed(event)
  BY <1>2 DEF HandleStockReserveFailed, Cancels, CanCancel, Cancel
<1>3. CASE event.event_type = EventTypePaymentCompleted /\ HandlePaymentCompleted(event)
  BY <1>3 DEF HandlePaymentCompleted, Completes, CanComplete, Complete
<1>4. CASE event.event_type = EventTypePaymentFailed /\ HandlePaymentFailed(event)
  BY <1>4 DEF HandlePaymentFailed, Cancels, CanCancel, CancelAndCompensate
<1> QED BY <1>1, <1>2, <1>3, <1>4 DEF Handle

(* A move is announced in the transaction that stores it. *)
LEMMA TransitionBooks ==
    ASSUME BooksInv, NEW event \in Inbound, NEW status \in OrderStatuses,
           Transition(event, status)
    PROVE  OutboxMatchesOrders' /\ Counted'
<1> PICK new : new = event.order_id OBVIOUS
<1>1. /\ TypeOK /\ orders \in Seq(Orders) /\ new \in DOMAIN orders /\ new \in Nat
      /\ outbox \in Seq(Rows(OrderEvents)) /\ AllAgree
  BY DEF BooksInv, IInv, TypeOK, Transition
<1>2. /\ DOMAIN orders' = DOMAIN orders
      /\ orders'[new].status = status
      /\ \A id \in DOMAIN orders : /\ orders'[id].product_id = orders[id].product_id
                                   /\ orders'[id].quantity = orders[id].quantity
                                   /\ orders'[id].total_amount = orders[id].total_amount
                                   /\ id # new => orders'[id] = orders[id]
  <2>1. orders' = [orders EXCEPT ![new].status = status] BY DEF Transition, SetStatus
  <2>2. orders[new] \in Orders BY <1>1
  <2> QED BY <1>1, <2>1, <2>2 DEF Orders
<1>3. processed_events' = processed_events \cup {event.event_id}
  BY DEF Transition, SetStatus, MarkProcessed
<1>4. /\ event.event_type = EventTypePaymentFailed
            => Failures(new)' = Failures(new) \cup {event} /\ event \notin Failures(new)
      /\ \A id : event.event_type # EventTypePaymentFailed \/ id # new
            => Failures(id)' = Failures(id)
  BY <1>3, OrderAssumption DEF Failures, Transition
<1>5. NewEventID("order", outbox) \in EventIDs("order") BY <1>1, FreshID
<1>6. RowsFor(EventTypeOrderCompleted, new) = {}
  BY <1>1 DEF Transition, AllAgree, Agrees, RowsFor
<1>7. CASE /\ status # OrderStatusCompleted /\ UNCHANGED outbox
           /\ event.event_type # EventTypePaymentFailed
  <2>1. \A type, id : RowsFor(type, id)' = RowsFor(type, id) BY <1>7 DEF RowsFor
  <2>2. OutboxMatchesOrders'
    BY <1>2, <1>7, <2>1 DEF BooksInv, OutboxMatchesOrders
  <2>3. Counted' BY <1>4, <1>7, <2>1 DEF BooksInv, Counted
  <2> QED BY <2>2, <2>3
<1>8. ASSUME NEW e \in OrderEvents, outbox' = PublishInTx(outbox, e), e.order_id = new,
             \/ /\ e.event_type = EventTypeOrderCompleted /\ status = OrderStatusCompleted
                /\ event.event_type # EventTypePaymentFailed
             \/ /\ e.event_type = EventTypeOrderCancelled /\ status = OrderStatusCancelled
                /\ event.event_type = EventTypePaymentFailed
      PROVE  OutboxMatchesOrders' /\ Counted'
  <2>1. PICK n : NewRow(n, e.event_type, new) BY <1>1, <1>8, RowsGrow
  <2>2. e.event_type # EventTypeOrderCreated
    BY <1>8 DEF EventTypeOrderCompleted, EventTypeOrderCancelled, EventTypeOrderCreated
  <2>3. OutboxMatchesOrders'
    <3>1. ASSUME NEW id \in DOMAIN orders'
          PROVE  /\ \E i \in DOMAIN outbox' :
                       /\ RowsFor(EventTypeOrderCreated, id)' = {i}
                       /\ outbox'[i].payload.product_id   = orders'[id].product_id
                       /\ outbox'[i].payload.quantity     = orders'[id].quantity
                       /\ Decimal(outbox'[i].payload.total_amount) = orders'[id].total_amount
                 /\ orders'[id].status = OrderStatusCompleted
                       => \E i \in DOMAIN outbox' : RowsFor(EventTypeOrderCompleted, id)' = {i}
      <4>1. id \in DOMAIN orders
            /\ RowsFor(EventTypeOrderCreated, id)' = RowsFor(EventTypeOrderCreated, id)
        BY <1>2, <2>1, <2>2 DEF NewRow
      <4>2. \E i \in DOMAIN outbox' :
               /\ RowsFor(EventTypeOrderCreated, id)' = {i}
               /\ outbox'[i].payload.product_id   = orders'[id].product_id
               /\ outbox'[i].payload.quantity     = orders'[id].quantity
               /\ Decimal(outbox'[i].payload.total_amount) = orders'[id].total_amount
        BY <1>2, <2>1, <4>1 DEF NewRow, BooksInv, OutboxMatchesOrders
      <4>3. CASE id # new
        <5>1. RowsFor(EventTypeOrderCompleted, id)' = RowsFor(EventTypeOrderCompleted, id)
          BY <2>1, <4>3 DEF NewRow
        <5> QED BY <1>2, <2>1, <4>1, <4>2, <4>3, <5>1 DEF NewRow, BooksInv, OutboxMatchesOrders
      <4>4. CASE id = new
        <5>1. status = OrderStatusCompleted => RowsFor(EventTypeOrderCompleted, new)' = {n}
          BY <1>6, <1>8, <2>1 DEF NewRow, OrderStatusCompleted, OrderStatusCancelled
        <5> QED BY <1>2, <2>1, <4>2, <4>4, <5>1 DEF NewRow
      <4> QED BY <4>3, <4>4
    <3> QED BY <3>1 DEF OutboxMatchesOrders
  <2>4. Counted'
    <3>1. ASSUME NEW id \in Nat
          PROVE  /\ IsFiniteSet(RowsFor(EventTypeOrderCancelled, id)')
                 /\ IsFiniteSet(Failures(id)')
                 /\ Cardinality(RowsFor(EventTypeOrderCancelled, id)')
                       = Cardinality(Failures(id)')
      <4> DEFINE R == RowsFor(EventTypeOrderCancelled, id)
                 F == Failures(id)
      <4>1. IsFiniteSet(R) /\ IsFiniteSet(F) /\ Cardinality(R) = Cardinality(F)
        BY DEF BooksInv, Counted
      <4>2. EventTypeOrderCompleted # EventTypeOrderCancelled
        BY DEF EventTypeOrderCompleted, EventTypeOrderCancelled
      <4>3. CASE id = new /\ e.event_type = EventTypeOrderCancelled
        <5>1. RowsFor(EventTypeOrderCancelled, id)' = R \cup {n} /\ n \notin R
          BY <2>1, <4>3 DEF NewRow, RowsFor
        <5>2. Failures(id)' = F \cup {event} /\ event \notin F
          BY <1>4, <1>8, <4>2, <4>3
        <5> HIDE DEF R, F
        <5>3. /\ IsFiniteSet(R \cup {n}) /\ Cardinality(R \cup {n}) = Cardinality(R) + 1
              /\ IsFiniteSet(F \cup {event}) /\ Cardinality(F \cup {event}) = Cardinality(F) + 1
          BY <4>1, <5>1, <5>2, FS_AddElement
        <5> QED BY <4>1, <5>1, <5>2, <5>3
      <4>4. CASE id # new \/ e.event_type # EventTypeOrderCancelled
        <5>1. RowsFor(EventTypeOrderCancelled, id)' = R BY <2>1, <4>4 DEF NewRow
        <5>2. Failures(id)' = F BY <1>4, <1>8, <4>4
        <5> QED BY <4>1, <5>1, <5>2
      <4> QED BY <4>3, <4>4
    <3> QED BY <3>1 DEF Counted
  <2> QED BY <2>3, <2>4
<1>9. CASE /\ status = OrderStatusCompleted /\ event.event_type # EventTypePaymentFailed
           /\ outbox' = PublishInTx(outbox,
                           NewOrderCompletedEvent(NewEventID("order", outbox), event.order_id))
  <2> PICK e : e = NewOrderCompletedEvent(NewEventID("order", outbox), new) OBVIOUS
  <2>1. e \in OrderEvents /\ e.order_id = new /\ e.event_type = EventTypeOrderCompleted
    BY <1>1, <1>5 DEF NewOrderCompletedEvent, OrderEvents, PlainEvents
  <2> QED BY <1>8, <1>9, <2>1
<1>10. CASE /\ status = OrderStatusCancelled /\ event.event_type = EventTypePaymentFailed
            /\ outbox' = PublishInTx(outbox,
                            NewOrderCancelledEvent(NewEventID("order", outbox), event.order_id))
  <2> PICK e : e = NewOrderCancelledEvent(NewEventID("order", outbox), new) OBVIOUS
  <2>1. e \in OrderEvents /\ e.order_id = new /\ e.event_type = EventTypeOrderCancelled
    BY <1>1, <1>5 DEF NewOrderCancelledEvent, OrderEvents, PlainEvents
  <2> QED BY <1>8, <1>10, <2>1
<1> QED BY <1>7, <1>9, <1>10 DEF Transition

(* Every operation keeps outbox and orders in step. *)
LEMMA StepBooks == BooksInv /\ [Next]_vars => BooksInv'
<1> SUFFICES ASSUME BooksInv, [Next]_vars PROVE BooksInv' OBVIOUS
<1>1. IInv' BY StepIInv DEF BooksInv
<1>2. CASE UNCHANGED vars
  <2>1. orders' = orders /\ outbox' = outbox /\ processed_events' = processed_events
    BY <1>2 DEF vars
  <2>2. \A t, id : RowsFor(t, id)' = RowsFor(t, id) BY <2>1 DEF RowsFor
  <2>3. \A id : Failures(id)' = Failures(id) BY <2>1 DEF Failures
  <2>4. OutboxMatchesOrders' BY <2>1, <2>2 DEF BooksInv, OutboxMatchesOrders
  <2>5. Counted' BY <2>2, <2>3 DEF BooksInv, Counted
  <2> QED BY <1>1, <2>4, <2>5 DEF BooksInv
<1>3. ASSUME NEW p \in ProductIDs, NEW q \in Quantities, NEW a \in Amounts, CreateOrder(p, q, a)
      PROVE  BooksInv'
  BY <1>3, CreateOrderBooks
<1>4. ASSUME NEW event \in Inbound, Handle(event) PROVE BooksInv'
  <2>1. CASE UNCHANGED vars BY <1>2, <2>1
  <2>2. ASSUME NEW status \in OrderStatuses, Transition(event, status) PROVE BooksInv'
    BY <1>1, <2>2, TransitionBooks DEF BooksInv
  <2> QED BY <1>4, <2>1, <2>2, HandlersTransition
<1> QED BY <1>2, <1>3, <1>4 DEF Next

(* Equal counts: no failure is without a compensation, and there are no more. *)
LEMMA CountedFollows == BooksInv => CompensationsFollowFailures
<1> SUFFICES ASSUME BooksInv, NEW id \in DOMAIN orders
             PROVE  /\ Failures(id) # {} => RowsFor(EventTypeOrderCancelled, id) # {}
                    /\ Cardinality(RowsFor(EventTypeOrderCancelled, id)) <= Cardinality(Failures(id))
  BY DEF CompensationsFollowFailures
<1>1. id \in Nat BY DEF BooksInv, IInv, TypeOK
<1> PICK R : R = RowsFor(EventTypeOrderCancelled, id) OBVIOUS
<1> PICK F : F = Failures(id) OBVIOUS
<1>2. IsFiniteSet(R) /\ IsFiniteSet(F) /\ Cardinality(R) = Cardinality(F)
  BY <1>1 DEF BooksInv, Counted
<1>3. Cardinality(F) \in Nat BY <1>2, FS_CardinalityType
<1>4. R = {} => Cardinality(F) = 0 BY <1>2, FS_EmptySet
<1>5. Cardinality(F) = 0 => F = {} BY <1>2, FS_EmptySet
<1> QED BY <1>2, <1>3, <1>4, <1>5

-----------------------------------------------------------------------------
(* Theorems *)

(* For every client and every stream of events, the rows of order-db are   *)
(* well formed.                                                            *)
THEOREM TypeCorrect == Spec => []TypeOK
<1>1. IInv => TypeOK BY DEF IInv
<1> QED BY <1>1, InitIInv, StepIInv, PTL DEF Spec

(* For every client and every stream of events, early, late, repeated or   *)
(* contradictory, the order service announces at most one verdict on an    *)
(* order, and the one its table records.                                   *)
THEOREM VerdictIsUnique == Spec => []OneVerdict
<1>1. IInv => OneVerdict BY AgreementIsOneVerdict DEF IInv
<1> QED BY <1>1, InitIInv, StepIInv, PTL DEF Spec

(* For every client and every stream of events, the outbox tells the truth *)
(* about the orders table: one OrderCreated per order, with its data, and  *)
(* one OrderCompleted per completed order.                                 *)
THEOREM OutboxIsTrue == Spec => []OutboxMatchesOrders
<1>1. BooksInv => OutboxMatchesOrders BY DEF BooksInv
<1> QED BY <1>1, InitBooks, StepBooks, PTL DEF Spec

(* For every client and every stream of events, with every repetition, an  *)
(* order is compensated for if its payment was reported to fail, and not   *)
(* more often than that was reported.                                      *)
THEOREM FailuresAreCompensated == Spec => []CompensationsFollowFailures
<1>1. BooksInv => CompensationsFollowFailures BY CountedFollows
<1> QED BY <1>1, InitBooks, StepBooks, PTL DEF Spec

(* For every client and every stream of events, a COMPLETED or CANCELLED   *)
(* order never changes its status again.                                   *)
THEOREM DecisionsStay == Spec => DecisionsAreFinal
<1>1. ASSUME IInv, [Next]_vars PROVE DecidedStays \/ UNCHANGED vars
  <2>1. orders \in Seq(Orders) BY <1>1 DEF IInv, TypeOK
  <2>2. CASE UNCHANGED vars BY <2>2
  <2>3. CASE UNCHANGED orders BY <2>3 DEF DecidedStays
  <2>4. ASSUME NEW o, orders' = Append(orders, o) PROVE DecidedStays
    BY <2>1, <2>4 DEF DecidedStays
  <2>5. ASSUME NEW event, NEW status,
               \/ orders[event.order_id].status \in {OrderStatusPending, OrderStatusConfirmed}
               \/ orders[event.order_id].status = status,
               SetStatus(event, status)
        PROVE  DecidedStays
    BY <2>1, <2>5
    DEF DecidedStays, SetStatus, Orders, OrderStatuses, OrderStatusPending,
        OrderStatusConfirmed, OrderStatusCompleted, OrderStatusCancelled
  <2>6. ASSUME NEW event, Handle(event) PROVE DecidedStays \/ UNCHANGED vars
    <3>1. ASSUME event.order_id \in DOMAIN orders
          PROVE  orders[event.order_id].status \in OrderStatuses
      <4>1. orders[event.order_id] \in Orders BY <2>1, <3>1
      <4> QED BY <4>1 DEF Orders
    <3>2. CASE HandleStockReserved(event)
      BY <2>5, <3>2 DEF HandleStockReserved, Confirm, Found, Confirms, CanConfirm
    <3>3. CASE HandlePaymentCompleted(event)
      BY <2>5, <3>3 DEF HandlePaymentCompleted, Complete, Found, Completes, CanComplete
    <3>4. CASE HandlePaymentFailed(event)
      BY <2>5, <3>1, <3>4 DEF HandlePaymentFailed, CancelAndCompensate, Found, Cancels, CanCancel, OrderStatuses
    <3>5. CASE HandleStockReserveFailed(event)
      BY <2>5, <3>1, <3>5 DEF HandleStockReserveFailed, Cancel, Found, Cancels, CanCancel, OrderStatuses
    <3> QED BY <2>6, <3>2, <3>3, <3>4, <3>5 DEF Handle
  <2> QED BY <1>1, <2>2, <2>4, <2>6 DEF Next, CreateOrder
<1>2. IInv /\ [Next]_vars => [DecidedStays]_vars BY <1>1
<1> QED BY <1>2, InitIInv, StepIInv, PTL DEF Spec, DecisionsAreFinal
=============================================================================

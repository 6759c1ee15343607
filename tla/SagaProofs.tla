----------------------------- MODULE SagaProofs -----------------------------
(***************************************************************************)
(* Proofs about the whole system, for any products, stock, number of       *)
(* orders, relays and faults: however events are repeated, reordered and   *)
(* lost, the three databases agree.                                        *)
(*                                                                         *)
(* Nothing is said about who holds which message when.  Events are never   *)
(* unsaid, so the argument is about the set of all events that some outbox *)
(* holds: each one was stored in the same transaction as the row it tells  *)
(* of, and each service acts on nothing but such events.  That an effect   *)
(* happens once rests on two facts together: an order has one OrderCreated *)
(* event and one StockReserved event, and a service that acted on an event *)
(* has marked it as processed in the same transaction.                     *)
(***************************************************************************)
EXTENDS Integers, Saga, FiniteSetTheorems, FunctionTheorems, SequenceTheorems, TLAPS

Stored(outbox) == {outbox[i].payload : i \in DOMAIN outbox}

(* The events of one type that the services have announced so far. *)
Published(type) ==
    {e \in Stored(order_outbox) \cup Stored(inventory_outbox) \cup Stored(payment_outbox) :
        e.event_type = type}

OrderRows ==
    [product_id : ProductIDs, quantity : Quantities, total_amount : StoredAmounts,
     status : Order!OrderStatuses]

ReservationRows ==
    [order_id : Nat, product_id : ProductIDs, quantity : Quantities,
     status : Inventory!ReservationStatuses]

PaymentRows == [order_id : Nat, amount : StoredAmounts, status : Payment!PaymentStatuses]

OutboxRows(P) == [payload : P, status : {"PENDING", "SENT"}, retry_count : Nat]

IsOutbox(outbox) == outbox \in Seq(OutboxRows(Stored(outbox)))

Tables ==
    /\ orders \in Seq(OrderRows)
    /\ reservations \in Seq(ReservationRows)
    /\ payments \in Seq(PaymentRows)
    /\ IsOutbox(order_outbox) /\ IsOutbox(inventory_outbox) /\ IsOutbox(payment_outbox)

(* A subscription receives only what was announced on its subject. *)
Queues ==
    /\ DOMAIN inbox = Subscriptions
    /\ \A s \in Subscriptions : inbox[s] \in Seq(Published(s[2]))

(* An order is announced once, as it was placed. *)
Placed ==
    \A e \in Published(EventTypeOrderCreated) :
        /\ e \in Stored(order_outbox)
        /\ e.order_id \in DOMAIN orders
        /\ e.product_id = orders[e.order_id].product_id
        /\ e.quantity = orders[e.order_id].quantity
        /\ Order!Decimal(e.total_amount) = orders[e.order_id].total_amount
        /\ \A f \in Published(EventTypeOrderCreated) : f.order_id = e.order_id => f = e

(* The inventory service has handled the OrderCreated event of order id.   *)
Asked(id) ==
    \E e \in Published(EventTypeOrderCreated) :
        e.order_id = id /\ e.event_id \in inventory_processed

(* One reservation and one announcement of it, for what was ordered. *)
Reserved ==
    /\ \A i \in DOMAIN reservations :
          /\ Asked(reservations[i].order_id)
          /\ reservations[i].product_id = orders[reservations[i].order_id].product_id
          /\ reservations[i].quantity = orders[reservations[i].order_id].quantity
          /\ \A j \in DOMAIN reservations :
                reservations[j].order_id = reservations[i].order_id => j = i
    /\ \A s \in Published(EventTypeStockReserved) :
          /\ Asked(s.order_id)
          /\ Order!Decimal(s.total_amount) = orders[s.order_id].total_amount
          /\ \E i \in DOMAIN reservations : reservations[i].order_id = s.order_id
          /\ \A t \in Published(EventTypeStockReserved) : t.order_id = s.order_id => t = s

(* Stock that was refused stays refused. *)
Refused ==
    \A s \in Published(EventTypeStockReserveFailed) :
        /\ Asked(s.order_id)
        /\ \A i \in DOMAIN reservations : reservations[i].order_id # s.order_id

(* One payment of an order, for reserved stock and in full, and its        *)
(* outcome as announced.                                                   *)
Charged ==
    /\ \A i \in DOMAIN payments :
          /\ \E s \in Published(EventTypeStockReserved) :
                /\ s.order_id = payments[i].order_id
                /\ Order!Decimal(s.total_amount) = payments[i].amount
                /\ s.event_id \in payment_processed
          /\ \A j \in DOMAIN payments : payments[j].order_id = payments[i].order_id => j = i
    /\ \A e \in Published(EventTypePaymentCompleted) :
          \E i \in DOMAIN payments :
             payments[i].order_id = e.order_id /\ payments[i].status = "COMPLETED"
    /\ \A e \in Published(EventTypePaymentFailed) :
          \E i \in DOMAIN payments :
             payments[i].order_id = e.order_id /\ payments[i].status = "FAILED"

(* An order ends for a reason, and the end announced is its end. *)
Decided ==
    /\ \A id \in DOMAIN orders :
          /\ orders[id].status = "COMPLETED"
                => \E e \in Published(EventTypePaymentCompleted) : e.order_id = id
          /\ orders[id].status = "CANCELLED"
                => \/ \E e \in Published(EventTypePaymentFailed) : e.order_id = id
                   \/ \E e \in Published(EventTypeStockReserveFailed) : e.order_id = id
    /\ \A e \in Published(EventTypeOrderCompleted) :
          e.order_id \in DOMAIN orders /\ orders[e.order_id].status = "COMPLETED"
    /\ \A e \in Published(EventTypeOrderCancelled) :
          /\ e.order_id \in DOMAIN orders /\ orders[e.order_id].status = "CANCELLED"
          /\ \E f \in Published(EventTypePaymentFailed) : f.order_id = e.order_id

(* Stock is settled on the order service's word. *)
Settled ==
    \A i \in DOMAIN reservations :
        /\ reservations[i].status = "RELEASED"
              => \E e \in Published(EventTypeOrderCancelled) :
                    e.order_id = reservations[i].order_id
        /\ reservations[i].status = "COMMITTED"
              => \E e \in Published(EventTypeOrderCompleted) :
                    e.order_id = reservations[i].order_id

SagaInv ==
    /\ Tables /\ Queues
    /\ Placed /\ Reserved /\ Refused /\ Charged /\ Decided /\ Settled

-----------------------------------------------------------------------------
(* What the invariant says *)

(* A set whose elements are all equal counts at most one. *)
LEMMA AtMostOne ==
    ASSUME NEW S, \A x, y \in S : x = y
    PROVE  Cardinality(S) = IF S = {} THEN 0 ELSE 1
<1>0. Cardinality({}) = 0 BY FS_EmptySet
<1>1. CASE S = {} BY <1>0, <1>1
<1>2. CASE S # {}
  <2>1. PICK x : x \in S BY <1>2
  <2>2. S = {x} BY <2>1
  <2>3. Cardinality({x}) = 1 BY FS_Singleton
  <2> QED BY <1>2, <2>2, <2>3
<1> QED BY <1>1, <1>2

(* An order that was asked for exists. *)
LEMMA AskedExists ==
    ASSUME Placed, NEW id, Asked(id)
    PROVE  id \in DOMAIN orders
BY DEF Placed, Asked

(* One event to act on, acted on once: one reservation and one charge. *)
LEMMA SagaEffects == SagaInv => ExactlyOnceEffects
<1> SUFFICES ASSUME SagaInv, NEW id \in OrderIDs
             PROVE  /\ Cardinality(ReservationsOf(id)) <= 1
                    /\ Cardinality(PaymentsOf(id)) <= Cardinality(ReservationsOf(id))
  BY DEF ExactlyOnceEffects
<1>1. \A i, j \in ReservationsOf(id) : i = j BY DEF ReservationsOf, SagaInv, Reserved
<1>2. \A i, j \in PaymentsOf(id) : i = j BY DEF PaymentsOf, SagaInv, Charged
<1>3. PaymentsOf(id) # {} => ReservationsOf(id) # {}
  BY DEF PaymentsOf, ReservationsOf, SagaInv, Charged, Reserved
<1>4. Cardinality(ReservationsOf(id)) = IF ReservationsOf(id) = {} THEN 0 ELSE 1
  BY <1>1, AtMostOne
<1>5. Cardinality(PaymentsOf(id)) = IF PaymentsOf(id) = {} THEN 0 ELSE 1
  BY <1>2, AtMostOne
<1> QED BY <1>3, <1>4, <1>5

(* COMPLETED was caused by a payment, which was caused by a reservation. *)
LEMMA SagaCompleted == SagaInv => CompletedIsPaidAndHeld
<1> SUFFICES ASSUME SagaInv, NEW id \in OrderIDs, orders[id].status = "COMPLETED"
             PROVE  /\ \E i \in PaymentsOf(id) :
                          /\ payments[i].status = "COMPLETED"
                          /\ payments[i].amount = orders[id].total_amount
                    /\ \E i \in ReservationsOf(id) :
                          /\ reservations[i].status \in {"RESERVED", "COMMITTED"}
                          /\ reservations[i].product_id = orders[id].product_id
                          /\ reservations[i].quantity = orders[id].quantity
  BY DEF CompletedIsPaidAndHeld
<1>1. PICK e \in Published(EventTypePaymentCompleted) : e.order_id = id
  BY DEF SagaInv, Decided, OrderIDs
<1>2. PICK i \in DOMAIN payments : payments[i].order_id = id /\ payments[i].status = "COMPLETED"
  BY <1>1 DEF SagaInv, Charged
<1>3. PICK s \in Published(EventTypeStockReserved) :
         s.order_id = id /\ Order!Decimal(s.total_amount) = payments[i].amount
  BY <1>2 DEF SagaInv, Charged
<1>4. /\ Order!Decimal(s.total_amount) = orders[id].total_amount
      /\ \E j \in DOMAIN reservations : reservations[j].order_id = id
  BY <1>3 DEF SagaInv, Reserved
<1>5. PICK j \in DOMAIN reservations : reservations[j].order_id = id BY <1>4
<1>6. reservations[j].product_id = orders[id].product_id
      /\ reservations[j].quantity = orders[id].quantity
  BY <1>5 DEF SagaInv, Reserved
<1>7. reservations[j].status # "RELEASED" BY <1>5 DEF SagaInv, Settled, Decided
<1>8. reservations[j].status \in {"RESERVED", "RELEASED", "COMMITTED"}
  <2>1. reservations[j] \in ReservationRows BY <1>5 DEF SagaInv, Tables
  <2> QED BY <2>1 DEF ReservationRows, Inventory!ReservationStatuses,
                      Inventory!ReservationStatusReserved,
                      Inventory!ReservationStatusReleased, Inventory!ReservationStatusCommitted
<1>9. i \in PaymentsOf(id) /\ j \in ReservationsOf(id)
  BY <1>2, <1>5 DEF PaymentsOf, ReservationsOf
<1> QED BY <1>2, <1>3, <1>4, <1>6, <1>7, <1>8, <1>9

(* CANCELLED was caused by a refusal or a failed payment. *)
LEMMA SagaCancelled == SagaInv => CancelledIsFree
<1> SUFFICES ASSUME SagaInv, NEW id \in OrderIDs, orders[id].status = "CANCELLED"
             PROVE  /\ \A i \in PaymentsOf(id) : payments[i].status = "FAILED"
                    /\ \A i \in ReservationsOf(id) : reservations[i].status # "COMMITTED"
  BY DEF CancelledIsFree
<1>1. ASSUME NEW i \in PaymentsOf(id) PROVE payments[i].status = "FAILED"
  <2>1. CASE \E e \in Published(EventTypePaymentFailed) : e.order_id = id
    BY <1>1, <2>1 DEF SagaInv, Charged, PaymentsOf
  <2>2. CASE \E e \in Published(EventTypeStockReserveFailed) : e.order_id = id
    <3>1. \E s \in Published(EventTypeStockReserved) : s.order_id = id
      BY <1>1 DEF SagaInv, Charged, PaymentsOf
    <3>2. \E j \in DOMAIN reservations : reservations[j].order_id = id
      BY <3>1 DEF SagaInv, Reserved
    <3> QED BY <2>2, <3>2 DEF SagaInv, Refused
  <2> QED BY <2>1, <2>2 DEF SagaInv, Decided, OrderIDs
<1>2. \A i \in ReservationsOf(id) : reservations[i].status # "COMMITTED"
  BY DEF SagaInv, Settled, Decided, ReservationsOf
<1> QED BY <1>1, <1>2

(* Reservations end as their orders did. *)
LEMMA SagaSettled == SagaInv => StockFollowsDecision
BY DEF SagaInv, Settled, Decided, StockFollowsDecision

(* Whoever hears of the end of an order has answered its creation. *)
LEMMA SagaSettlements == SagaInv => SettlementsFollowReservations
<1> SUFFICES ASSUME SagaInv,
                    NEW subject \in Inventory!Subjects \ {EventTypeOrderCreated},
                    NEW n \in DOMAIN inbox[<<"inventory", subject>>]
             PROVE  \E i \in DOMAIN order_outbox :
                       /\ order_outbox[i].payload.event_type = EventTypeOrderCreated
                       /\ order_outbox[i].payload.order_id
                             = inbox[<<"inventory", subject>>][n].order_id
                       /\ order_outbox[i].payload.event_id \in inventory_processed
  BY DEF SettlementsFollowReservations
<1> DEFINE s == <<"inventory", subject>>
           m == inbox[s][n]
<1>1. s \in Subscriptions /\ s[2] = subject BY DEF Subscriptions
<1>2. m \in Published(subject)
  <2>1. inbox[s] \in Seq(Published(subject)) BY <1>1 DEF SagaInv, Queues
  <2> QED BY <2>1
<1> HIDE DEF m
<1>3. subject = EventTypeOrderCancelled \/ subject = EventTypeOrderCompleted
  BY DEF Inventory!Subjects, Inventory!EventTypeOrderCreated,
         Inventory!EventTypeOrderCancelled, Inventory!EventTypeOrderCompleted,
         EventTypeOrderCreated, EventTypeOrderCancelled, EventTypeOrderCompleted
<1>4. \E i \in DOMAIN payments : payments[i].order_id = m.order_id
  <2>1. CASE subject = EventTypeOrderCancelled
    BY <1>2, <2>1 DEF SagaInv, Decided, Charged
  <2>2. CASE subject = EventTypeOrderCompleted
    BY <1>2, <2>2 DEF SagaInv, Decided, Charged
  <2> QED BY <1>3, <2>1, <2>2
<1>5. Asked(m.order_id) BY <1>4 DEF SagaInv, Charged, Reserved
<1>6. PICK e \in Published(EventTypeOrderCreated) :
         e.order_id = m.order_id /\ e.event_id \in inventory_processed
  BY <1>5 DEF Asked
<1>7. e \in Stored(order_outbox) /\ e.event_type = EventTypeOrderCreated
  BY DEF SagaInv, Placed, Published
<1> QED BY <1>6, <1>7 DEF Stored, m

-----------------------------------------------------------------------------
(* Outboxes and queues *)

(* Storing an event adds it to the stored ones. *)
LEMMA OutboxGrows ==
    ASSUME NEW outbox, IsOutbox(outbox), NEW e, NEW new,
           new = Append(outbox, [payload |-> e, status |-> "PENDING", retry_count |-> 0])
    PROVE  IsOutbox(new) /\ Stored(new) = Stored(outbox) \cup {e}
<1> DEFINE row == [payload |-> e, status |-> "PENDING", retry_count |-> 0]
           P   == Stored(outbox) \cup {e}
<1>1. row \in OutboxRows(P) /\ row.payload = e BY DEF OutboxRows
<1>2. outbox \in Seq(OutboxRows(P))
  <2>1. OutboxRows(Stored(outbox)) \subseteq OutboxRows(P) BY DEF OutboxRows
  <2> HIDE DEF P
  <2> QED BY <2>1, SeqMonotonic DEF IsOutbox
<1> HIDE DEF row
<1>3. Len(outbox) \in Nat /\ DOMAIN outbox = 1 .. Len(outbox) BY <1>2
<1>4. /\ new \in Seq(OutboxRows(P)) /\ Len(new) = Len(outbox) + 1
      /\ DOMAIN new = 1 .. Len(outbox) + 1 /\ new[Len(outbox) + 1] = row
      /\ \A i \in 1 .. Len(outbox) : new[i] = outbox[i]
  <2> HIDE DEF P
  <2>1. new = Append(outbox, row) BY DEF row
  <2> QED BY <1>1, <1>2, <2>1, AppendProperties
<1>5. Stored(new) = P
  <2>1. DOMAIN new = DOMAIN outbox \cup {Len(outbox) + 1} BY <1>3, <1>4
  <2> QED BY <1>1, <1>3, <1>4, <2>1 DEF Stored
<1> QED BY <1>4, <1>5 DEF IsOutbox

(* An outbox is a sequence of rows of its own events. *)
LEMMA OutboxShape ==
    ASSUME NEW outbox, IsOutbox(outbox)
    PROVE  /\ Len(outbox) \in Nat /\ DOMAIN outbox = 1 .. Len(outbox)
           /\ \A i \in DOMAIN outbox : outbox[i] \in OutboxRows(Stored(outbox))
<1> PICK P : P = OutboxRows(Stored(outbox)) OBVIOUS
<1>1. outbox \in Seq(P) BY DEF IsOutbox
<1> QED BY <1>1

(* The commit of a relay changes no event. *)
LEMMA OutboxCommits ==
    ASSUME NEW outbox, IsOutbox(outbox), NEW new,
           new = [i \in DOMAIN outbox |-> new[i]],
           \A i \in DOMAIN outbox : /\ new[i] \in OutboxRows(Stored(outbox))
                                    /\ new[i].payload = outbox[i].payload
    PROVE  IsOutbox(new) /\ Stored(new) = Stored(outbox)
<1> PICK P, k : P = OutboxRows(Stored(outbox)) /\ k = Len(outbox) OBVIOUS
<1>1. k \in Nat /\ DOMAIN outbox = 1 .. k BY OutboxShape
<1>2. new \in [1 .. k -> P] /\ DOMAIN new = DOMAIN outbox BY <1>1
<1>3. new \in Seq(P)
  <2>1. ASSUME NEW q, q \in [1 .. k -> P] PROVE q \in Seq(P) BY <1>1, <2>1, SeqDef
  <2> QED BY <1>2, <2>1
<1>4. Stored(new) = Stored(outbox) BY <1>2 DEF Stored
<1> QED BY <1>3, <1>4 DEF IsOutbox

(* A step announces event e, and nothing else. *)
Announced(e) ==
    \A type : /\ type = e.event_type => Published(type)' = Published(type) \cup {e}
              /\ type # e.event_type => Published(type)' = Published(type)

(* A step announces nothing. *)
Silent == \A type : Published(type)' = Published(type)

Outboxes == IsOutbox(order_outbox) /\ IsOutbox(inventory_outbox) /\ IsOutbox(payment_outbox)

Entry(e) == [payload |-> e, status |-> "PENDING", retry_count |-> 0]

(* A row added to order-db's outbox announces its event. *)
LEMMA OrderAnnounces ==
    ASSUME Outboxes, NEW e, order_outbox' = Append(order_outbox, Entry(e)),
           UNCHANGED <<inventory_outbox, payment_outbox>>
    PROVE  Outboxes' /\ Announced(e) /\ Stored(order_outbox)' = Stored(order_outbox) \cup {e}
<1>1. IsOutbox(order_outbox') /\ Stored(order_outbox') = Stored(order_outbox) \cup {e}
  BY OutboxGrows DEF Entry, Outboxes
<1> QED BY <1>1 DEF Announced, Published, Outboxes

(* A row added to inventory-db's outbox announces its event. *)
LEMMA InventoryAnnounces ==
    ASSUME Outboxes, NEW e, inventory_outbox' = Append(inventory_outbox, Entry(e)),
           UNCHANGED <<order_outbox, payment_outbox>>
    PROVE  Outboxes' /\ Announced(e) /\ UNCHANGED Stored(order_outbox)
<1>1. IsOutbox(inventory_outbox') /\ Stored(inventory_outbox') = Stored(inventory_outbox) \cup {e}
  BY OutboxGrows DEF Entry, Outboxes
<1> QED BY <1>1 DEF Announced, Published, Outboxes

(* A row added to payment-db's outbox announces its event. *)
LEMMA PaymentAnnounces ==
    ASSUME Outboxes, NEW e, payment_outbox' = Append(payment_outbox, Entry(e)),
           UNCHANGED <<order_outbox, inventory_outbox>>
    PROVE  Outboxes' /\ Announced(e) /\ UNCHANGED Stored(order_outbox)
<1>1. IsOutbox(payment_outbox') /\ Stored(payment_outbox') = Stored(payment_outbox) \cup {e}
  BY OutboxGrows DEF Entry, Outboxes
<1> QED BY <1>1 DEF Announced, Published, Outboxes

(* Outboxes that stay as they are announce nothing. *)
LEMMA NothingAnnounced ==
    ASSUME Outboxes, UNCHANGED <<order_outbox, inventory_outbox, payment_outbox>>
    PROVE  Outboxes' /\ Silent /\ UNCHANGED Stored(order_outbox)
BY DEF Outboxes, Silent, Published

(* No step takes an event back, so what waits in the queues stays good.    *)
Grows == \A type : Published(type) \subseteq Published(type)'

(* Events are never unsaid. *)
LEMMA AnnouncedGrows ==
    ASSUME Silent \/ \E e : Announced(e)
    PROVE  Grows
BY DEF Silent, Announced, Grows

(* Taking, losing or keeping messages puts nothing foreign in a queue. *)
LEMMA QueuesKept ==
    ASSUME Queues, Grows,
           \/ UNCHANGED inbox
           \/ \E s \in Subscriptions : inbox[s] # <<>> /\ inbox' = [inbox EXCEPT ![s] = Tail(@)]
           \/ \E R : inbox' = [s \in Subscriptions |-> IF s \in R THEN <<>> ELSE inbox[s]]
    PROVE  Queues'
<1>1. \A s \in Subscriptions : inbox[s] \in Seq(Published(s[2])')
  <2> SUFFICES ASSUME NEW s \in Subscriptions PROVE inbox[s] \in Seq(Published(s[2])') OBVIOUS
  <2>1. inbox[s] \in Seq(Published(s[2])) /\ Published(s[2]) \subseteq Published(s[2])'
    BY DEF Queues, Grows
  <2> QED BY <2>1, SeqMonotonic
<1>2. CASE UNCHANGED inbox BY <1>1, <1>2 DEF Queues
<1>3. ASSUME NEW s \in Subscriptions, inbox[s] # <<>>, inbox' = [inbox EXCEPT ![s] = Tail(@)]
      PROVE  Queues'
  <2>1. Tail(inbox[s]) \in Seq(Published(s[2])')
    <3> PICK P, q : P = Published(s[2])' /\ q = inbox[s] OBVIOUS
    <3>1. q \in Seq(P) /\ q # <<>> BY <1>1, <1>3
    <3>2. Tail(q) \in Seq(P) BY <3>1, HeadTailProperties
    <3> QED BY <3>2
  <2> QED BY <1>1, <1>3, <2>1 DEF Queues
<1>4. ASSUME NEW R, inbox' = [s \in Subscriptions |-> IF s \in R THEN <<>> ELSE inbox[s]]
      PROVE  Queues'
  <2>1. ASSUME NEW s \in Subscriptions PROVE inbox'[s] \in Seq(Published(s[2])')
    <3> PICK P : P = Published(s[2])' OBVIOUS
    <3>1. <<>> \in Seq(P) /\ inbox[s] \in Seq(P) BY <1>1
    <3> QED BY <1>4, <3>1
  <2> QED BY <1>4, <2>1 DEF Queues
<1> QED BY <1>2, <1>3, <1>4

(* A message of an outbox reaches the queues of its own subject.           *)
LEMMA QueuesFilled ==
    ASSUME Queues, Silent, NEW e, e \in Published(e.event_type), NEW R,
           inbox' = [s \in Subscriptions |->
                        IF s[2] = e.event_type /\ s \in R THEN Append(inbox[s], e) ELSE inbox[s]]
    PROVE  Queues'
<1>1. \A s \in Subscriptions : inbox[s] \in Seq(Published(s[2])) BY DEF Queues
<1>2. \A s \in Subscriptions : inbox'[s] \in Seq(Published(s[2]))
  <2> SUFFICES ASSUME NEW s \in Subscriptions PROVE inbox'[s] \in Seq(Published(s[2])) OBVIOUS
  <2>1. CASE s[2] = e.event_type /\ s \in R
    <3>1. e \in Published(s[2]) BY <2>1
    <3>2. Append(inbox[s], e) \in Seq(Published(s[2])) BY <1>1, <3>1
    <3> QED BY <2>1, <3>2
  <2>2. CASE ~(s[2] = e.event_type /\ s \in R) BY <1>1, <2>2
  <2> QED BY <2>1, <2>2
<1>3. \A s \in Subscriptions : Published(s[2])' = Published(s[2]) BY DEF Silent
<1> QED BY <1>2, <1>3 DEF Queues

-----------------------------------------------------------------------------
(* Steps that change no table of a service's own *)

(* What the services have marked as processed stays so. *)
Marks ==
    /\ inventory_processed \subseteq inventory_processed'
    /\ payment_processed \subseteq payment_processed'

(* A step that changes no table and announces nothing, marks at most. *)
LEMMA NothingDone ==
    ASSUME SagaInv, Outboxes', Silent, Stored(order_outbox)' = Stored(order_outbox),
           Queues', Marks, UNCHANGED <<orders, reservations, payments>>
    PROVE  SagaInv'
<1>1. Tables' BY DEF SagaInv, Tables, Outboxes
<1>2. \A id : Asked(id) => Asked(id)' BY DEF Asked, Silent, Marks
<1>3. Placed' BY DEF SagaInv, Placed, Silent
<1>4. Reserved' /\ Refused' BY <1>2 DEF SagaInv, Reserved, Refused, Silent
<1>5. Charged' BY DEF SagaInv, Charged, Silent, Marks
<1>6. Decided' /\ Settled' BY DEF SagaInv, Decided, Settled, Silent
<1> QED BY <1>1, <1>3, <1>4, <1>5, <1>6 DEF SagaInv

-----------------------------------------------------------------------------
(* Steps of the order service *)

(* The columns of order-db and of payment-db round alike. *)
LEMMA SameRounding == \A a : Payment!Decimal(a) = Order!Decimal(a)
BY DEF Payment!Decimal, Order!Decimal

(* Placing an order: one row and its one OrderCreated event. *)
LEMMA PlaceKeeps ==
    ASSUME SagaInv, NEW e, NEW row \in OrderRows,
           orders' = Append(orders, row), row.status = "PENDING",
           e.event_type = EventTypeOrderCreated, e.order_id = Len(orders) + 1,
           e.product_id = row.product_id, e.quantity = row.quantity,
           Order!Decimal(e.total_amount) = row.total_amount,
           Outboxes', Announced(e), Stored(order_outbox)' = Stored(order_outbox) \cup {e},
           Queues', UNCHANGED <<reservations, payments, inventory_processed, payment_processed>>
    PROVE  SagaInv'
<1>1. /\ orders \in Seq(OrderRows) /\ Len(orders) \in Nat /\ DOMAIN orders = 1 .. Len(orders)
  BY DEF SagaInv, Tables
<1>2. /\ orders' \in Seq(OrderRows)
      /\ DOMAIN orders' = DOMAIN orders \cup {e.order_id} /\ e.order_id \notin DOMAIN orders
      /\ orders'[e.order_id] = row /\ \A id \in DOMAIN orders : orders'[id] = orders[id]
  BY <1>1
<1>3. /\ Published(EventTypeOrderCreated)' = Published(EventTypeOrderCreated) \cup {e}
      /\ Published(EventTypeOrderCompleted)' = Published(EventTypeOrderCompleted)
      /\ Published(EventTypeOrderCancelled)' = Published(EventTypeOrderCancelled)
      /\ Published(EventTypeStockReserved)' = Published(EventTypeStockReserved)
      /\ Published(EventTypeStockReserveFailed)' = Published(EventTypeStockReserveFailed)
      /\ Published(EventTypePaymentCompleted)' = Published(EventTypePaymentCompleted)
      /\ Published(EventTypePaymentFailed)' = Published(EventTypePaymentFailed)
  BY DEF Announced, EventTypeOrderCreated, EventTypeOrderCompleted, EventTypeOrderCancelled,
         EventTypeStockReserved, EventTypeStockReserveFailed, EventTypePaymentCompleted,
         EventTypePaymentFailed
<1>4. \A id : Asked(id) => Asked(id)' /\ id \in DOMAIN orders
  BY <1>3, AskedExists DEF Asked, SagaInv
<1>5. Tables' BY <1>2 DEF SagaInv, Tables, Outboxes
<1>6. Placed' BY <1>2, <1>3 DEF SagaInv, Placed
<1>7. Reserved' /\ Refused' BY <1>2, <1>3, <1>4 DEF SagaInv, Reserved, Refused
<1>8. Charged' BY <1>3 DEF SagaInv, Charged
<1>9. Decided' BY <1>2, <1>3 DEF SagaInv, Decided
<1>10. Settled' BY <1>3 DEF SagaInv, Settled
<1> QED BY <1>5, <1>6, <1>7, <1>8, <1>9, <1>10 DEF SagaInv

(* A status changes and nothing else of the orders. *)
Moves(id, status) ==
    /\ orders' \in Seq(OrderRows)
    /\ DOMAIN orders' = DOMAIN orders
    /\ id \in DOMAIN orders
    /\ orders'[id].status = status
    /\ \A i \in DOMAIN orders :
          /\ i # id => orders'[i] = orders[i]
          /\ orders'[i].product_id = orders[i].product_id
          /\ orders'[i].quantity = orders[i].quantity
          /\ orders'[i].total_amount = orders[i].total_amount

(* An UPDATE of the status changes one order and nothing else of it. *)
LEMMA SetStatusMoves ==
    ASSUME Tables, NEW id \in DOMAIN orders, NEW status \in Order!OrderStatuses,
           orders' = [orders EXCEPT ![id].status = status]
    PROVE  Moves(id, status)
<1>1. orders \in Seq(OrderRows) /\ orders[id] \in OrderRows BY DEF Tables
<1>2. [orders[id] EXCEPT !.status = status] \in OrderRows BY <1>1 DEF OrderRows
<1> PICK row : row = [orders[id] EXCEPT !.status = status] OBVIOUS
<1>3. /\ row \in OrderRows /\ row.status = status /\ row.product_id = orders[id].product_id
      /\ row.quantity = orders[id].quantity /\ row.total_amount = orders[id].total_amount
  BY <1>1, <1>2 DEF OrderRows
<1>4. orders' = [orders EXCEPT ![id] = row] OBVIOUS
<1>5. orders' \in Seq(OrderRows) BY <1>1, <1>3, <1>4
<1> QED BY <1>1, <1>3, <1>4, <1>5 DEF Moves

(* Confirming ends nothing and announces nothing. *)
LEMMA ConfirmKeeps ==
    ASSUME SagaInv, NEW id, Moves(id, "CONFIRMED"), orders[id].status = "PENDING",
           Outboxes', Silent, Stored(order_outbox)' = Stored(order_outbox),
           Queues', UNCHANGED <<reservations, payments, inventory_processed, payment_processed>>
    PROVE  SagaInv'
<1>1. Tables' BY DEF SagaInv, Tables, Outboxes, Moves
<1>2. \A o : Asked(o) => Asked(o)' /\ o \in DOMAIN orders
  BY AskedExists DEF Asked, SagaInv, Silent
<1>3. Placed' BY DEF SagaInv, Placed, Silent, Moves
<1>4. Reserved' /\ Refused' BY <1>2 DEF SagaInv, Reserved, Refused, Silent, Moves
<1>5. Charged' BY DEF SagaInv, Charged, Silent
<1>6. Decided' BY DEF SagaInv, Decided, Silent, Moves
<1>7. Settled' BY DEF SagaInv, Settled, Silent
<1> QED BY <1>1, <1>3, <1>4, <1>5, <1>6, <1>7 DEF SagaInv

(* Cancelling after a refusal announces nothing. *)
LEMMA RefusedKeeps ==
    ASSUME SagaInv, NEW id, Moves(id, "CANCELLED"), orders[id].status # "COMPLETED",
           \E e \in Published(EventTypeStockReserveFailed) : e.order_id = id,
           Outboxes', Silent, Stored(order_outbox)' = Stored(order_outbox),
           Queues', UNCHANGED <<reservations, payments, inventory_processed, payment_processed>>
    PROVE  SagaInv'
<1>1. Tables' BY DEF SagaInv, Tables, Outboxes, Moves
<1>2. \A o : Asked(o) => Asked(o)' /\ o \in DOMAIN orders
  BY AskedExists DEF Asked, SagaInv, Silent
<1>3. Placed' BY DEF SagaInv, Placed, Silent, Moves
<1>4. Reserved' /\ Refused' BY <1>2 DEF SagaInv, Reserved, Refused, Silent, Moves
<1>5. Charged' BY DEF SagaInv, Charged, Silent
<1>6. Decided'
  <2>1. ASSUME NEW o \in DOMAIN orders'
        PROVE  /\ orders'[o].status = "COMPLETED"
                     => \E e \in Published(EventTypePaymentCompleted)' : e.order_id = o
               /\ orders'[o].status = "CANCELLED"
                     => \/ \E e \in Published(EventTypePaymentFailed)' : e.order_id = o
                        \/ \E e \in Published(EventTypeStockReserveFailed)' : e.order_id = o
    <3>1. CASE o = id BY <3>1 DEF Silent, Moves
    <3>2. CASE o # id BY <3>2 DEF SagaInv, Decided, Silent, Moves
    <3> QED BY <3>1, <3>2
  <2>2. \A e \in Published(EventTypeOrderCompleted)' :
           e.order_id \in DOMAIN orders' /\ orders'[e.order_id].status = "COMPLETED"
    BY DEF SagaInv, Decided, Silent, Moves
  <2>3. \A e \in Published(EventTypeOrderCancelled)' :
           /\ e.order_id \in DOMAIN orders' /\ orders'[e.order_id].status = "CANCELLED"
           /\ \E f \in Published(EventTypePaymentFailed)' : f.order_id = e.order_id
    BY DEF SagaInv, Decided, Silent, Moves
  <2> QED BY <2>1, <2>2, <2>3 DEF Decided
<1>7. Settled' BY DEF SagaInv, Settled, Silent
<1> QED BY <1>1, <1>3, <1>4, <1>5, <1>6, <1>7 DEF SagaInv

(* The order ends and its end is announced. *)
LEMMA EndKeeps ==
    ASSUME SagaInv, NEW id, NEW status, NEW e, Moves(id, status), e.order_id = id,
           \/ /\ status = "COMPLETED" /\ e.event_type = EventTypeOrderCompleted
              /\ orders[id].status = "CONFIRMED"
              /\ \E f \in Published(EventTypePaymentCompleted) : f.order_id = id
           \/ /\ status = "CANCELLED" /\ e.event_type = EventTypeOrderCancelled
              /\ orders[id].status # "COMPLETED"
              /\ \E f \in Published(EventTypePaymentFailed) : f.order_id = id,
           Outboxes', Announced(e), Stored(order_outbox)' = Stored(order_outbox) \cup {e},
           Queues', UNCHANGED <<reservations, payments, inventory_processed, payment_processed>>
    PROVE  SagaInv'
<1>1. Tables' BY DEF SagaInv, Tables, Outboxes, Moves
<1>2. /\ Published(EventTypeOrderCreated)' = Published(EventTypeOrderCreated)
      /\ Published(EventTypeStockReserved)' = Published(EventTypeStockReserved)
      /\ Published(EventTypeStockReserveFailed)' = Published(EventTypeStockReserveFailed)
      /\ Published(EventTypePaymentCompleted)' = Published(EventTypePaymentCompleted)
      /\ Published(EventTypePaymentFailed)' = Published(EventTypePaymentFailed)
      /\ IF e.event_type = EventTypeOrderCompleted
         THEN /\ Published(EventTypeOrderCompleted)' = Published(EventTypeOrderCompleted) \cup {e}
              /\ Published(EventTypeOrderCancelled)' = Published(EventTypeOrderCancelled)
         ELSE /\ Published(EventTypeOrderCompleted)' = Published(EventTypeOrderCompleted)
              /\ Published(EventTypeOrderCancelled)' = Published(EventTypeOrderCancelled) \cup {e}
  BY DEF Announced, EventTypeOrderCreated, EventTypeOrderCompleted, EventTypeOrderCancelled,
         EventTypeStockReserved, EventTypeStockReserveFailed, EventTypePaymentCompleted,
         EventTypePaymentFailed
<1>3. \A o : Asked(o) => Asked(o)' /\ o \in DOMAIN orders
  BY <1>2, AskedExists DEF Asked, SagaInv
<1>4. Placed' BY <1>2 DEF SagaInv, Placed, Moves
<1>5. Reserved' /\ Refused' BY <1>2, <1>3 DEF SagaInv, Reserved, Refused, Moves
<1>6. Charged' BY <1>2 DEF SagaInv, Charged
<1>7. Decided'
  <2>0. EventTypeOrderCancelled # EventTypeOrderCompleted
    BY DEF EventTypeOrderCancelled, EventTypeOrderCompleted
  <2>1. CASE status = "COMPLETED" /\ e.event_type = EventTypeOrderCompleted
    BY <1>2, <2>0, <2>1 DEF SagaInv, Decided, Moves
  <2>2. CASE status = "CANCELLED" /\ e.event_type = EventTypeOrderCancelled
    BY <1>2, <2>0, <2>2 DEF SagaInv, Decided, Moves
  <2> QED BY <2>1, <2>2
<1>8. Settled' BY <1>2 DEF SagaInv, Settled
<1> QED BY <1>1, <1>4, <1>5, <1>6, <1>7, <1>8 DEF SagaInv

-----------------------------------------------------------------------------
(* Steps of the inventory service *)

(* An answer of the inventory service leaves the other events alone. *)
LEMMA AnswerAnnounced ==
    ASSUME NEW s, Announced(s),
           \/ s.event_type = EventTypeStockReserved
           \/ s.event_type = EventTypeStockReserveFailed
    PROVE  /\ Published(EventTypeOrderCreated)' = Published(EventTypeOrderCreated)
           /\ Published(EventTypeOrderCompleted)' = Published(EventTypeOrderCompleted)
           /\ Published(EventTypeOrderCancelled)' = Published(EventTypeOrderCancelled)
           /\ Published(EventTypePaymentCompleted)' = Published(EventTypePaymentCompleted)
           /\ Published(EventTypePaymentFailed)' = Published(EventTypePaymentFailed)
           /\ s.event_type = EventTypeStockReserved =>
                 /\ Published(EventTypeStockReserved)' = Published(EventTypeStockReserved) \cup {s}
                 /\ Published(EventTypeStockReserveFailed)' = Published(EventTypeStockReserveFailed)
           /\ s.event_type = EventTypeStockReserveFailed =>
                 /\ Published(EventTypeStockReserved)' = Published(EventTypeStockReserved)
                 /\ Published(EventTypeStockReserveFailed)'
                       = Published(EventTypeStockReserveFailed) \cup {s}
BY DEF Announced, EventTypeOrderCreated, EventTypeOrderCompleted, EventTypeOrderCancelled,
       EventTypeStockReserved, EventTypeStockReserveFailed, EventTypePaymentCompleted,
       EventTypePaymentFailed

(* An OrderCreated event that is not marked was never acted on. *)
LEMMA UnmarkedNotAsked ==
    ASSUME Placed, NEW e \in Published(EventTypeOrderCreated), e.event_id \notin inventory_processed
    PROVE  ~Asked(e.order_id)
BY DEF Placed, Asked

(* Reserving: one reservation, its event and the mark, in one transaction. *)
LEMMA ReserveKeeps ==
    ASSUME SagaInv, NEW e \in Published(EventTypeOrderCreated),
           e.event_id \notin inventory_processed,
           inventory_processed' = inventory_processed \cup {e.event_id},
           NEW row \in ReservationRows, reservations' = Append(reservations, row),
           row.order_id = e.order_id, row.product_id = e.product_id,
           row.quantity = e.quantity, row.status = "RESERVED",
           NEW s, s.event_type = EventTypeStockReserved, s.order_id = e.order_id,
           s.total_amount = e.total_amount,
           Outboxes', Announced(s), Stored(order_outbox)' = Stored(order_outbox),
           Queues', UNCHANGED <<orders, payments, payment_processed>>
    PROVE  SagaInv'
<1>1. /\ reservations \in Seq(ReservationRows) /\ Len(reservations) \in Nat
      /\ DOMAIN reservations = 1 .. Len(reservations)
  BY DEF SagaInv, Tables
<1>2. PICK n : /\ DOMAIN reservations' = DOMAIN reservations \cup {n}
               /\ n \notin DOMAIN reservations /\ reservations'[n] = row
               /\ \A i \in DOMAIN reservations : reservations'[i] = reservations[i]
               /\ reservations' \in Seq(ReservationRows)
  <2> PICK k : k = Len(reservations) + 1 OBVIOUS
  <2>1. /\ DOMAIN reservations' = DOMAIN reservations \cup {k}
        /\ k \notin DOMAIN reservations /\ reservations'[k] = row
        /\ \A i \in DOMAIN reservations : reservations'[i] = reservations[i]
        /\ reservations' \in Seq(ReservationRows)
    BY <1>1
  <2> QED BY <2>1
<1>3. ~Asked(e.order_id) BY UnmarkedNotAsked DEF SagaInv
<1>4. /\ Published(EventTypeOrderCreated)' = Published(EventTypeOrderCreated)
      /\ Published(EventTypeOrderCompleted)' = Published(EventTypeOrderCompleted)
      /\ Published(EventTypeOrderCancelled)' = Published(EventTypeOrderCancelled)
      /\ Published(EventTypePaymentCompleted)' = Published(EventTypePaymentCompleted)
      /\ Published(EventTypePaymentFailed)' = Published(EventTypePaymentFailed)
      /\ Published(EventTypeStockReserved)' = Published(EventTypeStockReserved) \cup {s}
      /\ Published(EventTypeStockReserveFailed)' = Published(EventTypeStockReserveFailed)
  BY AnswerAnnounced
<1>5. (\A id : Asked(id) => Asked(id)') /\ Asked(e.order_id)' BY <1>4 DEF Asked
<1>6. Tables' BY <1>2 DEF SagaInv, Tables, Outboxes
<1>7. Placed' BY <1>4 DEF SagaInv, Placed
<1>8. Reserved'
  <2>1. ASSUME NEW i \in DOMAIN reservations'
        PROVE  /\ \E f \in Published(EventTypeOrderCreated)' :
                     /\ f.order_id = reservations'[i].order_id
                     /\ f.event_id \in inventory_processed'
               /\ reservations'[i].product_id = orders'[reservations'[i].order_id].product_id
               /\ reservations'[i].quantity = orders'[reservations'[i].order_id].quantity
               /\ \A j \in DOMAIN reservations' :
                     reservations'[j].order_id = reservations'[i].order_id => j = i
    <3>1. \A k \in DOMAIN reservations : reservations[k].order_id # e.order_id
      BY <1>3 DEF SagaInv, Reserved
    <3>2. CASE i = n
      BY <1>2, <1>4, <3>1, <3>2 DEF SagaInv, Placed
    <3>3. CASE i # n
      <4>1. i \in DOMAIN reservations /\ reservations'[i] = reservations[i] BY <1>2, <3>3
      <4>2. Asked(reservations[i].order_id) BY <4>1 DEF SagaInv, Reserved
      <4> QED BY <1>2, <1>4, <3>1, <4>1, <4>2 DEF SagaInv, Reserved, Asked
    <3> QED BY <3>2, <3>3
  <2>2. ASSUME NEW t \in Published(EventTypeStockReserved)'
        PROVE  /\ \E f \in Published(EventTypeOrderCreated)' :
                     f.order_id = t.order_id /\ f.event_id \in inventory_processed'
               /\ Order!Decimal(t.total_amount) = orders'[t.order_id].total_amount
               /\ \E i \in DOMAIN reservations' : reservations'[i].order_id = t.order_id
               /\ \A u \in Published(EventTypeStockReserved)' : u.order_id = t.order_id => u = t
    <3>1. \A u \in Published(EventTypeStockReserved) : u.order_id # e.order_id
      BY <1>3 DEF SagaInv, Reserved
    <3>2. CASE t = s
      BY <1>2, <1>4, <3>1, <3>2 DEF SagaInv, Placed
    <3>3. CASE t # s
      <4>1. t \in Published(EventTypeStockReserved) BY <1>4, <3>3
      <4> QED BY <1>2, <1>4, <3>1, <4>1 DEF SagaInv, Reserved, Asked
    <3> QED BY <3>2, <3>3
  <2> QED BY <2>1, <2>2 DEF Reserved, Asked
<1>9. Refused'
  <2>1. \A t \in Published(EventTypeStockReserveFailed) : t.order_id # e.order_id
    BY <1>3 DEF SagaInv, Refused
  <2> QED BY <1>2, <1>4, <1>5, <2>1 DEF SagaInv, Refused
<1>10. Charged' BY <1>4 DEF SagaInv, Charged
<1>11. Decided' BY <1>4 DEF SagaInv, Decided
<1>12. Settled' BY <1>2, <1>4 DEF SagaInv, Settled
<1> QED BY <1>6, <1>7, <1>8, <1>9, <1>10, <1>11, <1>12 DEF SagaInv

(* Refusing: the event and the mark, and no reservation. *)
LEMMA RejectKeeps ==
    ASSUME SagaInv, NEW e \in Published(EventTypeOrderCreated),
           e.event_id \notin inventory_processed,
           inventory_processed' = inventory_processed \cup {e.event_id},
           NEW s, s.event_type = EventTypeStockReserveFailed, s.order_id = e.order_id,
           Outboxes', Announced(s), Stored(order_outbox)' = Stored(order_outbox),
           Queues', UNCHANGED <<orders, reservations, payments, payment_processed>>
    PROVE  SagaInv'
<1>1. ~Asked(e.order_id) BY UnmarkedNotAsked DEF SagaInv
<1>2. /\ Published(EventTypeOrderCreated)' = Published(EventTypeOrderCreated)
      /\ Published(EventTypeOrderCompleted)' = Published(EventTypeOrderCompleted)
      /\ Published(EventTypeOrderCancelled)' = Published(EventTypeOrderCancelled)
      /\ Published(EventTypePaymentCompleted)' = Published(EventTypePaymentCompleted)
      /\ Published(EventTypePaymentFailed)' = Published(EventTypePaymentFailed)
      /\ Published(EventTypeStockReserved)' = Published(EventTypeStockReserved)
      /\ Published(EventTypeStockReserveFailed)' = Published(EventTypeStockReserveFailed) \cup {s}
  BY AnswerAnnounced
<1>3. (\A id : Asked(id) => Asked(id)') /\ Asked(e.order_id)' BY <1>2 DEF Asked
<1>4. Tables' BY DEF SagaInv, Tables, Outboxes
<1>5. Placed' BY <1>2 DEF SagaInv, Placed
<1>6. Reserved' BY <1>2, <1>3 DEF SagaInv, Reserved
<1>7. Refused'
  <2>1. \A i \in DOMAIN reservations : reservations[i].order_id # e.order_id
    BY <1>1 DEF SagaInv, Reserved
  <2> QED BY <1>2, <1>3, <2>1 DEF SagaInv, Refused
<1>8. Charged' BY <1>2 DEF SagaInv, Charged
<1>9. Decided' BY <1>2 DEF SagaInv, Decided
<1>10. Settled' BY <1>2 DEF SagaInv, Settled
<1> QED BY <1>4, <1>5, <1>6, <1>7, <1>8, <1>9, <1>10 DEF SagaInv

Settles(I, status) ==
    reservations' = [i \in DOMAIN reservations |->
        IF i \in I THEN [reservations[i] EXCEPT !.status = status] ELSE reservations[i]]

(* Reservations of order id are settled on an event about that order. *)
LEMMA SettleKeeps ==
    ASSUME SagaInv, NEW id, NEW I, NEW status \in Inventory!ReservationStatuses,
           I \subseteq ReservationsOf(id), Settles(I, status),
           \/ /\ status = "RELEASED"
              /\ \E e \in Published(EventTypeOrderCancelled) : e.order_id = id
           \/ /\ status = "COMMITTED"
              /\ \E e \in Published(EventTypeOrderCompleted) : e.order_id = id,
           Outboxes', Silent, Stored(order_outbox)' = Stored(order_outbox),
           Queues', Marks, UNCHANGED <<orders, payments>>
    PROVE  SagaInv'
<1>1. reservations \in Seq(ReservationRows) BY DEF SagaInv, Tables
<1>2. ASSUME NEW i \in DOMAIN reservations
      PROVE  /\ reservations'[i] \in ReservationRows
             /\ reservations'[i].order_id = reservations[i].order_id
             /\ reservations'[i].product_id = reservations[i].product_id
             /\ reservations'[i].quantity = reservations[i].quantity
             /\ \/ reservations'[i].status = reservations[i].status
                \/ reservations'[i].status = status /\ reservations[i].order_id = id
  <2>1. reservations[i] \in ReservationRows BY <1>1
  <2> QED BY <2>1 DEF ReservationRows, ReservationsOf, Settles
<1>3. /\ DOMAIN reservations' = DOMAIN reservations
      /\ reservations' = [i \in DOMAIN reservations |-> reservations'[i]]
  BY DEF Settles
<1>4. reservations' \in Seq(ReservationRows)
  <2> PICK k : k = Len(reservations) OBVIOUS
  <2>1. k \in Nat /\ DOMAIN reservations = 1 .. k BY <1>1
  <2>2. reservations' \in [1 .. k -> ReservationRows] BY <1>2, <1>3, <2>1
  <2>3. ASSUME NEW q, q \in [1 .. k -> ReservationRows] PROVE q \in Seq(ReservationRows)
    BY <2>1, <2>3, SeqDef
  <2> QED BY <2>2, <2>3
<1>5. Tables' BY <1>4 DEF SagaInv, Tables, Outboxes
<1>6. \A o : Asked(o) => Asked(o)' BY DEF Asked, Silent, Marks
<1>7. Placed' BY DEF SagaInv, Placed, Silent
<1>8. Reserved' /\ Refused'
  <2>1. ASSUME NEW i \in DOMAIN reservations'
        PROVE  \E f \in Published(EventTypeOrderCreated)' :
                  /\ f.order_id = reservations'[i].order_id
                  /\ f.event_id \in inventory_processed'
    <3>1. Asked(reservations[i].order_id) BY <1>3 DEF SagaInv, Reserved
    <3> QED BY <1>2, <1>3, <3>1 DEF Asked, Silent, Marks
  <2>2. Reserved'
    BY <1>2, <1>3, <2>1 DEF SagaInv, Reserved, Asked, Silent, Marks
  <2>3. Refused' BY <1>2, <1>3, <1>6 DEF SagaInv, Refused, Silent
  <2> QED BY <2>2, <2>3
<1>9. Charged' BY DEF SagaInv, Charged, Silent, Marks
<1>10. Decided' BY DEF SagaInv, Decided, Silent
<1>11. Settled' BY <1>2, <1>3 DEF SagaInv, Settled, Silent
<1> QED BY <1>5, <1>7, <1>8, <1>9, <1>10, <1>11 DEF SagaInv

-----------------------------------------------------------------------------
(* Steps of the payment service *)

(* Charging: one payment, its outcome and the mark, in one transaction. *)
LEMMA ChargeKeeps ==
    ASSUME SagaInv, NEW s \in Published(EventTypeStockReserved),
           s.event_id \notin payment_processed,
           payment_processed' = payment_processed \cup {s.event_id},
           NEW row \in PaymentRows, payments' = Append(payments, row),
           row.order_id = s.order_id, row.amount = Order!Decimal(s.total_amount),
           NEW e, e.order_id = s.order_id,
           \/ row.status = "COMPLETED" /\ e.event_type = EventTypePaymentCompleted
           \/ row.status = "FAILED" /\ e.event_type = EventTypePaymentFailed,
           Outboxes', Announced(e), Stored(order_outbox)' = Stored(order_outbox),
           Queues', UNCHANGED <<orders, reservations, inventory_processed>>
    PROVE  SagaInv'
<1>1. payments \in Seq(PaymentRows) /\ Len(payments) \in Nat /\ DOMAIN payments = 1 .. Len(payments)
  BY DEF SagaInv, Tables
<1>2. PICK n : /\ DOMAIN payments' = DOMAIN payments \cup {n}
               /\ n \notin DOMAIN payments /\ payments'[n] = row
               /\ \A i \in DOMAIN payments : payments'[i] = payments[i]
               /\ payments' \in Seq(PaymentRows)
  <2> PICK k : k = Len(payments) + 1 OBVIOUS
  <2>1. /\ DOMAIN payments' = DOMAIN payments \cup {k}
        /\ k \notin DOMAIN payments /\ payments'[k] = row
        /\ \A i \in DOMAIN payments : payments'[i] = payments[i]
        /\ payments' \in Seq(PaymentRows)
    BY <1>1
  <2> QED BY <2>1
<1>3. /\ Published(EventTypeOrderCreated)' = Published(EventTypeOrderCreated)
      /\ Published(EventTypeOrderCompleted)' = Published(EventTypeOrderCompleted)
      /\ Published(EventTypeOrderCancelled)' = Published(EventTypeOrderCancelled)
      /\ Published(EventTypeStockReserved)' = Published(EventTypeStockReserved)
      /\ Published(EventTypeStockReserveFailed)' = Published(EventTypeStockReserveFailed)
      /\ IF e.event_type = EventTypePaymentCompleted
         THEN /\ Published(EventTypePaymentCompleted)'
                    = Published(EventTypePaymentCompleted) \cup {e}
              /\ Published(EventTypePaymentFailed)' = Published(EventTypePaymentFailed)
         ELSE /\ Published(EventTypePaymentCompleted)' = Published(EventTypePaymentCompleted)
              /\ Published(EventTypePaymentFailed)' = Published(EventTypePaymentFailed) \cup {e}
  BY DEF Announced, EventTypeOrderCreated, EventTypeOrderCompleted, EventTypeOrderCancelled,
         EventTypeStockReserved, EventTypeStockReserveFailed, EventTypePaymentCompleted,
         EventTypePaymentFailed
<1>4. \A id : Asked(id) => Asked(id)' BY <1>3 DEF Asked
<1>5. Tables' BY <1>2 DEF SagaInv, Tables, Outboxes
<1>6. Placed' BY <1>3 DEF SagaInv, Placed
<1>7. Reserved' /\ Refused' BY <1>3, <1>4 DEF SagaInv, Reserved, Refused
<1>8. Charged'
  <2>1. \A i \in DOMAIN payments : payments[i].order_id # s.order_id
    BY DEF SagaInv, Charged, Reserved
  <2>2. ASSUME NEW i \in DOMAIN payments'
        PROVE  /\ \E t \in Published(EventTypeStockReserved)' :
                     /\ t.order_id = payments'[i].order_id
                     /\ Order!Decimal(t.total_amount) = payments'[i].amount
                     /\ t.event_id \in payment_processed'
               /\ \A j \in DOMAIN payments' :
                     payments'[j].order_id = payments'[i].order_id => j = i
    BY <1>2, <1>3, <2>1 DEF SagaInv, Charged
  <2>3. EventTypePaymentFailed # EventTypePaymentCompleted
    BY DEF EventTypePaymentFailed, EventTypePaymentCompleted
  <2>4. CASE row.status = "COMPLETED" /\ e.event_type = EventTypePaymentCompleted
    BY <1>2, <1>3, <2>2, <2>4 DEF SagaInv, Charged
  <2>5. CASE row.status = "FAILED" /\ e.event_type = EventTypePaymentFailed
    <3>1. Published(EventTypePaymentFailed)' = Published(EventTypePaymentFailed) \cup {e}
      BY <1>3, <2>3, <2>5
    <3>2. \A f \in Published(EventTypePaymentFailed)' :
             \E i \in DOMAIN payments' :
                payments'[i].order_id = f.order_id /\ payments'[i].status = "FAILED"
      BY <1>2, <2>5, <3>1 DEF SagaInv, Charged
    <3>3. \A f \in Published(EventTypePaymentCompleted)' :
             \E i \in DOMAIN payments' :
                payments'[i].order_id = f.order_id /\ payments'[i].status = "COMPLETED"
      BY <1>2, <1>3, <2>3, <2>5 DEF SagaInv, Charged
    <3> QED BY <2>2, <3>2, <3>3 DEF Charged
  <2> QED BY <2>4, <2>5
<1>9. Decided' BY <1>3 DEF SagaInv, Decided
<1>10. Settled' BY <1>3 DEF SagaInv, Settled
<1> QED BY <1>5, <1>6, <1>7, <1>8, <1>9, <1>10 DEF SagaInv

(* A payment that was compensated for had failed. *)
LEMMA CancelledNotPaid ==
    ASSUME SagaInv, NEW e \in Published(EventTypeOrderCancelled),
           NEW i \in DOMAIN payments, payments[i].order_id = e.order_id
    PROVE  payments[i].status = "FAILED"
BY DEF SagaInv, Decided, Charged

-----------------------------------------------------------------------------
(* Deliveries *)

(* What a subscriber receives was announced under its subject. *)
LEMMA Received ==
    ASSUME Queues, NEW s \in Subscriptions, Broker!HasMessage(s)
    PROVE  /\ Broker!Received(s) \in Published(s[2])
           /\ Broker!Received(s).event_type = s[2]
<1>1. inbox[s] \in Seq(Published(s[2])) /\ inbox[s] # <<>> BY DEF Queues, Broker!HasMessage
<1>2. Head(inbox[s]) \in Published(s[2]) BY <1>1, HeadTailProperties
<1> QED BY <1>2 DEF Broker!Received, Published

(* A message that is taken leaves the others where they are. *)
LEMMA TakeKeeps ==
    ASSUME Queues, Silent \/ \E e : Announced(e), NEW s \in Subscriptions,
           Broker!HasMessage(s), Broker!Take(s)
    PROVE  Queues'
BY AnnouncedGrows, QueuesKept DEF Broker!HasMessage, Broker!Take

(* The invariant says that the outboxes are well formed. *)
LEMMA InvOutboxes == SagaInv => Outboxes
BY DEF SagaInv, Tables, Outboxes

(* A delivery that the handler ignores, or only marks. *)
LEMMA IgnoredKeeps ==
    ASSUME SagaInv, NEW s \in Subscriptions, Broker!HasMessage(s), Broker!Take(s), Marks,
           UNCHANGED <<order_outbox, inventory_outbox, payment_outbox>>,
           UNCHANGED <<orders, reservations, payments>>
    PROVE  SagaInv'
<1>1. Outboxes' /\ Silent /\ Stored(order_outbox)' = Stored(order_outbox)
  BY InvOutboxes, NothingAnnounced
<1>2. Queues' BY <1>1, TakeKeeps DEF SagaInv
<1> QED BY <1>1, <1>2, NothingDone

(* POST /orders keeps the invariant. *)
LEMMA StepCreate == SagaInv /\ CreateOrder => SagaInv'
<1> SUFFICES ASSUME SagaInv, CreateOrder PROVE SagaInv' OBVIOUS
<1>1. PICK p \in ProductIDs, q \in Quantities, a \in Amounts : Order!CreateOrder(p, q, a)
  BY DEF CreateOrder
<1> PICK row, e : /\ row = Order!NewOrder(p, q, a)
                  /\ e = Order!NewOrderCreatedEvent(Order!NewEventID("order", order_outbox),
                                                    Len(orders) + 1, p, q, a)
  OBVIOUS
<1>2. /\ orders' = Append(orders, row) /\ order_outbox' = Append(order_outbox, Entry(e))
      /\ UNCHANGED <<inventory_outbox, payment_outbox, inbox, reservations, payments,
                     inventory_processed, payment_processed>>
  BY <1>1 DEF CreateOrder, Order!CreateOrder, Order!PublishInTx, Order!StatusPending, Entry,
              inventoryVars, paymentVars, brokerVars
<1>3. row \in OrderRows /\ row.status = "PENDING"
      /\ row.product_id = p /\ row.quantity = q /\ row.total_amount = Order!Decimal(a)
  <2>1. a > 0 BY <1>1 DEF Order!CreateOrder, Order!ValidOrder
  <2>2. Order!Decimal(a) \in StoredAmounts BY <2>1 DEF StoredAmounts
  <2> QED BY <2>2 DEF Order!NewOrder, OrderRows, Order!OrderStatuses, Order!OrderStatusPending
<1>4. /\ e.event_type = EventTypeOrderCreated /\ e.order_id = Len(orders) + 1
      /\ e.product_id = p /\ e.quantity = q /\ e.total_amount = a
  BY DEF Order!NewOrderCreatedEvent, Order!EventTypeOrderCreated, EventTypeOrderCreated
<1>5. /\ Outboxes' /\ Announced(e) /\ Stored(order_outbox)' = Stored(order_outbox) \cup {e}
  BY <1>2, InvOutboxes, OrderAnnounces
<1>6. Queues' BY <1>2, <1>5, AnnouncedGrows, QueuesKept DEF SagaInv
<1> QED BY <1>2, <1>3, <1>4, <1>5, <1>6, PlaceKeeps

(* Every handler of the order service keeps the invariant. *)
LEMMA StepOrder ==
    ASSUME SagaInv, NEW subject \in Order!Subjects, DeliverToOrder(subject)
    PROVE  SagaInv'
<1> PICK s, e : s = <<"order", subject>> /\ e = Broker!Received(s) OBVIOUS
<1>1. /\ Broker!HasMessage(s) /\ Broker!Take(s) /\ Order!Handle(e)
      /\ UNCHANGED <<reservations, payments, inventory_outbox, payment_outbox,
                     inventory_processed, payment_processed>>
  BY DEF DeliverToOrder, inventoryVars, paymentVars
<1>2. s \in Subscriptions /\ s[2] = subject BY DEF Subscriptions
<1>3. e \in Published(subject) /\ e.event_type = subject
  BY <1>1, <1>2, Received DEF SagaInv
<1>4. Marks BY <1>1 DEF Marks
<1>5. CASE UNCHANGED Order!vars
  BY <1>1, <1>2, <1>4, <1>5, IgnoredKeeps DEF Order!vars
<1>6. ASSUME NEW status \in Order!OrderStatuses, Order!Found(e), Order!SetStatus(e, status)
      PROVE  Moves(e.order_id, status)
  BY <1>6, SetStatusMoves DEF SagaInv, Order!Found, Order!SetStatus
<1>7. ASSUME UNCHANGED order_outbox
      PROVE  Outboxes' /\ Silent /\ Stored(order_outbox)' = Stored(order_outbox) /\ Queues'
  <2>1. Outboxes' /\ Silent /\ Stored(order_outbox)' = Stored(order_outbox)
    BY <1>1, <1>7, InvOutboxes, NothingAnnounced
  <2> QED BY <1>1, <1>2, <2>1, TakeKeeps DEF SagaInv
<1>8. ASSUME NEW f, order_outbox' = Append(order_outbox, Entry(f))
      PROVE  /\ Outboxes' /\ Announced(f)
             /\ Stored(order_outbox)' = Stored(order_outbox) \cup {f} /\ Queues'
  <2>1. Outboxes' /\ Announced(f) /\ Stored(order_outbox)' = Stored(order_outbox) \cup {f}
    BY <1>1, <1>8, InvOutboxes, OrderAnnounces
  <2> QED BY <1>1, <1>2, <2>1, TakeKeeps DEF SagaInv
<1>9. CASE Order!Confirms(e) /\ Order!Confirm(e)
  <2>1. Moves(e.order_id, "CONFIRMED") /\ orders[e.order_id].status = "PENDING"
    BY <1>6, <1>9 DEF Order!Confirms, Order!Confirm, Order!CanConfirm, Order!OrderStatuses,
                      Order!OrderStatusConfirmed, Order!OrderStatusPending
  <2> QED BY <1>1, <1>7, <1>9, <2>1, ConfirmKeeps DEF Order!Confirm
<1>10. CASE e.event_type = EventTypeStockReserveFailed /\ Order!Cancels(e) /\ Order!Cancel(e)
  <2>1. Moves(e.order_id, "CANCELLED") /\ orders[e.order_id].status # "COMPLETED"
    BY <1>6, <1>10 DEF Order!Cancels, Order!Cancel, Order!CanCancel, Order!OrderStatuses,
                       Order!OrderStatusCancelled, Order!OrderStatusCompleted
  <2>2. \E f \in Published(EventTypeStockReserveFailed) : f.order_id = e.order_id
    BY <1>3, <1>10
  <2> QED BY <1>1, <1>7, <1>10, <2>1, <2>2, RefusedKeeps DEF Order!Cancel
<1>11. CASE e.event_type = EventTypePaymentCompleted /\ Order!Completes(e) /\ Order!Complete(e)
  <2> PICK f : f = Order!NewOrderCompletedEvent(Order!NewEventID("order", order_outbox),
                                                e.order_id)
    OBVIOUS
  <2>1. Moves(e.order_id, "COMPLETED") /\ orders[e.order_id].status = "CONFIRMED"
    BY <1>6, <1>11 DEF Order!Completes, Order!Complete, Order!CanComplete, Order!OrderStatuses,
                       Order!OrderStatusConfirmed, Order!OrderStatusCompleted
  <2>2. f.event_type = EventTypeOrderCompleted /\ f.order_id = e.order_id
    BY DEF Order!NewOrderCompletedEvent, Order!EventTypeOrderCompleted, EventTypeOrderCompleted
  <2>3. order_outbox' = Append(order_outbox, Entry(f))
    BY <1>11 DEF Order!Complete, Order!PublishInTx, Order!StatusPending, Entry
  <2>4. \E g \in Published(EventTypePaymentCompleted) : g.order_id = e.order_id
    BY <1>3, <1>11
  <2> QED BY <1>1, <1>8, <2>1, <2>2, <2>3, <2>4, EndKeeps
<1>12. CASE /\ e.event_type = EventTypePaymentFailed
            /\ Order!Cancels(e) /\ Order!CancelAndCompensate(e)
  <2> PICK f : f = Order!NewOrderCancelledEvent(Order!NewEventID("order", order_outbox),
                                                e.order_id)
    OBVIOUS
  <2>1. Moves(e.order_id, "CANCELLED") /\ orders[e.order_id].status # "COMPLETED"
    BY <1>6, <1>12 DEF Order!Cancels, Order!CancelAndCompensate, Order!CanCancel,
                       Order!OrderStatuses, Order!OrderStatusCancelled,
                       Order!OrderStatusCompleted
  <2>2. f.event_type = EventTypeOrderCancelled /\ f.order_id = e.order_id
    BY DEF Order!NewOrderCancelledEvent, Order!EventTypeOrderCancelled, EventTypeOrderCancelled
  <2>3. order_outbox' = Append(order_outbox, Entry(f))
    BY <1>12 DEF Order!CancelAndCompensate, Order!PublishInTx, Order!StatusPending, Entry
  <2>4. \E g \in Published(EventTypePaymentFailed) : g.order_id = e.order_id
    BY <1>3, <1>12
  <2> QED BY <1>1, <1>8, <2>1, <2>2, <2>3, <2>4, EndKeeps
<1> QED BY <1>1, <1>5, <1>9, <1>10, <1>11, <1>12
        DEF Order!Handle, Order!HandleStockReserved, Order!HandleStockReserveFailed,
            Order!HandlePaymentCompleted, Order!HandlePaymentFailed,
            Order!EventTypeStockReserveFailed, Order!EventTypePaymentCompleted,
            Order!EventTypePaymentFailed, EventTypeStockReserveFailed,
            EventTypePaymentCompleted, EventTypePaymentFailed

(* Every handler of the inventory service keeps the invariant. *)
LEMMA StepInventory ==
    ASSUME SagaInv, NEW subject \in Inventory!Subjects, DeliverToInventory(subject)
    PROVE  SagaInv'
<1> PICK s, e : s = <<"inventory", subject>> /\ e = Broker!Received(s) OBVIOUS
<1>1. /\ Broker!HasMessage(s) /\ Broker!Take(s) /\ Inventory!Handle(e)
      /\ UNCHANGED <<orders, payments, order_outbox, payment_outbox, payment_processed>>
  BY DEF DeliverToInventory, orderVars, paymentVars
<1>2. s \in Subscriptions /\ s[2] = subject BY DEF Subscriptions
<1>3. e \in Published(subject) /\ e.event_type = subject
  BY <1>1, <1>2, Received DEF SagaInv
<1>4. CASE UNCHANGED Inventory!vars
  <2>1. Marks BY <1>1, <1>4 DEF Marks, Inventory!vars
  <2> QED BY <1>1, <1>2, <1>4, <2>1, IgnoredKeeps DEF Inventory!vars
<1>5. ASSUME NEW f, inventory_outbox' = Append(inventory_outbox, Entry(f))
      PROVE  Outboxes' /\ Announced(f) /\ Stored(order_outbox)' = Stored(order_outbox) /\ Queues'
  <2>1. Outboxes' /\ Announced(f) /\ Stored(order_outbox)' = Stored(order_outbox)
    BY <1>1, <1>5, InvOutboxes, InventoryAnnounces
  <2> QED BY <1>1, <1>2, <2>1, TakeKeeps DEF SagaInv
<1>6. ASSUME UNCHANGED inventory_outbox
      PROVE  Outboxes' /\ Silent /\ Stored(order_outbox)' = Stored(order_outbox) /\ Queues'
  <2>1. Outboxes' /\ Silent /\ Stored(order_outbox)' = Stored(order_outbox)
    BY <1>1, <1>6, InvOutboxes, NothingAnnounced
  <2> QED BY <1>1, <1>2, <2>1, TakeKeeps DEF SagaInv
<1>7. CASE /\ e.event_type = EventTypeOrderCreated
           /\ e.event_id \notin inventory_processed
           /\ inventory_processed' = inventory_processed \cup {e.event_id}
           /\ Inventory!ReserveStock(inventory, e)
  <2> PICK row, f :
         /\ row = Inventory!NewReservation(e.order_id, e.product_id, e.quantity)
         /\ f = Inventory!NewStockReservedEvent(
                   Inventory!NewEventID("inventory", inventory_outbox),
                   e.order_id, e.product_id, e.quantity, e.total_amount)
    OBVIOUS
  <2>1. e \in Published(EventTypeOrderCreated) BY <1>3, <1>7
  <2>2. /\ e.order_id \in Nat /\ e.product_id \in ProductIDs /\ e.quantity \in Quantities
    <3>1. /\ e.order_id \in DOMAIN orders
          /\ e.product_id = orders[e.order_id].product_id
          /\ e.quantity = orders[e.order_id].quantity
      BY <2>1 DEF SagaInv, Placed
    <3>2. orders \in Seq(OrderRows) BY DEF SagaInv, Tables
    <3>3. e.order_id \in Nat /\ orders[e.order_id] \in OrderRows BY <3>1, <3>2
    <3> QED BY <3>1, <3>3 DEF OrderRows
  <2>3. /\ row \in ReservationRows /\ row.order_id = e.order_id
        /\ row.product_id = e.product_id /\ row.quantity = e.quantity /\ row.status = "RESERVED"
    BY <2>2 DEF Inventory!NewReservation, ReservationRows, Inventory!ReservationStatuses,
                Inventory!ReservationStatusReserved
  <2>4. /\ f.event_type = EventTypeStockReserved /\ f.order_id = e.order_id
        /\ f.total_amount = e.total_amount
    BY DEF Inventory!NewStockReservedEvent, Inventory!EventTypeStockReserved,
           EventTypeStockReserved
  <2>5. /\ reservations' = Append(reservations, row)
        /\ inventory_outbox' = Append(inventory_outbox, Entry(f))
    BY <1>7 DEF Inventory!ReserveStock, Inventory!PublishInTx, Inventory!StatusPending, Entry
  <2> QED BY <1>1, <1>5, <1>7, <2>1, <2>3, <2>4, <2>5, ReserveKeeps
<1>8. CASE /\ e.event_type = EventTypeOrderCreated
           /\ e.event_id \notin inventory_processed
           /\ inventory_processed' = inventory_processed \cup {e.event_id}
           /\ Inventory!RejectReservation(e)
  <2> PICK f :
         f = Inventory!NewStockReserveFailedEvent(
                Inventory!NewEventID("inventory", inventory_outbox),
                e.order_id, e.product_id, e.quantity)
    OBVIOUS
  <2>1. e \in Published(EventTypeOrderCreated) BY <1>3, <1>8
  <2>2. f.event_type = EventTypeStockReserveFailed /\ f.order_id = e.order_id
    BY DEF Inventory!NewStockReserveFailedEvent, Inventory!EventTypeStockReserveFailed,
           EventTypeStockReserveFailed
  <2>3. /\ inventory_outbox' = Append(inventory_outbox, Entry(f)) /\ UNCHANGED reservations
    BY <1>8 DEF Inventory!RejectReservation, Inventory!PublishInTx, Inventory!StatusPending,
                Entry
  <2> QED BY <1>1, <1>5, <1>8, <2>1, <2>2, <2>3, RejectKeeps
<1>9. ASSUME NEW I \in SUBSET Inventory!Held(e.order_id), NEW status,
             reservations' = Inventory!SetStatus(I, status), UNCHANGED inventory_outbox,
             inventory_processed' = inventory_processed \cup {e.event_id},
             \/ status = "RELEASED" /\ e.event_type = EventTypeOrderCancelled
             \/ status = "COMMITTED" /\ e.event_type = EventTypeOrderCompleted
      PROVE  SagaInv'
  <2>1. I \subseteq ReservationsOf(e.order_id) BY <1>9 DEF Inventory!Held, ReservationsOf
  <2>2. status \in Inventory!ReservationStatuses
    BY <1>9 DEF Inventory!ReservationStatuses, Inventory!ReservationStatusReserved,
                Inventory!ReservationStatusReleased, Inventory!ReservationStatusCommitted
  <2>3. Settles(I, status) BY <1>9 DEF Inventory!SetStatus, Settles
  <2>4. \/ /\ status = "RELEASED"
           /\ \E f \in Published(EventTypeOrderCancelled) : f.order_id = e.order_id
        \/ /\ status = "COMMITTED"
           /\ \E f \in Published(EventTypeOrderCompleted) : f.order_id = e.order_id
    BY <1>3, <1>9
  <2>5. Marks BY <1>1, <1>9 DEF Marks
  <2> QED BY <1>1, <1>6, <1>9, <2>1, <2>2, <2>3, <2>4, <2>5, SettleKeeps
<1>10. CASE e.event_type = EventTypeOrderCreated /\ Inventory!HandleOrderCreated(e)
  BY <1>4, <1>7, <1>8, <1>10 DEF Inventory!HandleOrderCreated, Inventory!AlreadyProcessed,
                                 Inventory!MarkProcessed
<1>11. CASE e.event_type = EventTypeOrderCancelled /\ Inventory!HandleOrderCancelled(e)
  <2>1. CASE /\ inventory_processed' = Inventory!MarkProcessed(inventory_processed, e)
             /\ reservations' = Inventory!SetStatus(Inventory!Held(e.order_id),
                                                    Inventory!ReservationStatusReleased)
             /\ UNCHANGED inventory_outbox
    BY <1>9, <1>11, <2>1 DEF Inventory!MarkProcessed, Inventory!ReservationStatusReleased
  <2> QED BY <1>4, <1>11, <2>1 DEF Inventory!HandleOrderCancelled
<1>12. CASE e.event_type = EventTypeOrderCompleted /\ Inventory!HandleOrderCompleted(e)
  <2>1. CASE /\ inventory_processed' = Inventory!MarkProcessed(inventory_processed, e)
             /\ \E C \in SUBSET Inventory!Held(e.order_id) :
                   reservations' = Inventory!SetStatus(C, Inventory!ReservationStatusCommitted)
             /\ UNCHANGED inventory_outbox
    BY <1>9, <1>12, <2>1 DEF Inventory!MarkProcessed, Inventory!ReservationStatusCommitted
  <2> QED BY <1>4, <1>12, <2>1 DEF Inventory!HandleOrderCompleted
<1> QED BY <1>1, <1>10, <1>11, <1>12
        DEF Inventory!Handle, Inventory!EventTypeOrderCreated, Inventory!EventTypeOrderCancelled,
            Inventory!EventTypeOrderCompleted, EventTypeOrderCreated, EventTypeOrderCancelled,
            EventTypeOrderCompleted

(* Every handler of the payment service keeps the invariant. *)
LEMMA StepPayment ==
    ASSUME SagaInv, NEW subject \in Payment!Subjects, DeliverToPayment(subject)
    PROVE  SagaInv'
<1> PICK s, e : s = <<"payment", subject>> /\ e = Broker!Received(s) OBVIOUS
<1>1. /\ Broker!HasMessage(s) /\ Broker!Take(s) /\ Payment!Handle(e)
      /\ UNCHANGED <<orders, reservations, order_outbox, inventory_outbox, inventory_processed>>
  BY DEF DeliverToPayment, orderVars, inventoryVars
<1>2. s \in Subscriptions /\ s[2] = subject BY DEF Subscriptions
<1>3. e \in Published(subject) /\ e.event_type = subject
  BY <1>1, <1>2, Received DEF SagaInv
<1>4. ASSUME UNCHANGED <<payments, payment_outbox>>, payment_processed \subseteq payment_processed'
      PROVE  SagaInv'
  <2>1. Marks BY <1>1, <1>4 DEF Marks
  <2> QED BY <1>1, <1>2, <1>4, <2>1, IgnoredKeeps
<1>5. ASSUME NEW f, payment_outbox' = Append(payment_outbox, Entry(f))
      PROVE  Outboxes' /\ Announced(f) /\ Stored(order_outbox)' = Stored(order_outbox) /\ Queues'
  <2>1. Outboxes' /\ Announced(f) /\ Stored(order_outbox)' = Stored(order_outbox)
    BY <1>1, <1>5, InvOutboxes, PaymentAnnounces
  <2> QED BY <1>1, <1>2, <2>1, TakeKeeps DEF SagaInv
<1>6. ASSUME e.event_type = EventTypeStockReserved, e.event_id \notin payment_processed,
             payment_processed' = payment_processed \cup {e.event_id},
             NEW status, NEW f, f.order_id = e.order_id,
             \/ status = "COMPLETED" /\ f.event_type = EventTypePaymentCompleted
             \/ status = "FAILED" /\ f.event_type = EventTypePaymentFailed,
             Payment!SavePayment(e, status), payment_outbox' = Append(payment_outbox, Entry(f))
      PROVE  SagaInv'
  <2> PICK row : row = Payment!NewPayment(e.order_id, Payment!Decimal(e.total_amount), status) OBVIOUS
  <2>1. e \in Published(EventTypeStockReserved) BY <1>3, <1>6
  <2>2. e.order_id \in Nat /\ Order!Decimal(e.total_amount) \in StoredAmounts
    <3>1. e.order_id \in DOMAIN orders
          /\ Order!Decimal(e.total_amount) = orders[e.order_id].total_amount
      BY <2>1, AskedExists DEF SagaInv, Reserved
    <3>2. orders \in Seq(OrderRows) BY DEF SagaInv, Tables
    <3>3. e.order_id \in Nat /\ orders[e.order_id] \in OrderRows BY <3>1, <3>2
    <3> QED BY <3>1, <3>3 DEF OrderRows
  <2>3. /\ row = Payment!NewPayment(e.order_id, Order!Decimal(e.total_amount), status)
        /\ row.order_id = e.order_id /\ row.amount = Order!Decimal(e.total_amount)
        /\ row.status = status
    <3>1. Payment!Decimal(e.total_amount) = Order!Decimal(e.total_amount) BY SameRounding
    <3> QED BY <3>1 DEF Payment!NewPayment
  <2>4. row \in PaymentRows
    <3>1. status \in Payment!PaymentStatuses
      BY <1>6 DEF Payment!PaymentStatuses, Payment!PaymentStatusCompleted,
                  Payment!PaymentStatusFailed
    <3> QED BY <2>2, <2>3, <3>1 DEF PaymentRows, Payment!NewPayment
  <2>5. payments' = Append(payments, row) BY <1>6 DEF Payment!SavePayment
  <2> QED BY <1>1, <1>5, <1>6, <2>1, <2>3, <2>4, <2>5, ChargeKeeps
<1>7. CASE e.event_type = EventTypeStockReserved /\ Payment!HandleStockReserved(e)
  <2>1. CASE UNCHANGED Payment!vars BY <1>4, <2>1 DEF Payment!vars
  <2>2. CASE /\ e.event_id \notin payment_processed
             /\ payment_processed' = payment_processed \cup {e.event_id}
             /\ Payment!DeclinePayment(e)
    <3> PICK f : f = Payment!NewPaymentFailedEvent(Payment!NewEventID("payment", payment_outbox),
                                                   e.order_id)
      OBVIOUS
    <3>1. f.event_type = EventTypePaymentFailed /\ f.order_id = e.order_id
      BY DEF Payment!NewPaymentFailedEvent, Payment!EventTypePaymentFailed,
             EventTypePaymentFailed
    <3>2. /\ payment_outbox' = Append(payment_outbox, Entry(f))
          /\ Payment!SavePayment(e, "FAILED")
      BY <2>2 DEF Payment!DeclinePayment, Payment!PublishInTx, Payment!StatusPending, Entry,
                  Payment!PaymentStatusFailed
    <3> QED BY <1>6, <1>7, <2>2, <3>1, <3>2
  <2>3. CASE /\ e.event_id \notin payment_processed
             /\ payment_processed' = payment_processed \cup {e.event_id}
             /\ Payment!ApprovePayment(e)
    <3> PICK f : f = Payment!NewPaymentCompletedEvent(
                        Payment!NewEventID("payment", payment_outbox),
                        e.order_id, e.total_amount)
      OBVIOUS
    <3>1. f.event_type = EventTypePaymentCompleted /\ f.order_id = e.order_id
      BY DEF Payment!NewPaymentCompletedEvent, Payment!EventTypePaymentCompleted,
             EventTypePaymentCompleted
    <3>2. /\ payment_outbox' = Append(payment_outbox, Entry(f))
          /\ Payment!SavePayment(e, "COMPLETED")
      BY <2>3 DEF Payment!ApprovePayment, Payment!PublishInTx, Payment!StatusPending, Entry,
                  Payment!PaymentStatusCompleted
    <3> QED BY <1>6, <1>7, <2>3, <3>1, <3>2
  <2> QED BY <1>7, <2>1, <2>2, <2>3 DEF Payment!HandleStockReserved, Payment!AlreadyProcessed,
                                        Payment!MarkProcessed
<1>8. CASE e.event_type = EventTypeOrderCancelled /\ Payment!HandleOrderCancelled(e)
  <2>1. \A i \in Payment!PaymentsOf(e.order_id) : ~Payment!IsCompleted(payments[i])
    BY <1>3, <1>8, CancelledNotPaid DEF Payment!PaymentsOf, Payment!IsCompleted,
                                        Payment!PaymentStatusCompleted
  <2>2. UNCHANGED <<payments, payment_outbox>> /\ payment_processed \subseteq payment_processed'
    BY <1>8, <2>1 DEF Payment!HandleOrderCancelled, Payment!MarkProcessed, Payment!vars
  <2> QED BY <1>4, <2>2
<1> QED BY <1>1, <1>7, <1>8
        DEF Payment!Handle, Payment!EventTypeStockReserved, Payment!EventTypeOrderCancelled,
            EventTypeStockReserved, EventTypeOrderCancelled

-----------------------------------------------------------------------------
(* Relays and faults *)

(* A step of a relay or a fault: rows of outboxes change status and retry  *)
(* count only.                                                             *)
KeepsEvents ==
    /\ Outboxes' /\ Silent
    /\ Stored(order_outbox)' = Stored(order_outbox)
    /\ Stored(inventory_outbox)' = Stored(inventory_outbox)
    /\ UNCHANGED <<orders, inventory, reservations, payments, inventory_processed,
                   payment_processed>>

(* What moves messages only, keeps the invariant. *)
LEMMA TransportKeeps ==
    ASSUME SagaInv, KeepsEvents, Queues'
    PROVE  SagaInv'
<1>1. Marks BY DEF Marks, KeepsEvents
<1> QED BY <1>1, NothingDone DEF KeepsEvents

(* The table once the rows S are sent and the rows F have failed. *)
Committed(outbox, S, F) ==
    [i \in DOMAIN outbox |->
        [outbox[i] EXCEPT !.status = IF i \in S THEN "SENT" ELSE @,
                          !.retry_count = IF i \in F THEN @ + 1 ELSE @]]

(* A relay's commit changes marks of rows, never their events. *)
LEMMA CommitKeeps ==
    ASSUME NEW outbox, IsOutbox(outbox), NEW S, NEW F, NEW new, new = Committed(outbox, S, F)
    PROVE  IsOutbox(new) /\ Stored(new) = Stored(outbox)
<1>1. \A i \in DOMAIN outbox : outbox[i] \in OutboxRows(Stored(outbox)) BY OutboxShape
<1>2. ASSUME NEW i \in DOMAIN outbox
      PROVE  /\ new[i] \in OutboxRows(Stored(outbox))
             /\ new[i].payload = outbox[i].payload
  <2> PICK P, row, st, rc :
         /\ P = Stored(outbox) /\ row = outbox[i]
         /\ st = IF i \in S THEN "SENT" ELSE row.status
         /\ rc = IF i \in F THEN row.retry_count + 1 ELSE row.retry_count
    OBVIOUS
  <2>1. row \in OutboxRows(P) BY <1>1
  <2>2. row.status \in {"PENDING", "SENT"} /\ row.retry_count \in Nat BY <2>1 DEF OutboxRows
  <2>3. st \in {"PENDING", "SENT"} /\ rc \in Nat
    <3>1. st = "SENT" \/ st = row.status OBVIOUS
    <3>2. rc = row.retry_count + 1 \/ rc = row.retry_count OBVIOUS
    <3> QED BY <2>2, <3>1, <3>2
  <2>4. new[i] = [row EXCEPT !.status = st, !.retry_count = rc] BY <2>1 DEF OutboxRows, Committed
  <2> QED BY <2>1, <2>3, <2>4 DEF OutboxRows
<1>3. new = [i \in DOMAIN outbox |-> new[i]] BY DEF Committed
<1> QED BY <1>2, <1>3, OutboxCommits

(* A message put into the queues of its subject is one an outbox holds.    *)
LEMMA PublishedRow ==
    ASSUME Queues, NEW row, row.payload \in Published(row.payload.event_type), PublishRow(row),
           UNCHANGED <<order_outbox, inventory_outbox, payment_outbox>>
    PROVE  Queues'
<1>1. PICK e : e = row.payload OBVIOUS
<1>2. PICK R : R = {s \in Subscriptions : up[s[1]]} OBVIOUS
<1>3. inbox' = [s \in Subscriptions |->
                   IF s[2] = e.event_type /\ s \in R THEN Append(inbox[s], e) ELSE inbox[s]]
  <2>1. inbox' = [s \in Subscriptions |->
                     IF s[2] = e.event_type /\ up[s[1]] THEN Append(inbox[s], e) ELSE inbox[s]]
    BY <1>1 DEF PublishRow, Broker!Publish
  <2>2. \A s \in Subscriptions : s \in R <=> up[s[1]] BY <1>2
  <2> QED BY <2>1, <2>2
<1>4. Silent BY DEF Silent, Published
<1>5. e \in Published(e.event_type) BY <1>1
<1> QED BY <1>3, <1>4, <1>5, QueuesFilled

(* Polling, publishing and committing change no table and no event. *)
LEMMA RelayKeepsEvents ==
    ASSUME SagaInv, NEW r \in Relays, RelayStep(r)
    PROVE  KeepsEvents
<1> USE DEF Outboxes, Silent, Published
<1>1. Outboxes BY InvOutboxes
<1>2. CASE OrderRelayStep(r)
  <2>1. UNCHANGED <<orders, inventory, reservations, payments, inventory_processed,
                    payment_processed, inventory_outbox, payment_outbox>>
    BY <1>2 DEF OrderRelayStep, inventoryVars, paymentVars
  <2>2. CASE UNCHANGED order_outbox BY <1>1, <2>1, <2>2 DEF KeepsEvents, Stored
  <2>3. CASE OrderRelay!Commit(r)
    <3>1. order_outbox'
             = Committed(order_outbox, order_tx[r].sent, order_tx[r].failed)
      BY <2>3 DEF OrderRelay!Commit, OrderRelay!CommitRow, OrderRelay!StatusSent, Committed
    <3>2. IsOutbox(order_outbox') /\ Stored(order_outbox') = Stored(order_outbox)
      BY <1>1, <3>1, CommitKeeps
    <3> QED BY <1>1, <2>1, <3>2 DEF KeepsEvents, Stored
  <2> QED BY <1>2, <2>2, <2>3 DEF OrderRelayStep, OrderRelay!Poll, OrderRelay!PublishMessage
<1>3. CASE InventoryRelayStep(r)
  <2>1. UNCHANGED <<orders, inventory, reservations, payments, inventory_processed,
                    payment_processed, order_outbox, payment_outbox>>
    BY <1>3 DEF InventoryRelayStep, orderVars, paymentVars
  <2>2. CASE UNCHANGED inventory_outbox BY <1>1, <2>1, <2>2 DEF KeepsEvents, Stored
  <2>3. CASE InventoryRelay!Commit(r)
    <3>1. inventory_outbox'
             = Committed(inventory_outbox, inventory_tx[r].sent, inventory_tx[r].failed)
      BY <2>3 DEF InventoryRelay!Commit, InventoryRelay!CommitRow,
                  InventoryRelay!StatusSent, Committed
    <3>2. IsOutbox(inventory_outbox') /\ Stored(inventory_outbox') = Stored(inventory_outbox)
      BY <1>1, <3>1, CommitKeeps
    <3> QED BY <1>1, <2>1, <3>2 DEF KeepsEvents, Stored
  <2> QED
    BY <1>3, <2>2, <2>3
       DEF InventoryRelayStep, InventoryRelay!Poll, InventoryRelay!PublishMessage
<1>4. CASE PaymentRelayStep(r)
  <2>1. UNCHANGED <<orders, inventory, reservations, payments, inventory_processed,
                    payment_processed, order_outbox, inventory_outbox>>
    BY <1>4 DEF PaymentRelayStep, orderVars, inventoryVars
  <2>2. CASE UNCHANGED payment_outbox BY <1>1, <2>1, <2>2 DEF KeepsEvents, Stored
  <2>3. CASE PaymentRelay!Commit(r)
    <3>1. payment_outbox'
             = Committed(payment_outbox, payment_tx[r].sent, payment_tx[r].failed)
      BY <2>3 DEF PaymentRelay!Commit, PaymentRelay!CommitRow, PaymentRelay!StatusSent, Committed
    <3>2. IsOutbox(payment_outbox') /\ Stored(payment_outbox') = Stored(payment_outbox)
      BY <1>1, <3>1, CommitKeeps
    <3> QED BY <1>1, <2>1, <3>2 DEF KeepsEvents, Stored
  <2> QED BY <1>4, <2>2, <2>3 DEF PaymentRelayStep, PaymentRelay!Poll, PaymentRelay!PublishMessage
<1> QED BY <1>2, <1>3, <1>4 DEF RelayStep

(* Every step of a relay keeps the invariant. *)
LEMMA StepRelay ==
    ASSUME SagaInv, NEW r \in Relays, RelayStep(r)
    PROVE  SagaInv'
<1>1. KeepsEvents BY RelayKeepsEvents
<1>2. ASSUME UNCHANGED inbox PROVE Queues'
  <2>1. Grows BY <1>1, AnnouncedGrows DEF KeepsEvents
  <2> QED BY <1>2, <2>1, QueuesKept DEF SagaInv
<1>3. ASSUME OrderRelayStep(r), ~UNCHANGED inbox PROVE Queues'
  <2>1. PICK i \in DOMAIN order_outbox :
           OrderRelay!PublishMessage(r, i) /\ PublishRow(order_outbox[i])
    BY <1>3 DEF OrderRelayStep, brokerVars
  <2>2. order_outbox[i].payload \in Published(order_outbox[i].payload.event_type)
    BY DEF Published, Stored
  <2>3. UNCHANGED <<order_outbox, inventory_outbox, payment_outbox>>
    BY <1>3, <2>1 DEF OrderRelayStep, OrderRelay!PublishMessage, inventoryVars, paymentVars
  <2> QED BY <2>1, <2>2, <2>3, PublishedRow DEF SagaInv
<1>4. ASSUME InventoryRelayStep(r), ~UNCHANGED inbox PROVE Queues'
  <2>1. PICK i \in DOMAIN inventory_outbox :
           InventoryRelay!PublishMessage(r, i) /\ PublishRow(inventory_outbox[i])
    BY <1>4 DEF InventoryRelayStep, brokerVars
  <2>2. inventory_outbox[i].payload \in Published(inventory_outbox[i].payload.event_type)
    BY DEF Published, Stored
  <2>3. UNCHANGED <<order_outbox, inventory_outbox, payment_outbox>>
    BY <1>4, <2>1 DEF InventoryRelayStep, InventoryRelay!PublishMessage, orderVars, paymentVars
  <2> QED BY <2>1, <2>2, <2>3, PublishedRow DEF SagaInv
<1>5. ASSUME PaymentRelayStep(r), ~UNCHANGED inbox PROVE Queues'
  <2>1. PICK i \in DOMAIN payment_outbox :
           PaymentRelay!PublishMessage(r, i) /\ PublishRow(payment_outbox[i])
    BY <1>5 DEF PaymentRelayStep, brokerVars
  <2>2. payment_outbox[i].payload \in Published(payment_outbox[i].payload.event_type)
    BY DEF Published, Stored
  <2>3. UNCHANGED <<order_outbox, inventory_outbox, payment_outbox>>
    BY <1>5, <2>1 DEF PaymentRelayStep, PaymentRelay!PublishMessage, orderVars, inventoryVars
  <2> QED BY <2>1, <2>2, <2>3, PublishedRow DEF SagaInv
<1>6. Queues' BY <1>2, <1>3, <1>4, <1>5 DEF RelayStep
<1> QED BY <1>1, <1>6, TransportKeeps

(* What the faults leave alone: every table, every event. *)
Fault ==
    \/ \E r \in Relays : RelayRollback(r) \/ PublishFails(r)
    \/ \E s \in Subscriptions : HandlerError(s)
    \/ \E service \in Services : Stop(service) \/ Restart(service)
    \/ UNCHANGED vars

(* Failed handlers, stops and rollbacks change no table and no event. *)
LEMMA FaultKeepsEvents ==
    ASSUME SagaInv, Fault
    PROVE  KeepsEvents
<1>1. UNCHANGED <<orders, inventory, reservations, payments, inventory_processed,
                  payment_processed, order_outbox, inventory_outbox, payment_outbox>>
  <2>1. ASSUME NEW r \in Relays, RelayRollback(r)
        PROVE  UNCHANGED <<orders, inventory, reservations, payments, inventory_processed,
                           payment_processed, order_outbox, inventory_outbox, payment_outbox>>
    BY <2>1 DEF RelayRollback, OrderRelay!Rollback, InventoryRelay!Rollback,
                PaymentRelay!Rollback
  <2>2. ASSUME NEW r \in Relays, PublishFails(r)
        PROVE  UNCHANGED <<orders, inventory, reservations, payments, inventory_processed,
                           payment_processed, order_outbox, inventory_outbox, payment_outbox>>
    BY <2>2 DEF PublishFails, OrderRelay!PublishFails, InventoryRelay!PublishFails,
                PaymentRelay!PublishFails
  <2> QED BY <2>1, <2>2 DEF Fault, HandlerError, Stop, Restart, vars, orderVars, inventoryVars,
                            paymentVars
<1>2. Outboxes' /\ Silent BY <1>1, InvOutboxes, NothingAnnounced
<1> QED BY <1>1, <1>2 DEF KeepsEvents, Stored

(* Every fault keeps the invariant. *)
LEMMA StepFault ==
    ASSUME SagaInv, Fault
    PROVE  SagaInv'
<1>1. KeepsEvents BY FaultKeepsEvents
<1>2. Silent /\ Grows BY <1>1, AnnouncedGrows DEF KeepsEvents
<1>3. ASSUME UNCHANGED inbox PROVE Queues' BY <1>2, <1>3, QueuesKept DEF SagaInv
<1>4. ASSUME NEW s \in Subscriptions, HandlerError(s) PROVE Queues'
  BY <1>2, <1>4, TakeKeeps DEF SagaInv, HandlerError
<1>5. ASSUME NEW service \in Services, Stop(service) PROVE Queues'
  <2> PICK R : R = {s \in Subscriptions : s[1] = service} OBVIOUS
  <2>1. inbox' = [s \in Subscriptions |-> IF s \in R THEN <<>> ELSE inbox[s]]
    BY <1>5 DEF Stop, Broker!Disconnect
  <2> QED BY <1>2, <2>1, QueuesKept DEF SagaInv
<1>6. \/ UNCHANGED inbox
      \/ \E s \in Subscriptions : HandlerError(s)
      \/ \E service \in Services : Stop(service)
  BY DEF Fault, RelayRollback, PublishFails, Restart, Broker!Connect, vars, brokerVars
<1>7. Queues' BY <1>3, <1>4, <1>5, <1>6
<1> QED BY <1>1, <1>7, TransportKeeps

-----------------------------------------------------------------------------
(* The invariant is inductive *)

(* Nothing has been said or done at the start. *)
LEMMA InitSaga == Init => SagaInv
<1> SUFFICES ASSUME Init PROVE SagaInv OBVIOUS
<1>1. /\ orders = <<>> /\ reservations = <<>> /\ payments = <<>>
      /\ order_outbox = <<>> /\ inventory_outbox = <<>> /\ payment_outbox = <<>>
      /\ inbox = [s \in Subscriptions |-> <<>>]
  BY DEF Init, Order!Init, Inventory!Init, Payment!Init, Broker!MessagingInit
<1>2. \A S : <<>> \in Seq(S) OBVIOUS
<1>3. Stored(<<>>) = {} BY DEF Stored
<1>4. \A type : Published(type) = {} BY <1>1, <1>3 DEF Published
<1>5. Tables BY <1>1, <1>2 DEF Tables, IsOutbox
<1>6. Queues BY <1>1, <1>2 DEF Queues
<1>7. Placed /\ Reserved /\ Refused BY <1>1, <1>4 DEF Placed, Reserved, Refused
<1>8. Charged /\ Decided /\ Settled BY <1>1, <1>4 DEF Charged, Decided, Settled
<1> QED BY <1>5, <1>6, <1>7, <1>8 DEF SagaInv

(* Every step of the composed system keeps the invariant. *)
LEMMA StepSaga == SagaInv /\ [Next]_vars => SagaInv'
<1> SUFFICES ASSUME SagaInv, [Next]_vars PROVE SagaInv' OBVIOUS
<1>1. CASE CreateOrder BY <1>1, StepCreate
<1>2. CASE Deliver BY <1>2, StepOrder, StepInventory, StepPayment DEF Deliver
<1>3. ASSUME NEW r \in Relays, RelayStep(r) PROVE SagaInv' BY <1>3, StepRelay
<1> QED BY <1>1, <1>2, <1>3, StepFault DEF Next, Fault

-----------------------------------------------------------------------------
(* The life of an order as Fulfilment sees it *)

(* Fulfilment's stock and charge. *)
StockMap  == [id \in OrderIDs |-> StockOf(id)]
ChargeMap == [id \in OrderIDs |-> ChargeOf(id)]

(* The units that a set of orders is for. *)
UnitsOf(table, I) == UNION {{i} \X (1 .. table[i].quantity) : i \in I}

Count(table, I) == Cardinality(UnitsOf(table, I))

Holding(status, p) ==
    {id \in OrderIDs : orders[id].product_id = p /\ StockMap[id] = status}

(* Only an order that was asked for is answered, and a refusal is an       *)
(* answer of the inventory service.                                        *)
Answered ==
    /\ \A e \in Stored(inventory_outbox) : Asked(e.order_id)
    /\ \A e \in Published(EventTypeStockReserveFailed) : e \in Stored(inventory_outbox)

(* The books of the inventory service in terms of orders: reserved is what *)
(* open orders hold, and what completed ones took has left.                *)
Ledger ==
    /\ inventory \in [DOMAIN InitialStock -> [quantity : Int, reserved_quantity : Int]]
    /\ \A p \in DOMAIN InitialStock :
          /\ inventory[p].reserved_quantity = Count(orders, Holding("RESERVED", p))
          /\ inventory[p].quantity = InitialStock[p] - Count(orders, Holding("COMMITTED", p))
    /\ \A id \in OrderIDs : orders[id].quantity \in Nat \ {0}
    /\ \A i \in DOMAIN reservations : reservations[i].product_id \in DOMAIN InitialStock

-----------------------------------------------------------------------------
(* Counting units *)

(* The units of finitely many orders are finitely many. *)
LEMMA UnitsFinite ==
    ASSUME NEW table, NEW I, IsFiniteSet(I), \A i \in I : table[i].quantity \in Nat
    PROVE  IsFiniteSet(UnitsOf(table, I)) /\ Count(table, I) \in Nat
<1> DEFINE Own(i) == {i} \X (1 .. table[i].quantity)
           sets   == {Own(i) : i \in I}
           f      == [i \in I |-> Own(i)]
<1>1. IsFiniteSet(sets)
  <2>1. f \in [I -> sets] /\ \A T \in sets : \E i \in I : f[i] = T OBVIOUS
  <2>2. f \in Surjection(I, sets)
    <3> HIDE DEF f, sets
    <3> QED BY <2>1, Fun_IsSurj
  <2> HIDE DEF f, sets
  <2> QED BY <2>2, FS_Surjection
<1>2. ASSUME NEW i \in I PROVE IsFiniteSet(Own(i))
  <2>0. PICK k \in Int : k = table[i].quantity OBVIOUS
  <2>1. IsFiniteSet({i}) BY FS_Singleton
  <2>2. IsFiniteSet(1 .. k) BY FS_Interval
  <2> QED BY <2>0, <2>1, <2>2, FS_Product
<1>3. \A T \in sets : IsFiniteSet(T) BY <1>2
<1>4. UnitsOf(table, I) = UNION sets BY DEF UnitsOf
<1>5. IsFiniteSet(UnitsOf(table, I))
  <2> HIDE DEF sets
  <2> QED BY <1>1, <1>3, <1>4, FS_UNION
<1> QED BY <1>5, FS_CardinalityType DEF Count

(* Orders apart from each other count together. *)
LEMMA CountUnion ==
    ASSUME NEW table, NEW I, IsFiniteSet(I), \A i \in I : table[i].quantity \in Nat,
           NEW J, IsFiniteSet(J), \A i \in J : table[i].quantity \in Nat, I \cap J = {}
    PROVE  Count(table, I \cup J) = Count(table, I) + Count(table, J)
<1>1. PICK A : A = UnitsOf(table, I) OBVIOUS
<1>2. PICK B : B = UnitsOf(table, J) OBVIOUS
<1>3. IsFiniteSet(A) /\ IsFiniteSet(B) BY <1>1, <1>2, UnitsFinite
<1>4. A \cap B = {} /\ UnitsOf(table, I \cup J) = A \cup B BY <1>1, <1>2 DEF UnitsOf
<1>5. Cardinality(A \cap B) = 0 BY <1>4, FS_EmptySet
<1>6. Cardinality(A \cup B) = Cardinality(A) + Cardinality(B) - Cardinality(A \cap B)
  BY <1>3, FS_Union
<1>7. Cardinality(A) \in Nat /\ Cardinality(B) \in Nat BY <1>3, FS_CardinalityType
<1>8. Cardinality(A \cup B) = Cardinality(A) + Cardinality(B) BY <1>5, <1>6, <1>7
<1>9. /\ Count(table, I) = Cardinality(A) /\ Count(table, J) = Cardinality(B)
      /\ Count(table, I \cup J) = Cardinality(A \cup B)
  BY <1>1, <1>2, <1>4 DEF Count
<1> QED BY <1>8, <1>9

(* One order counts its quantity, none counts nothing. *)
LEMMA CountOne ==
    ASSUME NEW table, NEW i, NEW q \in Nat, table[i].quantity = q
    PROVE  Count(table, {i}) = q
<1>1. UnitsOf(table, {i}) = {i} \X (1 .. q) BY DEF UnitsOf
<1>2. IsFiniteSet({i}) /\ Cardinality({i}) = 1 BY FS_Singleton
<1>3. IsFiniteSet(1 .. q) /\ Cardinality(1 .. q) = IF 1 > q THEN 0 ELSE q - 1 + 1 BY FS_Interval
<1>4. Cardinality(1 .. q) = q BY <1>3
<1>5. Cardinality({i} \X (1 .. q)) = 1 * q BY <1>2, <1>3, <1>4, FS_Product
<1>6. Cardinality({i} \X (1 .. q)) = q BY <1>5
<1>7. Count(table, {i}) = Cardinality({i} \X (1 .. q)) BY <1>1 DEF Count
<1> QED BY <1>6, <1>7

(* No orders have no units. *)
LEMMA CountNone ==
    ASSUME NEW table PROVE Count(table, {}) = 0
<1>1. UnitsOf(table, {}) = {} BY DEF UnitsOf
<1> QED BY <1>1, FS_EmptySet DEF Count

(* One order more. *)
LEMMA CountAdd ==
    ASSUME NEW table, NEW I, IsFiniteSet(I), \A i \in I : table[i].quantity \in Nat,
           NEW k, k \notin I, table[k].quantity \in Nat
    PROVE  /\ Count(table, I) \in Nat
           /\ Count(table, I \cup {k}) = Count(table, I) + table[k].quantity
<1>1. IsFiniteSet({k}) /\ (\A i \in {k} : table[i].quantity \in Nat) /\ I \cap {k} = {}
  BY FS_Singleton
<1>2. Count(table, I \cup {k}) = Count(table, I) + Count(table, {k}) BY <1>1, CountUnion
<1>3. Count(table, {k}) = table[k].quantity BY CountOne
<1> QED BY <1>2, <1>3, UnitsFinite

(* Units depend on the quantities alone. *)
LEMMA CountSame ==
    ASSUME NEW s, NEW t, NEW I, \A i \in I : s[i].quantity = t[i].quantity
    PROVE  Count(s, I) = Count(t, I)
<1>1. UnitsOf(s, I) = UnitsOf(t, I) BY DEF UnitsOf
<1> QED BY <1>1 DEF Count

(* The services count in the same way. *)
LEMMA SameCount ==
    ASSUME NEW table, NEW I
    PROVE  Inventory!Total(table, I) = Count(table, I)
<1>1. Inventory!Units(table, I) = UnitsOf(table, I) BY DEF Inventory!Units, UnitsOf
<1>2. \A S : Inventory!Cardinality(S) = Cardinality(S)
  BY DEF Inventory!Cardinality, Cardinality
<1> QED BY <1>1, <1>2 DEF Inventory!Total, Count

(* The abstract specification counts the same way. *)
LEMMA SameCardinality ==
    ASSUME NEW S PROVE Abstract!Cardinality(S) = Cardinality(S)
BY DEF Abstract!Cardinality, Cardinality

-----------------------------------------------------------------------------
(* What the databases show of an order *)

(* What an order's stock and charge are, read off the tables. *)
Views ==
    /\ \A id, i : i \in DOMAIN reservations /\ reservations[i].order_id = id
                     => StockOf(id) = reservations[i].status
    /\ \A id : (\A i \in DOMAIN reservations : reservations[i].order_id # id)
                  => StockOf(id) = IF \E e \in Stored(inventory_outbox) : e.order_id = id
                                   THEN "REFUSED" ELSE "ASKED"
    /\ \A id, i : i \in DOMAIN payments /\ payments[i].order_id = id
                     => ChargeOf(id) = payments[i].status
    /\ \A id : (\A i \in DOMAIN payments : payments[i].order_id # id) => ChargeOf(id) = "NONE"

(* There is one reservation and one payment of an order to read. *)
LEMMA ViewsHold == SagaInv => Views
<1> SUFFICES ASSUME SagaInv PROVE Views OBVIOUS
<1>1. ASSUME NEW i \in DOMAIN reservations
      PROVE  StockOf(reservations[i].order_id) = reservations[i].status
  <2>1. ReservationsOf(reservations[i].order_id) = {i} BY DEF ReservationsOf, SagaInv, Reserved
  <2>2. (CHOOSE j \in {i} : TRUE) = i OBVIOUS
  <2> QED BY <2>1, <2>2 DEF StockOf
<1>2. ASSUME NEW id, \A i \in DOMAIN reservations : reservations[i].order_id # id
      PROVE  StockOf(id) = IF \E e \in Stored(inventory_outbox) : e.order_id = id
                           THEN "REFUSED" ELSE "ASKED"
  <2>1. ReservationsOf(id) = {} BY <1>2 DEF ReservationsOf
  <2>2. (\E e \in Stored(inventory_outbox) : e.order_id = id)
           <=> \E i \in DOMAIN inventory_outbox : inventory_outbox[i].payload.order_id = id
    BY DEF Stored
  <2> QED BY <2>1, <2>2 DEF StockOf
<1>3. ASSUME NEW i \in DOMAIN payments
      PROVE  ChargeOf(payments[i].order_id) = payments[i].status
  <2>1. PaymentsOf(payments[i].order_id) = {i} BY DEF PaymentsOf, SagaInv, Charged
  <2>2. (CHOOSE j \in {i} : TRUE) = i OBVIOUS
  <2> QED BY <2>1, <2>2 DEF ChargeOf
<1>4. ASSUME NEW id, \A i \in DOMAIN payments : payments[i].order_id # id
      PROVE  ChargeOf(id) = "NONE"
  BY <1>4 DEF ChargeOf, PaymentsOf
<1> QED BY <1>1, <1>2, <1>3, <1>4 DEF Views

(* The same after a step. *)
LEMMA ViewsNext == SagaInv' => Views'
BY ViewsHold, PTL

(* The two further parts of the invariant that the simulation rests on. *)
Books == Answered /\ Ledger

(* A step of the life of an order, or none. *)
Simulated == [Abstract!Next]_(Abstract!vars)

(* What none of the three views shows is no step. *)
LEMMA Stutters ==
    ASSUME UNCHANGED <<orders, StockMap, ChargeMap>>
    PROVE  Simulated
BY DEF Simulated, Abstract!vars, StockMap, ChargeMap

(* Nothing of inventory-db's answers or payment-db's payments changed. *)
LEMMA SameMaps ==
    ASSUME SagaInv, SagaInv', UNCHANGED <<reservations, payments>>,
           Stored(inventory_outbox)' = Stored(inventory_outbox), DOMAIN orders' = DOMAIN orders
    PROVE  UNCHANGED <<StockMap, ChargeMap>>
<1>1. Views /\ Views' BY ViewsHold, ViewsNext
<1>2. ASSUME NEW id PROVE StockOf(id)' = StockOf(id)
  <2>1. CASE \E i \in DOMAIN reservations : reservations[i].order_id = id
    BY <1>1, <2>1 DEF Views
  <2>2. CASE \A i \in DOMAIN reservations : reservations[i].order_id # id
    BY <1>1, <2>2 DEF Views
  <2> QED BY <2>1, <2>2
<1>3. ASSUME NEW id PROVE ChargeOf(id)' = ChargeOf(id)
  BY DEF ChargeOf, PaymentsOf
<1> QED BY <1>2, <1>3 DEF StockMap, ChargeMap, OrderIDs

(* Answers stay answers when the inventory service says nothing new. *)
LEMMA AnsweredKept ==
    ASSUME Answered, Grows, inventory_processed \subseteq inventory_processed',
           Stored(inventory_outbox)' = Stored(inventory_outbox),
           Published(EventTypeStockReserveFailed)' = Published(EventTypeStockReserveFailed)
    PROVE  Answered'
<1>1. \A id : Asked(id) => Asked(id)' BY DEF Asked, Grows
<1> QED BY <1>1 DEF Answered

(* What orders ask for never changes. *)
SameData ==
    /\ DOMAIN orders' = DOMAIN orders
    /\ \A id \in DOMAIN orders : /\ orders'[id].product_id = orders[id].product_id
                                 /\ orders'[id].quantity = orders[id].quantity

(* The books stay right when no stock moves. *)
LEMMA LedgerKept ==
    ASSUME Ledger, UNCHANGED <<inventory, reservations, StockMap>>, SameData
    PROVE  Ledger'
<1>1. ASSUME NEW status, NEW p
      PROVE  Count(orders, Holding(status, p))' = Count(orders, Holding(status, p))
  <2>1. PICK I : I = Holding(status, p) OBVIOUS
  <2>2. Holding(status, p)' = I BY <2>1 DEF Holding, SameData, OrderIDs
  <2>3. \A i \in I : orders'[i].quantity = orders[i].quantity
    BY <2>1 DEF SameData, Holding, OrderIDs
  <2>4. Count(orders', I) = Count(orders, I) BY <2>3, CountSame
  <2>5. Count(orders, Holding(status, p))' = Count(orders', Holding(status, p)')
    BY DEF Count, UnitsOf
  <2> QED BY <2>1, <2>2, <2>4, <2>5
<1>2. \A p \in DOMAIN InitialStock :
         /\ Count(orders, Holding("RESERVED", p))' = Count(orders, Holding("RESERVED", p))
         /\ Count(orders, Holding("COMMITTED", p))' = Count(orders, Holding("COMMITTED", p))
  BY <1>1
<1>3. \A id \in OrderIDs' : orders'[id].quantity \in Nat \ {0} BY DEF Ledger, SameData, OrderIDs
<1> QED BY <1>2, <1>3 DEF Ledger

(* A step that changes no table of a service, a relay's or a fault. *)
LEMMA NothingShows ==
    ASSUME SagaInv, SagaInv', Books, Silent,
           UNCHANGED <<orders, inventory, reservations, payments>>,
           inventory_processed \subseteq inventory_processed',
           Stored(inventory_outbox)' = Stored(inventory_outbox)
    PROVE  Books' /\ Simulated
<1>1. UNCHANGED <<StockMap, ChargeMap>> BY SameMaps
<1>2. Grows BY AnnouncedGrows
<1>3. Answered' BY <1>2, AnsweredKept DEF Books, Silent
<1>4. Ledger' BY <1>1, LedgerKept DEF Books, SameData
<1> QED BY <1>1, <1>3, <1>4, Stutters DEF Books

-----------------------------------------------------------------------------
(* Orders move *)

(* An order's new status shows in no other database. *)
LEMMA StatusChanges ==
    ASSUME SagaInv, SagaInv', Books, NEW id \in DOMAIN orders,
           NEW status \in Order!OrderStatuses,
           orders' = [orders EXCEPT ![id].status = status],
           Grows, Published(EventTypeStockReserveFailed)' = Published(EventTypeStockReserveFailed),
           UNCHANGED <<inventory, reservations, payments, inventory_outbox, inventory_processed>>
    PROVE  Books' /\ UNCHANGED <<StockMap, ChargeMap>>
<1>1. Moves(id, status) BY SetStatusMoves DEF SagaInv
<1>2. SameData BY <1>1 DEF SameData, Moves
<1>3. Stored(inventory_outbox)' = Stored(inventory_outbox) BY DEF Stored
<1>4. UNCHANGED <<StockMap, ChargeMap>> BY <1>2, <1>3, SameMaps DEF SameData
<1>5. Answered' BY <1>3, AnsweredKept DEF Books
<1>6. Ledger' BY <1>2, <1>4, LedgerKept DEF Books
<1> QED BY <1>4, <1>5, <1>6 DEF Books

(* A reservation that was announced is held until the order ends. *)
LEMMA HeldUntilEnd ==
    ASSUME SagaInv, NEW s \in Published(EventTypeStockReserved)
    PROVE  /\ s.order_id \in DOMAIN orders
           /\ \/ StockMap[s.order_id] = "RESERVED"
              \/ \E e \in Published(EventTypeOrderCancelled) : e.order_id = s.order_id
              \/ \E e \in Published(EventTypeOrderCompleted) : e.order_id = s.order_id
<1>1. PICK i \in DOMAIN reservations : reservations[i].order_id = s.order_id
  BY DEF SagaInv, Reserved
<1>2. reservations[i] \in ReservationRows BY DEF SagaInv, Tables
<1>3. reservations[i].status \in {"RESERVED", "RELEASED", "COMMITTED"}
  BY <1>2 DEF ReservationRows, Inventory!ReservationStatuses,
              Inventory!ReservationStatusReserved,
              Inventory!ReservationStatusReleased, Inventory!ReservationStatusCommitted
<1>4. s.order_id \in DOMAIN orders BY AskedExists DEF SagaInv, Reserved
<1>5. StockMap[s.order_id] = reservations[i].status
  BY <1>1, <1>4, ViewsHold DEF Views, StockMap, OrderIDs
<1> QED BY <1>1, <1>3, <1>4, <1>5 DEF SagaInv, Settled

(* Payments are as announced. *)
LEMMA ChargeAnnounced ==
    ASSUME SagaInv, NEW e, e.order_id \in DOMAIN orders,
           e \in Published(EventTypePaymentCompleted) \cup Published(EventTypePaymentFailed)
    PROVE  ChargeMap[e.order_id] = IF e \in Published(EventTypePaymentCompleted)
                                   THEN "COMPLETED" ELSE "FAILED"
<1>1. ChargeMap[e.order_id] = ChargeOf(e.order_id) BY DEF ChargeMap, OrderIDs
<1>2. CASE e \in Published(EventTypePaymentCompleted)
  BY <1>1, <1>2, ViewsHold DEF Views, SagaInv, Charged
<1>3. CASE e \notin Published(EventTypePaymentCompleted)
  BY <1>1, <1>3, ViewsHold DEF Views, SagaInv, Charged
<1> QED BY <1>2, <1>3

(* An order whose refusal was announced shows as refused. *)
LEMMA RefusalSeen ==
    ASSUME SagaInv, Books, NEW e \in Published(EventTypeStockReserveFailed),
           e.order_id \in DOMAIN orders
    PROVE  StockMap[e.order_id] = "REFUSED"
<1>1. StockMap[e.order_id] = StockOf(e.order_id) BY DEF StockMap, OrderIDs
<1>2. \A i \in DOMAIN reservations : reservations[i].order_id # e.order_id
  BY DEF SagaInv, Refused
<1>3. e \in Stored(inventory_outbox) BY DEF Books, Answered
<1> QED BY <1>1, <1>2, <1>3, ViewsHold DEF Views

(* StockReserved makes a PENDING order with held stock CONFIRMED. *)
LEMMA ConfirmSimulates ==
    ASSUME SagaInv, NEW s \in Published(EventTypeStockReserved), s.order_id \in DOMAIN orders,
           orders[s.order_id].status = "PENDING",
           orders' = [orders EXCEPT ![s.order_id].status = "CONFIRMED"],
           UNCHANGED <<StockMap, ChargeMap>>
    PROVE  Simulated
<1>1. StockMap[s.order_id] = "RESERVED" BY HeldUntilEnd DEF SagaInv, Decided
<1>2. Abstract!Confirm(s.order_id) BY <1>1 DEF Abstract!Confirm, StockMap, ChargeMap
<1>3. s.order_id \in Abstract!Ids BY DEF Abstract!Ids
<1> QED BY <1>2, <1>3 DEF Simulated, Abstract!Next

(* PaymentCompleted makes a CONFIRMED, paid order COMPLETED. *)
LEMMA CompleteSimulates ==
    ASSUME SagaInv, NEW e \in Published(EventTypePaymentCompleted), e.order_id \in DOMAIN orders,
           orders[e.order_id].status = "CONFIRMED",
           orders' = [orders EXCEPT ![e.order_id].status = "COMPLETED"],
           UNCHANGED <<StockMap, ChargeMap>>
    PROVE  Simulated
<1>1. ChargeMap[e.order_id] = "COMPLETED" BY ChargeAnnounced
<1>2. Abstract!Complete(e.order_id) BY <1>1 DEF Abstract!Complete, StockMap, ChargeMap
<1>3. e.order_id \in Abstract!Ids BY DEF Abstract!Ids
<1> QED BY <1>2, <1>3 DEF Simulated, Abstract!Next

(* An order that is cancelled again stays as it is. *)
LEMMA CancelSimulates ==
    ASSUME SagaInv, Books, NEW e, e.order_id \in DOMAIN orders,
           e \in Published(EventTypePaymentFailed) \cup Published(EventTypeStockReserveFailed),
           orders[e.order_id].status # "COMPLETED",
           orders' = [orders EXCEPT ![e.order_id].status = "CANCELLED"],
           UNCHANGED <<StockMap, ChargeMap>>
    PROVE  Simulated
<1>1. orders \in Seq(OrderRows) /\ orders[e.order_id] \in OrderRows BY DEF SagaInv, Tables
<1>2. orders[e.order_id].status \in {"PENDING", "CONFIRMED", "CANCELLED"}
  BY <1>1 DEF OrderRows, Order!OrderStatuses, Order!OrderStatusPending,
              Order!OrderStatusConfirmed, Order!OrderStatusCompleted, Order!OrderStatusCancelled
<1>3. CASE orders[e.order_id].status = "CANCELLED"
  <2>1. [orders[e.order_id] EXCEPT !.status = "CANCELLED"] = orders[e.order_id]
    BY <1>1, <1>3 DEF OrderRows
  <2>2. orders' = orders BY <1>1, <2>1
  <2> QED BY <2>2, Stutters
<1>4. CASE orders[e.order_id].status \in {"PENDING", "CONFIRMED"}
  <2>3. ChargeMap[e.order_id] = "FAILED" \/ StockMap[e.order_id] = "REFUSED"
    <3>1. CASE e \in Published(EventTypePaymentFailed)
      <4>1. e \notin Published(EventTypePaymentCompleted)
        BY <3>1 DEF Published, EventTypePaymentFailed, EventTypePaymentCompleted
      <4> QED BY <3>1, <4>1, ChargeAnnounced
    <3>2. CASE e \in Published(EventTypeStockReserveFailed) BY <3>2, RefusalSeen
    <3> QED BY <3>1, <3>2
  <2>4. Abstract!Cancel(e.order_id) BY <1>4, <2>3 DEF Abstract!Cancel, StockMap, ChargeMap
  <2>5. e.order_id \in Abstract!Ids BY DEF Abstract!Ids
  <2> QED BY <2>4, <2>5 DEF Simulated, Abstract!Next
<1> QED BY <1>2, <1>3, <1>4

-----------------------------------------------------------------------------
(* New orders *)

(* POST /orders adds an order that has asked for stock and was not charged. *)
LEMMA PlaceSimulates ==
    ASSUME SagaInv, SagaInv', Books, Len(orders) < MaxOrders,
           NEW p \in ProductIDs, NEW q \in Quantities, NEW a \in StoredAmounts, q > 0,
           orders' = Append(orders, [product_id |-> p, quantity |-> q, total_amount |-> a,
                                     status |-> "PENDING"]),
           Grows, Published(EventTypeStockReserveFailed)' = Published(EventTypeStockReserveFailed),
           UNCHANGED <<inventory, reservations, payments, inventory_outbox, inventory_processed>>
    PROVE  Books' /\ Simulated
<1>1. PICK n : n = Len(orders) + 1 OBVIOUS
<1>2. PICK row : row = [product_id |-> p, quantity |-> q, total_amount |-> a,
                        status |-> "PENDING"]
  OBVIOUS
<1>3. orders \in Seq(OrderRows) /\ Len(orders) \in Nat /\ DOMAIN orders = 1 .. Len(orders)
  BY DEF SagaInv, Tables
<1>4. /\ DOMAIN orders' = 1 .. n /\ DOMAIN orders' = DOMAIN orders \cup {n}
      /\ n \notin DOMAIN orders
      /\ orders'[n] = row /\ \A id \in DOMAIN orders : orders'[id] = orders[id]
  <2>1. orders' = Append(orders, row) BY <1>2
  <2>2. row \in OrderRows
    BY <1>2 DEF OrderRows, Order!OrderStatuses, Order!OrderStatusPending
  <2> QED BY <1>1, <1>3, <2>1, <2>2
<1>5. q \in Nat \ {0} /\ q # 0 BY SagaAssumption
<1>6. Views /\ Views' BY ViewsHold, ViewsNext
<1>7. Stored(inventory_outbox)' = Stored(inventory_outbox) BY DEF Stored
<1>8. ASSUME NEW id PROVE StockOf(id)' = StockOf(id) /\ ChargeOf(id)' = ChargeOf(id)
  BY DEF StockOf, ChargeOf, ReservationsOf, PaymentsOf
<1>9. ~Asked(n) BY <1>4, AskedExists DEF SagaInv
<1>10. StockOf(n) = "ASKED" /\ ChargeOf(n) = "NONE"
  <2>1. \A i \in DOMAIN reservations : reservations[i].order_id # n
    BY <1>9 DEF SagaInv, Reserved
  <2>2. \A e \in Stored(inventory_outbox) : e.order_id # n BY <1>9 DEF Books, Answered
  <2>3. \A i \in DOMAIN payments : payments[i].order_id # n
    BY <1>9 DEF SagaInv, Charged, Reserved
  <2> QED BY <1>6, <2>1, <2>2, <2>3 DEF Views
<1>11. /\ StockMap' = [id \in 1 .. n |-> IF id = n THEN "ASKED" ELSE StockMap[id]]
       /\ ChargeMap' = [id \in 1 .. n |-> IF id = n THEN "NONE" ELSE ChargeMap[id]]
  BY <1>4, <1>8, <1>10 DEF StockMap, ChargeMap, OrderIDs
<1>12. ASSUME NEW f, f = [id \in 1 .. Len(orders) |-> f[id]], NEW x
       PROVE  Append(f, x) = [id \in 1 .. n |-> IF id = n THEN x ELSE f[id]]
  <2>1. PICK k : k = Len(orders) OBVIOUS
  <2>2. PICK S : S = {f[id] : id \in 1 .. k} \cup {x} OBVIOUS
  <2>3. k \in Nat /\ n = k + 1 BY <1>1, <1>3, <2>1
  <2>4. f = [id \in 1 .. k |-> f[id]] BY <1>12, <2>1
  <2>5. f \in [1 .. k -> S] BY <2>2, <2>4
  <2>6. f \in Seq(S)
    <3>1. ASSUME NEW g, g \in [1 .. k -> S] PROVE g \in Seq(S) BY <2>3, <3>1, SeqDef
    <3> QED BY <2>5, <3>1
  <2>7. Len(f) = k BY <2>3, <2>4, <2>6, LenProperties
  <2>8. x \in S BY <2>2
  <2> QED BY <2>3, <2>4, <2>6, <2>7, <2>8, AppendProperties
<1>13. /\ StockMap = [id \in 1 .. Len(orders) |-> StockMap[id]]
       /\ ChargeMap = [id \in 1 .. Len(orders) |-> ChargeMap[id]]
  BY <1>3 DEF StockMap, ChargeMap, OrderIDs
<1>14. StockMap' = Append(StockMap, "ASKED") /\ ChargeMap' = Append(ChargeMap, "NONE")
  <2>1. PICK f : f = StockMap OBVIOUS
  <2>2. PICK g : g = ChargeMap OBVIOUS
  <2>3. Append(f, "ASKED") = [id \in 1 .. n |-> IF id = n THEN "ASKED" ELSE f[id]]
    <3>1. f = [id \in 1 .. Len(orders) |-> f[id]] BY <1>13, <2>1
    <3> QED BY <1>12, <3>1
  <2>4. Append(g, "NONE") = [id \in 1 .. n |-> IF id = n THEN "NONE" ELSE g[id]]
    <3>1. g = [id \in 1 .. Len(orders) |-> g[id]] BY <1>13, <2>2
    <3> QED BY <1>12, <3>1
  <2>5. StockMap' = [id \in 1 .. n |-> IF id = n THEN "ASKED" ELSE f[id]] BY <1>11, <2>1
  <2>6. ChargeMap' = [id \in 1 .. n |-> IF id = n THEN "NONE" ELSE g[id]] BY <1>11, <2>2
  <2>7. StockMap' = Append(StockMap, "ASKED") BY <2>1, <2>3, <2>5
  <2>8. ChargeMap' = Append(ChargeMap, "NONE") BY <2>2, <2>4, <2>6
  <2> QED BY <2>7, <2>8
<1>15. Simulated
  <2>1. Abstract!Place(p, q, a) BY <1>14 DEF Abstract!Place, StockMap, ChargeMap
  <2>2. q \in Quantities \ {0} /\ a \in StoredAmounts BY <1>5
  <2> QED BY <2>1, <2>2 DEF Simulated, Abstract!Next
<1>16. Answered' BY <1>7, AnsweredKept DEF Books
<1>17. ASSUME NEW status \in {"RESERVED", "COMMITTED"}, NEW product
       PROVE  Count(orders, Holding(status, product))' = Count(orders, Holding(status, product))
  <2>1. PICK I : I = Holding(status, product) OBVIOUS
  <2>2. Holding(status, product)' = I
    BY <1>3, <1>4, <1>11, <2>1, <1>1 DEF Holding, OrderIDs
  <2>3. Count(orders', I) = Count(orders, I)
    <3>1. \A i \in I : orders'[i].quantity = orders[i].quantity
      BY <1>4, <2>1 DEF Holding, OrderIDs
    <3> QED BY <3>1, CountSame
  <2>4. Count(orders, Holding(status, product))' = Count(orders', Holding(status, product)')
    BY DEF Count, UnitsOf
  <2> QED BY <2>1, <2>2, <2>3, <2>4
<1>18. \A id \in OrderIDs' : orders'[id].quantity \in Nat \ {0}
  BY <1>2, <1>4, <1>5 DEF Books, Ledger, OrderIDs
<1>19. Ledger'
  <2>1. \A r \in DOMAIN InitialStock :
           /\ Count(orders, Holding("RESERVED", r))' = Count(orders, Holding("RESERVED", r))
           /\ Count(orders, Holding("COMMITTED", r))' = Count(orders, Holding("COMMITTED", r))
    BY <1>17
  <2> QED BY <1>18, <2>1 DEF Books, Ledger
<1> QED BY <1>15, <1>16, <1>19 DEF Books

-----------------------------------------------------------------------------
(* Payments *)

(* A new payment is the first one of an order whose stock is reserved. *)
LEMMA ChargeSimulates ==
    ASSUME SagaInv, SagaInv', Books, NEW s \in Published(EventTypeStockReserved),
           s.event_id \notin payment_processed, NEW row, payments' = Append(payments, row),
           row.order_id = s.order_id, row.status \in {"COMPLETED", "FAILED"},
           Grows, Published(EventTypeStockReserveFailed)' = Published(EventTypeStockReserveFailed),
           UNCHANGED <<orders, inventory, reservations, inventory_outbox, inventory_processed>>
    PROVE  Books' /\ Simulated
<1>1. PICK id : id = s.order_id OBVIOUS
<1>2. Views /\ Views' BY ViewsHold, ViewsNext
<1>3. PICK n : /\ DOMAIN payments' = DOMAIN payments \cup {n} /\ n \notin DOMAIN payments
               /\ payments'[n] = row /\ \A i \in DOMAIN payments : payments'[i] = payments[i]
  <2>1. PICK k : k = Len(payments) + 1 OBVIOUS
  <2>2. payments \in Seq(PaymentRows) BY DEF SagaInv, Tables
  <2>3. /\ DOMAIN payments' = DOMAIN payments \cup {k} /\ k \notin DOMAIN payments
        /\ payments'[k] = row /\ \A i \in DOMAIN payments : payments'[i] = payments[i]
    BY <2>1, <2>2
  <2> QED BY <2>3
<1>4. \A i \in DOMAIN payments : payments[i].order_id # id
  BY <1>1 DEF SagaInv, Charged, Reserved
<1>5. id \in DOMAIN orders /\ StockMap[id] = "RESERVED"
  <2>1. id \in DOMAIN orders BY <1>1, HeldUntilEnd
  <2>2. ~\E e \in Published(EventTypeOrderCancelled) : e.order_id = id
    BY <1>4 DEF SagaInv, Decided, Charged
  <2>3. ~\E e \in Published(EventTypeOrderCompleted) : e.order_id = id
    BY <1>4 DEF SagaInv, Decided, Charged
  <2> QED BY <1>1, <2>1, <2>2, <2>3, HeldUntilEnd
<1>6. ChargeOf(id) = "NONE" /\ ChargeOf(id)' = row.status
  <2>1. ChargeOf(id) = "NONE" BY <1>2, <1>4 DEF Views
  <2>2. n \in DOMAIN payments' /\ payments'[n].order_id = id /\ payments'[n].status = row.status
    BY <1>1, <1>3
  <2>3. ChargeOf(id)' = payments'[n].status BY <1>2, <2>2 DEF Views
  <2> QED BY <2>1, <2>2, <2>3
<1>7. ASSUME NEW o, o # id PROVE ChargeOf(o)' = ChargeOf(o)
  <2>1. PaymentsOf(o)' = PaymentsOf(o) BY <1>1, <1>3, <1>7 DEF PaymentsOf
  <2>2. CASE PaymentsOf(o) = {} BY <2>1, <2>2 DEF ChargeOf
  <2>3. CASE PaymentsOf(o) # {}
    <3>1. PICK i \in DOMAIN payments : payments[i].order_id = o BY <2>3 DEF PaymentsOf
    <3>2. i \in DOMAIN payments' /\ payments'[i] = payments[i] BY <1>3
    <3>3. ChargeOf(o)' = payments[i].status BY <1>2, <3>1, <3>2 DEF Views
    <3> QED BY <1>2, <3>1, <3>3 DEF Views
  <2> QED BY <2>2, <2>3
<1>8. ASSUME NEW o PROVE StockOf(o)' = StockOf(o) BY DEF StockOf, ReservationsOf
<1>9. StockMap' = StockMap BY <1>8 DEF StockMap, OrderIDs
<1>10. ChargeMap' = [ChargeMap EXCEPT ![id] = row.status]
  BY <1>5, <1>6, <1>7 DEF ChargeMap, OrderIDs
<1>11. Simulated
  <2>1. ChargeMap[id] = "NONE" BY <1>5, <1>6 DEF ChargeMap, OrderIDs
  <2>2. Abstract!Charge(id, row.status)
    BY <1>5, <1>9, <1>10, <2>1 DEF Abstract!Charge, StockMap, ChargeMap
  <2>3. id \in Abstract!Ids BY <1>5 DEF Abstract!Ids
  <2> QED BY <2>2, <2>3 DEF Simulated, Abstract!Next
<1>12. Stored(inventory_outbox)' = Stored(inventory_outbox) BY DEF Stored
<1>13. Answered' BY <1>12, AnsweredKept DEF Books
<1>14. Ledger' BY <1>9, LedgerKept DEF Books, SameData
<1> QED BY <1>11, <1>13, <1>14 DEF Books

-----------------------------------------------------------------------------
(* Stock *)

(* What is counted is finite. *)
LEMMA HoldingFinite ==
    ASSUME SagaInv, Books, NEW status, NEW p
    PROVE  /\ IsFiniteSet(Holding(status, p))
           /\ \A i \in Holding(status, p) : orders[i].quantity \in Nat
           /\ Count(orders, Holding(status, p)) \in Nat
<1>1. Len(orders) \in Nat /\ OrderIDs = 1 .. Len(orders) BY DEF SagaInv, Tables, OrderIDs
<1>2. IsFiniteSet(OrderIDs) BY <1>1, FS_Interval
<1>3. Holding(status, p) \subseteq OrderIDs BY DEF Holding
<1>4. IsFiniteSet(Holding(status, p)) BY <1>2, <1>3, FS_Subset
<1>5. \A i \in Holding(status, p) : orders[i].quantity \in Nat BY <1>3 DEF Books, Ledger
<1> QED BY <1>4, <1>5, UnitsFinite

(* A step of the inventory service concerns the stock of order id only. *)
Touches(id) ==
    /\ UNCHANGED <<orders, payments>>
    /\ DOMAIN reservations \subseteq DOMAIN reservations'
    /\ \A i \in DOMAIN reservations :
          /\ reservations'[i].order_id = reservations[i].order_id
          /\ reservations[i].order_id # id => reservations'[i].status = reservations[i].status
    /\ \A i \in DOMAIN reservations' \ DOMAIN reservations : reservations'[i].order_id = id
    /\ \A e \in Stored(inventory_outbox) : e \in Stored(inventory_outbox)'
    /\ \A e \in Stored(inventory_outbox)' : e \in Stored(inventory_outbox) \/ e.order_id = id

(* What touches the stock of one order shows at that order only. *)
LEMMA TouchesOne ==
    ASSUME SagaInv, SagaInv', NEW id \in OrderIDs, Touches(id), NEW status, StockOf(id)' = status
    PROVE  StockMap' = [StockMap EXCEPT ![id] = status] /\ ChargeMap' = ChargeMap
<1>1. Views /\ Views' BY ViewsHold, ViewsNext
<1>2. ASSUME NEW o, o # id PROVE StockOf(o)' = StockOf(o)
  <2>1. CASE \E i \in DOMAIN reservations : reservations[i].order_id = o
    <3>1. PICK i \in DOMAIN reservations : reservations[i].order_id = o BY <2>1
    <3>2. /\ i \in DOMAIN reservations' /\ reservations'[i].order_id = o
          /\ reservations'[i].status = reservations[i].status
      BY <1>2, <3>1 DEF Touches
    <3> QED BY <1>1, <3>1, <3>2 DEF Views
  <2>2. CASE \A i \in DOMAIN reservations : reservations[i].order_id # o
    <3>1. \A i \in DOMAIN reservations' : reservations'[i].order_id # o
      BY <1>2, <2>2 DEF Touches
    <3>2. (\E e \in Stored(inventory_outbox)' : e.order_id = o)
             <=> \E e \in Stored(inventory_outbox) : e.order_id = o
      BY <1>2 DEF Touches
    <3> QED BY <1>1, <2>2, <3>1, <3>2 DEF Views
  <2> QED BY <2>1, <2>2
<1>3. ASSUME NEW o PROVE ChargeOf(o)' = ChargeOf(o) BY DEF ChargeOf, PaymentsOf, Touches
<1>4. ChargeMap' = ChargeMap BY <1>3 DEF ChargeMap, OrderIDs, Touches
<1>5. OrderIDs' = OrderIDs BY DEF OrderIDs, Touches
<1>6. StockMap' = [StockMap EXCEPT ![id] = status]
  BY <1>2, <1>5 DEF StockMap
<1> QED BY <1>4, <1>6

(* q units of p go from one status to another. *)
UnitsMove(from, to, p, q) ==
    /\ Count(orders, Holding(to, p))' = Count(orders, Holding(to, p)) + q
    /\ Count(orders, Holding(from, p)) = Count(orders, Holding(from, p))' + q
    /\ \A other : other # from /\ other # to =>
          Count(orders, Holding(other, p))' = Count(orders, Holding(other, p))

(* The stock of order id goes from one status to another, and its units    *)
(* with it.                                                                *)
LEMMA CountsMove ==
    ASSUME SagaInv, Books, UNCHANGED orders, NEW id \in OrderIDs, NEW from, NEW to, from # to,
           StockMap[id] = from, StockMap' = [StockMap EXCEPT ![id] = to], NEW p,
           NEW q, q = IF orders[id].product_id = p THEN orders[id].quantity ELSE 0
    PROVE  UnitsMove(from, to, p, q)
<1>1. OrderIDs' = OrderIDs BY DEF OrderIDs
<1>2. \A o \in OrderIDs : StockMap'[o] = IF o = id THEN to ELSE StockMap[o] BY DEF StockMap
<1>3. ASSUME NEW status
      PROVE  Count(orders, Holding(status, p))' = Count(orders, Holding(status, p)')
  BY DEF Count, UnitsOf
<1>4. orders[id].quantity \in Nat BY DEF Books, Ledger
<1>5. ASSUME NEW other, other # from, other # to
      PROVE  Count(orders, Holding(other, p))' = Count(orders, Holding(other, p))
  <2>1. Holding(other, p)' = Holding(other, p) BY <1>1, <1>2, <1>5 DEF Holding
  <2> QED BY <1>3, <2>1
<1>6. CASE orders[id].product_id # p
  <2>1. Holding(to, p)' = Holding(to, p) BY <1>1, <1>2, <1>6 DEF Holding
  <2>2. Holding(from, p)' = Holding(from, p) BY <1>1, <1>2, <1>6 DEF Holding
  <2>3. Count(orders, Holding(to, p)) \in Nat /\ Count(orders, Holding(from, p)) \in Nat
    BY HoldingFinite
  <2> QED BY <1>3, <1>5, <1>6, <2>1, <2>2, <2>3 DEF UnitsMove
<1>7. CASE orders[id].product_id = p
  <2>1. PICK I : I = Holding(to, p) OBVIOUS
  <2>2. PICK J : J = Holding(from, p)' OBVIOUS
  <2>3. id \notin I /\ Holding(to, p)' = I \cup {id}
    BY <1>1, <1>2, <1>7, <2>1 DEF Holding
  <2>4. id \notin J /\ Holding(from, p) = J \cup {id}
    BY <1>1, <1>2, <1>7, <2>2 DEF Holding
  <2>5. IsFiniteSet(I) /\ \A i \in I : orders[i].quantity \in Nat BY <2>1, HoldingFinite
  <2>6. IsFiniteSet(J) /\ \A i \in J : orders[i].quantity \in Nat
    <3>1. J \subseteq Holding(from, p) BY <2>4
    <3> QED BY <3>1, HoldingFinite, FS_Subset
  <2>7. Count(orders, I \cup {id}) = Count(orders, I) + orders[id].quantity
    BY <1>4, <2>3, <2>5, CountAdd
  <2>8. Count(orders, J \cup {id}) = Count(orders, J) + orders[id].quantity
    BY <1>4, <2>4, <2>6, CountAdd
  <2> QED BY <1>3, <1>5, <1>7, <2>1, <2>2, <2>3, <2>4, <2>7, <2>8 DEF UnitsMove
<1> QED BY <1>6, <1>7

(* Fulfilment's question and CanReserve ask the same. *)
LEMMA InStockIsAvailable ==
    ASSUME SagaInv, Books, NEW id \in OrderIDs
    PROVE  LET p == orders[id].product_id IN
           Abstract!InStock(id) <=>
               /\ p \in DOMAIN InitialStock
               /\ inventory[p].quantity - inventory[p].reserved_quantity >= orders[id].quantity
<1>1. PICK p : p = orders[id].product_id OBVIOUS
<1>2. PICK I : I = Holding("RESERVED", p) OBVIOUS
<1>3. PICK J : J = Holding("COMMITTED", p) OBVIOUS
<1>4. Abstract!HeldUnits(p) = UnitsOf(orders, I \cup J)
  <2>1. {i \in Abstract!Ids : /\ orders[i].product_id = p
                              /\ StockMap[i] \in {"RESERVED", "COMMITTED"}} = I \cup J
    BY <1>2, <1>3 DEF Holding, Abstract!Ids, OrderIDs
  <2> QED BY <2>1 DEF Abstract!HeldUnits, UnitsOf, StockMap
<1>5. Count(orders, I \cup J) = Count(orders, I) + Count(orders, J)
  <2>1. IsFiniteSet(I) /\ (\A i \in I : orders[i].quantity \in Nat) BY <1>2, HoldingFinite
  <2>2. IsFiniteSet(J) /\ (\A i \in J : orders[i].quantity \in Nat) BY <1>3, HoldingFinite
  <2>3. I \cap J = {} BY <1>2, <1>3 DEF Holding
  <2> QED BY <2>1, <2>2, <2>3, CountUnion
<1>6. Abstract!Cardinality(Abstract!HeldUnits(p)) = Count(orders, I) + Count(orders, J)
  BY <1>4, <1>5, SameCardinality DEF Count
<1>7. Count(orders, I) \in Nat /\ Count(orders, J) \in Nat BY <1>2, <1>3, HoldingFinite
<1>8. Abstract!InStock(id) <=>
         /\ p \in DOMAIN InitialStock
         /\ Count(orders, I) + Count(orders, J) + orders[id].quantity <= InitialStock[p]
  BY <1>1, <1>6 DEF Abstract!InStock
<1>9. p \in DOMAIN InitialStock =>
         /\ inventory[p].reserved_quantity = Count(orders, I)
         /\ inventory[p].quantity = InitialStock[p] - Count(orders, J)
         /\ InitialStock[p] \in Nat /\ orders[id].quantity \in Nat
  BY <1>2, <1>3, SagaAssumption DEF Books, Ledger
<1> QED BY <1>1, <1>7, <1>8, <1>9

StockRows == [quantity : Int, reserved_quantity : Int]

(* An order that the inventory service has not handled yet. *)
LEMMA NotYetAsked ==
    ASSUME SagaInv, Books, NEW e \in Published(EventTypeOrderCreated),
           e.event_id \notin inventory_processed
    PROVE  /\ e.order_id \in OrderIDs /\ StockMap[e.order_id] = "ASKED"
           /\ e.product_id = orders[e.order_id].product_id
           /\ e.quantity = orders[e.order_id].quantity /\ e.quantity \in Nat \ {0}
           /\ \A i \in DOMAIN reservations : reservations[i].order_id # e.order_id
<1>1. ~Asked(e.order_id) BY UnmarkedNotAsked DEF SagaInv
<1>2. \A i \in DOMAIN reservations : reservations[i].order_id # e.order_id
  BY <1>1 DEF SagaInv, Reserved
<1>3. \A f \in Stored(inventory_outbox) : f.order_id # e.order_id BY <1>1 DEF Books, Answered
<1>4. StockOf(e.order_id) = "ASKED" BY <1>2, <1>3, ViewsHold DEF Views
<1>5. /\ e.order_id \in OrderIDs /\ e.product_id = orders[e.order_id].product_id
      /\ e.quantity = orders[e.order_id].quantity
  BY DEF SagaInv, Placed, OrderIDs
<1>6. e.quantity \in Nat \ {0} BY <1>5 DEF Books, Ledger
<1> QED BY <1>2, <1>4, <1>5, <1>6 DEF StockMap

(* An answer of the inventory service to the OrderCreated event e. *)
Answers(e, f) ==
    /\ inventory_processed' = inventory_processed \cup {e.event_id}
    /\ f.order_id = e.order_id
    /\ Announced(f)
    /\ Stored(inventory_outbox)' = Stored(inventory_outbox) \cup {f}

(* An answer to OrderCreated is of an order that was asked for. *)
LEMMA AnsweredMore ==
    ASSUME Answered, NEW e \in Published(EventTypeOrderCreated), NEW f, Answers(e, f)
    PROVE  Answered'
<1>1. Grows BY AnnouncedGrows DEF Answers
<1>2. (\A id : Asked(id) => Asked(id)') /\ Asked(e.order_id)' BY <1>1 DEF Asked, Grows, Answers
<1>3. \A g \in Stored(inventory_outbox)' : g \in Stored(inventory_outbox) \/ g = f
  BY DEF Answers
<1>4. \A g \in Stored(inventory_outbox)' : Asked(g.order_id)'
  <2> SUFFICES ASSUME NEW g \in Stored(inventory_outbox)' PROVE Asked(g.order_id)' OBVIOUS
  <2>1. CASE g \in Stored(inventory_outbox) BY <1>2, <2>1 DEF Answered
  <2>2. CASE g = f BY <1>2, <2>2 DEF Answers
  <2> QED BY <1>3, <2>1, <2>2
<1>5. \A g \in Published(EventTypeStockReserveFailed)' : g \in Stored(inventory_outbox)'
  BY DEF Answers, Announced, Answered
<1> QED BY <1>4, <1>5 DEF Answered

(* A row with enough left: the order's units are reserved. *)
LEMMA ReserveSimulates ==
    ASSUME SagaInv, SagaInv', Books, NEW e \in Published(EventTypeOrderCreated),
           e.event_id \notin inventory_processed, Inventory!Reservable(inventory, e),
           inventory' = [inventory EXCEPT ![e.product_id] =
                            Inventory!Reserve(inventory[e.product_id], e.quantity)],
           NEW row, reservations' = Append(reservations, row), row.order_id = e.order_id,
           row.product_id = e.product_id, row.status = "RESERVED",
           NEW f, Answers(e, f), UNCHANGED <<orders, payments>>
    PROVE  Books' /\ Simulated
<1>1. PICK id : id = e.order_id OBVIOUS
<1>2. PICK p : p = e.product_id OBVIOUS
<1>3. PICK q : q = e.quantity OBVIOUS
<1>4. /\ id \in OrderIDs /\ StockMap[id] = "ASKED" /\ p = orders[id].product_id
      /\ q = orders[id].quantity /\ q \in Nat \ {0}
      /\ \A i \in DOMAIN reservations : reservations[i].order_id # id
  BY <1>1, <1>2, <1>3, NotYetAsked
<1>5. PICK n : /\ DOMAIN reservations' = DOMAIN reservations \cup {n}
               /\ n \notin DOMAIN reservations /\ reservations'[n] = row
               /\ \A i \in DOMAIN reservations : reservations'[i] = reservations[i]
  <2>1. PICK k : k = Len(reservations) + 1 OBVIOUS
  <2>2. reservations \in Seq(ReservationRows) BY DEF SagaInv, Tables
  <2>3. /\ DOMAIN reservations' = DOMAIN reservations \cup {k} /\ k \notin DOMAIN reservations
        /\ reservations'[k] = row
        /\ \A i \in DOMAIN reservations : reservations'[i] = reservations[i]
    BY <2>1, <2>2
  <2> QED BY <2>3
<1>6. Touches(id) BY <1>1, <1>4, <1>5 DEF Touches, Answers
<1>7. StockOf(id)' = "RESERVED"
  <2>1. n \in DOMAIN reservations' /\ reservations'[n].order_id = id
        /\ reservations'[n].status = "RESERVED"
    BY <1>1, <1>5
  <2> QED BY <2>1, ViewsNext DEF Views
<1>8. StockMap' = [StockMap EXCEPT ![id] = "RESERVED"] /\ ChargeMap' = ChargeMap
  BY <1>4, <1>6, <1>7, TouchesOne
<1>9. /\ p \in DOMAIN InitialStock
      /\ inventory[p].quantity - inventory[p].reserved_quantity >= q
  BY <1>2, <1>3 DEF Inventory!Reservable, Inventory!CanReserve, Inventory!AvailableQuantity,
                    Books, Ledger
<1>10. Simulated
  <2>1. Abstract!InStock(id) BY <1>4, <1>9, InStockIsAvailable
  <2>2. Abstract!Reserve(id)
    BY <1>4, <1>8, <2>1 DEF Abstract!Reserve, StockMap, ChargeMap
  <2>3. id \in Abstract!Ids BY <1>4 DEF Abstract!Ids, OrderIDs
  <2> QED BY <2>2, <2>3 DEF Simulated, Abstract!Next
<1>11. Answered' BY AnsweredMore DEF Books
<1>12. ASSUME NEW r \in DOMAIN InitialStock
       PROVE  /\ inventory'[r] \in StockRows
              /\ inventory'[r].reserved_quantity = Count(orders, Holding("RESERVED", r))'
              /\ inventory'[r].quantity
                    = InitialStock[r] - Count(orders, Holding("COMMITTED", r))'
  <2>1. /\ Count(orders, Holding("RESERVED", r))'
              = Count(orders, Holding("RESERVED", r)) + IF p = r THEN q ELSE 0
        /\ Count(orders, Holding("COMMITTED", r))' = Count(orders, Holding("COMMITTED", r))
    <3>1. PICK m : m = IF orders[id].product_id = r THEN orders[id].quantity ELSE 0 OBVIOUS
    <3>2. UnitsMove("ASKED", "RESERVED", r, m) BY <1>4, <1>8, <3>1, CountsMove
    <3> QED BY <1>4, <3>1, <3>2 DEF UnitsMove
  <2>2. /\ inventory[r] \in StockRows /\ r \in DOMAIN inventory
        /\ inventory[r].reserved_quantity = Count(orders, Holding("RESERVED", r))
        /\ inventory[r].quantity = InitialStock[r] - Count(orders, Holding("COMMITTED", r))
    BY DEF Books, Ledger, StockRows
  <2>3. CASE r = p
    <3>1. inventory'[r] = [inventory[r] EXCEPT !.reserved_quantity = @ + q]
      BY <1>2, <1>3, <2>2, <2>3 DEF Inventory!Reserve
    <3>2. /\ inventory'[r] \in StockRows /\ inventory'[r].quantity = inventory[r].quantity
          /\ inventory'[r].reserved_quantity = inventory[r].reserved_quantity + q
      BY <1>4, <2>2, <3>1 DEF StockRows
    <3> QED BY <2>1, <2>2, <2>3, <3>2
  <2>4. CASE r # p
    <3>1. inventory'[r] = inventory[r] BY <1>2, <2>2, <2>4
    <3>2. Count(orders, Holding("RESERVED", r)) \in Nat BY HoldingFinite
    <3> QED BY <2>1, <2>2, <2>4, <3>1, <3>2
  <2> QED BY <2>3, <2>4
<1>13. Ledger'
  <2>1. inventory' \in [DOMAIN InitialStock -> StockRows]
    <3>1. DOMAIN inventory' = DOMAIN InitialStock
          /\ inventory' = [r \in DOMAIN InitialStock |-> inventory'[r]]
      BY DEF Books, Ledger
    <3> QED BY <1>12, <3>1
  <2>2. \A i \in DOMAIN reservations' : reservations'[i].product_id \in DOMAIN InitialStock
    BY <1>2, <1>5, <1>9 DEF Books, Ledger
  <2>3. \A o \in OrderIDs' : orders'[o].quantity \in Nat \ {0} BY DEF Books, Ledger, OrderIDs
  <2> QED BY <1>12, <2>1, <2>2, <2>3 DEF Ledger, StockRows
<1> QED BY <1>10, <1>11, <1>13 DEF Books

(* Not enough left, or no such product: the order is refused. *)
LEMMA RefuseSimulates ==
    ASSUME SagaInv, SagaInv', Books, NEW e \in Published(EventTypeOrderCreated),
           e.event_id \notin inventory_processed, ~Inventory!Reservable(inventory, e),
           NEW f, Answers(e, f), UNCHANGED <<orders, payments, inventory, reservations>>
    PROVE  Books' /\ Simulated
<1>1. PICK id : id = e.order_id OBVIOUS
<1>2. PICK p : p = e.product_id OBVIOUS
<1>3. PICK q : q = e.quantity OBVIOUS
<1>4. /\ id \in OrderIDs /\ StockMap[id] = "ASKED" /\ p = orders[id].product_id
      /\ q = orders[id].quantity /\ q \in Nat \ {0}
      /\ \A i \in DOMAIN reservations : reservations[i].order_id # id
  BY <1>1, <1>2, <1>3, NotYetAsked
<1>5. Touches(id) BY <1>1 DEF Touches, Answers
<1>6. StockOf(id)' = "REFUSED"
  <2>1. \E g \in Stored(inventory_outbox)' : g.order_id = id BY <1>1 DEF Answers
  <2> QED BY <1>4, <2>1, ViewsNext DEF Views
<1>7. StockMap' = [StockMap EXCEPT ![id] = "REFUSED"] /\ ChargeMap' = ChargeMap
  BY <1>4, <1>5, <1>6, TouchesOne
<1>8. ~Abstract!InStock(id)
  <2>1. q > 0 BY <1>4
  <2>2. DOMAIN inventory = DOMAIN InitialStock BY DEF Books, Ledger
  <2>3. ~(/\ p \in DOMAIN InitialStock
          /\ inventory[p].quantity - inventory[p].reserved_quantity >= q)
    BY <1>2, <1>3, <2>1, <2>2 DEF Inventory!Reservable, Inventory!CanReserve,
                                  Inventory!AvailableQuantity
  <2> QED BY <1>4, <2>3, InStockIsAvailable
<1>9. Simulated
  <2>1. Abstract!Refuse(id) BY <1>4, <1>7, <1>8 DEF Abstract!Refuse, StockMap, ChargeMap
  <2>2. id \in Abstract!Ids BY <1>4 DEF Abstract!Ids, OrderIDs
  <2> QED BY <2>1, <2>2 DEF Simulated, Abstract!Next
<1>10. Answered' BY AnsweredMore DEF Books
<1>11. \A r \in DOMAIN InitialStock :
          /\ Count(orders, Holding("RESERVED", r))' = Count(orders, Holding("RESERVED", r))
          /\ Count(orders, Holding("COMMITTED", r))' = Count(orders, Holding("COMMITTED", r))
  <2> SUFFICES ASSUME NEW r
               PROVE  /\ Count(orders, Holding("RESERVED", r))' = Count(orders, Holding("RESERVED", r))
                      /\ Count(orders, Holding("COMMITTED", r))'
                            = Count(orders, Holding("COMMITTED", r))
    OBVIOUS
  <2>1. PICK m : m = IF orders[id].product_id = r THEN orders[id].quantity ELSE 0 OBVIOUS
  <2>2. UnitsMove("ASKED", "REFUSED", r, m) BY <1>4, <1>7, <2>1, CountsMove
  <2> QED BY <2>2 DEF UnitsMove
<1>12. Ledger' BY <1>11 DEF Books, Ledger, OrderIDs
<1> QED BY <1>9, <1>10, <1>12 DEF Books

(* An order's units are among those counted. *)
LEMMA CountAtLeast ==
    ASSUME SagaInv, Books, NEW status, NEW p, NEW id \in Holding(status, p)
    PROVE  Count(orders, Holding(status, p)) >= orders[id].quantity
<1>1. PICK I : I = Holding(status, p) \ {id} OBVIOUS
<1>2. id \notin I /\ Holding(status, p) = I \cup {id} BY <1>1
<1>3. I \subseteq Holding(status, p) /\ orders[id].quantity \in Nat BY <1>1, HoldingFinite
<1>4. IsFiniteSet(I) /\ \A i \in I : orders[i].quantity \in Nat
  BY <1>3, HoldingFinite, FS_Subset
<1>5. /\ Count(orders, I) \in Nat
      /\ Count(orders, I \cup {id}) = Count(orders, I) + orders[id].quantity
  BY <1>2, <1>3, <1>4, CountAdd
<1> QED BY <1>2, <1>3, <1>5

(* What the loops of the two handlers count. *)
LEMMA QuantityNone ==
    ASSUME NEW p PROVE Inventory!Quantity({}, p) = 0
<1>1. Inventory!OfProduct(reservations, {}, p) = {} BY DEF Inventory!OfProduct
<1> QED BY <1>1, SameCount, CountNone DEF Inventory!Quantity

(* The units that one reservation settles. *)
LEMMA QuantityOne ==
    ASSUME NEW i, reservations[i].quantity \in Nat, NEW p
    PROVE  Inventory!Quantity({i}, p) = IF reservations[i].product_id = p
                                        THEN reservations[i].quantity ELSE 0
<1>1. CASE reservations[i].product_id = p
  <2>1. Inventory!OfProduct(reservations, {i}, p) = {i} BY <1>1 DEF Inventory!OfProduct
  <2> QED BY <1>1, <2>1, SameCount, CountOne DEF Inventory!Quantity
<1>2. CASE reservations[i].product_id # p
  <2>1. Inventory!OfProduct(reservations, {i}, p) = {} BY <1>2 DEF Inventory!OfProduct
  <2> QED BY <1>2, <2>1, SameCount, CountNone DEF Inventory!Quantity
<1> QED BY <1>1, <1>2

(* The stock rows as the handler of an end leaves them, when the           *)
(* reservations I were settled.                                            *)
Releases(I) ==
    inventory' = [p \in DOMAIN inventory |->
                     Inventory!Release(inventory[p], Inventory!Quantity(I, p))]

Commits(I) ==
    inventory' = [p \in DOMAIN inventory |->
                     Inventory!Commit(inventory[p], Inventory!Quantity(I, p))]

(* A stock row after m units, which it counts as reserved, are settled. *)
LEMMA StockSettled ==
    ASSUME NEW row \in StockRows, NEW m \in Nat, m <= row.reserved_quantity
    PROVE  /\ Inventory!Release(row, m) \in StockRows /\ Inventory!Commit(row, m) \in StockRows
           /\ Inventory!Release(row, m).reserved_quantity = row.reserved_quantity - m
           /\ Inventory!Release(row, m).quantity = row.quantity
           /\ Inventory!Commit(row, m).reserved_quantity = row.reserved_quantity - m
           /\ Inventory!Commit(row, m).quantity = row.quantity - m
<1>1. row.quantity \in Int /\ row.reserved_quantity \in Int BY DEF StockRows
<1>2. PICK a : a = row.quantity - m OBVIOUS
<1>3. PICK b : b = row.reserved_quantity - m OBVIOUS
<1>4. a \in Int /\ b \in Int BY <1>1, <1>2, <1>3
<1>5. Inventory!Commit(row, m) = [row EXCEPT !.quantity = a, !.reserved_quantity = b]
  BY <1>2, <1>3 DEF Inventory!Commit, StockRows
<1>6. Inventory!Release(row, m) = [row EXCEPT !.reserved_quantity = b]
  BY <1>1, <1>3 DEF Inventory!Release, StockRows
<1>7. /\ Inventory!Commit(row, m) \in StockRows
      /\ Inventory!Commit(row, m).reserved_quantity = b /\ Inventory!Commit(row, m).quantity = a
  BY <1>4, <1>5 DEF StockRows
<1>8. /\ Inventory!Release(row, m) \in StockRows
      /\ Inventory!Release(row, m).reserved_quantity = b
      /\ Inventory!Release(row, m).quantity = row.quantity
  BY <1>4, <1>6 DEF StockRows
<1> QED BY <1>2, <1>3, <1>7, <1>8

(* Nothing settled, nothing changed. *)
LEMMA NothingSettled ==
    ASSUME SagaInv, Books, Releases({}) \/ Commits({})
    PROVE  inventory' = inventory
<1>1. ASSUME NEW p \in DOMAIN inventory PROVE inventory'[p] = inventory[p]
  <2>1. PICK row : row = inventory[p] OBVIOUS
  <2>2. row \in StockRows BY <2>1 DEF Books, Ledger, StockRows
  <2>3. 0 <= row.reserved_quantity
    BY <2>1, HoldingFinite DEF Books, Ledger
  <2>4. /\ Inventory!Release(row, 0) \in StockRows /\ Inventory!Commit(row, 0) \in StockRows
        /\ Inventory!Release(row, 0).reserved_quantity = row.reserved_quantity - 0
        /\ Inventory!Release(row, 0).quantity = row.quantity
        /\ Inventory!Commit(row, 0).reserved_quantity = row.reserved_quantity - 0
        /\ Inventory!Commit(row, 0).quantity = row.quantity - 0
    BY <2>2, <2>3, StockSettled
  <2>5. ASSUME NEW x \in StockRows, x.quantity = row.quantity - 0 \/ x.quantity = row.quantity,
               x.reserved_quantity = row.reserved_quantity - 0
        PROVE  x = row
    <3>1. x.quantity = row.quantity /\ x.reserved_quantity = row.reserved_quantity
      BY <2>2, <2>5 DEF StockRows
    <3> QED BY <2>2, <2>5, <3>1 DEF StockRows
  <2>6. inventory'[p] = Inventory!Release(row, 0) \/ inventory'[p] = Inventory!Commit(row, 0)
    BY <2>1, QuantityNone DEF Releases, Commits
  <2> QED BY <2>1, <2>4, <2>5, <2>6
<1>2. /\ inventory' = [p \in DOMAIN inventory |-> inventory'[p]]
      /\ inventory = [p \in DOMAIN inventory |-> inventory[p]]
  BY DEF Releases, Commits, Books, Ledger
<1> QED BY <1>1, <1>2

(* The only reservation of an order that can be held, if there is one. *)
LEMMA HeldIsOne ==
    ASSUME SagaInv, Books, NEW id, NEW i \in Inventory!Held(id)
    PROVE  /\ i \in DOMAIN reservations /\ reservations[i].order_id = id
           /\ Inventory!Held(id) = {i} /\ id \in OrderIDs /\ StockMap[id] = "RESERVED"
           /\ reservations[i].product_id = orders[id].product_id
           /\ reservations[i].quantity = orders[id].quantity
           /\ orders[id].quantity \in Nat \ {0}
           /\ orders[id].product_id \in DOMAIN InitialStock
<1>1. /\ i \in DOMAIN reservations /\ reservations[i].order_id = id
      /\ reservations[i].status = "RESERVED"
  BY DEF Inventory!Held, Inventory!IsReserved, Inventory!ReservationStatusReserved
<1>2. Inventory!Held(id) = {i} BY <1>1 DEF Inventory!Held, SagaInv, Reserved
<1>3. Asked(id) BY <1>1 DEF SagaInv, Reserved
<1>4. id \in OrderIDs BY <1>3, AskedExists DEF SagaInv, OrderIDs
<1>5. StockMap[id] = "RESERVED" BY <1>1, <1>4, ViewsHold DEF Views, StockMap
<1>6. /\ reservations[i].product_id = orders[id].product_id
      /\ reservations[i].quantity = orders[id].quantity
  BY <1>1 DEF SagaInv, Reserved
<1>7. /\ orders[id].quantity \in Nat \ {0} /\ reservations[i].product_id \in DOMAIN InitialStock
  BY <1>1, <1>4 DEF Books, Ledger
<1> QED BY <1>1, <1>2, <1>4, <1>5, <1>6, <1>7

(* A completion commits what is held: the books never lack the units. *)
LEMMA CommitsHeld ==
    ASSUME SagaInv, Books, NEW id, NEW C \in SUBSET Inventory!Held(id),
           Inventory!Committable(Inventory!Held(id), C)
    PROVE  C = Inventory!Held(id)
<1> SUFFICES ASSUME C # Inventory!Held(id) PROVE FALSE OBVIOUS
<1>1. PICK i \in Inventory!Held(id) : i \notin C OBVIOUS
<1>2. PICK p : p = reservations[i].product_id OBVIOUS
<1>3. PICK q : q = reservations[i].quantity OBVIOUS
<1>4. /\ C = {} /\ id \in Holding("RESERVED", p) /\ q = orders[id].quantity
      /\ p \in DOMAIN InitialStock /\ q \in Nat
  BY <1>1, <1>2, <1>3, HeldIsOne DEF Holding
<1>5. p \in DOMAIN inventory
      /\ inventory[p].reserved_quantity = Count(orders, Holding("RESERVED", p))
  BY <1>4 DEF Books, Ledger
<1>6. Count(orders, Holding("RESERVED", p)) >= q /\ Count(orders, Holding("RESERVED", p)) \in Nat
  BY <1>4, CountAtLeast, HoldingFinite
<1>7. i \in Inventory!OfProduct(reservations, Inventory!Held(id) \ C, p)
  BY <1>1, <1>2 DEF Inventory!OfProduct
<1>8. q > inventory[p].reserved_quantity - Inventory!Quantity(C, p)
  BY <1>3, <1>5, <1>7 DEF Inventory!Committable
<1>9. Inventory!Quantity(C, p) = 0 BY <1>4, QuantityNone
<1> QED BY <1>4, <1>5, <1>6, <1>8, <1>9

(* The order ended, and the inventory service settles what it holds for it.*)
LEMMA SettleSimulates ==
    ASSUME SagaInv, SagaInv', Books, NEW id, NEW outcome,
           Settles(Inventory!Held(id), outcome),
           \/ /\ outcome = "RELEASED" /\ Releases(Inventory!Held(id))
              /\ \E e \in Published(EventTypeOrderCancelled) : e.order_id = id
           \/ /\ outcome = "COMMITTED" /\ Commits(Inventory!Held(id))
              /\ \E e \in Published(EventTypeOrderCompleted) : e.order_id = id,
           Silent, UNCHANGED <<orders, payments, inventory_outbox>>,
           inventory_processed \subseteq inventory_processed'
    PROVE  Books' /\ Simulated
<1>1. Stored(inventory_outbox)' = Stored(inventory_outbox) BY DEF Stored
<1>2. CASE Inventory!Held(id) = {}
  <2>1. reservations \in Seq(ReservationRows) BY DEF SagaInv, Tables
  <2>2. reservations' = [i \in DOMAIN reservations |-> reservations[i]] BY <1>2 DEF Settles
  <2>3. reservations' = reservations BY <2>1, <2>2
  <2>4. inventory' = inventory BY <1>2, NothingSettled
  <2> QED BY <1>1, <2>3, <2>4, NothingShows
<1>3. ASSUME NEW i \in Inventory!Held(id) PROVE Books' /\ Simulated
  <2>1. PICK p : p = orders[id].product_id OBVIOUS
  <2>2. PICK q : q = orders[id].quantity OBVIOUS
  <2>3. /\ i \in DOMAIN reservations /\ reservations[i].order_id = id
        /\ Inventory!Held(id) = {i} /\ id \in OrderIDs /\ StockMap[id] = "RESERVED"
        /\ reservations[i].product_id = p /\ reservations[i].quantity = q
        /\ q \in Nat /\ p \in DOMAIN InitialStock
    BY <1>3, <2>1, <2>2, HeldIsOne
  <2>4. /\ DOMAIN reservations' = DOMAIN reservations
        /\ \A j \in DOMAIN reservations : j # i => reservations'[j] = reservations[j]
        /\ reservations'[i].status = outcome /\ reservations'[i].order_id = id
        /\ reservations'[i].product_id = p
    <3>1. reservations[i] \in ReservationRows BY <2>3 DEF SagaInv, Tables
    <3>2. reservations'[i] = [reservations[i] EXCEPT !.status = outcome]
      BY <2>3 DEF Settles
    <3>3. /\ DOMAIN reservations' = DOMAIN reservations
          /\ \A j \in DOMAIN reservations : j # i => reservations'[j] = reservations[j]
      BY <2>3 DEF Settles
    <3>4. /\ reservations'[i].status = outcome
          /\ reservations'[i].order_id = reservations[i].order_id
          /\ reservations'[i].product_id = reservations[i].product_id
      BY <3>1, <3>2 DEF ReservationRows
    <3> QED BY <2>3, <3>3, <3>4
  <2>5. Touches(id)
    <3>1. \A j \in DOMAIN reservations :
             /\ reservations'[j].order_id = reservations[j].order_id
             /\ reservations[j].order_id # id => reservations'[j].status = reservations[j].status
      BY <2>3, <2>4
    <3> QED BY <1>1, <2>4, <3>1 DEF Touches
  <2>6. StockOf(id)' = outcome BY <2>3, <2>4, ViewsNext DEF Views
  <2>7. StockMap' = [StockMap EXCEPT ![id] = outcome] /\ ChargeMap' = ChargeMap
    BY <2>3, <2>5, <2>6, TouchesOne
  <2>8. Simulated
    <3>1. id \in Abstract!Ids BY <2>3 DEF Abstract!Ids, OrderIDs
    <3>2. CASE outcome = "RELEASED"
      <4>1. orders[id].status = "CANCELLED" BY <3>2 DEF SagaInv, Decided
      <4>2. Abstract!Settle(id, "CANCELLED", "RELEASED")
        BY <2>3, <2>7, <3>2, <4>1 DEF Abstract!Settle, StockMap, ChargeMap
      <4> QED BY <3>1, <4>2 DEF Simulated, Abstract!Next
    <3>3. CASE outcome = "COMMITTED"
      <4>1. orders[id].status = "COMPLETED" BY <3>3 DEF SagaInv, Decided
      <4>2. Abstract!Settle(id, "COMPLETED", "COMMITTED")
        BY <2>3, <2>7, <3>3, <4>1 DEF Abstract!Settle, StockMap, ChargeMap
      <4> QED BY <3>1, <4>2 DEF Simulated, Abstract!Next
    <3> QED BY <3>2, <3>3
  <2>9. Answered'
    <3>1. Grows BY AnnouncedGrows
    <3> QED BY <1>1, <3>1, AnsweredKept DEF Books, Silent
  <2>10. ASSUME NEW r \in DOMAIN InitialStock
         PROVE  /\ inventory'[r] \in StockRows
                /\ inventory'[r].reserved_quantity = Count(orders, Holding("RESERVED", r))'
                /\ inventory'[r].quantity
                      = InitialStock[r] - Count(orders, Holding("COMMITTED", r))'
    <3>1. PICK m : m = IF orders[id].product_id = r THEN orders[id].quantity ELSE 0 OBVIOUS
    <3>2. PICK row : row = inventory[r] OBVIOUS
    <3>3. m \in Nat /\ m = Inventory!Quantity({i}, r)
      BY <2>1, <2>2, <2>3, <3>1, QuantityOne
    <3>4. /\ row \in StockRows /\ r \in DOMAIN inventory
          /\ row.reserved_quantity = Count(orders, Holding("RESERVED", r))
          /\ row.quantity = InitialStock[r] - Count(orders, Holding("COMMITTED", r))
          /\ Count(orders, Holding("RESERVED", r)) \in Nat
          /\ Count(orders, Holding("COMMITTED", r)) \in Nat
          /\ InitialStock[r] \in Nat
      BY <3>2, HoldingFinite, SagaAssumption DEF Books, Ledger, StockRows
    <3>5. UnitsMove("RESERVED", outcome, r, m) /\ outcome # "RESERVED"
      BY <2>3, <2>7, <3>1, CountsMove
    <3>6. /\ Count(orders, Holding("RESERVED", r))' = row.reserved_quantity - m
          /\ m <= row.reserved_quantity
      <4>1. id \in Holding("RESERVED", r) \/ m = 0 BY <2>3, <3>1 DEF Holding
      <4>2. m <= row.reserved_quantity BY <3>1, <3>3, <3>4, <4>1, CountAtLeast
      <4>3. Count(orders, Holding("RESERVED", r))' \in Nat
        <5>1. Holding("RESERVED", r)' \subseteq Holding("RESERVED", r)
          BY <2>3, <2>7, <3>5 DEF Holding, OrderIDs, StockMap
        <5>2. PICK J : J = Holding("RESERVED", r)' OBVIOUS
        <5>3. IsFiniteSet(J) /\ \A j \in J : orders[j].quantity \in Nat
          BY <5>1, <5>2, HoldingFinite, FS_Subset
        <5>4. Count(orders, Holding("RESERVED", r))' = Count(orders, J)
          BY <5>2 DEF Count, UnitsOf
        <5> QED BY <5>3, <5>4, UnitsFinite
      <4> QED BY <3>3, <3>4, <3>5, <4>2, <4>3 DEF UnitsMove
    <3>7. /\ Inventory!Release(row, m) \in StockRows /\ Inventory!Commit(row, m) \in StockRows
          /\ Inventory!Release(row, m).reserved_quantity = row.reserved_quantity - m
          /\ Inventory!Release(row, m).quantity = row.quantity
          /\ Inventory!Commit(row, m).reserved_quantity = row.reserved_quantity - m
          /\ Inventory!Commit(row, m).quantity = row.quantity - m
      BY <3>3, <3>4, <3>6, StockSettled
    <3>8. CASE outcome = "RELEASED"
      <4>1. inventory'[r] = Inventory!Release(row, m)
        BY <2>3, <3>2, <3>3, <3>4, <3>8 DEF Releases
      <4>2. Count(orders, Holding("COMMITTED", r))' = Count(orders, Holding("COMMITTED", r))
        BY <3>5, <3>8 DEF UnitsMove
      <4> QED BY <3>4, <3>6, <3>7, <4>1, <4>2
    <3>9. CASE outcome = "COMMITTED"
      <4>1. inventory'[r] = Inventory!Commit(row, m)
        BY <2>3, <3>2, <3>3, <3>4, <3>9 DEF Commits
      <4>2. Count(orders, Holding("COMMITTED", r))'
               = Count(orders, Holding("COMMITTED", r)) + m
        BY <3>5, <3>9 DEF UnitsMove
      <4> QED BY <3>3, <3>4, <3>6, <3>7, <4>1, <4>2
    <3> QED BY <3>8, <3>9
  <2>11. Ledger'
    <3>1. inventory' \in [DOMAIN InitialStock -> StockRows]
      <4>1. DOMAIN inventory' = DOMAIN InitialStock
            /\ inventory' = [r \in DOMAIN InitialStock |-> inventory'[r]]
        BY DEF Books, Ledger, Releases, Commits
      <4> QED BY <2>10, <4>1
    <3>2. \A j \in DOMAIN reservations' : reservations'[j].product_id \in DOMAIN InitialStock
      BY <2>3, <2>4 DEF Books, Ledger
    <3>3. \A o \in OrderIDs' : orders'[o].quantity \in Nat \ {0} BY DEF Books, Ledger, OrderIDs
    <3> QED BY <2>10, <3>1, <3>2, <3>3 DEF Ledger, StockRows
  <2> QED BY <2>8, <2>9, <2>11 DEF Books
<1> QED BY <1>2, <1>3

-----------------------------------------------------------------------------
(* Every step is a step of an order's life, or none *)

(* Events other than StockReserveFailed leave the refusals as they are. *)
LEMMA NoRefusal ==
    ASSUME Silent \/ \E f : Announced(f) /\ f.event_type # EventTypeStockReserveFailed
    PROVE  /\ Grows
           /\ Published(EventTypeStockReserveFailed)' = Published(EventTypeStockReserveFailed)
BY AnnouncedGrows DEF Silent, Announced

(* A request places an order or is rejected. *)
LEMMA CreateSimulates ==
    ASSUME SagaInv, SagaInv', Books, CreateOrder
    PROVE  Books' /\ Simulated
<1>1. PICK p \in ProductIDs, q \in Quantities, a \in Amounts : Order!CreateOrder(p, q, a)
  BY DEF CreateOrder
<1>2. PICK e : e = Order!NewOrderCreatedEvent(Order!NewEventID("order", order_outbox),
                                              Len(orders) + 1, p, q, a)
  OBVIOUS
<1>3. /\ order_outbox' = Append(order_outbox, Entry(e))
      /\ UNCHANGED <<inventory, reservations, payments, inventory_outbox, payment_outbox,
                     inventory_processed>>
  BY <1>1, <1>2 DEF CreateOrder, Order!CreateOrder, Order!PublishInTx, Order!StatusPending, Entry,
                    inventoryVars, paymentVars
<1>4. e.event_type # EventTypeStockReserveFailed
  BY <1>2 DEF Order!NewOrderCreatedEvent, Order!EventTypeOrderCreated,
              EventTypeStockReserveFailed
<1>5. /\ Len(orders) < MaxOrders /\ q > 0 /\ a > 0
      /\ orders' = Append(orders, [product_id |-> p, quantity |-> q,
                                   total_amount |-> Order!Decimal(a), status |-> "PENDING"])
  BY <1>1 DEF Order!CreateOrder, Order!ValidOrder, Order!NewOrder, Order!OrderStatusPending
<1>7. Order!Decimal(a) \in StoredAmounts BY <1>5 DEF StoredAmounts
<1>6. Announced(e) BY <1>3, InvOutboxes, OrderAnnounces
<1> QED BY <1>3, <1>4, <1>5, <1>6, <1>7, NoRefusal, PlaceSimulates

(* Handlers of the order service confirm, complete, cancel or do nothing. *)
LEMMA OrderSimulates ==
    ASSUME SagaInv, SagaInv', Books, NEW subject \in Order!Subjects, DeliverToOrder(subject)
    PROVE  Books' /\ Simulated
<1>1. PICK s : s = <<"order", subject>> OBVIOUS
<1>2. PICK e : e = Broker!Received(s) OBVIOUS
<1>3. /\ Broker!HasMessage(s) /\ Order!Handle(e)
      /\ UNCHANGED <<inventory, reservations, payments, inventory_outbox, payment_outbox,
                     inventory_processed>>
  BY <1>1, <1>2 DEF DeliverToOrder, inventoryVars, paymentVars
<1>4. e \in Published(subject) /\ e.event_type = subject
  <2>1. s \in Subscriptions /\ s[2] = subject BY <1>1 DEF Subscriptions
  <2> QED BY <1>2, <1>3, <2>1, Received DEF SagaInv
<1>5. CASE UNCHANGED Order!vars
  <2>1. UNCHANGED <<orders, order_outbox>> BY <1>5 DEF Order!vars
  <2>2. Silent /\ Stored(inventory_outbox)' = Stored(inventory_outbox)
    BY <1>3, <2>1, InvOutboxes, NothingAnnounced DEF Stored
  <2> QED BY <1>3, <2>1, <2>2, NothingShows
<1>6. ASSUME NEW status \in Order!OrderStatuses, Order!Found(e), Order!SetStatus(e, status),
             \/ UNCHANGED order_outbox
             \/ \E f : /\ order_outbox' = Append(order_outbox, Entry(f))
                       /\ f.event_type # EventTypeStockReserveFailed
      PROVE  /\ e.order_id \in DOMAIN orders
             /\ orders' = [orders EXCEPT ![e.order_id].status = status]
             /\ Books' /\ UNCHANGED <<StockMap, ChargeMap>>
  <2>1. /\ e.order_id \in DOMAIN orders
        /\ orders' = [orders EXCEPT ![e.order_id].status = status]
    BY <1>6 DEF Order!Found, Order!SetStatus
  <2>2. Silent \/ \E f : Announced(f) /\ f.event_type # EventTypeStockReserveFailed
    BY <1>3, <1>6, InvOutboxes, NothingAnnounced, OrderAnnounces
  <2> QED BY <1>3, <2>1, <2>2, NoRefusal, StatusChanges
<1>7. CASE e.event_type = EventTypeStockReserved /\ Order!Confirms(e) /\ Order!Confirm(e)
  <2>1. /\ Order!Found(e) /\ Order!SetStatus(e, "CONFIRMED") /\ UNCHANGED order_outbox
        /\ orders[e.order_id].status = "PENDING" /\ "CONFIRMED" \in Order!OrderStatuses
    BY <1>7 DEF Order!Confirms, Order!Confirm, Order!CanConfirm, Order!OrderStatuses,
                Order!OrderStatusConfirmed, Order!OrderStatusPending
  <2>2. e \in Published(EventTypeStockReserved) BY <1>4, <1>7
  <2> QED BY <1>6, <2>1, <2>2, ConfirmSimulates
<1>8. CASE e.event_type = EventTypeStockReserveFailed /\ Order!Cancels(e) /\ Order!Cancel(e)
  <2>1. /\ Order!Found(e) /\ Order!SetStatus(e, "CANCELLED") /\ UNCHANGED order_outbox
        /\ orders[e.order_id].status # "COMPLETED" /\ "CANCELLED" \in Order!OrderStatuses
    BY <1>8 DEF Order!Cancels, Order!Cancel, Order!CanCancel, Order!OrderStatuses,
                Order!OrderStatusCancelled, Order!OrderStatusCompleted
  <2>2. e \in Published(EventTypeStockReserveFailed) BY <1>4, <1>8
  <2> QED BY <1>6, <2>1, <2>2, CancelSimulates
<1>9. CASE e.event_type = EventTypePaymentCompleted /\ Order!Completes(e) /\ Order!Complete(e)
  <2>1. /\ Order!Found(e) /\ Order!SetStatus(e, "COMPLETED")
        /\ orders[e.order_id].status = "CONFIRMED" /\ "COMPLETED" \in Order!OrderStatuses
    BY <1>9 DEF Order!Completes, Order!Complete, Order!CanComplete, Order!OrderStatuses,
                Order!OrderStatusConfirmed, Order!OrderStatusCompleted
  <2>2. PICK f : f = Order!NewOrderCompletedEvent(Order!NewEventID("order", order_outbox),
                                                  e.order_id)
    OBVIOUS
  <2>3. order_outbox' = Append(order_outbox, Entry(f))
    BY <1>9, <2>2 DEF Order!Complete, Order!PublishInTx, Order!StatusPending, Entry
  <2>4. f.event_type # EventTypeStockReserveFailed
    BY <2>2 DEF Order!NewOrderCompletedEvent, Order!EventTypeOrderCompleted,
                EventTypeStockReserveFailed
  <2>5. e \in Published(EventTypePaymentCompleted) BY <1>4, <1>9
  <2> QED BY <1>6, <2>1, <2>3, <2>4, <2>5, CompleteSimulates
<1>10. CASE /\ e.event_type = EventTypePaymentFailed
            /\ Order!Cancels(e) /\ Order!CancelAndCompensate(e)
  <2>1. /\ Order!Found(e) /\ Order!SetStatus(e, "CANCELLED")
        /\ orders[e.order_id].status # "COMPLETED" /\ "CANCELLED" \in Order!OrderStatuses
    BY <1>10 DEF Order!Cancels, Order!CancelAndCompensate, Order!CanCancel,
                 Order!OrderStatuses, Order!OrderStatusCancelled, Order!OrderStatusCompleted
  <2>2. PICK f : f = Order!NewOrderCancelledEvent(Order!NewEventID("order", order_outbox),
                                                  e.order_id)
    OBVIOUS
  <2>3. order_outbox' = Append(order_outbox, Entry(f))
    BY <1>10, <2>2 DEF Order!CancelAndCompensate, Order!PublishInTx, Order!StatusPending, Entry
  <2>4. f.event_type # EventTypeStockReserveFailed
    BY <2>2 DEF Order!NewOrderCancelledEvent, Order!EventTypeOrderCancelled,
                EventTypeStockReserveFailed
  <2>5. e \in Published(EventTypePaymentFailed) BY <1>4, <1>10
  <2> QED BY <1>6, <2>1, <2>3, <2>4, <2>5, CancelSimulates
<1> QED BY <1>3, <1>5, <1>7, <1>8, <1>9, <1>10
        DEF Order!Handle, Order!HandleStockReserved, Order!HandleStockReserveFailed,
            Order!HandlePaymentCompleted, Order!HandlePaymentFailed,
            Order!EventTypeStockReserved, Order!EventTypeStockReserveFailed,
            Order!EventTypePaymentCompleted, Order!EventTypePaymentFailed,
            EventTypeStockReserved, EventTypeStockReserveFailed,
            EventTypePaymentCompleted, EventTypePaymentFailed

(* Handlers of the inventory service reserve, refuse, settle or do nothing. *)
LEMMA InventorySimulates ==
    ASSUME SagaInv, SagaInv', Books, NEW subject \in Inventory!Subjects,
           DeliverToInventory(subject)
    PROVE  Books' /\ Simulated
<1>1. PICK s : s = <<"inventory", subject>> OBVIOUS
<1>2. PICK e : e = Broker!Received(s) OBVIOUS
<1>3. /\ Broker!HasMessage(s) /\ Inventory!Handle(e)
      /\ UNCHANGED <<orders, payments, order_outbox, payment_outbox>>
  BY <1>1, <1>2 DEF DeliverToInventory, orderVars, paymentVars
<1>4. e \in Published(subject) /\ e.event_type = subject
  <2>1. s \in Subscriptions /\ s[2] = subject BY <1>1 DEF Subscriptions
  <2> QED BY <1>2, <1>3, <2>1, Received DEF SagaInv
<1>5. ASSUME UNCHANGED inventory_outbox
      PROVE  Silent /\ Stored(inventory_outbox)' = Stored(inventory_outbox)
  BY <1>3, <1>5, InvOutboxes, NothingAnnounced DEF Stored
<1>6. CASE UNCHANGED Inventory!vars
  <2>1. UNCHANGED <<inventory, reservations, inventory_outbox, inventory_processed>>
    BY <1>6 DEF Inventory!vars
  <2> QED BY <1>3, <1>5, <2>1, NothingShows
<1>7. ASSUME NEW f, f.order_id = e.order_id, inventory_outbox' = Append(inventory_outbox, Entry(f)),
             inventory_processed' = inventory_processed \cup {e.event_id}
      PROVE  Answers(e, f)
  <2>1. Announced(f) BY <1>3, <1>7, InvOutboxes, InventoryAnnounces
  <2>2. Stored(inventory_outbox') = Stored(inventory_outbox) \cup {f}
    BY <1>7, InvOutboxes, OutboxGrows DEF Entry, Outboxes
  <2> QED BY <1>7, <2>1, <2>2 DEF Answers, Stored
<1>8. CASE /\ e.event_type = EventTypeOrderCreated
           /\ e.event_id \notin inventory_processed
           /\ inventory_processed' = inventory_processed \cup {e.event_id}
           /\ Inventory!Reservable(inventory, e) /\ Inventory!ReserveStock(inventory, e)
  <2>1. PICK row : row = Inventory!NewReservation(e.order_id, e.product_id, e.quantity) OBVIOUS
  <2>2. PICK f : f = Inventory!NewStockReservedEvent(
                        Inventory!NewEventID("inventory", inventory_outbox),
                        e.order_id, e.product_id, e.quantity, e.total_amount)
    OBVIOUS
  <2>3. e \in Published(EventTypeOrderCreated) BY <1>4, <1>8
  <2>4. row.order_id = e.order_id /\ row.product_id = e.product_id /\ row.status = "RESERVED"
    BY <2>1 DEF Inventory!NewReservation, Inventory!ReservationStatusReserved
  <2>5. f.order_id = e.order_id BY <2>2 DEF Inventory!NewStockReservedEvent
  <2>6. /\ reservations' = Append(reservations, row)
        /\ inventory_outbox' = Append(inventory_outbox, Entry(f))
        /\ inventory' = [inventory EXCEPT ![e.product_id] =
                            Inventory!Reserve(inventory[e.product_id], e.quantity)]
    BY <1>8, <2>1, <2>2 DEF Inventory!ReserveStock, Inventory!PublishInTx,
                            Inventory!StatusPending, Entry
  <2>7. Answers(e, f) BY <1>7, <1>8, <2>5, <2>6
  <2> QED BY <1>3, <1>8, <2>3, <2>4, <2>6, <2>7, ReserveSimulates
<1>9. CASE /\ e.event_type = EventTypeOrderCreated
           /\ e.event_id \notin inventory_processed
           /\ inventory_processed' = inventory_processed \cup {e.event_id}
           /\ ~Inventory!Reservable(inventory, e) /\ Inventory!RejectReservation(e)
  <2>1. PICK f : f = Inventory!NewStockReserveFailedEvent(
                        Inventory!NewEventID("inventory", inventory_outbox),
                        e.order_id, e.product_id, e.quantity)
    OBVIOUS
  <2>2. e \in Published(EventTypeOrderCreated) BY <1>4, <1>9
  <2>3. f.order_id = e.order_id BY <2>1 DEF Inventory!NewStockReserveFailedEvent
  <2>4. /\ inventory_outbox' = Append(inventory_outbox, Entry(f))
        /\ UNCHANGED <<inventory, reservations>>
    BY <1>9, <2>1 DEF Inventory!RejectReservation, Inventory!PublishInTx,
                      Inventory!StatusPending, Entry
  <2>5. Answers(e, f) BY <1>7, <1>9, <2>3, <2>4
  <2> QED BY <1>3, <1>9, <2>2, <2>4, <2>5, RefuseSimulates
<1>10. CASE e.event_type = EventTypeOrderCreated /\ Inventory!HandleOrderCreated(e)
  BY <1>6, <1>8, <1>9, <1>10 DEF Inventory!HandleOrderCreated, Inventory!AlreadyProcessed,
                                 Inventory!MarkProcessed
<1>11. CASE e.event_type = EventTypeOrderCancelled /\ Inventory!HandleOrderCancelled(e)
  <2>1. CASE /\ inventory_processed' = Inventory!MarkProcessed(inventory_processed, e)
             /\ inventory' = [p \in DOMAIN inventory |->
                                 Inventory!Release(inventory[p],
                                     Inventory!Quantity(Inventory!Held(e.order_id), p))]
             /\ reservations' = Inventory!SetStatus(Inventory!Held(e.order_id),
                                                    Inventory!ReservationStatusReleased)
             /\ UNCHANGED inventory_outbox
    <3>1. Releases(Inventory!Held(e.order_id)) BY <2>1 DEF Releases
    <3>2. Settles(Inventory!Held(e.order_id), "RELEASED")
      BY <2>1 DEF Settles, Inventory!SetStatus, Inventory!ReservationStatusReleased
    <3>3. inventory_processed \subseteq inventory_processed' BY <2>1 DEF Inventory!MarkProcessed
    <3>4. \E f \in Published(EventTypeOrderCancelled) : f.order_id = e.order_id BY <1>4, <1>11
    <3> QED BY <1>3, <1>5, <2>1, <3>1, <3>2, <3>3, <3>4, SettleSimulates
  <2> QED BY <1>6, <1>11, <2>1 DEF Inventory!HandleOrderCancelled
<1>12. CASE e.event_type = EventTypeOrderCompleted /\ Inventory!HandleOrderCompleted(e)
  <2>1. ASSUME inventory_processed' = Inventory!MarkProcessed(inventory_processed, e),
               NEW C \in SUBSET Inventory!Held(e.order_id),
               Inventory!Committable(Inventory!Held(e.order_id), C),
               inventory' = [p \in DOMAIN inventory |->
                                Inventory!Commit(inventory[p], Inventory!Quantity(C, p))],
               reservations' = Inventory!SetStatus(C, Inventory!ReservationStatusCommitted),
               UNCHANGED inventory_outbox
        PROVE  Books' /\ Simulated
    <3>1. C = Inventory!Held(e.order_id) BY <2>1, CommitsHeld
    <3>2. Commits(Inventory!Held(e.order_id)) BY <2>1, <3>1 DEF Commits
    <3>3. Settles(Inventory!Held(e.order_id), "COMMITTED")
      BY <2>1, <3>1 DEF Settles, Inventory!SetStatus, Inventory!ReservationStatusCommitted
    <3>4. inventory_processed \subseteq inventory_processed' BY <2>1 DEF Inventory!MarkProcessed
    <3>5. \E f \in Published(EventTypeOrderCompleted) : f.order_id = e.order_id BY <1>4, <1>12
    <3> QED BY <1>3, <1>5, <2>1, <3>2, <3>3, <3>4, <3>5, SettleSimulates
  <2> QED BY <1>6, <1>12, <2>1 DEF Inventory!HandleOrderCompleted
<1> QED BY <1>3, <1>10, <1>11, <1>12
        DEF Inventory!Handle, Inventory!EventTypeOrderCreated, Inventory!EventTypeOrderCancelled,
            Inventory!EventTypeOrderCompleted, EventTypeOrderCreated, EventTypeOrderCancelled,
            EventTypeOrderCompleted

(* Handlers of the payment service charge or do nothing. *)
LEMMA PaymentSimulates ==
    ASSUME SagaInv, SagaInv', Books, NEW subject \in Payment!Subjects, DeliverToPayment(subject)
    PROVE  Books' /\ Simulated
<1>1. PICK s : s = <<"payment", subject>> OBVIOUS
<1>2. PICK e : e = Broker!Received(s) OBVIOUS
<1>3. /\ Broker!HasMessage(s) /\ Payment!Handle(e)
      /\ UNCHANGED <<orders, inventory, reservations, order_outbox, inventory_outbox,
                     inventory_processed>>
  BY <1>1, <1>2 DEF DeliverToPayment, orderVars, inventoryVars
<1>4. e \in Published(subject) /\ e.event_type = subject
  <2>1. s \in Subscriptions /\ s[2] = subject BY <1>1 DEF Subscriptions
  <2> QED BY <1>2, <1>3, <2>1, Received DEF SagaInv
<1>5. ASSUME UNCHANGED <<payments, payment_outbox>> PROVE Books' /\ Simulated
  <2>1. Silent /\ Stored(inventory_outbox)' = Stored(inventory_outbox)
    BY <1>3, <1>5, InvOutboxes, NothingAnnounced DEF Stored
  <2> QED BY <1>3, <1>5, <2>1, NothingShows
<1>6. ASSUME e.event_type = EventTypeStockReserved, e.event_id \notin payment_processed,
             NEW status \in {"COMPLETED", "FAILED"}, Payment!SavePayment(e, status),
             NEW f, f.event_type # EventTypeStockReserveFailed,
             payment_outbox' = Append(payment_outbox, Entry(f))
      PROVE  Books' /\ Simulated
  <2>1. PICK row : row = Payment!NewPayment(e.order_id, Payment!Decimal(e.total_amount), status) OBVIOUS
  <2>2. row.order_id = e.order_id /\ row.status = status BY <2>1 DEF Payment!NewPayment
  <2>3. payments' = Append(payments, row) BY <1>6, <2>1 DEF Payment!SavePayment
  <2>4. e \in Published(EventTypeStockReserved) BY <1>4, <1>6
  <2>5. Announced(f) BY <1>3, <1>6, InvOutboxes, PaymentAnnounces
  <2>6. /\ Grows
        /\ Published(EventTypeStockReserveFailed)' = Published(EventTypeStockReserveFailed)
    BY <1>6, <2>5, NoRefusal
  <2> QED BY <1>3, <1>6, <2>2, <2>3, <2>4, <2>6, ChargeSimulates
<1>7. CASE e.event_type = EventTypeStockReserved /\ Payment!HandleStockReserved(e)
  <2>1. CASE UNCHANGED Payment!vars BY <1>5, <2>1 DEF Payment!vars
  <2>2. CASE e.event_id \notin payment_processed /\ Payment!DeclinePayment(e)
    <3>1. PICK f : f = Payment!NewPaymentFailedEvent(
                          Payment!NewEventID("payment", payment_outbox), e.order_id)
      OBVIOUS
    <3>2. f.event_type # EventTypeStockReserveFailed
      BY <3>1 DEF Payment!NewPaymentFailedEvent, Payment!EventTypePaymentFailed,
                  EventTypeStockReserveFailed
    <3>3. /\ payment_outbox' = Append(payment_outbox, Entry(f))
          /\ Payment!SavePayment(e, "FAILED")
      BY <2>2, <3>1 DEF Payment!DeclinePayment, Payment!PublishInTx, Payment!StatusPending,
                        Entry, Payment!PaymentStatusFailed
    <3> QED BY <1>6, <1>7, <2>2, <3>2, <3>3
  <2>3. CASE e.event_id \notin payment_processed /\ Payment!ApprovePayment(e)
    <3>1. PICK f : f = Payment!NewPaymentCompletedEvent(
                          Payment!NewEventID("payment", payment_outbox),
                          e.order_id, e.total_amount)
      OBVIOUS
    <3>2. f.event_type # EventTypeStockReserveFailed
      BY <3>1 DEF Payment!NewPaymentCompletedEvent, Payment!EventTypePaymentCompleted,
                  EventTypeStockReserveFailed
    <3>3. /\ payment_outbox' = Append(payment_outbox, Entry(f))
          /\ Payment!SavePayment(e, "COMPLETED")
      BY <2>3, <3>1 DEF Payment!ApprovePayment, Payment!PublishInTx, Payment!StatusPending,
                        Entry, Payment!PaymentStatusCompleted
    <3> QED BY <1>6, <1>7, <2>3, <3>2, <3>3
  <2> QED BY <1>7, <2>1, <2>2, <2>3 DEF Payment!HandleStockReserved, Payment!AlreadyProcessed
<1>8. CASE e.event_type = EventTypeOrderCancelled /\ Payment!HandleOrderCancelled(e)
  <2>1. \A i \in Payment!PaymentsOf(e.order_id) : ~Payment!IsCompleted(payments[i])
    BY <1>4, <1>8, CancelledNotPaid DEF Payment!PaymentsOf, Payment!IsCompleted,
                                        Payment!PaymentStatusCompleted
  <2>2. UNCHANGED <<payments, payment_outbox>>
    BY <1>8, <2>1 DEF Payment!HandleOrderCancelled, Payment!vars
  <2> QED BY <1>5, <2>2
<1> QED BY <1>3, <1>7, <1>8
        DEF Payment!Handle, Payment!EventTypeStockReserved, Payment!EventTypeOrderCancelled,
            EventTypeStockReserved, EventTypeOrderCancelled

(* Relays and faults do not show. *)
LEMMA TransportSimulates ==
    ASSUME SagaInv, SagaInv', Books, KeepsEvents
    PROVE  Books' /\ Simulated
BY NothingShows DEF KeepsEvents

(* Every step is a step of an order's life or none, and keeps the books. *)
LEMMA StepSimulates ==
    ASSUME SagaInv, SagaInv', Books, [Next]_vars
    PROVE  Books' /\ Simulated
<1>1. CASE CreateOrder BY <1>1, CreateSimulates
<1>2. CASE Deliver BY <1>2, OrderSimulates, InventorySimulates, PaymentSimulates DEF Deliver
<1>3. ASSUME NEW r \in Relays, RelayStep(r) PROVE Books' /\ Simulated
  BY <1>3, RelayKeepsEvents, TransportSimulates
<1>4. CASE Fault BY <1>4, FaultKeepsEvents, TransportSimulates
<1> QED BY <1>1, <1>2, <1>3, <1>4 DEF Next, Fault

(* The full stock and no orders, in both specifications. *)
LEMMA InitBooks == Init => Books /\ Abstract!Init
<1> SUFFICES ASSUME Init PROVE Books /\ Abstract!Init OBVIOUS
<1>1. /\ orders = <<>> /\ reservations = <<>> /\ payments = <<>>
      /\ order_outbox = <<>> /\ inventory_outbox = <<>> /\ payment_outbox = <<>>
      /\ inventory = [p \in DOMAIN InitialStock |->
                         [quantity |-> InitialStock[p], reserved_quantity |-> 0]]
  BY DEF Init, Order!Init, Inventory!Init, Payment!Init, Inventory!Products
<1>2. Stored(<<>>) = {} BY DEF Stored
<1>3. \A type : Published(type) = {} BY <1>1, <1>2 DEF Published
<1>4. Answered BY <1>1, <1>2, <1>3 DEF Answered
<1>5. OrderIDs = {} BY <1>1 DEF OrderIDs
<1>6. ASSUME NEW p \in DOMAIN InitialStock, NEW status
      PROVE  Count(orders, Holding(status, p)) = 0
  <2>1. Holding(status, p) = {} BY <1>5 DEF Holding
  <2> QED BY <2>1, CountNone
<1>7. Ledger
  <2>1. inventory \in [DOMAIN InitialStock -> StockRows]
    BY <1>1, SagaAssumption DEF StockRows
  <2>2. \A p \in DOMAIN InitialStock :
           /\ inventory[p].reserved_quantity = 0 /\ inventory[p].quantity = InitialStock[p]
           /\ InitialStock[p] \in Nat
    BY <1>1, SagaAssumption
  <2>3. \A p \in DOMAIN InitialStock :
           /\ inventory[p].reserved_quantity = Count(orders, Holding("RESERVED", p))
           /\ inventory[p].quantity = InitialStock[p] - Count(orders, Holding("COMMITTED", p))
    BY <1>6, <2>2
  <2> QED BY <1>1, <1>5, <2>1, <2>3 DEF Ledger, StockRows
<1>8. StockMap = <<>> /\ ChargeMap = <<>> BY <1>5 DEF StockMap, ChargeMap
<1>9. Abstract!Init BY <1>1, <1>8 DEF Abstract!Init, StockMap, ChargeMap
<1> QED BY <1>4, <1>7, <1>9 DEF Books

-----------------------------------------------------------------------------
(* Theorems *)

(* For every instance of the system, with every repetition of events: an   *)
(* order reserves stock at most once and is charged at most once, and only *)
(* for reserved stock.                                                     *)
THEOREM EffectsHappenOnce == Spec => []ExactlyOnceEffects
BY SagaEffects, InitSaga, StepSaga, PTL DEF Spec

(* For every instance of the system: a COMPLETED order is paid in full and *)
(* its stock is held or has left.                                          *)
THEOREM CompletedOrdersAgree == Spec => []CompletedIsPaidAndHeld
BY SagaCompleted, InitSaga, StepSaga, PTL DEF Spec

(* For every instance of the system: no payment of a CANCELLED order       *)
(* stands and no stock of it left.                                         *)
THEOREM CancelledOrdersAgree == Spec => []CancelledIsFree
BY SagaCancelled, InitSaga, StepSaga, PTL DEF Spec

(* For every instance of the system: stock is given back only for          *)
(* CANCELLED orders and leaves only for COMPLETED ones.                    *)
THEOREM StockWaitsForDecision == Spec => []StockFollowsDecision
BY SagaSettled, InitSaga, StepSaga, PTL DEF Spec

(* For every instance of the system: no cancellation or completion reaches *)
(* the inventory service before it has decided on the order.               *)
THEOREM SettlementsInOrder == Spec => []SettlementsFollowReservations
BY SagaSettlements, InitSaga, StepSaga, PTL DEF Spec

(* For every instance of the system: seen through the three databases,     *)
(* every step of a service is a legal step of an order's life or none at   *)
(* all; relays, retries, duplicates, losses and restarts do not show, and  *)
(* stock is reserved exactly when enough of it is left.                    *)
THEOREM SagaImplementsFulfilment == Spec => ImplementsFulfilment
<1>1. Init => SagaInv /\ Books /\ Abstract!Init BY InitSaga, InitBooks
<1>2. SagaInv /\ Books /\ [Next]_vars => (SagaInv /\ Books)' /\ [Abstract!Next]_(Abstract!vars)
  BY StepSaga, StepSimulates DEF Simulated
<1> QED BY <1>1, <1>2, PTL DEF Spec, ImplementsFulfilment, Abstract!Spec
=============================================================================

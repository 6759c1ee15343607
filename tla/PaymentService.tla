--------------------------- MODULE PaymentService ---------------------------
(***************************************************************************)
(* services/payment: the payments table and the handlers of the payment    *)
(* service.                                                                *)
(*                                                                         *)
(* Every handler is one database transaction, hence one atomic action; a   *)
(* delivery that ends before Commit changes nothing.  The payment provider *)
(* is simulated in the code: a tenth of the payments is declined at random,*)
(* so a decline is always possible here, and an approval is possible       *)
(* unless the amount passes the .99 test.                                  *)
(*                                                                         *)
(* The specification at the end puts the service in the weakest            *)
(* environment: any event of Inbound may arrive at any time, any number of *)
(* times, in any order.                                                    *)
(***************************************************************************)
EXTENDS Integers, Sequences, FiniteSets, Events, Outbox, Money, PaymentAmount

CONSTANT Inbound   \* the events the environment may deliver

VARIABLES
    payments,          \* the payments table, in insertion order
    outbox,            \* the outbox table of payment-db
    processed_events   \* the processed_events table of payment-db

vars == <<payments, outbox, processed_events>>

(* Event ids are uuids: no two events share one. *)
ASSUME PaymentAssumption ==
    /\ \A event \in Inbound :
          event.event_type = EventTypeStockReserved => event.total_amount \in Int
    /\ \A e, f \in Inbound : e.event_id = f.event_id => e = f

(* The inventory service reserves once per order (Saga's                   *)
(* ExactlyOnceEffects), so it sends one StockReserved per order.           *)
ASSUME ReservedOncePerOrder ==
    \A e, f \in {event \in Inbound : event.event_type = EventTypeStockReserved} :
        e.order_id = f.order_id => e = f

-----------------------------------------------------------------------------
(* domain/payment.go; the PENDING status never reaches the table, because  *)
(* a payment is completed or failed before it is saved.                    *)

PaymentStatusCompleted == "COMPLETED"
PaymentStatusFailed    == "FAILED"
PaymentStatusRefunded  == "REFUNDED"

PaymentStatuses == {PaymentStatusCompleted, PaymentStatusFailed, PaymentStatusRefunded}

(* NewPayment's check. *)
ValidAmount_Unchecked(amount) == TRUE
ValidAmount(amount) == amount > 0

NewPayment(order_id, amount, status) ==
    [order_id |-> order_id, amount |-> amount, status |-> status]

IsCompleted_Never(payment) == FALSE
IsCompleted(payment) == payment.status = PaymentStatusCompleted

Refund(payment) == [payment EXCEPT !.status = PaymentStatusRefunded]

-----------------------------------------------------------------------------
(* application/usecase.go *)

Init ==
    /\ payments = <<>>
    /\ outbox = <<>>
    /\ processed_events = {}

(* The rule of shouldFailPayment that leaves no choice (simulateFailure is *)
(* off outside tests); the random one may decline any payment.             *)
MustFail(amount) == EndsIn99(amount)

(* Save: the amount column rounds what the event carries. *)
SavePayment(event, status) ==
    payments' = Append(payments,
                       NewPayment(event.order_id, Decimal(event.total_amount), status))

UpdatePayment(i, payment) == payments' = [payments EXCEPT ![i] = payment]

(* shouldFailPayment returned true. *)
DeclinePayment_Approved(event) ==
    /\ SavePayment(event, PaymentStatusCompleted)
    /\ outbox' = PublishInTx(outbox,
                    NewPaymentFailedEvent(NewEventID("payment", outbox), event.order_id))
DeclinePayment_AnnouncedAsPaid(event) ==
    /\ SavePayment(event, PaymentStatusFailed)
    /\ outbox' = PublishInTx(outbox,
                    NewPaymentCompletedEvent(NewEventID("payment", outbox),
                                             event.order_id, event.total_amount))
DeclinePayment(event) ==
    /\ SavePayment(event, PaymentStatusFailed)
    /\ outbox' = PublishInTx(outbox,
                    NewPaymentFailedEvent(NewEventID("payment", outbox), event.order_id))

(* shouldFailPayment returned false. *)
ApprovePayment(event) ==
    /\ ~MustFail(event.total_amount)
    /\ SavePayment(event, PaymentStatusCompleted)
    /\ outbox' = PublishInTx(outbox,
                    NewPaymentCompletedEvent(NewEventID("payment", outbox),
                                             event.order_id, event.total_amount))

HandleStockReserved(event) ==
    \/ /\ ~AlreadyProcessed(processed_events, event)
       /\ ValidAmount(event.total_amount)
       /\ processed_events' = MarkProcessed(processed_events, event)
       /\ \/ DeclinePayment(event)
          \/ ApprovePayment(event)
    \/ /\ AlreadyProcessed(processed_events, event) \/ ~ValidAmount(event.total_amount)
       /\ UNCHANGED vars

(* FindByOrderIDForUpdate returns one row of the order, if there is one.   *)
PaymentsOf(order_id) == {i \in DOMAIN payments : payments[i].order_id = order_id}

HandleOrderCancelled(event) ==
    \/ /\ ~AlreadyProcessed(processed_events, event)
       /\ processed_events' = MarkProcessed(processed_events, event)
       /\ \/ /\ PaymentsOf(event.order_id) = {}
             /\ UNCHANGED payments
          \/ \E i \in PaymentsOf(event.order_id) :
                \/ /\ IsCompleted(payments[i])
                   /\ UpdatePayment(i, Refund(payments[i]))
                \/ /\ ~IsCompleted(payments[i])
                   /\ UNCHANGED payments
       /\ UNCHANGED outbox
    \/ /\ AlreadyProcessed(processed_events, event)
       /\ UNCHANGED vars

(* interfaces/consumer.go: one subscription, one handler per event type.   *)
Subjects == {EventTypeStockReserved, EventTypeOrderCancelled}

Handle(event) ==
    \/ event.event_type = EventTypeStockReserved  /\ HandleStockReserved(event)
    \/ event.event_type = EventTypeOrderCancelled /\ HandleOrderCancelled(event)

Next == \E event \in Inbound : Handle(event)

Spec == Init /\ [][Next]_vars

-----------------------------------------------------------------------------
(* Properties *)

(* The payments table holds well-formed rows, none of a negative amount.   *)
TypeOK ==
    /\ payments \in Seq([order_id : {event.order_id : event \in Inbound},
                         amount   : Nat,
                         status   : PaymentStatuses])
    /\ processed_events \subseteq {event.event_id : event \in Inbound}

(* Transactional outbox: row by row, the outcome told to the other         *)
(* services is the outcome recorded, for the same order and amount (to the *)
(* cent), and a later refund never rewrites a failure.                     *)
OutcomesAnnounced ==
    /\ DOMAIN outbox = DOMAIN payments
    /\ \A i \in DOMAIN payments :
          /\ outbox[i].payload.order_id = payments[i].order_id
          /\ \/ /\ payments[i].status = PaymentStatusFailed
                /\ outbox[i].payload.event_type = EventTypePaymentFailed
             \/ /\ payments[i].status \in {PaymentStatusCompleted, PaymentStatusRefunded}
                /\ outbox[i].payload.event_type = EventTypePaymentCompleted
                /\ Decimal(outbox[i].payload.amount) = payments[i].amount

(* A customer is charged at most once per reservation: each StockReserved  *)
(* event handled leaves one payment, however often it was delivered.       *)
OnePaymentPerReservation ==
    \A id \in {event.order_id : event \in Inbound} :
        Cardinality(PaymentsOf(id))
            = Cardinality({event \in Inbound : /\ event.event_type = EventTypeStockReserved
                                               /\ event.order_id = id
                                               /\ event.event_id \in processed_events})

(* Compensation keeps no money: the step that handles an OrderCancelled    *)
(* event leaves no COMPLETED payment of that order.  It needs that an      *)
(* order is charged once; with two payment rows only one is refunded.      *)
CancelRefunds ==
    [][\A event \in Inbound :
          /\ event.event_type = EventTypeOrderCancelled
          /\ event.event_id \in processed_events' \ processed_events
          => \A i \in DOMAIN payments' :
                payments'[i].order_id = event.order_id
                    => payments'[i].status # PaymentStatusCompleted]_vars
=============================================================================

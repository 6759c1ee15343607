--------------------------- MODULE PaymentProofs ----------------------------
(***************************************************************************)
(* Proofs about the payment service, for any set of inbound events and any *)
(* order, number and repetition of deliveries.                             *)
(*                                                                         *)
(* The payments and the outbox grow together, one row each per reservation *)
(* handled (Books); refunds change statuses only.  That an order has at    *)
(* most one payment, which the refund relies on, is a statement about      *)
(* counts and follows from OnePaymentPerReservation.                       *)
(***************************************************************************)
EXTENDS PaymentService, FiniteSetTheorems, SequenceTheorems, TLAPS

OrderIDs == {event.order_id : event \in Inbound}

Payments == [order_id : OrderIDs, amount : Nat, status : PaymentStatuses]

(* The outbox holds only outcomes of payments. *)
Outcomes ==
    [event_id : EventIDs("payment"), event_type : {EventTypePaymentCompleted},
     order_id : OrderIDs, amount : Nat]
      \cup PlainEvents(EventIDs("payment"), {EventTypePaymentFailed}, OrderIDs)

(* Row i of the outbox tells what payment i is. *)
Announces(table, rows, i) ==
    /\ rows[i].payload.order_id = table[i].order_id
    /\ \/ /\ table[i].status = PaymentStatusFailed
          /\ rows[i].payload.event_type = EventTypePaymentFailed
       \/ /\ table[i].status \in {PaymentStatusCompleted, PaymentStatusRefunded}
          /\ rows[i].payload.event_type = EventTypePaymentCompleted
          /\ Decimal(rows[i].payload.amount) = table[i].amount

Books ==
    /\ outbox \in Seq(Rows(Outcomes))
    /\ Len(outbox) = Len(payments)
    /\ \A i \in 1 .. Len(payments) : Announces(payments, outbox, i)

(* The StockReserved events of an order that were handled. *)
Reserved(id, processed) ==
    {event \in Inbound : /\ event.event_type = EventTypeStockReserved
                         /\ event.order_id = id
                         /\ event.event_id \in processed}

Charges(id, table) == {i \in DOMAIN table : table[i].order_id = id}

(* One payment per reservation, and both are finite. *)
Counted ==
    \A id \in OrderIDs :
        /\ IsFiniteSet(Charges(id, payments))
        /\ IsFiniteSet(Reserved(id, processed_events))
        /\ Cardinality(Charges(id, payments)) = Cardinality(Reserved(id, processed_events))

IInv == TypeOK /\ Books /\ Counted

-----------------------------------------------------------------------------
(* What the invariant says *)

(* Matching rows and events are outcomes that are announced. *)
LEMMA BooksAnnounce == TypeOK /\ Books => OutcomesAnnounced
<1> SUFFICES ASSUME TypeOK, Books PROVE OutcomesAnnounced OBVIOUS
<1>1. DOMAIN payments = 1 .. Len(payments) /\ DOMAIN outbox = 1 .. Len(outbox)
  BY DEF TypeOK, Books
<1>2. DOMAIN outbox = DOMAIN payments BY <1>1 DEF Books
<1>3. \A i \in DOMAIN payments : Announces(payments, outbox, i) BY <1>1 DEF Books
<1> QED BY <1>2, <1>3 DEF OutcomesAnnounced, Announces

(* Counting payments per marked reservation is charging once. *)
LEMMA CountedIsOnce == Counted => OnePaymentPerReservation
<1> SUFFICES ASSUME Counted, NEW id \in OrderIDs
             PROVE  Cardinality(PaymentsOf(id)) = Cardinality(Reserved(id, processed_events))
  BY DEF OnePaymentPerReservation, Reserved, OrderIDs
<1>1. PaymentsOf(id) = Charges(id, payments) BY DEF PaymentsOf, Charges
<1> QED BY <1>1 DEF Counted

(* Not two reservations per order, hence not two payments. *)
LEMMA OnePaymentPerOrder ==
    ASSUME Counted, NEW i \in DOMAIN payments, NEW j \in DOMAIN payments,
           payments[i].order_id \in OrderIDs,
           payments[i].order_id = payments[j].order_id
    PROVE  i = j
<1> DEFINE id == payments[i].order_id
           R  == Reserved(id, processed_events)
           C  == Charges(id, payments)
<1>1. IsFiniteSet(C) /\ IsFiniteSet(R) /\ Cardinality(C) = Cardinality(R) BY DEF Counted
<1>2. i \in C /\ j \in C BY DEF Charges
<1>3. \A e, f \in R : e = f BY ReservedOncePerOrder DEF Reserved
<1> HIDE DEF C, R
<1>4. Cardinality(R) <= 1
  <2>1. CASE R = {} BY <2>1, FS_EmptySet
  <2>2. CASE R # {}
    <3>1. PICK e \in R : TRUE BY <2>2
    <3>2. R = {e} BY <1>3, <3>1
    <3>3. Cardinality({e}) = 1 BY FS_Singleton
    <3> QED BY <3>2, <3>3
  <2> QED BY <2>1, <2>2
<1>5. Cardinality(C) \in Nat BY <1>1, FS_CardinalityType
<1>6. Cardinality(C) # 0 BY <1>1, <1>2, FS_EmptySet
<1>7. Cardinality(C) = 1 BY <1>1, <1>4, <1>5, <1>6
<1>8. PICK x : C = {x} BY <1>1, <1>7, FS_Singleton
<1> QED BY <1>2, <1>8

-----------------------------------------------------------------------------
(* The invariant is inductive *)

(* No payments, no events, no marks at the start. *)
LEMMA InitIInv == Init => IInv
<1> SUFFICES ASSUME Init PROVE IInv OBVIOUS
<1>1. payments = <<>> /\ outbox = <<>> /\ processed_events = {} BY DEF Init
<1>2. TypeOK BY <1>1 DEF TypeOK
<1>3. Books BY <1>1 DEF Books
<1>4. ASSUME NEW id \in OrderIDs
      PROVE  Charges(id, payments) = {} /\ Reserved(id, processed_events) = {}
  BY <1>1 DEF Charges, Reserved
<1>5. Counted BY <1>4, FS_EmptySet DEF Counted
<1> QED BY <1>2, <1>3, <1>5 DEF IInv

(* Handling event e, new so far, adds it to its own kind and to no other.  *)
LEMMA ReservedGrows ==
    ASSUME NEW e \in Inbound, e.event_id \notin processed_events, NEW id,
           processed_events' = MarkProcessed(processed_events, e)
    PROVE  /\ e.event_type = EventTypeStockReserved /\ e.order_id = id
                 => Reserved(id, processed_events') = Reserved(id, processed_events) \cup {e}
           /\ e.event_type # EventTypeStockReserved \/ e.order_id # id
                 => Reserved(id, processed_events') = Reserved(id, processed_events)
           /\ e \notin Reserved(id, processed_events)
BY PaymentAssumption DEF Reserved, MarkProcessed

(* A payment is saved and its outcome stored, for a new reservation.       *)
LEMMA SavedIInv ==
    ASSUME IInv, NEW e \in Inbound, e.event_type = EventTypeStockReserved,
           e.event_id \notin processed_events,
           processed_events' = MarkProcessed(processed_events, e),
           NEW status \in PaymentStatuses, SavePayment(e, status),
           NEW outcome \in Outcomes, outbox' = PublishInTx(outbox, outcome),
           ValidAmount(e.total_amount),
           outcome.order_id = e.order_id,
           \/ status = PaymentStatusFailed /\ outcome.event_type = EventTypePaymentFailed
           \/ /\ status = PaymentStatusCompleted
              /\ outcome.event_type = EventTypePaymentCompleted
              /\ outcome.amount = e.total_amount
    PROVE  IInv'
<1> DEFINE new == NewPayment(e.order_id, Decimal(e.total_amount), status)
           row == [payload |-> outcome, status |-> StatusPending, retry_count |-> 0]
           n   == Len(payments) + 1
<1>1. payments \in Seq(Payments) /\ outbox \in Seq(Rows(Outcomes)) /\ Len(outbox) = Len(payments)
  BY DEF IInv, TypeOK, Books, Payments, OrderIDs
<1>2. e.order_id \in OrderIDs BY DEF OrderIDs
<1>3. new \in Payments
  <2>1. Decimal(e.total_amount) \in Nat
    <3>1. e.total_amount \in Nat BY PaymentAssumption DEF ValidAmount
    <3> QED BY <3>1 DEF Decimal
  <2> QED BY <1>2, <2>1 DEF NewPayment, Payments
<1>4. row \in Rows(Outcomes) BY DEF Rows
<1>5. payments' = Append(payments, new) /\ outbox' = Append(outbox, row)
  BY DEF SavePayment, PublishInTx
<1>6. new.order_id = e.order_id /\ new.amount = Decimal(e.total_amount) /\ new.status = status
  BY DEF NewPayment
<1>7. row.payload = outcome OBVIOUS
<1> HIDE DEF new, row
<1>8. /\ payments' \in Seq(Payments) /\ outbox' \in Seq(Rows(Outcomes))
      /\ Len(payments') = n /\ Len(outbox') = n
      /\ \A i \in 1 .. Len(payments) : payments'[i] = payments[i] /\ outbox'[i] = outbox[i]
      /\ payments'[n] = new /\ outbox'[n] = row
  BY <1>1, <1>3, <1>4, <1>5, AppendProperties
<1>9. TypeOK' 
  <2>1. processed_events' \subseteq {event.event_id : event \in Inbound}
    BY DEF IInv, TypeOK, MarkProcessed
  <2> QED BY <1>8, <2>1 DEF TypeOK, Payments, OrderIDs
<1>10. Books'
  <2>1. ASSUME NEW i \in 1 .. Len(payments') PROVE Announces(payments', outbox', i)
    <3>1. CASE i \in 1 .. Len(payments)
      <4>1. Announces(payments, outbox, i) BY <3>1 DEF IInv, Books
      <4> QED BY <1>8, <3>1, <4>1 DEF Announces
    <3>2. CASE i = n
      <4>1. payments'[i] = new /\ outbox'[i].payload = outcome BY <1>7, <1>8, <3>2
      <4> QED BY <1>6, <4>1 DEF Announces
    <3>3. Len(payments) \in Nat BY <1>1
    <3> QED BY <1>8, <3>1, <3>2, <3>3
  <2> QED BY <1>8, <2>1 DEF Books
<1>11. ASSUME NEW id \in OrderIDs
       PROVE  /\ IsFiniteSet(Charges(id, payments'))
              /\ IsFiniteSet(Reserved(id, processed_events'))
              /\ Cardinality(Charges(id, payments')) = Cardinality(Reserved(id, processed_events'))
  <2> DEFINE C == Charges(id, payments)
             R == Reserved(id, processed_events)
  <2>1. IsFiniteSet(C) /\ IsFiniteSet(R) /\ Cardinality(C) = Cardinality(R)
    BY DEF IInv, Counted
  <2>2. DOMAIN payments = 1 .. Len(payments) /\ DOMAIN payments' = 1 .. n /\ Len(payments) \in Nat
    BY <1>1, <1>8
  <2>3. n \notin C BY <2>2 DEF Charges
  <2>4. CASE e.order_id = id
    <3>1. Charges(id, payments') = C \cup {n} BY <1>6, <1>8, <2>2, <2>4 DEF Charges
    <3>2. Reserved(id, processed_events') = R \cup {e} /\ e \notin R
      BY <2>4, ReservedGrows
    <3> HIDE DEF C, R, n
    <3>3. /\ IsFiniteSet(C \cup {n}) /\ Cardinality(C \cup {n}) = Cardinality(C) + 1
          /\ IsFiniteSet(R \cup {e}) /\ Cardinality(R \cup {e}) = Cardinality(R) + 1
      BY <2>1, <2>3, <3>2, FS_AddElement
    <3> QED BY <2>1, <3>1, <3>2, <3>3
  <2>5. CASE e.order_id # id
    <3>1. Charges(id, payments') = C BY <1>6, <1>8, <2>2, <2>5 DEF Charges
    <3>2. Reserved(id, processed_events') = R BY <2>5, ReservedGrows
    <3> QED BY <2>1, <3>1, <3>2
  <2> QED BY <2>4, <2>5
<1>12. Counted' BY <1>11 DEF Counted
<1> QED BY <1>9, <1>10, <1>12 DEF IInv

(* A cancellation changes at most the status of one completed payment.     *)
LEMMA RefundIInv ==
    ASSUME IInv, NEW e \in Inbound, e.event_type = EventTypeOrderCancelled,
           e.event_id \notin processed_events,
           processed_events' = MarkProcessed(processed_events, e),
           UNCHANGED outbox,
           \/ UNCHANGED payments
           \/ \E i \in DOMAIN payments : /\ IsCompleted(payments[i])
                                         /\ UpdatePayment(i, Refund(payments[i]))
    PROVE  IInv'
<1>1. payments \in Seq(Payments) BY DEF IInv, TypeOK, Payments, OrderIDs
<1> DEFINE Kept ==
             /\ payments' \in Seq(Payments) /\ Len(payments') = Len(payments)
             /\ \A i \in 1 .. Len(payments) :
                   /\ payments'[i].order_id = payments[i].order_id
                   /\ payments'[i].amount = payments[i].amount
                   /\ \/ payments'[i].status = payments[i].status
                      \/ /\ payments[i].status = PaymentStatusCompleted
                         /\ payments'[i].status = PaymentStatusRefunded
<1>2. Kept
  <2>1. CASE UNCHANGED payments BY <1>1, <2>1
  <2>2. ASSUME NEW i \in DOMAIN payments, IsCompleted(payments[i]),
               UpdatePayment(i, Refund(payments[i]))
        PROVE  Kept
    <3> DEFINE new == Refund(payments[i])
    <3>1. i \in 1 .. Len(payments) /\ payments[i] \in Payments BY <1>1
    <3>2. /\ new \in Payments /\ new.order_id = payments[i].order_id
          /\ new.amount = payments[i].amount /\ new.status = PaymentStatusRefunded
      BY <3>1 DEF Refund, Payments, PaymentStatuses
    <3>3. payments' = [payments EXCEPT ![i] = new] BY <2>2 DEF UpdatePayment
    <3>4. payments[i].status = PaymentStatusCompleted BY <2>2 DEF IsCompleted
    <3> HIDE DEF new
    <3>5. /\ payments' \in Seq(Payments) /\ Len(payments') = Len(payments)
          /\ \A j \in 1 .. Len(payments) : payments'[j] = IF j = i THEN new ELSE payments[j]
      BY <1>1, <3>1, <3>2, <3>3, ExceptSeq
    <3> QED BY <3>2, <3>4, <3>5
  <2> QED BY <2>1, <2>2
<1>3. TypeOK'
  <2>1. processed_events' \subseteq {event.event_id : event \in Inbound}
    BY DEF IInv, TypeOK, MarkProcessed
  <2> QED BY <1>2, <2>1 DEF TypeOK, Payments, OrderIDs
<1>4. Books'
  <2>1. ASSUME NEW i \in 1 .. Len(payments') PROVE Announces(payments', outbox', i)
    <3>1. i \in 1 .. Len(payments) /\ Announces(payments, outbox, i) BY <1>2 DEF IInv, Books
    <3> QED BY <1>2, <3>1 DEF Announces, PaymentStatusCompleted, PaymentStatusRefunded,
                              PaymentStatusFailed
  <2> QED BY <1>2, <2>1 DEF Books, IInv
<1>5. ASSUME NEW id \in OrderIDs
      PROVE  /\ Charges(id, payments') = Charges(id, payments)
             /\ Reserved(id, processed_events') = Reserved(id, processed_events)
  <2>1. DOMAIN payments = 1 .. Len(payments) /\ DOMAIN payments' = 1 .. Len(payments)
    BY <1>1, <1>2
  <2>2. Charges(id, payments') = Charges(id, payments) BY <1>2, <2>1 DEF Charges
  <2>3. EventTypeOrderCancelled # EventTypeStockReserved
    BY DEF EventTypeOrderCancelled, EventTypeStockReserved
  <2>4. Reserved(id, processed_events') = Reserved(id, processed_events)
    BY <2>3, ReservedGrows
  <2> QED BY <2>2, <2>4
<1>6. Counted' BY <1>5 DEF Counted, IInv
<1> QED BY <1>3, <1>4, <1>6 DEF IInv

(* Every handler keeps payments, events and marks in step. *)
LEMMA StepIInv == IInv /\ [Next]_vars => IInv'
<1> SUFFICES ASSUME IInv, [Next]_vars PROVE IInv' OBVIOUS
<1>1. CASE UNCHANGED vars
  BY <1>1 DEF vars, IInv, TypeOK, Books, Counted, Announces, Charges
<1>2. ASSUME NEW e \in Inbound, e.event_type = EventTypeStockReserved, HandleStockReserved(e)
      PROVE  IInv'
  <2>1. CASE UNCHANGED vars BY <1>1, <2>1
  <2> SUFFICES ASSUME e.event_id \notin processed_events, ValidAmount(e.total_amount),
                      processed_events' = MarkProcessed(processed_events, e),
                      DeclinePayment(e) \/ ApprovePayment(e)
               PROVE  IInv'
    BY <1>2, <2>1 DEF HandleStockReserved, AlreadyProcessed
  <2>2. e.order_id \in OrderIDs BY DEF OrderIDs
  <2>3. NewEventID("payment", outbox) \in EventIDs("payment")
    <3>1. Len(outbox) \in Nat BY DEF IInv, Books
    <3> QED BY <3>1 DEF NewEventID, EventIDs
  <2>4. CASE DeclinePayment(e)
    <3> DEFINE outcome == NewPaymentFailedEvent(NewEventID("payment", outbox), e.order_id)
    <3>1. /\ outcome \in Outcomes
          /\ outcome.order_id = e.order_id /\ outcome.event_type = EventTypePaymentFailed
      BY <2>2, <2>3 DEF NewPaymentFailedEvent, Outcomes, PlainEvents
    <3>2. SavePayment(e, PaymentStatusFailed) /\ outbox' = PublishInTx(outbox, outcome)
      BY <2>4 DEF DeclinePayment
    <3> HIDE DEF outcome
    <3> QED BY <1>2, <3>1, <3>2, SavedIInv DEF PaymentStatuses
  <2>5. CASE ApprovePayment(e)
    <3> DEFINE outcome == NewPaymentCompletedEvent(NewEventID("payment", outbox),
                                                   e.order_id, e.total_amount)
    <3>1. e.total_amount \in Nat BY <1>2, PaymentAssumption DEF ValidAmount
    <3>2. /\ outcome \in Outcomes
          /\ outcome.order_id = e.order_id /\ outcome.event_type = EventTypePaymentCompleted
          /\ outcome.amount = e.total_amount
      BY <2>2, <2>3, <3>1 DEF NewPaymentCompletedEvent, Outcomes
    <3>3. SavePayment(e, PaymentStatusCompleted) /\ outbox' = PublishInTx(outbox, outcome)
      BY <2>5 DEF ApprovePayment
    <3> HIDE DEF outcome
    <3> QED BY <1>2, <3>2, <3>3, SavedIInv DEF PaymentStatuses
  <2> QED BY <2>4, <2>5
<1>3. ASSUME NEW e \in Inbound, e.event_type = EventTypeOrderCancelled, HandleOrderCancelled(e)
      PROVE  IInv'
  <2>1. CASE UNCHANGED vars BY <1>1, <2>1
  <2>2. CASE ~UNCHANGED vars
    <3>1. /\ e.event_id \notin processed_events
          /\ processed_events' = MarkProcessed(processed_events, e)
          /\ UNCHANGED outbox
      BY <1>3, <2>2 DEF HandleOrderCancelled, AlreadyProcessed
    <3>2. \/ UNCHANGED payments
          \/ \E i \in DOMAIN payments : /\ IsCompleted(payments[i])
                                        /\ UpdatePayment(i, Refund(payments[i]))
      BY <1>3, <2>2 DEF HandleOrderCancelled, PaymentsOf
    <3> QED BY <1>3, <3>1, <3>2, RefundIInv
  <2> QED BY <2>1, <2>2
<1> QED BY <1>1, <1>2, <1>3 DEF Next, Handle

-----------------------------------------------------------------------------
(* For every stream of events, the payments table is well formed: what it  *)
(* stores, rounded to cents, is of an order that was reserved for, and     *)
(* never negative.                                                         *)
THEOREM TypeCorrect == Spec => []TypeOK
<1>1. IInv => TypeOK BY DEF IInv
<1> QED BY <1>1, InitIInv, StepIInv, PTL DEF Spec

(* For every stream of events, the payment service tells the others what it*)
(* recorded, payment by payment.                                           *)
THEOREM OutcomesAreAnnounced == Spec => []OutcomesAnnounced
<1>1. IInv => OutcomesAnnounced BY BooksAnnounce DEF IInv
<1> QED BY <1>1, InitIInv, StepIInv, PTL DEF Spec

(* For every stream of events, with every repetition, a reservation is     *)
(* charged for exactly once.                                               *)
THEOREM ChargedOnce == Spec => []OnePaymentPerReservation
<1>1. IInv => OnePaymentPerReservation BY CountedIsOnce DEF IInv
<1> QED BY <1>1, InitIInv, StepIInv, PTL DEF Spec

(* What a step that handles a cancellation leaves behind. *)
NothingKept ==
    \A event \in Inbound :
        /\ event.event_type = EventTypeOrderCancelled
        /\ event.event_id \in processed_events' \ processed_events
        => \A i \in DOMAIN payments' :
              payments'[i].order_id = event.order_id
                  => payments'[i].status # PaymentStatusCompleted

(* A step that marks a cancellation leaves no payment of the order COMPLETED. *)
LEMMA CancelStep == IInv /\ [Next]_vars => NothingKept
<1> SUFFICES ASSUME IInv, [Next]_vars, NEW e \in Inbound,
                    e.event_type = EventTypeOrderCancelled,
                    e.event_id \in processed_events' \ processed_events,
                    NEW j \in DOMAIN payments', payments'[j].order_id = e.order_id
             PROVE  payments'[j].status # PaymentStatusCompleted
  BY DEF NothingKept
<1>1. payments \in Seq(Payments) BY DEF IInv, TypeOK, Payments, OrderIDs
<1>2. PICK f \in Inbound : Handle(f) BY DEF Next, vars
<1>3. processed_events' = MarkProcessed(processed_events, f)
  BY <1>2 DEF Handle, HandleStockReserved, HandleOrderCancelled, vars
<1>4. f = e BY <1>3, PaymentAssumption DEF MarkProcessed
<1>5. HandleOrderCancelled(e)
  BY <1>2, <1>4 DEF Handle, EventTypeOrderCancelled, EventTypeStockReserved
<1>6. ~AlreadyProcessed(processed_events, e) BY DEF AlreadyProcessed
<1>7. CASE PaymentsOf(e.order_id) = {} /\ UNCHANGED payments BY <1>7 DEF PaymentsOf
<1>8. ASSUME NEW i \in PaymentsOf(e.order_id),
             \/ IsCompleted(payments[i]) /\ UpdatePayment(i, Refund(payments[i]))
             \/ ~IsCompleted(payments[i]) /\ UNCHANGED payments
      PROVE  payments'[j].status # PaymentStatusCompleted
  <2>1. i \in DOMAIN payments /\ payments[i].order_id = e.order_id /\ e.order_id \in OrderIDs
    BY DEF PaymentsOf, OrderIDs
  <2>2. payments[i] \in Payments BY <1>1, <2>1
  <2>3. j \in DOMAIN payments /\ payments[j].order_id = e.order_id
    BY <1>1, <1>8, <2>1, <2>2 DEF UpdatePayment, Refund, Payments
  <2>4. i = j BY <2>1, <2>3, OnePaymentPerOrder DEF IInv
  <2>5. CASE IsCompleted(payments[i]) /\ UpdatePayment(i, Refund(payments[i]))
    BY <1>1, <2>1, <2>2, <2>4, <2>5 DEF UpdatePayment, Refund, Payments,
                           PaymentStatusRefunded, PaymentStatusCompleted
  <2>6. CASE ~IsCompleted(payments[i]) /\ UNCHANGED payments BY <2>4, <2>6 DEF IsCompleted
  <2> QED BY <1>8, <2>5, <2>6
<1> QED BY <1>5, <1>6, <1>7, <1>8 DEF HandleOrderCancelled

(* For every stream of events with one reservation per order, a            *)
(* cancellation leaves no payment of its order standing.                   *)
THEOREM CancellationsRefund == Spec => CancelRefunds
<1>1. IInv /\ [Next]_vars => [NothingKept]_vars BY CancelStep
<1> QED BY <1>1, InitIInv, StepIInv, PTL DEF Spec, CancelRefunds, NothingKept
=============================================================================

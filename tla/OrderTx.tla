------------------------------- MODULE OrderTx ------------------------------
(***************************************************************************)
(* The transactions of the order service, statement by statement, run by   *)
(* one goroutine per subscription and process.                             *)
(*                                                                         *)
(* The tables of OrderService are the committed ones.  A handler decides   *)
(* on the copy of the order that it read; Update then writes the new       *)
(* status whatever the row holds by then.                                  *)
(***************************************************************************)
EXTENDS OrderService, Transactions

txVars == <<vars, locks, tx, rollbacks>>

TxInit == Init /\ TransactionsInit

Begin(w, event) ==
    /\ BeginTx(w, event, processed_events)
    /\ UNCHANGED vars

(* FindByIDForUpdate locks the order's row. *)
OrderRow_NoForUpdate(id) == {}
OrderRow(id) == {<<"orders", id>>}

ReadOrder(w) ==
    /\ In(w, "marked", Subjects)
    /\ LET event == tx[w].event IN
       /\ event.order_id \in DOMAIN orders
       /\ Lock(w, OrderRow(event.order_id))
       /\ tx' = [tx EXCEPT ![w] = [step |-> "read", event |-> event,
                                   order |-> orders[event.order_id]]]
    /\ UNCHANGED <<vars, rollbacks>>

(* No such order: the handler returns an error. *)
OrderNotFound(w) ==
    /\ In(w, "marked", Subjects)
    /\ tx[w].event.order_id \notin DOMAIN orders
    /\ EndTx(w)
    /\ UNCHANGED <<vars, rollbacks>>

(* What the state machine says of the copy. *)
Accepts(type, order) ==
    \/ type = EventTypeStockReserved    /\ CanConfirm(order)
    \/ type = EventTypePaymentCompleted /\ CanComplete(order)
    \/ type \in {EventTypePaymentFailed, EventTypeStockReserveFailed} /\ CanCancel(order)

(* ErrInvalidTransition: the handler returns without Commit. *)
SkipTransition(w) ==
    /\ In(w, "read", Subjects)
    /\ ~Accepts(tx[w].event.event_type, tx[w].order)
    /\ EndTx(w)
    /\ UNCHANGED <<vars, rollbacks>>

CommitTransition(w) ==
    /\ In(w, "read", Subjects)
    /\ Accepts(tx[w].event.event_type, tx[w].order)
    /\ LET event == tx[w].event IN
       \/ event.event_type = EventTypeStockReserved      /\ Confirm(event)
       \/ event.event_type = EventTypePaymentCompleted   /\ Complete(event)
       \/ event.event_type = EventTypePaymentFailed      /\ CancelAndCompensate(event)
       \/ event.event_type = EventTypeStockReserveFailed /\ Cancel(event)
    /\ EndTx(w)
    /\ UNCHANGED rollbacks

Rollback(w) ==
    /\ FailTx(w)
    /\ UNCHANGED vars

(* An order that is being inserted is nobody else's business yet, so the   *)
(* transaction of CreateOrder is one step.                                 *)
Create(p, q, a) ==
    /\ CreateOrder(p, q, a)
    /\ UNCHANGED <<locks, tx, rollbacks>>

Statement(w) ==
    \/ ReadOrder(w)
    \/ OrderNotFound(w)
    \/ SkipTransition(w)
    \/ CommitTransition(w)

TxNext ==
    \/ \E p \in ProductIDs, q \in Quantities, a \in Amounts : Create(p, q, a)
    \/ \E w \in Workers : \/ \E event \in Inbound : Begin(w, event)
                          \/ Statement(w)
                          \/ Rollback(w)

TxSpec == TxInit /\ [][TxNext]_txVars

-----------------------------------------------------------------------------
(* Properties *)

(* Serializability: whatever the goroutines of the four subscriptions and  *)
(* of several processes interleave, the committed tables change exactly as *)
(* if each handler ran alone, for any event at any time.  Without FOR      *)
(* UPDATE one transaction would complete an order that another, having     *)
(* read the same row, has cancelled meanwhile.                             *)
Serializable == Spec
=============================================================================

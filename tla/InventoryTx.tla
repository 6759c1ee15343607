----------------------------- MODULE InventoryTx ----------------------------
(***************************************************************************)
(* The transactions of the inventory service, statement by statement, run  *)
(* by several goroutines at once: one per subscription and process.        *)
(*                                                                         *)
(* The tables of InventoryService are the committed ones.  A transaction   *)
(* reads rows into a copy, works on the copy and writes whole rows back,   *)
(* so what it writes is right only if nobody changed the row meanwhile.    *)
(* Statements that touch only rows the transaction has locked or inserted  *)
(* show nothing to others before Commit and are part of it.                *)
(***************************************************************************)
EXTENDS InventoryService, Transactions

txVars == <<vars, locks, tx, rollbacks>>

(* The order service announces an order once (OrderService's               *)
(* OutboxMatchesOrders).                                                   *)
ASSUME CreationAssumption ==
    \A e, f \in Inbound : /\ e.event_type = EventTypeOrderCreated
                          /\ f.event_type = EventTypeOrderCreated
                          /\ e.order_id = f.order_id
                          => e = f

TxInit == Init /\ TransactionsInit

(* The rows that a SELECT ... FOR UPDATE locks. *)
StockRow_NoForUpdate(p) == {}
StockRow(p) == {<<"inventory", p>>}

ReservationRows(order_id) ==
    {<<"reservations", i>> : i \in {j \in DOMAIN reservations :
                                       reservations[j].order_id = order_id}}

-----------------------------------------------------------------------------
Begin(w, event) ==
    /\ BeginTx(w, event, processed_events)
    /\ UNCHANGED vars

Settling == {EventTypeOrderCancelled, EventTypeOrderCompleted}

(* HandleOrderCreated reads the stock row, if there is one. *)
ReadStock(w) ==
    /\ In(w, "marked", {EventTypeOrderCreated})
    /\ LET known == {tx[w].event.product_id} \cap DOMAIN inventory IN
       /\ Lock(w, UNION {StockRow(p) : p \in known})
       /\ tx' = [tx EXCEPT ![w] = [step  |-> "read",
                                   event |-> tx[w].event,
                                   stock |-> [p \in known |-> inventory[p]]]]
    /\ UNCHANGED <<vars, rollbacks>>

(* HandleOrderCancelled and HandleOrderCompleted read the reservations.    *)
ReadReservations(w) ==
    /\ In(w, "marked", Settling)
    /\ LET id == tx[w].event.order_id IN
       /\ Lock(w, ReservationRows(id))
       /\ tx' = [tx EXCEPT ![w] = [step  |-> "loop",
                                   event |-> tx[w].event,
                                   stock |-> <<>>,
                                   todo  |-> Held(id),
                                   done  |-> {}]]
    /\ UNCHANGED <<vars, rollbacks>>

(* What the loop's body makes of a stock row, and whether it gets there.   *)
Settled(type, row, quantity) ==
    IF type = EventTypeOrderCancelled THEN Release(row, quantity) ELSE Commit(row, quantity)

CanSettle(type, row, quantity) ==
    type = EventTypeOrderCompleted => row.reserved_quantity >= quantity

(* The loop's body for reservation i: read the stock row, a second time    *)
(* with the transaction's own changes, and release or commit.              *)
SettleReservation(w, i) ==
    /\ In(w, "loop", Settling)
    /\ i \in tx[w].todo
    /\ LET type == tx[w].event.event_type
           p    == reservations[i].product_id
           q    == reservations[i].quantity
           copy == tx[w].stock
           row  == IF p \in DOMAIN copy THEN copy[p] ELSE inventory[p]
           ok   == CanSettle(type, row, q)
       IN /\ Lock(w, StockRow(p))
          /\ tx' = [tx EXCEPT ![w].todo  = @ \ {i},
                              ![w].done  = IF ok THEN @ \cup {i} ELSE @,
                              ![w].stock = [x \in DOMAIN copy \cup {p} |->
                                               IF x # p THEN copy[x]
                                               ELSE IF ok THEN Settled(type, row, q) ELSE row]]
    /\ UNCHANGED <<vars, rollbacks>>

-----------------------------------------------------------------------------
(* Commit makes the writes visible and ends the transaction. *)
CommitReservation(w) ==
    /\ In(w, "read", {EventTypeOrderCreated})
    /\ LET event == tx[w].event
           copy  == tx[w].stock
       IN /\ \/ Reservable(copy, event) /\ ReserveStock(copy, event)
             \/ ~Reservable(copy, event) /\ RejectReservation(event)
          /\ processed_events' = MarkProcessed(processed_events, event)
    /\ EndTx(w)
    /\ UNCHANGED rollbacks

(* Update writes whole rows. *)
WriteBack(copy) ==
    inventory' = [p \in DOMAIN inventory |->
                     IF p \in DOMAIN copy THEN copy[p] ELSE inventory[p]]

CommitSettlement(w) ==
    /\ In(w, "loop", Settling)
    /\ tx[w].todo = {}
    /\ LET event == tx[w].event
       IN /\ WriteBack(tx[w].stock)
          /\ reservations' = SetStatus(tx[w].done,
                                IF event.event_type = EventTypeOrderCancelled
                                THEN ReservationStatusReleased
                                ELSE ReservationStatusCommitted)
          /\ processed_events' = MarkProcessed(processed_events, event)
    /\ EndTx(w)
    /\ UNCHANGED <<outbox, rollbacks>>

Rollback(w) ==
    /\ FailTx(w)
    /\ UNCHANGED vars

Statement(w) ==
    \/ ReadStock(w)
    \/ ReadReservations(w)
    \/ \E i \in DOMAIN reservations : SettleReservation(w, i)
    \/ CommitReservation(w)
    \/ CommitSettlement(w)

(* What may arrive: an order is cancelled or completed only after its      *)
(* OrderCreated event was handled (Saga's SettlementsFollowReservations).  *)
(* Otherwise a cancellation could read no reservation, commit after the    *)
(* one it missed, and no order of commits would explain the outcome.       *)
Arrives(event) ==
    event.event_type \in Settling =>
        \E created \in Inbound : /\ created.event_type = EventTypeOrderCreated
                                 /\ created.order_id = event.order_id
                                 /\ created.event_id \in processed_events

TxNext ==
    \E w \in Workers : \/ \E event \in Inbound : Arrives(event) /\ Begin(w, event)
                       \/ Statement(w)
                       \/ Rollback(w)

TxSpec == TxInit /\ [][TxNext]_txVars

(* A transaction that has begun goes on when it is not waiting for a lock. *)
FairTxSpec == TxSpec /\ \A w \in Workers : WF_txVars(Statement(w))

-----------------------------------------------------------------------------
(* Properties *)

(* Serializability: whatever the goroutines interleave, the committed      *)
(* tables change exactly as if each handler ran alone, which is what the   *)
(* rest of this development takes a handler to be.  Without FOR UPDATE on  *)
(* the stock row, one transaction would write back a row that another has  *)
(* changed since.                                                          *)
Serializable == Spec

(* Nobody waits forever: every transaction that begins ends, because all   *)
(* handlers lock the event, then reservations, then stock, and none keeps  *)
(* a lock when it fails.                                                   *)
TransactionsEnd == \A w \in Workers : tx[w] # Idle ~> tx[w] = Idle
=============================================================================

--------------------------- MODULE OrderTxProofs ----------------------------
(***************************************************************************)
(* The goroutines of the order service, for any number of them, any        *)
(* clients and any events: row locks make every handler one atomic step.   *)
(*                                                                         *)
(* No two open transactions hold the same lock, so what one of them read   *)
(* under a lock stays as it was until it commits (TxInv); then its decision*)
(* on the copy is the decision OrderService takes on the table.            *)
(***************************************************************************)
EXTENDS OrderTx, OrderProofs

(* An open transaction w: its event is new and locked, and so is the order *)
(* it read, which nobody has changed since.                                *)
Current(w) ==
    LET event == tx[w].event IN
    /\ tx[w].step \in {"marked", "read"}
    /\ event \in Inbound
    /\ event.event_id \notin processed_events
    /\ EventRow(event) \subseteq locks[w]
    /\ tx[w].step = "read" => /\ event.order_id \in DOMAIN orders
                              /\ OrderRow(event.order_id) \subseteq locks[w]
                              /\ tx[w].order = orders[event.order_id]

TxInv ==
    /\ DOMAIN tx = Workers /\ DOMAIN locks = Workers
    /\ tx = [w \in Workers |-> tx[w]]
    /\ locks = [w \in Workers |-> locks[w]]
    /\ \A v, w \in Workers : v # w => locks[v] \cap locks[w] = {}
    /\ \A w \in Workers : tx[w] = Idle \/ Current(w)

(* Nothing is locked, no transaction is open. *)
LEMMA TxInitInv == TxInit => TxInv
BY DEF TxInit, TransactionsInit, TxInv

(* One worker's transaction goes on without touching the tables: it takes  *)
(* locks that are free, and the others' transactions are not disturbed.    *)
LEMMA PrivateStep ==
    ASSUME TxInv, UNCHANGED vars, NEW w \in Workers, NEW rows, NEW t,
           rows \cap LockedElsewhere(w) = {},
           locks' = [locks EXCEPT ![w] = @ \cup rows],
           tx' = [tx EXCEPT ![w] = t],
           tx'[w] = Idle \/ Current(w)'
    PROVE  TxInv'
<1>1. /\ DOMAIN tx' = Workers /\ DOMAIN locks' = Workers
      /\ tx' = [v \in Workers |-> tx'[v]]
      /\ locks' = [v \in Workers |-> locks'[v]]
      /\ tx'[w] = t /\ locks'[w] = locks[w] \cup rows
      /\ \A v \in Workers \ {w} : tx'[v] = tx[v] /\ locks'[v] = locks[v]
  BY DEF TxInv
<1>2. \A v \in Workers \ {w} : rows \cap locks[v] = {}
  BY DEF LockedElsewhere
<1>3. \A u, v \in Workers : u # v => locks'[u] \cap locks'[v] = {}
  BY <1>1, <1>2 DEF TxInv
<1>4. ASSUME NEW v \in Workers \ {w} PROVE tx'[v] = Idle \/ Current(v)'
  BY <1>1 DEF TxInv, Current, vars
<1> QED BY <1>1, <1>3, <1>4 DEF TxInv

(* A transaction ends without a trace. *)
LEMMA EndStep ==
    ASSUME TxInv, UNCHANGED vars, NEW w \in Workers, EndTx(w)
    PROVE  TxInv'
<1>1. /\ DOMAIN tx' = Workers /\ DOMAIN locks' = Workers
      /\ tx' = [v \in Workers |-> tx'[v]]
      /\ locks' = [v \in Workers |-> locks'[v]]
      /\ tx'[w] = Idle /\ locks'[w] = {}
      /\ \A v \in Workers \ {w} : tx'[v] = tx[v] /\ locks'[v] = locks[v]
  BY DEF TxInv, EndTx
<1>2. \A u, v \in Workers : u # v => locks'[u] \cap locks'[v] = {}
  BY <1>1 DEF TxInv
<1>3. ASSUME NEW v \in Workers \ {w} PROVE tx'[v] = Idle \/ Current(v)'
  BY <1>1 DEF TxInv, Current, vars
<1> QED BY <1>1, <1>2, <1>3 DEF TxInv

(* A transaction commits: it changes the rows it has locked and no others, *)
(* so the events and orders of other transactions stay as they were read.  *)
LEMMA CommitStep ==
    ASSUME TxInv, NEW w \in Workers, tx[w] # Idle, tx[w].step = "read", EndTx(w),
           NEW status, SetStatus(tx[w].event, status)
    PROVE  TxInv'
<1> DEFINE e == tx[w].event
<1>1. /\ DOMAIN tx' = Workers /\ DOMAIN locks' = Workers
      /\ tx' = [v \in Workers |-> tx'[v]]
      /\ locks' = [v \in Workers |-> locks'[v]]
      /\ tx'[w] = Idle /\ locks'[w] = {}
      /\ \A v \in Workers \ {w} : tx'[v] = tx[v] /\ locks'[v] = locks[v]
  BY DEF TxInv, EndTx
<1>2. \A u, v \in Workers : u # v => locks'[u] \cap locks'[v] = {}
  BY <1>1 DEF TxInv
<1>3. /\ <<"processed_events", e.event_id>> \in locks[w]
      /\ <<"orders", e.order_id>> \in locks[w]
  BY DEF TxInv, Current, EventRow, OrderRow
<1>4. /\ processed_events' = processed_events \cup {e.event_id}
      /\ DOMAIN orders' = DOMAIN orders
      /\ \A id \in DOMAIN orders : id # e.order_id => orders'[id] = orders[id]
  BY DEF SetStatus, MarkProcessed
<1>5. ASSUME NEW v \in Workers \ {w}, tx[v] # Idle PROVE Current(v)'
  <2> DEFINE f == tx[v].event
  <2>1. Current(v) /\ locks[v] \cap locks[w] = {} BY <1>5 DEF TxInv
  <2>2. tx'[v] = tx[v] /\ locks'[v] = locks[v] BY <1>1
  <2>3. <<"processed_events", f.event_id>> \in locks[v] BY <2>1 DEF Current, EventRow
  <2>4. f.event_id # e.event_id BY <1>3, <2>1, <2>3
  <2>5. tx[v].step = "read" => f.order_id # e.order_id
    BY <1>3, <2>1 DEF Current, OrderRow
  <2>6. f.event_id \notin processed_events' BY <1>4, <2>1, <2>4 DEF Current
  <2>7. tx[v].step = "read" => /\ f.order_id \in DOMAIN orders'
                               /\ tx[v].order = orders'[f.order_id]
    BY <1>4, <2>1, <2>5 DEF Current
  <2> QED BY <2>1, <2>2, <2>6, <2>7 DEF Current
<1>6. \A v \in Workers : tx'[v] = Idle \/ Current(v)'
  BY <1>1, <1>5
<1> QED BY <1>1, <1>2, <1>6 DEF TxInv

(* A new order is nobody's copy yet. *)
LEMMA CreateStep ==
    ASSUME TxInv, TypeOK, NEW p \in ProductIDs, NEW q \in Quantities, NEW a \in Amounts,
           Create(p, q, a)
    PROVE  TxInv'
<1>1. UNCHANGED <<locks, tx, processed_events>> BY DEF Create, CreateOrder
<1>2. \A id \in DOMAIN orders : id \in DOMAIN orders' /\ orders'[id] = orders[id]
  <2> DEFINE o == NewOrder(p, q, a)
  <2>1. orders \in Seq(Orders) /\ orders' = Append(orders, o)
    BY DEF TypeOK, Create, CreateOrder
  <2>2. o \in Orders
    <3>1. q # 0 /\ a # 0 BY OrderAssumption DEF Create, CreateOrder, ValidOrder
    <3> QED BY <3>1 DEF NewOrder, Orders, OrderStatuses
  <2> HIDE DEF o
  <2> QED BY <2>1, <2>2, AppendProperties
<1>3. ASSUME NEW w \in Workers, Current(w) PROVE Current(w)'
  BY <1>1, <1>2, <1>3 DEF Current
<1> QED BY <1>1, <1>3 DEF TxInv

(* The commit of an accepted transition is a step of the atomic handler.   *)
LEMMA CommitIsHandle ==
    ASSUME TxInv, NEW w \in Workers, CommitTransition(w)
    PROVE  /\ tx[w].event \in Inbound
           /\ Handle(tx[w].event)
           /\ \E status : SetStatus(tx[w].event, status)
<1> DEFINE e == tx[w].event
<1>1. tx[w].step = "read" /\ tx[w] # Idle BY DEF CommitTransition, In, Idle
<1>2. /\ e \in Inbound /\ e.event_id \notin processed_events
      /\ e.order_id \in DOMAIN orders /\ tx[w].order = orders[e.order_id]
  BY <1>1 DEF TxInv, Current
<1>3. Found(e) BY <1>2 DEF Found, AlreadyProcessed
<1>4. Accepts(e.event_type, orders[e.order_id]) BY <1>2 DEF CommitTransition
<1> HIDE DEF e
<1>5. \/ e.event_type = EventTypeStockReserved      /\ Confirm(e)
      \/ e.event_type = EventTypePaymentCompleted   /\ Complete(e)
      \/ e.event_type = EventTypePaymentFailed      /\ CancelAndCompensate(e)
      \/ e.event_type = EventTypeStockReserveFailed /\ Cancel(e)
  BY DEF CommitTransition, e
<1> USE DEF EventTypeStockReserved, EventTypePaymentCompleted, EventTypePaymentFailed,
            EventTypeStockReserveFailed
<1>6. CASE e.event_type = EventTypeStockReserved /\ Confirm(e)
  <2>1. Confirms(e) BY <1>3, <1>4, <1>6 DEF Accepts, Confirms
  <2>2. Handle(e) BY <1>6, <2>1 DEF Handle, HandleStockReserved
  <2> QED BY <1>2, <1>6, <2>2 DEF Confirm, e
<1>7. CASE e.event_type = EventTypePaymentCompleted /\ Complete(e)
  <2>1. Completes(e) BY <1>3, <1>4, <1>7 DEF Accepts, Completes
  <2>2. Handle(e) BY <1>7, <2>1 DEF Handle, HandlePaymentCompleted
  <2> QED BY <1>2, <1>7, <2>2 DEF Complete, e
<1>8. CASE e.event_type = EventTypePaymentFailed /\ CancelAndCompensate(e)
  <2>1. Cancels(e) BY <1>3, <1>4, <1>8 DEF Accepts, Cancels
  <2>2. Handle(e) BY <1>8, <2>1 DEF Handle, HandlePaymentFailed
  <2> QED BY <1>2, <1>8, <2>2 DEF CancelAndCompensate, e
<1>9. CASE e.event_type = EventTypeStockReserveFailed /\ Cancel(e)
  <2>1. Cancels(e) BY <1>3, <1>4, <1>9 DEF Accepts, Cancels
  <2>2. Handle(e) BY <1>9, <2>1 DEF Handle, HandleStockReserveFailed
  <2> QED BY <1>2, <1>9, <2>2 DEF Cancel, e
<1> QED BY <1>5, <1>6, <1>7, <1>8, <1>9

(* Every step of the goroutines is a step of OrderService or changes no    *)
(* table, and keeps what open transactions know.                           *)
LEMMA TxStep == IInv /\ TxInv /\ [TxNext]_txVars => [Next]_vars /\ TxInv'
<1> SUFFICES ASSUME IInv, TxInv, [TxNext]_txVars PROVE [Next]_vars /\ TxInv'
  OBVIOUS
<1> USE DEF IInv
<1>1. ASSUME NEW p \in ProductIDs, NEW q \in Quantities, NEW a \in Amounts, Create(p, q, a)
      PROVE  Next /\ TxInv'
  <2>1. Next BY <1>1 DEF Create, Next
  <2> QED BY <1>1, <2>1, CreateStep
<1>2. ASSUME NEW w \in Workers, NEW event \in Inbound, Begin(w, event)
      PROVE  UNCHANGED vars /\ TxInv'
  <2> DEFINE t == [step |-> "marked", event |-> event]
  <2>1. UNCHANGED vars BY <1>2 DEF Begin
  <2>2. /\ event.event_id \notin processed_events
        /\ EventRow(event) \cap LockedElsewhere(w) = {}
        /\ locks' = [locks EXCEPT ![w] = @ \cup EventRow(event)]
        /\ tx' = [tx EXCEPT ![w] = t]
    BY <1>2 DEF Begin, BeginTx, Lock, AlreadyProcessed
  <2>3. tx'[w] = t /\ EventRow(event) \subseteq locks'[w] BY <2>2 DEF TxInv
  <2>4. Current(w)' BY <2>1, <2>2, <2>3 DEF Current, vars
  <2> HIDE DEF t
  <2> QED BY <2>1, <2>2, <2>4, PrivateStep
<1>3. ASSUME NEW w \in Workers, ReadOrder(w) PROVE UNCHANGED vars /\ TxInv'
  <2> DEFINE e == tx[w].event
             t == [step |-> "read", event |-> e, order |-> orders[e.order_id]]
             rows == OrderRow(e.order_id)
  <2>1. UNCHANGED vars /\ tx[w].step = "marked" /\ tx[w] # Idle
    BY <1>3 DEF ReadOrder, In, Idle
  <2>2. /\ e.order_id \in DOMAIN orders
        /\ rows \cap LockedElsewhere(w) = {}
        /\ locks' = [locks EXCEPT ![w] = @ \cup rows]
        /\ tx' = [tx EXCEPT ![w] = t]
    BY <1>3 DEF ReadOrder, Lock
  <2>3. tx'[w] = t /\ locks'[w] = locks[w] \cup rows BY <2>2 DEF TxInv
  <2>4. Current(w) BY <2>1 DEF TxInv
  <2>5. Current(w)' BY <2>1, <2>2, <2>3, <2>4 DEF Current, vars
  <2> HIDE DEF t, rows
  <2> QED BY <2>1, <2>2, <2>5, PrivateStep
<1>4. ASSUME NEW w \in Workers, OrderNotFound(w) PROVE UNCHANGED vars /\ TxInv'
  <2>1. UNCHANGED vars /\ EndTx(w) BY <1>4 DEF OrderNotFound
  <2> QED BY <2>1, EndStep
<1>5. ASSUME NEW w \in Workers, SkipTransition(w) PROVE UNCHANGED vars /\ TxInv'
  <2>1. UNCHANGED vars /\ EndTx(w) BY <1>5 DEF SkipTransition
  <2> QED BY <2>1, EndStep
<1>6. ASSUME NEW w \in Workers, Rollback(w) PROVE UNCHANGED vars /\ TxInv'
  <2>1. UNCHANGED vars /\ EndTx(w) BY <1>6 DEF Rollback, FailTx
  <2> QED BY <2>1, EndStep
<1>7. ASSUME NEW w \in Workers, CommitTransition(w) PROVE Next /\ TxInv'
  <2>1. Next BY <1>7, CommitIsHandle DEF Next
  <2>2. PICK status : SetStatus(tx[w].event, status) BY <1>7, CommitIsHandle
  <2>3. tx[w].step = "read" /\ tx[w] # Idle /\ EndTx(w)
    BY <1>7 DEF CommitTransition, In, Idle
  <2>4. TxInv' BY <2>2, <2>3, CommitStep
  <2> QED BY <2>1, <2>4
<1>8. ASSUME UNCHANGED txVars PROVE UNCHANGED vars /\ TxInv'
  <2>1. UNCHANGED <<vars, locks, tx>> BY <1>8 DEF txVars
  <2> QED BY <2>1 DEF TxInv, Current, vars
<1> QED BY <1>1, <1>2, <1>3, <1>4, <1>5, <1>6, <1>7, <1>8 DEF TxNext, Statement

(* Two goroutines never hold the same lock, and what a transaction read is *)
(* still true when it commits.                                             *)
THEOREM ReadsStayTrue == TxSpec => []TxInv
<1>1. TxInit => IInv /\ TxInv BY InitIInv, TxInitInv DEF TxInit
<1>2. IInv /\ TxInv /\ [TxNext]_txVars => (IInv /\ TxInv)' BY TxStep, StepIInv
<1> QED BY <1>1, <1>2, PTL DEF TxSpec

(* The goroutines of the order service implement its atomic handlers.      *)
THEOREM HandlersSerialize == TxSpec => Serializable
<1>1. TxInit => Init /\ IInv /\ TxInv BY InitIInv, TxInitInv DEF TxInit
<1>2. IInv /\ TxInv /\ [TxNext]_txVars => [Next]_vars /\ (IInv /\ TxInv)'
  BY TxStep, StepIInv
<1> QED BY <1>1, <1>2, PTL DEF TxSpec, Serializable, Spec

(* However the goroutines of several processes interleave, the service     *)
(* announces at most one verdict on an order.                              *)
THEOREM InterleavedVerdicts == TxSpec => []OneVerdict
BY HandlersSerialize, VerdictIsUnique, PTL DEF Serializable

(* The outbox stays true to the orders table under every interleaving.     *)
THEOREM InterleavedOutbox == TxSpec => []OutboxMatchesOrders
BY HandlersSerialize, OutboxIsTrue, PTL DEF Serializable

(* Failures are compensated for, and only they, under every interleaving.  *)
THEOREM InterleavedCompensations == TxSpec => []CompensationsFollowFailures
BY HandlersSerialize, FailuresAreCompensated, PTL DEF Serializable
=============================================================================

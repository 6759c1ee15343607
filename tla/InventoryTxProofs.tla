------------------------- MODULE InventoryTxProofs --------------------------
(***************************************************************************)
(* The goroutines of the inventory service, for any number of them, any    *)
(* stock and any events: row locks make every handler one atomic step.     *)
(*                                                                         *)
(* No two open transactions hold the same lock, so the stock and the       *)
(* reservations a transaction read stay as they were until it commits. In  *)
(* the loop over an order's reservations, the copy of a stock row is the   *)
(* table's row less what the loop has settled so far; that the loop never  *)
(* skips a reservation follows from the books (IInv). When the loop is     *)
(* over, what it writes is what the handler of InventoryService computes   *)
(* at once.                                                                *)
(***************************************************************************)
EXTENDS InventoryTx, InventoryProofs

(* After ReadStock: the copy of the stock row, if any, is the table's row. *)
Reading(w) ==
    LET event == tx[w].event
        copy  == tx[w].stock
    IN /\ event.event_type = EventTypeOrderCreated
       /\ DOMAIN copy = {event.product_id} \cap DOMAIN inventory
       /\ \A p \in DOMAIN copy : StockRow(p) \subseteq locks[w] /\ copy[p] = inventory[p]

(* In the loop: every reservation of the order is locked, those still held *)
(* are settled or to be settled, and the copy is what settling makes of    *)
(* the table.                                                              *)
Looping(w) ==
    LET event == tx[w].event
        copy  == tx[w].stock
        todo  == tx[w].todo
        done  == tx[w].done
    IN /\ event.event_type \in Settling
       /\ tx[w] = [step |-> "loop", event |-> event, stock |-> copy, todo |-> todo,
                   done |-> done]
       /\ ReservationRows(event.order_id) \subseteq locks[w]
       /\ todo \cup done = Held(event.order_id)
       /\ todo \cap done = {}
       /\ \A p \in DOMAIN copy :
             /\ p \in DOMAIN inventory /\ StockRow(p) \subseteq locks[w]
             /\ copy[p] = Settled(event.event_type, inventory[p], Quantity(done, p))
       /\ \A i \in done : reservations[i].product_id \in DOMAIN copy

(* An open transaction w: its event is new and locked, and what it read is *)
(* still true.                                                             *)
Current(w) ==
    /\ tx[w].event \in Inbound
    /\ tx[w].event.event_id \notin processed_events
    /\ EventRow(tx[w].event) \subseteq locks[w]
    /\ Arrives(tx[w].event)
    /\ \/ tx[w].step = "marked"
       \/ tx[w].step = "read" /\ Reading(w)
       \/ tx[w].step = "loop" /\ Looping(w)

TxInv ==
    /\ tx = [w \in Workers |-> tx[w]]
    /\ locks = [w \in Workers |-> locks[w]]
    /\ \A v, w \in Workers : v # w => locks[v] \cap locks[w] = {}
    /\ \A w \in Workers : tx[w] = Idle \/ Current(w)

(* Nothing is locked, no transaction is open. *)
LEMMA TxInitInv == TxInit => TxInv
BY DEF TxInit, TransactionsInit, TxInv

-----------------------------------------------------------------------------
(* What the loop settles *)

(* A part of some reservations is for no more units than all of them.      *)
LEMMA PartTotal ==
    ASSUME NEW table, NEW I, IsFiniteSet(I), \A i \in I : table[i].quantity \in Nat,
           NEW J, J \subseteq I
    PROVE  Total(table, J) \in Nat /\ Total(table, J) <= Total(table, I)
<1>1. /\ Total(table, J) \in Nat
      /\ Total(table, I \ J) \in Nat
      /\ Total(table, I) = Total(table, J) + Total(table, I \ J)
  BY TotalSplit
<1> QED BY <1>1

(* The reservations still held are within the reserved quantity.           *)
LEMMA HeldFits ==
    ASSUME IInv, NEW I, I \subseteq WithStatus(reservations, ReservationStatusReserved),
           NEW p \in Products
    PROVE  Quantity(I, p) \in Nat /\ Quantity(I, p) <= inventory[p].reserved_quantity
<1>1. PICK R : R = OfProduct(reservations, WithStatus(reservations, ReservationStatusReserved), p)
  OBVIOUS
<1>2. PICK J : J = OfProduct(reservations, I, p) OBVIOUS
<1>3. reservations \in Seq(Reservations(OrderIDs)) BY DEF IInv, TypeOK, OrderIDs
<1>4. J \subseteq R /\ R \subseteq DOMAIN reservations BY <1>1, <1>2 DEF OfProduct, WithStatus
<1>5. IsFiniteSet(R) /\ \A i \in R : reservations[i].quantity \in Nat
  BY <1>3, <1>4, TableFacts
<1>6. Total(reservations, J) \in Nat /\ Total(reservations, J) <= Total(reservations, R)
  BY <1>4, <1>5, PartTotal
<1>7. inventory[p].reserved_quantity = Total(reservations, R)
  BY <1>1 DEF IInv, StockAccounting, Quantity
<1>8. Quantity(I, p) = Total(reservations, J) BY <1>2 DEF Quantity
<1> QED BY <1>6, <1>7, <1>8

(* One more reservation adds its quantity to the total of its product.     *)
LEMMA QuantityAdds ==
    ASSUME IInv, NEW I, I \subseteq DOMAIN reservations,
           NEW i \in DOMAIN reservations, i \notin I, NEW p
    PROVE  /\ Quantity(I, p) \in Nat /\ reservations[i].quantity \in Nat
           /\ Quantity(I \cup {i}, p)
                 = Quantity(I, p)
                   + (IF reservations[i].product_id = p THEN reservations[i].quantity ELSE 0)
<1>1. PICK J : J = OfProduct(reservations, I, p) OBVIOUS
<1>2. PICK K : K = OfProduct(reservations, I \cup {i}, p) OBVIOUS
<1>3. reservations \in Seq(Reservations(OrderIDs)) BY DEF IInv, TypeOK, OrderIDs
<1>4. /\ J \subseteq K /\ K \subseteq DOMAIN reservations
      /\ K \ J = IF reservations[i].product_id = p THEN {i} ELSE {}
  BY <1>1, <1>2 DEF OfProduct
<1>5. /\ IsFiniteSet(K) /\ \A k \in K : reservations[k].quantity \in Nat
      /\ reservations[i].quantity \in Nat
  BY <1>3, <1>4, TableFacts
<1>6. /\ Total(reservations, J) \in Nat
      /\ Total(reservations, K) = Total(reservations, J) + Total(reservations, K \ J)
  <2>1. J \subseteq K /\ IsFiniteSet(K) /\ \A k \in K : reservations[k].quantity \in Nat
    BY <1>4, <1>5
  <2>2. Total(reservations, J) \in Nat BY <2>1, TotalSplit
  <2>3. Total(reservations, K) = Total(reservations, J) + Total(reservations, K \ J)
    BY <2>1, TotalSplit
  <2> QED BY <2>2, <2>3
<1>7. Total(reservations, K \ J)
        = IF reservations[i].product_id = p THEN reservations[i].quantity ELSE 0
  <2>1. CASE reservations[i].product_id = p BY <1>4, <1>5, <2>1, TotalSingleton
  <2>2. CASE reservations[i].product_id # p BY <1>4, <2>2, TotalEmpty
  <2> QED BY <2>1, <2>2
<1>8. Quantity(I, p) = Total(reservations, J) /\ Quantity(I \cup {i}, p) = Total(reservations, K)
  BY <1>1, <1>2 DEF Quantity
<1> QED BY <1>5, <1>6, <1>7, <1>8

(* Nothing of a product, no units of it.                                   *)
LEMMA QuantityNone ==
    ASSUME NEW I, NEW p, \A i \in I : reservations[i].product_id # p
    PROVE  Quantity(I, p) = 0
<1>1. OfProduct(reservations, I, p) = {} BY DEF OfProduct
<1> QED BY <1>1, TotalEmpty DEF Quantity

(* A stock row is its two quantities.                                      *)
IntStock == [quantity : Int, reserved_quantity : Int]

(* A stock row is its two numbers. *)
LEMMA SameRow ==
    ASSUME NEW x \in IntStock, NEW y \in IntStock,
           x.quantity = y.quantity, x.reserved_quantity = y.reserved_quantity
    PROVE  x = y
BY DEF IntStock

(* What Release and Commit make of a stock row.                            *)
LEMMA SettledRow ==
    ASSUME NEW row \in IntStock, NEW c \in Nat, c <= row.reserved_quantity
    PROVE  /\ Release(row, c) \in IntStock /\ Commit(row, c) \in IntStock
           /\ Release(row, c).quantity = row.quantity
           /\ Release(row, c).reserved_quantity = row.reserved_quantity - c
           /\ Commit(row, c).quantity = row.quantity - c
           /\ Commit(row, c).reserved_quantity = row.reserved_quantity - c
<1>1. row.quantity \in Int /\ row.reserved_quantity \in Int BY DEF IntStock
<1>2. /\ Release(row, c) \in IntStock
      /\ Release(row, c).quantity = row.quantity
      /\ Release(row, c).reserved_quantity = row.reserved_quantity - c
  BY <1>1 DEF Release, IntStock
<1>3. PICK a \in Int, b \in Int : a = row.quantity - c /\ b = row.reserved_quantity - c BY <1>1
<1>4. Commit(row, c) = [row EXCEPT !.quantity = a, !.reserved_quantity = b]
  BY <1>3 DEF Commit, IntStock
<1>5. /\ [row EXCEPT !.quantity = a, !.reserved_quantity = b] \in IntStock
      /\ [row EXCEPT !.quantity = a, !.reserved_quantity = b].quantity = a
      /\ [row EXCEPT !.quantity = a, !.reserved_quantity = b].reserved_quantity = b
  BY DEF IntStock
<1> QED BY <1>2, <1>3, <1>4, <1>5

(* Settling two amounts one after the other, while they are reserved, is   *)
(* settling both at once, and settling nothing leaves the row.             *)
LEMMA SettleAdds ==
    ASSUME NEW type \in Settling, NEW row \in Stock, NEW a \in Nat, NEW b \in Nat,
           a + b <= row.reserved_quantity
    PROVE  /\ Settled(type, Settled(type, row, a), b) = Settled(type, row, a + b)
           /\ CanSettle(type, Settled(type, row, a), b)
           /\ Settled(type, row, 0) = row
<1>1. row \in IntStock /\ row.quantity \in Int /\ row.reserved_quantity \in Int
  BY DEF Stock, IntStock
<1>2. /\ a <= row.reserved_quantity /\ a + b \in Nat /\ 0 <= row.reserved_quantity
      /\ b <= row.reserved_quantity - a
  BY <1>1
<1>3. Release(Release(row, a), b) = Release(row, a + b)
  <2>1. PICK x : x = Release(row, a) OBVIOUS
  <2>2. x \in IntStock /\ x.quantity = row.quantity /\ x.reserved_quantity = row.reserved_quantity - a
    BY <1>1, <1>2, <2>1, SettledRow
  <2>3. /\ Release(x, b) \in IntStock /\ Release(x, b).quantity = row.quantity
        /\ Release(x, b).reserved_quantity = row.reserved_quantity - a - b
    BY <1>2, <2>2, SettledRow
  <2>4. /\ Release(row, a + b) \in IntStock /\ Release(row, a + b).quantity = row.quantity
        /\ Release(row, a + b).reserved_quantity = row.reserved_quantity - (a + b)
    BY <1>1, <1>2, SettledRow
  <2>5. Release(x, b).reserved_quantity = Release(row, a + b).reserved_quantity
    BY <1>1, <2>3, <2>4
  <2> QED BY <2>1, <2>3, <2>4, <2>5, SameRow
<1>4. Commit(Commit(row, a), b) = Commit(row, a + b)
  <2>1. PICK x : x = Commit(row, a) OBVIOUS
  <2>2. /\ x \in IntStock /\ x.quantity = row.quantity - a
        /\ x.reserved_quantity = row.reserved_quantity - a
    BY <1>1, <1>2, <2>1, SettledRow
  <2>3. /\ Commit(x, b) \in IntStock /\ Commit(x, b).quantity = row.quantity - a - b
        /\ Commit(x, b).reserved_quantity = row.reserved_quantity - a - b
    BY <1>2, <2>2, SettledRow
  <2>4. /\ Commit(row, a + b) \in IntStock /\ Commit(row, a + b).quantity = row.quantity - (a + b)
        /\ Commit(row, a + b).reserved_quantity = row.reserved_quantity - (a + b)
    BY <1>1, <1>2, SettledRow
  <2>5. /\ Commit(x, b).reserved_quantity = Commit(row, a + b).reserved_quantity
        /\ Commit(x, b).quantity = Commit(row, a + b).quantity
    BY <1>1, <2>3, <2>4
  <2> QED BY <2>1, <2>3, <2>4, <2>5, SameRow
<1>5. Settled(type, Settled(type, row, a), b) = Settled(type, row, a + b)
  BY <1>3, <1>4 DEF Settled
<1>6. CanSettle(type, Settled(type, row, a), b)
  <2>1. Commit(row, a).reserved_quantity >= b BY <1>1, <1>2, SettledRow
  <2> QED BY <2>1 DEF Settled, CanSettle, EventTypeOrderCancelled, EventTypeOrderCompleted
<1>7. Settled(type, row, 0) = row
  <2>1. /\ Release(row, 0) \in IntStock /\ Commit(row, 0) \in IntStock
        /\ Release(row, 0).quantity = row.quantity
        /\ Release(row, 0).reserved_quantity = row.reserved_quantity - 0
        /\ Commit(row, 0).quantity = row.quantity - 0
        /\ Commit(row, 0).reserved_quantity = row.reserved_quantity - 0
    BY <1>1, <1>2, SettledRow
  <2>2. Release(row, 0) = row
    <3>1. Release(row, 0).reserved_quantity = row.reserved_quantity BY <1>1, <2>1
    <3> QED BY <1>1, <2>1, <3>1, SameRow
  <2>3. Commit(row, 0) = row
    <3>1. /\ Commit(row, 0).reserved_quantity = row.reserved_quantity
          /\ Commit(row, 0).quantity = row.quantity
      BY <1>1, <2>1
    <3> QED BY <1>1, <2>1, <3>1, SameRow
  <2> QED BY <2>2, <2>3 DEF Settled
<1> QED BY <1>5, <1>6, <1>7

-----------------------------------------------------------------------------
(* What a step of others leaves of an open transaction *)

(* The step leaves w's transaction and locks alone, changes no row that w  *)
(* has locked, handles other events than w's and adds no reservation of an *)
(* order that w settles.                                                   *)
Keeps(w) ==
    /\ tx'[w] = tx[w] /\ locks'[w] = locks[w]
    /\ processed_events \subseteq processed_events'
    /\ tx[w].event.event_id \notin processed_events'
    /\ DOMAIN inventory' = DOMAIN inventory
    /\ \A p \in DOMAIN inventory : StockRow(p) \subseteq locks[w] => inventory'[p] = inventory[p]
    /\ DOMAIN reservations \subseteq DOMAIN reservations'
    /\ \A i \in DOMAIN reservations :
          /\ reservations'[i].order_id = reservations[i].order_id
          /\ <<"reservations", i>> \in locks[w] => reservations'[i] = reservations[i]
    /\ \A i \in DOMAIN reservations' \ DOMAIN reservations :
          tx[w].event.event_type \in Settling
             => reservations'[i].order_id # tx[w].event.order_id

(* What a transaction read under its locks stays current in other workers' steps. *)
LEMMA KeepsCurrent ==
    ASSUME NEW w, Current(w), Keeps(w)
    PROVE  Current(w)'
<1>1. PICK e : e = tx[w].event OBVIOUS
<1>2. /\ e \in Inbound /\ e.event_id \notin processed_events'
      /\ EventRow(e) \subseteq locks'[w] /\ tx'[w] = tx[w] /\ tx'[w].event = e
  BY <1>1 DEF Current, Keeps
<1>3. Arrives(e)' BY <1>1 DEF Current, Keeps, Arrives
<1>4. Arrives(tx[w].event)' BY <1>1, <1>2, <1>3 DEF Arrives
<1>5. CASE tx[w].step = "marked" BY <1>1, <1>2, <1>4, <1>5 DEF Current
<1>6. CASE tx[w].step = "read" /\ Reading(w)
  <2>1. Reading(w)' BY <1>6 DEF Reading, Keeps, StockRow
  <2> QED BY <1>1, <1>2, <1>4, <1>6, <2>1 DEF Current
<1>7. CASE tx[w].step = "loop" /\ Looping(w)
  <2>1. PICK id : id = e.order_id OBVIOUS
  <2>2. /\ e.event_type \in Settling
        /\ ReservationRows(id) \subseteq locks[w]
        /\ tx[w].todo \cup tx[w].done = Held(id)
    BY <1>1, <1>7, <2>1 DEF Looping
  <2>3. \A i \in DOMAIN reservations : reservations[i].order_id = id
           => <<"reservations", i>> \in locks[w] /\ reservations'[i] = reservations[i]
    BY <2>2 DEF ReservationRows, Keeps
  <2>4. \A i \in DOMAIN reservations' :
           reservations'[i].order_id = id
              => i \in DOMAIN reservations /\ reservations[i].order_id = id
    BY <1>1, <2>1, <2>2 DEF Keeps
  <2>5. \A i \in DOMAIN reservations : i \in DOMAIN reservations' BY DEF Keeps
  <2>6. ReservationRows(id)' = ReservationRows(id)
    BY <2>3, <2>4, <2>5 DEF ReservationRows
  <2>7. Held(id)' = Held(id)
    BY <2>3, <2>4, <2>5 DEF Held
  <2>8. \A i \in tx[w].done : i \in DOMAIN reservations /\ reservations'[i] = reservations[i]
    BY <2>2, <2>3 DEF Held
  <2>9. \A p : Quantity(tx[w].done, p)' = Quantity(tx[w].done, p)
    <3>1. PICK D : D = tx[w].done OBVIOUS
    <3>2. tx'[w].done = D BY <1>2, <3>1
    <3>3. ASSUME NEW p
          PROVE  Total(reservations', OfProduct(reservations', D, p))
                    = Total(reservations, OfProduct(reservations, D, p))
      <4>1. OfProduct(reservations', D, p) = OfProduct(reservations, D, p)
        BY <2>8, <3>1 DEF OfProduct
      <4>2. PICK I : I = OfProduct(reservations, D, p) OBVIOUS
      <4>3. \A i \in I : reservations'[i].quantity = reservations[i].quantity
        BY <2>8, <3>1, <4>2 DEF OfProduct
      <4>4. Total(reservations', I) = Total(reservations, I) BY <4>3, TotalSame
      <4> QED BY <4>1, <4>2, <4>4
    <3> QED BY <3>1, <3>2, <3>3 DEF Quantity
  <2>10. Looping(w)'
    <3>1. /\ tx'[w].stock = tx[w].stock /\ tx'[w].todo = tx[w].todo /\ tx'[w].done = tx[w].done
          /\ locks'[w] = locks[w]
      BY <1>2 DEF Keeps
    <3>2. \A p \in DOMAIN tx[w].stock :
             /\ p \in DOMAIN inventory' /\ StockRow(p) \subseteq locks'[w]
             /\ tx[w].stock[p] = Settled(e.event_type, inventory'[p], Quantity(tx[w].done, p))
      BY <1>1, <1>7, <3>1 DEF Looping, Keeps
    <3>3. \A i \in tx[w].done : reservations'[i].product_id \in DOMAIN tx[w].stock
      BY <1>7, <2>8 DEF Looping
    <3> QED BY <1>1, <1>2, <1>7, <2>1, <2>6, <2>7, <2>9, <3>1, <3>2, <3>3 DEF Looping, StockRow
  <2> QED BY <1>1, <1>2, <1>4, <1>7, <2>10 DEF Current
<1> QED BY <1>5, <1>6, <1>7 DEF Current

(* A step of worker w keeps the invariant when it takes free locks or      *)
(* releases its own, leaves a correct transaction behind and keeps what    *)
(* the others have.                                                        *)
LEMMA WorkerStep ==
    ASSUME TxInv, NEW w \in Workers, NEW t, NEW rows,
           tx' = [tx EXCEPT ![w] = t], locks' = [locks EXCEPT ![w] = rows],
           \A v \in Workers \ {w} : rows \cap locks[v] = {},
           t = Idle \/ Current(w)',
           \A v \in Workers \ {w} : tx[v] = Idle \/ Keeps(v)
    PROVE  TxInv'
<1>1. /\ tx' = [v \in Workers |-> tx'[v]]
      /\ locks' = [v \in Workers |-> locks'[v]]
      /\ tx'[w] = t /\ locks'[w] = rows
      /\ \A v \in Workers \ {w} : tx'[v] = tx[v] /\ locks'[v] = locks[v]
  BY DEF TxInv
<1>2. \A u, v \in Workers : u # v => locks'[u] \cap locks'[v] = {}
  BY <1>1 DEF TxInv
<1>3. ASSUME NEW v \in Workers \ {w} PROVE tx'[v] = Idle \/ Current(v)'
  <2>1. CASE tx[v] = Idle BY <1>1, <2>1
  <2>2. CASE tx[v] # Idle
    <3>1. Current(v) /\ Keeps(v) BY <2>2 DEF TxInv
    <3> QED BY <3>1, KeepsCurrent
  <2> QED BY <2>1, <2>2
<1> QED BY <1>1, <1>2, <1>3 DEF TxInv

(* A step that changes no table keeps what other transactions have.        *)
LEMMA UnchangedKeeps ==
    ASSUME NEW w, Current(w), UNCHANGED vars, tx'[w] = tx[w], locks'[w] = locks[w]
    PROVE  Keeps(w)
BY DEF Current, Keeps, vars

(* One worker's transaction goes on without touching the tables.           *)
LEMMA PrivateStep ==
    ASSUME TxInv, UNCHANGED vars, NEW w \in Workers, NEW rows, NEW t,
           Lock(w, rows), tx' = [tx EXCEPT ![w] = t], Current(w)'
    PROVE  TxInv'
<1>1. PICK all : all = locks[w] \cup rows OBVIOUS
<1>2. locks' = [locks EXCEPT ![w] = all] BY <1>1 DEF Lock
<1>3. \A v \in Workers \ {w} : all \cap locks[v] = {}
  BY <1>1 DEF Lock, LockedElsewhere, TxInv
<1>4. ASSUME NEW v \in Workers \ {w} PROVE tx[v] = Idle \/ Keeps(v)
  <2>1. tx'[v] = tx[v] /\ locks'[v] = locks[v] BY <1>2 DEF TxInv
  <2> QED BY <2>1, UnchangedKeeps DEF TxInv
<1> QED BY <1>2, <1>3, <1>4, WorkerStep

(* A transaction ends, without a trace or with a commit that keeps what    *)
(* the others have.                                                        *)
LEMMA EndStep ==
    ASSUME TxInv, NEW w \in Workers, EndTx(w),
           UNCHANGED vars \/ \A v \in Workers \ {w} : tx[v] = Idle \/ Keeps(v)
    PROVE  TxInv'
<1>1. tx' = [tx EXCEPT ![w] = Idle] /\ locks' = [locks EXCEPT ![w] = {}] BY DEF EndTx
<1>2. ASSUME NEW v \in Workers \ {w} PROVE tx[v] = Idle \/ Keeps(v)
  <2>1. CASE UNCHANGED vars
    <3>1. tx'[v] = tx[v] /\ locks'[v] = locks[v] BY <1>1 DEF TxInv
    <3> QED BY <2>1, <3>1, UnchangedKeeps DEF TxInv
  <2> QED BY <2>1
<1>3. \A v \in Workers \ {w} : {} \cap locks[v] = {} OBVIOUS
<1>4. PICK t : t = Idle OBVIOUS
<1>5. tx' = [tx EXCEPT ![w] = t] BY <1>1, <1>4
<1>6. t = Idle \/ Current(w)' BY <1>4
<1> QED BY <1>1, <1>2, <1>3, <1>5, <1>6, WorkerStep

-----------------------------------------------------------------------------
(* The statements before Commit *)

(* A transaction that begins has read nothing yet. *)
LEMMA BeginInv ==
    ASSUME TxInv, NEW w \in Workers, NEW event \in Inbound, Arrives(event), Begin(w, event)
    PROVE  TxInv'
<1>1. PICK t : t = [step |-> "marked", event |-> event] OBVIOUS
<1>2. /\ UNCHANGED vars /\ event.event_id \notin processed_events
      /\ Lock(w, EventRow(event)) /\ tx' = [tx EXCEPT ![w] = t]
  BY <1>1 DEF Begin, BeginTx, AlreadyProcessed
<1>3. tx'[w] = t /\ EventRow(event) \subseteq locks'[w] BY <1>2 DEF TxInv, Lock
<1>4. Arrives(event)' BY <1>2 DEF Arrives, vars
<1>5. tx'[w].event = event /\ tx'[w].step = "marked" BY <1>1, <1>3
<1>6. Current(w)' BY <1>2, <1>3, <1>4, <1>5 DEF Current, vars, Arrives
<1> QED BY <1>2, <1>6, PrivateStep

(* SELECT ... FOR UPDATE of the stock row: what is read is what is stored. *)
LEMMA ReadStockInv ==
    ASSUME TxInv, NEW w \in Workers, ReadStock(w)
    PROVE  TxInv'
<1>1. PICK e : e = tx[w].event OBVIOUS
<1>2. PICK known : known = {e.product_id} \cap DOMAIN inventory OBVIOUS
<1>3. PICK copy : copy = [p \in known |-> inventory[p]] OBVIOUS
<1>4. PICK t : t = [step |-> "read", event |-> e, stock |-> copy] OBVIOUS
<1>5. PICK rows : rows = UNION {StockRow(p) : p \in known} OBVIOUS
<1>6. /\ UNCHANGED vars /\ tx[w].step = "marked" /\ e.event_type = EventTypeOrderCreated
      /\ Lock(w, rows) /\ tx' = [tx EXCEPT ![w] = t]
  BY <1>1, <1>2, <1>3, <1>4, <1>5 DEF ReadStock, In
<1>7. Current(w) BY <1>6 DEF TxInv, Idle
<1>8. tx'[w] = t /\ locks'[w] = locks[w] \cup rows BY <1>6 DEF TxInv, Lock
<1>9. tx'[w].step = "read" /\ tx'[w].event = e /\ tx'[w].stock = copy BY <1>4, <1>8
<1>10. Reading(w)'
  <2>1. /\ DOMAIN copy = {e.product_id} \cap DOMAIN inventory'
        /\ \A p \in DOMAIN copy : copy[p] = inventory'[p]
    BY <1>2, <1>3, <1>6 DEF vars
  <2>2. \A p \in DOMAIN copy : StockRow(p) \subseteq locks'[w]
    BY <1>3, <1>5, <1>8
  <2> QED BY <1>6, <1>9, <2>1, <2>2 DEF Reading, StockRow
<1>11. Current(w)' BY <1>1, <1>6, <1>7, <1>8, <1>9, <1>10 DEF Current, vars, Arrives
<1> QED BY <1>6, <1>11, PrivateStep

(* SELECT ... FOR UPDATE of the reservations: the loop is over those still held. *)
LEMMA ReadReservationsInv ==
    ASSUME TxInv, NEW w \in Workers, ReadReservations(w)
    PROVE  TxInv'
<1>1. PICK e : e = tx[w].event OBVIOUS
<1>2. PICK rows : rows = ReservationRows(e.order_id) OBVIOUS
<1>3. PICK held : held = Held(e.order_id) OBVIOUS
<1>4. PICK t : t = [step |-> "loop", event |-> e, stock |-> <<>>, todo |-> held, done |-> {}]
  OBVIOUS
<1>5. /\ UNCHANGED vars /\ tx[w].step = "marked" /\ e.event_type \in Settling
      /\ Lock(w, rows) /\ tx' = [tx EXCEPT ![w] = t]
  BY <1>1, <1>2, <1>3, <1>4 DEF ReadReservations, In
<1>6. Current(w) BY <1>5 DEF TxInv, Idle
<1>7. tx'[w] = t /\ locks'[w] = locks[w] \cup rows BY <1>5 DEF TxInv, Lock
<1>8. /\ tx'[w].step = "loop" /\ tx'[w].event = e /\ tx'[w].stock = <<>>
      /\ tx'[w].todo = held /\ tx'[w].done = {}
  BY <1>4, <1>7
<1>9. Looping(w)'
  <2>1. tx'[w] = [step |-> "loop", event |-> tx'[w].event, stock |-> tx'[w].stock,
                  todo |-> tx'[w].todo, done |-> tx'[w].done]
    BY <1>4, <1>7, <1>8
  <2>2. ReservationRows(e.order_id)' \subseteq locks'[w] /\ Held(e.order_id)' = held
    BY <1>2, <1>3, <1>5, <1>7 DEF vars, ReservationRows, Held
  <2>3. DOMAIN tx'[w].stock = {} BY <1>8
  <2> QED BY <1>5, <1>8, <2>1, <2>2, <2>3 DEF Looping, ReservationRows, Held
<1>10. Current(w)' BY <1>1, <1>5, <1>6, <1>7, <1>8, <1>9 DEF Current, vars, Arrives
<1> QED BY <1>5, <1>10, PrivateStep

(* What the loop's next reservation is: still held, of a known product,    *)
(* and within what is reserved together with those settled before it.      *)
Fits(w, i, p, q, row) ==
    LET type == tx[w].event.event_type
        done == tx[w].done
    IN /\ i \in DOMAIN reservations /\ i \notin done
       /\ p \in DOMAIN inventory
       /\ CanSettle(type, row, q)
       /\ Settled(type, row, q) = Settled(type, inventory[p], Quantity(done \cup {i}, p))
       /\ \A x : x # p => Quantity(done \cup {i}, x) = Quantity(done, x)

(* The next reservation of the settling loop fits. *)
LEMMA NextReservation ==
    ASSUME IInv, NEW w, Looping(w), NEW i \in tx[w].todo,
           NEW p, p = reservations[i].product_id, NEW q, q = reservations[i].quantity,
           NEW row, row = IF p \in DOMAIN tx[w].stock THEN tx[w].stock[p] ELSE inventory[p]
    PROVE  Fits(w, i, p, q, row)
<1>1. PICK D : D = tx[w].done OBVIOUS
<1>2. PICK type : type = tx[w].event.event_type OBVIOUS
<1>3. type \in Settling BY <1>2 DEF Looping
<1>4. /\ i \in Held(tx[w].event.order_id) /\ D \subseteq Held(tx[w].event.order_id)
      /\ i \notin D
  BY <1>1 DEF Looping
<1>5. /\ i \in DOMAIN reservations /\ D \subseteq DOMAIN reservations
      /\ D \cup {i} \subseteq WithStatus(reservations, ReservationStatusReserved)
  BY <1>4 DEF Held, IsReserved, WithStatus
<1>6. reservations \in Seq(Reservations(OrderIDs)) /\ inventory \in [Products -> Stock]
  BY DEF IInv, TypeOK, OrderIDs
<1>7. p \in Products /\ q \in Nat
  <2>1. reservations[i] \in Reservations(OrderIDs) BY <1>5, <1>6, TableFacts
  <2> QED BY <2>1 DEF Reservations
<1>8. Quantity(D, p) \in Nat /\ Quantity(D \cup {i}, p) = Quantity(D, p) + q
  BY <1>4, <1>5, QuantityAdds
<1>9. Quantity(D \cup {i}, p) <= inventory[p].reserved_quantity
  BY <1>5, <1>7, HeldFits
<1>10. \A x : x # p => Quantity(D \cup {i}, x) = Quantity(D, x)
  <2> SUFFICES ASSUME NEW x, x # p PROVE Quantity(D \cup {i}, x) = Quantity(D, x) OBVIOUS
  <2>1. Quantity(D, x) \in Nat /\ Quantity(D \cup {i}, x) = Quantity(D, x) + 0
    BY <1>4, <1>5, QuantityAdds
  <2> QED BY <2>1
<1>11. PICK a \in Nat : a = Quantity(D, p) BY <1>8
<1>12. PICK s \in Stock : s = inventory[p] BY <1>6, <1>7
<1>13. a + q <= s.reserved_quantity BY <1>8, <1>9, <1>11, <1>12
<1>14. /\ Settled(type, Settled(type, s, a), q) = Settled(type, s, a + q)
       /\ CanSettle(type, Settled(type, s, a), q)
       /\ Settled(type, s, 0) = s
  BY <1>3, <1>7, <1>13, SettleAdds
<1>15. row = Settled(type, s, a)
  <2>1. CASE p \in DOMAIN tx[w].stock BY <1>1, <1>2, <1>11, <1>12, <2>1 DEF Looping
  <2>2. CASE p \notin DOMAIN tx[w].stock
    <3>1. \A j \in D : reservations[j].product_id # p BY <1>1, <2>2 DEF Looping
    <3>2. a = 0 BY <1>11, <3>1, QuantityNone
    <3> QED BY <1>12, <1>14, <2>2, <3>2
  <2> QED BY <2>1, <2>2
<1>16. p \in DOMAIN inventory BY <1>6, <1>7
<1>17. Settled(type, row, q) = Settled(type, inventory[p], Quantity(D \cup {i}, p))
  BY <1>8, <1>11, <1>12, <1>14, <1>15
<1> QED BY <1>1, <1>2, <1>4, <1>5, <1>10, <1>14, <1>15, <1>16, <1>17 DEF Fits

(* One round of the settling loop leaves the rest of the loop to do. *)
LEMMA SettleReservationInv ==
    ASSUME IInv, TxInv, NEW w \in Workers, NEW i, SettleReservation(w, i)
    PROVE  TxInv'
<1>1. PICK e : e = tx[w].event OBVIOUS
<1>2. PICK p : p = reservations[i].product_id OBVIOUS
<1>3. PICK q : q = reservations[i].quantity OBVIOUS
<1>4. PICK copy : copy = tx[w].stock OBVIOUS
<1>5. PICK row : row = IF p \in DOMAIN copy THEN copy[p] ELSE inventory[p] OBVIOUS
<1>6. PICK D : D = tx[w].done \cup {i} OBVIOUS
<1>7. PICK new : new = [x \in DOMAIN copy \cup {p} |->
                           IF x # p THEN copy[x] ELSE Settled(e.event_type, row, q)]
  OBVIOUS
<1>8. PICK t : t = [step |-> "loop", event |-> e, stock |-> new, todo |-> tx[w].todo \ {i},
                    done |-> D]
  OBVIOUS
<1>9. /\ UNCHANGED vars /\ tx[w].step = "loop" /\ i \in tx[w].todo /\ Lock(w, StockRow(p))
  BY <1>2 DEF SettleReservation, In
<1>10. Current(w) /\ Looping(w)
  BY <1>9 DEF TxInv, Idle, Current
<1>11. /\ i \in DOMAIN reservations /\ i \notin tx[w].done
       /\ p \in DOMAIN inventory
       /\ CanSettle(e.event_type, row, q)
       /\ Settled(e.event_type, row, q) = Settled(e.event_type, inventory[p], Quantity(D, p))
       /\ \A x : x # p => Quantity(D, x) = Quantity(tx[w].done, x)
  <2>1. row = IF p \in DOMAIN tx[w].stock THEN tx[w].stock[p] ELSE inventory[p]
    BY <1>4, <1>5
  <2>2. Fits(w, i, p, q, row) BY <1>2, <1>3, <1>9, <1>10, <2>1, NextReservation
  <2> QED BY <1>1, <1>6, <2>2 DEF Fits
<1>12. tx' = [tx EXCEPT ![w] = t]
  <2>1. tx' = [tx EXCEPT ![w].todo = tx[w].todo \ {i}, ![w].done = D, ![w].stock = new]
    BY <1>1, <1>2, <1>3, <1>4, <1>5, <1>6, <1>7, <1>11 DEF SettleReservation, TxInv
  <2>2. tx[w] = [step |-> "loop", event |-> e, stock |-> copy, todo |-> tx[w].todo,
                 done |-> tx[w].done]
    BY <1>1, <1>4, <1>10 DEF Looping
  <2>3. PICK old : old = tx[w] OBVIOUS
  <2>4. PICK todo : todo = tx[w].todo \ {i} OBVIOUS
  <2>5. tx' = [tx EXCEPT ![w] = [old EXCEPT !.todo = todo, !.done = D, !.stock = new]]
    BY <2>1, <2>3, <2>4 DEF TxInv
  <2>6. [old EXCEPT !.todo = todo, !.done = D, !.stock = new] = t
    <3>1. PICK a : a = [step |-> "loop", event |-> e, stock |-> copy, todo |-> todo,
                        done |-> old.done]
      OBVIOUS
    <3>2. PICK b : b = [step |-> "loop", event |-> e, stock |-> copy, todo |-> todo,
                        done |-> D]
      OBVIOUS
    <3>3. PICK c : c = [step |-> "loop", event |-> e, stock |-> new, todo |-> todo,
                        done |-> D]
      OBVIOUS
    <3>4. [old EXCEPT !.todo = todo] = a BY <2>2, <2>3, <3>1
    <3>5. [a EXCEPT !.done = D] = b BY <3>1, <3>2
    <3>6. [b EXCEPT !.stock = new] = c BY <3>2, <3>3
    <3>7. [old EXCEPT !.todo = todo, !.done = D, !.stock = new]
             = [[[old EXCEPT !.todo = todo] EXCEPT !.done = D] EXCEPT !.stock = new]
      OBVIOUS
    <3> QED BY <1>8, <2>4, <3>3, <3>4, <3>5, <3>6, <3>7
  <2> QED BY <2>5, <2>6
<1>13. tx'[w] = t /\ locks'[w] = locks[w] \cup StockRow(p) BY <1>9, <1>12 DEF TxInv, Lock
<1>14. /\ tx'[w].step = "loop" /\ tx'[w].event = e /\ tx'[w].stock = new
       /\ tx'[w].todo = tx[w].todo \ {i} /\ tx'[w].done = D
  BY <1>8, <1>13
<1>15. Looping(w)'
  <2>1. tx'[w] = [step |-> "loop", event |-> tx'[w].event, stock |-> tx'[w].stock,
                  todo |-> tx'[w].todo, done |-> tx'[w].done]
    BY <1>8, <1>13, <1>14
  <2>2. /\ ReservationRows(e.order_id)' = ReservationRows(e.order_id)
        /\ Held(e.order_id)' = Held(e.order_id)
    BY <1>9 DEF vars, ReservationRows, Held
  <2>3. ReservationRows(e.order_id)' \subseteq locks'[w]
    BY <1>1, <1>10, <1>13, <2>2 DEF Looping
  <2>4. /\ (tx[w].todo \ {i}) \cup D = Held(e.order_id)'
        /\ (tx[w].todo \ {i}) \cap D = {}
    BY <1>1, <1>6, <1>9, <1>10, <1>11, <2>2 DEF Looping
  <2>5. \A x : Quantity(D, x)' = Quantity(D, x) BY <1>9 DEF vars, Quantity
  <2>6. ASSUME NEW x \in DOMAIN new
        PROVE  /\ x \in DOMAIN inventory' /\ StockRow(x) \subseteq locks'[w]
               /\ new[x] = Settled(e.event_type, inventory'[x], Quantity(D, x))
    <3>1. CASE x = p BY <1>7, <1>9, <1>11, <1>13, <3>1 DEF vars
    <3>2. CASE x # p
      BY <1>1, <1>4, <1>7, <1>9, <1>10, <1>11, <1>13, <3>2 DEF vars, Looping
    <3> QED BY <3>1, <3>2
  <2>7. \A j \in D : reservations'[j].product_id \in DOMAIN new
    BY <1>2, <1>4, <1>6, <1>7, <1>9, <1>10 DEF vars, Looping
  <2>8. e.event_type \in Settling BY <1>1, <1>10 DEF Looping
  <2> QED BY <1>14, <2>1, <2>3, <2>4, <2>5, <2>6, <2>7, <2>8 DEF Looping, StockRow
<1>16. Current(w)' BY <1>1, <1>9, <1>10, <1>13, <1>14, <1>15 DEF Current, vars, Arrives
<1> QED BY <1>9, <1>12, <1>16, PrivateStep

-----------------------------------------------------------------------------
(* Commit *)

(* An order whose OrderCreated event was handled gets no other one.        *)
LEMMA NoLateCreation ==
    ASSUME NEW e \in Inbound, e.event_type = EventTypeOrderCreated,
           e.event_id \notin processed_events,
           NEW f \in Inbound, f.event_type \in Settling, Arrives(f)
    PROVE  e.order_id # f.order_id
BY CreationAssumption DEF Arrives

(* The commit of a reservation is a step of the atomic handler, and the    *)
(* rows it changes are locked by w or new.                                 *)
LEMMA CommitReservationHandles ==
    ASSUME IInv, TxInv, NEW w \in Workers, CommitReservation(w)
    PROVE  Next /\ TxInv'
<1>1. PICK e : e = tx[w].event OBVIOUS
<1>2. PICK copy : copy = tx[w].stock OBVIOUS
<1>3. /\ tx[w].step = "read" /\ e.event_type = EventTypeOrderCreated /\ EndTx(w)
      /\ \/ Reservable(copy, e) /\ ReserveStock(copy, e)
         \/ ~Reservable(copy, e) /\ RejectReservation(e)
      /\ processed_events' = MarkProcessed(processed_events, e)
  BY <1>1, <1>2 DEF CommitReservation, In
<1>4. Current(w) /\ Reading(w) BY <1>3 DEF TxInv, Idle, Current
<1>5. /\ e \in Inbound /\ e.event_id \notin processed_events
      /\ <<"processed_events", e.event_id>> \in locks[w]
  BY <1>1, <1>4 DEF Current, EventRow
<1>6. /\ DOMAIN copy = {e.product_id} \cap DOMAIN inventory
      /\ \A p \in DOMAIN copy : StockRow(p) \subseteq locks[w] /\ copy[p] = inventory[p]
  BY <1>1, <1>2, <1>4 DEF Reading
<1>7. Reservable(copy, e) <=> Reservable(inventory, e) BY <1>6 DEF Reservable
<1>8. Reservable(copy, e) /\ ReserveStock(copy, e) => ReserveStock(inventory, e)
  BY <1>6 DEF Reservable, ReserveStock
<1>9. Handle(e)
  <2>1. HandleOrderCreated(e) BY <1>3, <1>5, <1>7, <1>8 DEF HandleOrderCreated, AlreadyProcessed
  <2> QED BY <1>3, <2>1 DEF Handle
<1>10. Next BY <1>5, <1>9 DEF Next
<1>11. reservations \in Seq(Reservations(OrderIDs)) /\ inventory \in [Products -> Stock]
  BY DEF IInv, TypeOK, OrderIDs
<1>12. /\ DOMAIN inventory' = DOMAIN inventory
       /\ \A p \in DOMAIN inventory : StockRow(p) \subseteq locks[w] \/ inventory'[p] = inventory[p]
  <2>1. CASE Reservable(copy, e) /\ ReserveStock(copy, e)
    BY <1>6, <2>1 DEF Reservable, ReserveStock
  <2>2. CASE RejectReservation(e) BY <2>2 DEF RejectReservation
  <2> QED BY <1>3, <2>1, <2>2
<1>13. /\ DOMAIN reservations \subseteq DOMAIN reservations'
       /\ \A i \in DOMAIN reservations : reservations'[i] = reservations[i]
       /\ \A i \in DOMAIN reservations' \ DOMAIN reservations :
             reservations'[i].order_id = e.order_id
  <2>1. CASE Reservable(copy, e) /\ ReserveStock(copy, e)
    <3>1. PICK row : row = NewReservation(e.order_id, e.product_id, e.quantity) OBVIOUS
    <3>2. reservations' = Append(reservations, row) /\ row.order_id = e.order_id
      BY <2>1, <3>1 DEF ReserveStock, NewReservation
    <3> QED BY <1>11, <3>2
  <2>2. CASE RejectReservation(e) BY <2>2 DEF RejectReservation
  <2> QED BY <1>3, <2>1, <2>2
<1>14. ASSUME NEW v \in Workers \ {w}, tx[v] # Idle PROVE Keeps(v)
  <2>1. Current(v) /\ locks[v] \cap locks[w] = {} BY <1>14 DEF TxInv
  <2>2. tx'[v] = tx[v] /\ locks'[v] = locks[v] BY <1>3 DEF TxInv, EndTx
  <2>3. /\ processed_events' = processed_events \cup {e.event_id}
        /\ tx[v].event.event_id \notin processed_events'
    <3>1. <<"processed_events", tx[v].event.event_id>> \in locks[v]
      BY <2>1 DEF Current, EventRow
    <3>2. tx[v].event.event_id # e.event_id BY <1>5, <2>1, <3>1
    <3> QED BY <1>3, <2>1, <3>2 DEF MarkProcessed, Current
  <2>4. \A p \in DOMAIN inventory : StockRow(p) \subseteq locks[v] => inventory'[p] = inventory[p]
    BY <1>12, <2>1 DEF StockRow
  <2>5. tx[v].event.event_type \in Settling => tx[v].event.order_id # e.order_id
    BY <1>3, <1>5, <2>1, NoLateCreation DEF Current
  <2> QED BY <1>12, <1>13, <2>2, <2>3, <2>4, <2>5 DEF Keeps
<1>15. TxInv' BY <1>3, <1>14, EndStep
<1> QED BY <1>10, <1>15

(* What the loop leaves to write: the settled stock and the reservations   *)
(* of the order that were held, all of them.                               *)
LEMMA LoopResult ==
    ASSUME IInv, NEW w, Looping(w), tx[w].todo = {}
    PROVE  LET e    == tx[w].event
               held == Held(e.order_id)
           IN /\ tx[w].done = held
              /\ \A p \in DOMAIN inventory :
                    (IF p \in DOMAIN tx[w].stock THEN tx[w].stock[p] ELSE inventory[p])
                       = Settled(e.event_type, inventory[p], Quantity(held, p))
<1>1. PICK e : e = tx[w].event OBVIOUS
<1>2. PICK D : D = tx[w].done OBVIOUS
<1>3. D = Held(e.order_id) /\ e.event_type \in Settling BY <1>1, <1>2 DEF Looping
<1>4. ASSUME NEW p \in DOMAIN inventory
      PROVE  (IF p \in DOMAIN tx[w].stock THEN tx[w].stock[p] ELSE inventory[p])
                = Settled(e.event_type, inventory[p], Quantity(D, p))
  <2>1. CASE p \in DOMAIN tx[w].stock BY <1>1, <1>2, <2>1 DEF Looping
  <2>2. CASE p \notin DOMAIN tx[w].stock
    <3>1. Quantity(D, p) = 0 BY <1>2, <2>2, QuantityNone DEF Looping
    <3>2. PICK s \in Stock : s = inventory[p] BY DEF IInv, TypeOK
    <3>3. Settled(e.event_type, s, 0) = s
      <4>1. 0 \in Nat /\ 0 + 0 <= s.reserved_quantity BY DEF Stock
      <4> QED BY <1>3, <4>1, SettleAdds
    <3> QED BY <2>2, <3>1, <3>2, <3>3
  <2> QED BY <2>1, <2>2
<1> QED BY <1>1, <1>2, <1>3, <1>4

(* Every reservation of the order that is held fits into what is reserved. *)
LEMMA HeldCommittable ==
    ASSUME IInv, NEW id
    PROVE  Committable(Held(id), Held(id))
<1>1. PICK H : H = Held(id) OBVIOUS
<1>2. H \subseteq WithStatus(reservations, ReservationStatusReserved)
  BY <1>1 DEF Held, IsReserved, WithStatus
<1>3. DOMAIN inventory = Products BY DEF IInv, TypeOK
<1>4. \A p \in DOMAIN inventory : Quantity(H, p) <= inventory[p].reserved_quantity
  BY <1>2, <1>3, HeldFits
<1>5. \A p : OfProduct(reservations, H \ H, p) = {} BY DEF OfProduct
<1> QED BY <1>1, <1>4, <1>5 DEF Committable

(* The commit of a settlement is a step of the atomic handler, and the     *)
(* rows it changes are locked by w.                                        *)
LEMMA CommitSettlementHandles ==
    ASSUME IInv, TxInv, NEW w \in Workers, CommitSettlement(w)
    PROVE  Next /\ TxInv'
<1>1. PICK e : e = tx[w].event OBVIOUS
<1>2. PICK copy : copy = tx[w].stock OBVIOUS
<1>3. PICK held : held = Held(e.order_id) OBVIOUS
<1>4. PICK status : status = IF e.event_type = EventTypeOrderCancelled
                             THEN ReservationStatusReleased ELSE ReservationStatusCommitted
  OBVIOUS
<1>5. /\ tx[w].step = "loop" /\ e.event_type \in Settling /\ EndTx(w) /\ tx[w].todo = {}
      /\ WriteBack(copy)
      /\ reservations' = SetStatus(tx[w].done, status)
      /\ processed_events' = MarkProcessed(processed_events, e)
      /\ outbox' = outbox
  BY <1>1, <1>2, <1>4 DEF CommitSettlement, In
<1>6. Current(w) /\ Looping(w) BY <1>5 DEF TxInv, Idle, Current
<1>7. /\ e \in Inbound /\ e.event_id \notin processed_events
      /\ <<"processed_events", e.event_id>> \in locks[w]
  BY <1>1, <1>6 DEF Current, EventRow
<1>8. /\ tx[w].done = held
      /\ \A p \in DOMAIN inventory :
            (IF p \in DOMAIN copy THEN copy[p] ELSE inventory[p])
               = Settled(e.event_type, inventory[p], Quantity(held, p))
  BY <1>1, <1>2, <1>3, <1>5, <1>6, LoopResult
<1>9. /\ inventory' = [p \in DOMAIN inventory |->
                          Settled(e.event_type, inventory[p], Quantity(held, p))]
      /\ reservations' = SetStatus(held, status)
  BY <1>5, <1>8 DEF WriteBack
<1>10. Handle(e)
  <2>1. CASE e.event_type = EventTypeOrderCancelled
    <3>1. inventory' = [p \in DOMAIN inventory |-> Release(inventory[p], Quantity(held, p))]
      BY <1>9, <2>1 DEF Settled
    <3>2. HandleOrderCancelled(e)
      BY <1>3, <1>4, <1>5, <1>7, <1>9, <2>1, <3>1 DEF HandleOrderCancelled, AlreadyProcessed
    <3> QED BY <2>1, <3>2 DEF Handle
  <2>2. CASE e.event_type = EventTypeOrderCompleted
    <3>1. e.event_type # EventTypeOrderCancelled
      BY <2>2 DEF EventTypeOrderCancelled, EventTypeOrderCompleted
    <3>2. inventory' = [p \in DOMAIN inventory |-> Commit(inventory[p], Quantity(held, p))]
      BY <1>9, <3>1 DEF Settled
    <3>3. Committable(held, held) BY <1>3, HeldCommittable
    <3>4. HandleOrderCompleted(e)
      BY <1>3, <1>4, <1>5, <1>7, <1>9, <3>1, <3>2, <3>3 DEF HandleOrderCompleted, AlreadyProcessed
    <3> QED BY <2>2, <3>4 DEF Handle
  <2> QED BY <1>5, <2>1, <2>2 DEF Settling
<1>11. Next BY <1>7, <1>10 DEF Next
<1>12. /\ DOMAIN inventory' = DOMAIN inventory
       /\ \A p \in DOMAIN inventory : StockRow(p) \subseteq locks[w] \/ inventory'[p] = inventory[p]
  BY <1>2, <1>5, <1>6 DEF WriteBack, Looping
<1>13. reservations \in Seq(Reservations(OrderIDs)) BY DEF IInv, TypeOK, OrderIDs
<1>14. /\ DOMAIN reservations' = DOMAIN reservations
       /\ \A i \in DOMAIN reservations :
             /\ reservations'[i].order_id = reservations[i].order_id
             /\ i \notin held => reservations'[i] = reservations[i]
  <2>1. \A i \in DOMAIN reservations : reservations[i] \in Reservations(OrderIDs)
    BY <1>13, TableFacts
  <2> QED BY <1>9, <2>1 DEF SetStatus, Reservations
<1>15. \A i \in held : <<"reservations", i>> \in locks[w]
  BY <1>1, <1>3, <1>6 DEF Held, Looping, ReservationRows
<1>16. ASSUME NEW v \in Workers \ {w}, tx[v] # Idle PROVE Keeps(v)
  <2>1. Current(v) /\ locks[v] \cap locks[w] = {} BY <1>16 DEF TxInv
  <2>2. tx'[v] = tx[v] /\ locks'[v] = locks[v] BY <1>5 DEF TxInv, EndTx
  <2>3. /\ processed_events' = processed_events \cup {e.event_id}
        /\ tx[v].event.event_id \notin processed_events'
    <3>1. <<"processed_events", tx[v].event.event_id>> \in locks[v]
      BY <2>1 DEF Current, EventRow
    <3>2. tx[v].event.event_id # e.event_id BY <1>7, <2>1, <3>1
    <3> QED BY <1>5, <2>1, <3>2 DEF MarkProcessed, Current
  <2>4. \A p \in DOMAIN inventory : StockRow(p) \subseteq locks[v] => inventory'[p] = inventory[p]
    BY <1>12, <2>1 DEF StockRow
  <2>5. \A i \in DOMAIN reservations :
           <<"reservations", i>> \in locks[v] => reservations'[i] = reservations[i]
    BY <1>14, <1>15, <2>1
  <2> QED BY <1>12, <1>14, <2>2, <2>3, <2>4, <2>5 DEF Keeps
<1>17. TxInv' BY <1>5, <1>16, EndStep
<1> QED BY <1>11, <1>17

-----------------------------------------------------------------------------
(* Theorems *)

(* Every step of the goroutines is a step of InventoryService or changes   *)
(* no table, and keeps what open transactions know.                        *)
LEMMA TxStep == IInv /\ TxInv /\ [TxNext]_txVars => [Next]_vars /\ TxInv'
<1> SUFFICES ASSUME IInv, TxInv, [TxNext]_txVars PROVE [Next]_vars /\ TxInv'
  OBVIOUS
<1>1. ASSUME NEW w \in Workers, NEW event \in Inbound, Arrives(event), Begin(w, event)
      PROVE  UNCHANGED vars /\ TxInv'
  BY <1>1, BeginInv DEF Begin
<1>2. ASSUME NEW w \in Workers, ReadStock(w) PROVE UNCHANGED vars /\ TxInv'
  BY <1>2, ReadStockInv DEF ReadStock
<1>3. ASSUME NEW w \in Workers, ReadReservations(w) PROVE UNCHANGED vars /\ TxInv'
  BY <1>3, ReadReservationsInv DEF ReadReservations
<1>4. ASSUME NEW w \in Workers, NEW i \in DOMAIN reservations, SettleReservation(w, i)
      PROVE  UNCHANGED vars /\ TxInv'
  <2>1. UNCHANGED vars BY <1>4 DEF SettleReservation
  <2> QED BY <1>4, <2>1, SettleReservationInv
<1>5. ASSUME NEW w \in Workers, CommitReservation(w) PROVE Next /\ TxInv'
  BY <1>5, CommitReservationHandles
<1>6. ASSUME NEW w \in Workers, CommitSettlement(w) PROVE Next /\ TxInv'
  BY <1>6, CommitSettlementHandles
<1>7. ASSUME NEW w \in Workers, Rollback(w) PROVE UNCHANGED vars /\ TxInv'
  <2>1. UNCHANGED vars /\ EndTx(w) BY <1>7 DEF Rollback, FailTx
  <2> QED BY <2>1, EndStep
<1>8. ASSUME UNCHANGED txVars PROVE UNCHANGED vars /\ TxInv'
  <2>1. UNCHANGED vars /\ UNCHANGED <<locks, tx>> BY <1>8 DEF txVars
  <2>2. \A w \in Workers : Current(w) => Current(w)' BY <2>1, UnchangedKeeps, KeepsCurrent
  <2> QED BY <2>1, <2>2 DEF TxInv
<1> QED BY <1>1, <1>2, <1>3, <1>4, <1>5, <1>6, <1>7, <1>8 DEF TxNext, Statement

(* Two goroutines never hold the same lock, and the stock and reservations *)
(* a transaction read are still what the tables hold when it commits.      *)
THEOREM ReadsStayTrue == TxSpec => []TxInv
<1>1. TxInit => IInv /\ TxInv BY InitIInv, TxInitInv DEF TxInit
<1>2. IInv /\ TxInv /\ [TxNext]_txVars => (IInv /\ TxInv)' BY TxStep, StepIInv
<1> QED BY <1>1, <1>2, PTL DEF TxSpec

(* The goroutines of the inventory service implement its atomic handlers.  *)
THEOREM HandlersSerialize == TxSpec => Serializable
<1>1. TxInit => Init /\ IInv /\ TxInv BY InitIInv, TxInitInv DEF TxInit
<1>2. IInv /\ TxInv /\ [TxNext]_txVars => [Next]_vars /\ (IInv /\ TxInv)'
  BY TxStep, StepIInv
<1> QED BY <1>1, <1>2, PTL DEF TxSpec, Serializable, Spec

(* However the goroutines of several processes interleave, the books       *)
(* balance: no unit is oversold, lost or given back twice.                 *)
THEOREM InterleavedStock == TxSpec => []StockAccounting
BY HandlersSerialize, StockConserved, PTL DEF Serializable

(* Every order handled gets one answer under every interleaving.           *)
THEOREM InterleavedAnswers == TxSpec => []AnsweredOnce
BY HandlersSerialize, OrdersAnsweredOnce, PTL DEF Serializable

(* A reservation is settled once under every interleaving, when its        *)
(* cancellation and its completion are handled at the same time too.       *)
THEOREM InterleavedSettlements == TxSpec => SettledOnce
BY HandlersSerialize, ReservationsSettleOnce, PTL DEF Serializable
=============================================================================

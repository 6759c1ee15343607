-------------------------- MODULE InventoryProofs ---------------------------
(***************************************************************************)
(* Proofs about the inventory service, for any stock, any set of inbound   *)
(* events and any order, number and repetition of deliveries.              *)
(*                                                                         *)
(* Neither part of the invariant is inductive alone: that quantities stay  *)
(* non-negative (TypeOK) needs that reserved stock never exceeds stock,    *)
(* and that the books balance (StockAccounting) needs well-formed rows.    *)
(* The answers are counted beside it (AnswerInv): an event that was not    *)
(* handled before adds one to each of the counts it is in.                 *)
(***************************************************************************)
EXTENDS InventoryService, FiniteSetTheorems, FunctionTheorems, SequenceTheorems, TLAPS

-----------------------------------------------------------------------------
(* Totals of quantities over sets of reservations *)

(* Finitely many reservations are for finitely many units.                 *)
LEMMA UnitsFinite ==
    ASSUME NEW table, NEW I, IsFiniteSet(I), \A i \in I : table[i].quantity \in Nat
    PROVE  IsFiniteSet(Units(table, I)) /\ Total(table, I) \in Nat
<1> DEFINE UnitsOf(i) == {i} \X (1 .. table[i].quantity)
           sets       == {UnitsOf(i) : i \in I}
           f          == [i \in I |-> UnitsOf(i)]
<1>1. IsFiniteSet(sets)
  <2>1. f \in [I -> sets] /\ \A T \in sets : \E i \in I : f[i] = T
    OBVIOUS
  <2>2. f \in Surjection(I, sets)
    <3> HIDE DEF f, sets
    <3> QED BY <2>1, Fun_IsSurj
  <2> HIDE DEF f, sets
  <2> QED BY <2>2, FS_Surjection
<1>2. ASSUME NEW i \in I PROVE IsFiniteSet(UnitsOf(i))
  <2>1. IsFiniteSet({i}) BY FS_Singleton
  <2>2. IsFiniteSet(1 .. table[i].quantity) BY FS_Interval
  <2> QED BY <2>1, <2>2, FS_Product
<1>3. \A T \in sets : IsFiniteSet(T) BY <1>2
<1>4. Units(table, I) = UNION sets BY DEF Units
<1>5. IsFiniteSet(Units(table, I))
  <2> HIDE DEF sets
  <2> QED BY <1>1, <1>3, <1>4, FS_UNION
<1> QED BY <1>5, FS_CardinalityType DEF Total

(* A total is the sum of the totals of a part and of the rest.             *)
LEMMA TotalSplit ==
    ASSUME NEW table, NEW I, IsFiniteSet(I), \A i \in I : table[i].quantity \in Nat,
           NEW J, J \subseteq I
    PROVE  /\ Total(table, J) \in Nat
           /\ Total(table, I \ J) \in Nat
           /\ Total(table, I) = Total(table, J) + Total(table, I \ J)
<1>1. IsFiniteSet(J) /\ IsFiniteSet(I \ J) BY FS_Subset
<1>2. IsFiniteSet(Units(table, J)) /\ Total(table, J) \in Nat BY <1>1, UnitsFinite
<1>3. IsFiniteSet(Units(table, I \ J)) /\ Total(table, I \ J) \in Nat BY <1>1, UnitsFinite
<1>4. Units(table, I) = Units(table, J) \cup Units(table, I \ J) BY DEF Units
<1>5. Units(table, J) \cap Units(table, I \ J) = {} BY DEF Units
<1>6. Cardinality(Units(table, J) \cap Units(table, I \ J)) = 0 BY <1>5, FS_EmptySet
<1>7. Cardinality(Units(table, J) \cup Units(table, I \ J))
         = Cardinality(Units(table, J)) + Cardinality(Units(table, I \ J))
               - Cardinality(Units(table, J) \cap Units(table, I \ J))
  BY <1>2, <1>3, FS_Union
<1> QED BY <1>2, <1>3, <1>4, <1>6, <1>7 DEF Total

(* The total of one reservation is its quantity.                           *)
LEMMA TotalSingleton ==
    ASSUME NEW table, NEW i, table[i].quantity \in Nat
    PROVE  Total(table, {i}) = table[i].quantity
<1>1. Units(table, {i}) = {i} \X (1 .. table[i].quantity) BY DEF Units
<1>2. IsFiniteSet({i}) /\ Cardinality({i}) = 1 BY FS_Singleton
<1>3. /\ IsFiniteSet(1 .. table[i].quantity)
      /\ Cardinality(1 .. table[i].quantity) = table[i].quantity
  <2> DEFINE q == table[i].quantity
  <2>1. q \in Int /\ 1 \in Int OBVIOUS
  <2> HIDE DEF q
  <2>2. IsFiniteSet(1 .. q) /\ Cardinality(1 .. q) = IF 1 > q THEN 0 ELSE q - 1 + 1
    BY <2>1, FS_Interval
  <2>3. q \in Nat BY DEF q
  <2>4. Cardinality(1 .. q) = q BY <2>2, <2>3
  <2> QED BY <2>2, <2>4 DEF q
<1>4. Cardinality({i} \X (1 .. table[i].quantity)) = 1 * table[i].quantity
  BY <1>2, <1>3, FS_Product
<1> QED BY <1>1, <1>4 DEF Total

(* A total depends on the quantities alone.                                *)
LEMMA TotalSame ==
    ASSUME NEW s, NEW t, NEW I, \A i \in I : s[i].quantity = t[i].quantity
    PROVE  Total(s, I) = Total(t, I)
<1>1. Units(s, I) = Units(t, I) BY DEF Units
<1> QED BY <1>1 DEF Total

(* No reservation, no units.                                               *)
LEMMA TotalEmpty ==
    ASSUME NEW table PROVE Total(table, {}) = 0
<1>1. Units(table, {}) = {} BY DEF Units
<1> QED BY <1>1, FS_EmptySet DEF Total

-----------------------------------------------------------------------------
(* The reservations table *)

(* The units of p that the reservations of a table with some status are for.*)
StatusTotal(table, status, p) == Total(table, OfProduct(table, WithStatus(table, status), p))

(* A table is finite and its rows have natural quantities.                 *)
LEMMA TableFacts ==
    ASSUME NEW S, NEW table \in Seq(Reservations(S))
    PROVE  /\ DOMAIN table = 1 .. Len(table)
           /\ Len(table) \in Nat
           /\ \A i \in DOMAIN table : /\ table[i] \in Reservations(S)
                                      /\ table[i].quantity \in Nat
           /\ \A I \in SUBSET DOMAIN table : IsFiniteSet(I)
<1>1. DOMAIN table = 1 .. Len(table) /\ Len(table) \in Nat OBVIOUS
<1>2. \A i \in DOMAIN table : table[i] \in Reservations(S) OBVIOUS
<1>3. \A i \in DOMAIN table : table[i].quantity \in Nat BY <1>2 DEF Reservations
<1>4. IsFiniteSet(DOMAIN table) BY <1>1, FS_Interval
<1>5. \A I \in SUBSET DOMAIN table : IsFiniteSet(I) BY <1>4, FS_Subset
<1> QED BY <1>1, <1>2, <1>3, <1>5

(* A new row adds its quantity to the total of its product and status, and *)
(* to no other.                                                            *)
LEMMA AppendTotal ==
    ASSUME NEW S, NEW table \in Seq(Reservations(S)), NEW row \in Reservations(S),
           NEW status, NEW p
    PROVE  /\ StatusTotal(table, status, p) \in Nat
           /\ StatusTotal(Append(table, row), status, p)
                 = StatusTotal(table, status, p)
                   + (IF row.status = status /\ row.product_id = p THEN row.quantity ELSE 0)
<1> DEFINE new == Append(table, row)
           n   == Len(table) + 1
           I   == OfProduct(table, WithStatus(table, status), p)
           J   == OfProduct(new, WithStatus(new, status), p)
<1>1. /\ new \in Seq(Reservations(S))
      /\ Len(new) = n
      /\ \A i \in 1 .. Len(table) : new[i] = table[i]
      /\ new[n] = row
  BY AppendProperties
<1>2. /\ DOMAIN table = 1 .. Len(table) /\ Len(table) \in Nat
      /\ \A i \in DOMAIN table : table[i].quantity \in Nat
      /\ \A K \in SUBSET DOMAIN table : IsFiniteSet(K)
  BY TableFacts
<1>3. /\ DOMAIN new = 1 .. n
      /\ \A i \in DOMAIN new : new[i].quantity \in Nat
      /\ \A K \in SUBSET DOMAIN new : IsFiniteSet(K)
  <2> HIDE DEF new
  <2> QED BY <1>1, TableFacts
<1> HIDE DEF new
<1>4. I \subseteq DOMAIN table /\ IsFiniteSet(I) /\ \A i \in I : table[i].quantity \in Nat
  BY <1>2 DEF OfProduct, WithStatus
<1>5. Total(table, I) \in Nat BY <1>4, UnitsFinite
<1>6. Total(new, I) = Total(table, I) BY <1>1, <1>2, <1>4, TotalSame
<1>7. CASE row.status = status /\ row.product_id = p
  <2>1. J = I \cup {n} /\ n \notin I
    BY <1>1, <1>2, <1>3, <1>7 DEF OfProduct, WithStatus
  <2>2. J \subseteq DOMAIN new BY DEF OfProduct, WithStatus
  <2>3. Total(new, J) = Total(new, I) + Total(new, J \ I)
    <3>1. IsFiniteSet(J) /\ (\A i \in J : new[i].quantity \in Nat) /\ I \subseteq J
      BY <1>3, <2>1, <2>2
    <3> HIDE DEF I, J
    <3> QED BY <3>1, TotalSplit
  <2>4. J \ I = {n} BY <2>1
  <2>5. Total(new, {n}) = row.quantity BY <1>1, <1>2, <1>3, TotalSingleton
  <2> QED BY <1>5, <1>6, <1>7, <2>3, <2>4, <2>5 DEF StatusTotal, new
<1>8. CASE ~(row.status = status /\ row.product_id = p)
  <2>1. J = I BY <1>1, <1>2, <1>3, <1>8 DEF OfProduct, WithStatus
  <2> QED BY <1>5, <1>6, <1>8, <2>1 DEF StatusTotal, new
<1> QED BY <1>7, <1>8

(* The quantities of the reservations I of table went from the RESERVED    *)
(* total of product p to that of the given status.                         *)
SettleResult(S, table, I, status, new, p) ==
    /\ new \in Seq(Reservations(S))
    /\ Total(table, OfProduct(table, I, p)) \in Nat
    /\ StatusTotal(table, ReservationStatusReserved, p) \in Nat
    /\ StatusTotal(table, ReservationStatusCommitted, p) \in Nat
    /\ StatusTotal(new, ReservationStatusReserved, p) \in Nat
    /\ StatusTotal(table, ReservationStatusReserved, p)
          = StatusTotal(new, ReservationStatusReserved, p)
            + Total(table, OfProduct(table, I, p))
    /\ StatusTotal(new, ReservationStatusCommitted, p)
          = StatusTotal(table, ReservationStatusCommitted, p)
            + (IF status = ReservationStatusCommitted
               THEN Total(table, OfProduct(table, I, p)) ELSE 0)

(* Settling reservations that are still held moves their quantities, and   *)
(* nothing else, from the RESERVED total to that of the new status.        *)
LEMMA SettleTotal ==
    ASSUME NEW S, NEW table \in Seq(Reservations(S)),
           NEW I, I \subseteq WithStatus(table, ReservationStatusReserved),
           NEW status \in {ReservationStatusReleased, ReservationStatusCommitted},
           NEW new,
           new = [i \in DOMAIN table |->
                     IF i \in I THEN [table[i] EXCEPT !.status = status] ELSE table[i]],
           NEW p
    PROVE  SettleResult(S, table, I, status, new, p)
<1> DEFINE Ip == OfProduct(table, I, p)
           R  == OfProduct(table, WithStatus(table, ReservationStatusReserved), p)
           R2 == OfProduct(new, WithStatus(new, ReservationStatusReserved), p)
           K  == OfProduct(table, WithStatus(table, ReservationStatusCommitted), p)
           K2 == OfProduct(new, WithStatus(new, ReservationStatusCommitted), p)
<1> USE DEF ReservationStatusReserved, ReservationStatusReleased, ReservationStatusCommitted
<1>1. /\ DOMAIN table = 1 .. Len(table) /\ Len(table) \in Nat
      /\ \A i \in DOMAIN table : table[i] \in Reservations(S) /\ table[i].quantity \in Nat
      /\ \A J \in SUBSET DOMAIN table : IsFiniteSet(J)
  BY TableFacts
<1>2. \A i \in DOMAIN table : new[i] \in Reservations(S)
  BY <1>1 DEF Reservations, ReservationStatuses
<1>3. new \in Seq(Reservations(S)) /\ DOMAIN new = DOMAIN table
  BY <1>1, <1>2
<1>4. \A i \in DOMAIN table : /\ new[i].quantity = table[i].quantity
                              /\ new[i].product_id = table[i].product_id
                              /\ new[i].status = IF i \in I THEN status ELSE table[i].status
  BY <1>1 DEF Reservations
<1>5. /\ Ip \subseteq R /\ R \subseteq DOMAIN table /\ K \subseteq DOMAIN table
      /\ Ip \subseteq DOMAIN table /\ Ip \cap K = {}
  BY DEF OfProduct, WithStatus
<1>6. R2 = R \ Ip
  BY <1>3, <1>4 DEF OfProduct, WithStatus
<1>7. K2 = IF status = ReservationStatusCommitted THEN K \cup Ip ELSE K
  BY <1>3, <1>4 DEF OfProduct, WithStatus
<1> HIDE DEF Ip, R, K, R2, K2
<1>8. /\ Total(table, Ip) \in Nat /\ Total(table, R \ Ip) \in Nat
      /\ Total(table, R) = Total(table, Ip) + Total(table, R \ Ip)
  <2>1. IsFiniteSet(R) /\ \A i \in R : table[i].quantity \in Nat BY <1>1, <1>5
  <2>2. Ip \subseteq R BY <1>5
  <2>3. Total(table, Ip) \in Nat BY <2>1, <2>2, TotalSplit
  <2>4. Total(table, R \ Ip) \in Nat BY <2>1, <2>2, TotalSplit
  <2>5. Total(table, R) = Total(table, Ip) + Total(table, R \ Ip)
    BY <2>1, <2>2, TotalSplit
  <2> QED BY <2>3, <2>4, <2>5
<1>9. Total(table, K) \in Nat
  <2>1. IsFiniteSet(K) /\ \A i \in K : table[i].quantity \in Nat BY <1>1, <1>5
  <2> QED BY <2>1, UnitsFinite
<1>10. Total(table, K \cup Ip) = Total(table, K) + Total(table, Ip)
  <2>1. (K \cup Ip) \ K = Ip /\ K \subseteq K \cup Ip /\ K \cup Ip \subseteq DOMAIN table
    BY <1>5
  <2>2. /\ IsFiniteSet(K \cup Ip) /\ \A i \in K \cup Ip : table[i].quantity \in Nat
        /\ K \subseteq K \cup Ip
    BY <1>1, <2>1
  <2>3. Total(table, K \cup Ip) = Total(table, K) + Total(table, (K \cup Ip) \ K)
    BY <2>2, TotalSplit
  <2> QED BY <2>1, <2>3
<1>11. Total(new, R2) = Total(table, R2)
  <2>1. \A i \in R2 : new[i].quantity = table[i].quantity BY <1>4, <1>5, <1>6
  <2> QED BY <2>1, TotalSame
<1>12. Total(new, K2) = Total(table, K2)
  <2>1. K2 \subseteq DOMAIN table BY <1>5, <1>7
  <2>2. \A i \in K2 : new[i].quantity = table[i].quantity BY <1>4, <2>1
  <2> QED BY <2>2, TotalSame
<1>13. /\ StatusTotal(table, ReservationStatusReserved, p) = Total(table, R)
       /\ StatusTotal(table, ReservationStatusCommitted, p) = Total(table, K)
       /\ StatusTotal(new, ReservationStatusReserved, p) = Total(new, R2)
       /\ StatusTotal(new, ReservationStatusCommitted, p) = Total(new, K2)
       /\ OfProduct(table, I, p) = Ip
  BY DEF StatusTotal, Ip, R, K, R2, K2
<1>14. Total(new, K2) = Total(table, K)
                        + (IF status = ReservationStatusCommitted THEN Total(table, Ip) ELSE 0)
  BY <1>7, <1>8, <1>9, <1>10, <1>12
<1> QED BY <1>3, <1>6, <1>8, <1>9, <1>11, <1>13, <1>14 DEF SettleResult

-----------------------------------------------------------------------------
(* The inductive invariant *)

IInv == TypeOK /\ StockAccounting

OrderIDs == {event.order_id : event \in Inbound}

(* StockAccounting in terms of the table's totals.                         *)
LEMMA AccountingTotals ==
    StockAccounting <=>
      \A p \in Products :
        /\ inventory[p].reserved_quantity
               = StatusTotal(reservations, ReservationStatusReserved, p)
        /\ inventory[p].reserved_quantity <= inventory[p].quantity
        /\ inventory[p].quantity
               + StatusTotal(reservations, ReservationStatusCommitted, p) = InitialStock[p]
BY DEF StockAccounting, Quantity, StatusTotal

(* Initially nothing is reserved and nothing has left.                     *)
LEMMA InitIInv == Init => IInv
<1> SUFFICES ASSUME Init PROVE IInv OBVIOUS
<1>1. TypeOK
  <2>1. reservations \in Seq(Reservations(OrderIDs)) BY DEF Init
  <2> QED BY <2>1, InventoryAssumption DEF Init, TypeOK, Stock, OrderIDs
<1>2. ASSUME NEW status, NEW p PROVE StatusTotal(reservations, status, p) = 0
  <2>1. OfProduct(reservations, WithStatus(reservations, status), p) = {}
    BY DEF Init, OfProduct, WithStatus
  <2> QED BY <2>1, TotalEmpty DEF StatusTotal
<1>3. StockAccounting
  <2>1. ASSUME NEW p \in Products
        PROVE  /\ inventory[p].reserved_quantity = 0
               /\ inventory[p].quantity = InitialStock[p]
               /\ InitialStock[p] \in Nat
    BY InventoryAssumption DEF Init
  <2> QED BY <1>2, <2>1, AccountingTotals
<1> QED BY <1>1, <1>3 DEF IInv

(* A reservation keeps the books: the row added is for what is added to    *)
(* the reserved quantity, and CanReserve leaves it within the stock.       *)
LEMMA ReserveStockIInv ==
    ASSUME IInv, NEW event \in Inbound, event.event_type = EventTypeOrderCreated,
           Reservable(inventory, event), ReserveStock(inventory, event),
           processed_events' = MarkProcessed(processed_events, event)
    PROVE  IInv'
<1> DEFINE row == NewReservation(event.order_id, event.product_id, event.quantity)
           q   == event.quantity
           pid == event.product_id
<1>1. /\ inventory \in [Products -> Stock]
      /\ reservations \in Seq(Reservations(OrderIDs))
      /\ processed_events \subseteq {e.event_id : e \in Inbound}
  BY DEF IInv, TypeOK, OrderIDs
<1>2. q \in Nat \ {0} /\ pid \in Products
  BY <1>1, InventoryAssumption DEF Reservable
<1>3. row \in Reservations(OrderIDs)
  BY <1>2 DEF NewReservation, Reservations, ReservationStatuses, OrderIDs
<1>4. reservations' = Append(reservations, row) BY DEF ReserveStock
<1>5. inventory' = [inventory EXCEPT ![pid] = Reserve(@, q)] BY DEF ReserveStock
<1>6. inventory' \in [Products -> Stock]
  BY <1>1, <1>2, <1>5 DEF Reserve, Stock
<1>7. TypeOK'
  <2>1. reservations' \in Seq(Reservations(OrderIDs)) BY <1>1, <1>3, <1>4, AppendProperties
  <2>2. processed_events' \subseteq {e.event_id : e \in Inbound}
    BY <1>1 DEF MarkProcessed
  <2> QED BY <1>6, <2>1, <2>2 DEF TypeOK, OrderIDs
<1>8. ASSUME NEW p \in Products
      PROVE  /\ inventory'[p].reserved_quantity
                    = StatusTotal(reservations', ReservationStatusReserved, p)
             /\ inventory'[p].reserved_quantity <= inventory'[p].quantity
             /\ inventory'[p].quantity
                    + StatusTotal(reservations', ReservationStatusCommitted, p)
                    = InitialStock[p]
  <2>1. /\ inventory[p].reserved_quantity
               = StatusTotal(reservations, ReservationStatusReserved, p)
        /\ inventory[p].reserved_quantity <= inventory[p].quantity
        /\ inventory[p].quantity
               + StatusTotal(reservations, ReservationStatusCommitted, p) = InitialStock[p]
    BY AccountingTotals DEF IInv
  <2>2. /\ StatusTotal(reservations, ReservationStatusReserved, p) \in Nat
        /\ StatusTotal(reservations', ReservationStatusReserved, p)
              = StatusTotal(reservations, ReservationStatusReserved, p)
                + (IF pid = p THEN q ELSE 0)
    <3>1. row.status = ReservationStatusReserved /\ row.product_id = pid /\ row.quantity = q
      BY DEF NewReservation
    <3> HIDE DEF row, q, pid
    <3> QED BY <1>1, <1>3, <1>4, <3>1, AppendTotal
  <2>3. /\ StatusTotal(reservations, ReservationStatusCommitted, p) \in Nat
        /\ StatusTotal(reservations', ReservationStatusCommitted, p)
              = StatusTotal(reservations, ReservationStatusCommitted, p)
    <3>1. row.status # ReservationStatusCommitted
      BY DEF NewReservation, ReservationStatusReserved, ReservationStatusCommitted
    <3> HIDE DEF row, q, pid
    <3>2. /\ StatusTotal(reservations, ReservationStatusCommitted, p) \in Nat
          /\ StatusTotal(reservations', ReservationStatusCommitted, p)
                = StatusTotal(reservations, ReservationStatusCommitted, p) + 0
      BY <1>1, <1>3, <1>4, <3>1, AppendTotal
    <3> QED BY <3>2
  <2>4. inventory[p] \in Stock BY <1>1
  <2>5. /\ inventory'[p].quantity = inventory[p].quantity
        /\ inventory'[p].reserved_quantity
              = inventory[p].reserved_quantity + (IF pid = p THEN q ELSE 0)
    BY <1>1, <1>2, <1>5, <2>4 DEF Reserve, Stock
  <2>6. pid = p => inventory[p].reserved_quantity + q <= inventory[p].quantity
    BY <1>2, <2>4 DEF Reservable, CanReserve, AvailableQuantity, Stock
  <2>7. inventory'[p].reserved_quantity <= inventory'[p].quantity
    BY <1>2, <2>1, <2>4, <2>5, <2>6 DEF Stock
  <2> QED BY <2>1, <2>2, <2>3, <2>5, <2>7
<1>9. StockAccounting'
  BY <1>8 DEF StockAccounting, Quantity, StatusTotal
<1> QED BY <1>7, <1>9 DEF IInv

(* Releasing what is held for an order keeps the books: Release never has  *)
(* to stop at zero, because the held reservations are part of the reserved *)
(* quantity.                                                               *)
LEMMA CancelledIInv ==
    ASSUME IInv, NEW event \in Inbound,
           ~AlreadyProcessed(processed_events, event), HandleOrderCancelled(event)
    PROVE  IInv'
<1> DEFINE I    == Held(event.order_id)
           X(p) == Total(reservations, OfProduct(reservations, I, p))
<1>1. /\ inventory \in [Products -> Stock]
      /\ reservations \in Seq(Reservations(OrderIDs))
      /\ processed_events \subseteq {e.event_id : e \in Inbound}
  BY DEF IInv, TypeOK, OrderIDs
<1>2. /\ processed_events' = MarkProcessed(processed_events, event)
      /\ inventory' = [p \in DOMAIN inventory |-> Release(inventory[p], X(p))]
      /\ reservations' = [i \in DOMAIN reservations |->
                            IF i \in I
                            THEN [reservations[i] EXCEPT !.status = ReservationStatusReleased]
                            ELSE reservations[i]]
  BY DEF HandleOrderCancelled, SetStatus, Quantity
<1>3. I \subseteq WithStatus(reservations, ReservationStatusReserved)
  BY DEF Held, WithStatus, IsReserved
<1>4. ASSUME NEW p
      PROVE  /\ reservations' \in Seq(Reservations(OrderIDs))
             /\ X(p) \in Nat
             /\ StatusTotal(reservations, ReservationStatusReserved, p) \in Nat
             /\ StatusTotal(reservations', ReservationStatusReserved, p) \in Nat
             /\ StatusTotal(reservations, ReservationStatusCommitted, p) \in Nat
             /\ StatusTotal(reservations, ReservationStatusReserved, p)
                   = StatusTotal(reservations', ReservationStatusReserved, p) + X(p)
             /\ StatusTotal(reservations', ReservationStatusCommitted, p)
                   = StatusTotal(reservations, ReservationStatusCommitted, p)
  <2>1. ReservationStatusReleased # ReservationStatusCommitted
    BY DEF ReservationStatusReleased, ReservationStatusCommitted
  <2> HIDE DEF I
  <2>2. SettleResult(OrderIDs, reservations, I, ReservationStatusReleased, reservations', p)
    BY <1>1, <1>2, <1>3, SettleTotal
  <2> QED BY <2>1, <2>2 DEF SettleResult
<1> HIDE DEF I, X
<1>5. ASSUME NEW p \in Products
      PROVE  /\ inventory'[p] \in Stock
             /\ inventory'[p].reserved_quantity
                    = StatusTotal(reservations', ReservationStatusReserved, p)
             /\ inventory'[p].reserved_quantity <= inventory'[p].quantity
             /\ inventory'[p].quantity
                    + StatusTotal(reservations', ReservationStatusCommitted, p)
                    = InitialStock[p]
  <2>1. /\ inventory[p].reserved_quantity
               = StatusTotal(reservations, ReservationStatusReserved, p)
        /\ inventory[p].reserved_quantity <= inventory[p].quantity
        /\ inventory[p].quantity
               + StatusTotal(reservations, ReservationStatusCommitted, p) = InitialStock[p]
    BY AccountingTotals DEF IInv
  <2>2. inventory[p] \in Stock /\ inventory'[p] = Release(inventory[p], X(p))
    BY <1>1, <1>2
  <2>3. /\ inventory'[p].quantity = inventory[p].quantity
        /\ inventory'[p].reserved_quantity = inventory[p].reserved_quantity - X(p)
        /\ inventory'[p].reserved_quantity \in Nat
        /\ inventory'[p] \in Stock
    BY <1>4, <2>1, <2>2 DEF Release, Stock
  <2> QED BY <1>4, <2>1, <2>2, <2>3 DEF Stock
<1>6. TypeOK'
  <2>1. inventory' \in [Products -> Stock] BY <1>1, <1>2, <1>5
  <2>2. processed_events' \subseteq {e.event_id : e \in Inbound}
    BY <1>1, <1>2 DEF MarkProcessed
  <2> QED BY <1>4, <2>1, <2>2 DEF TypeOK, OrderIDs
<1>7. StockAccounting' BY <1>5 DEF StockAccounting, Quantity, StatusTotal
<1> QED BY <1>6, <1>7 DEF IInv

(* Committing reservations moves their quantities out of the stock and out *)
(* of the reserved quantity; the stock suffices because it covers what is  *)
(* reserved.                                                               *)
LEMMA CompletedIInv ==
    ASSUME IInv, NEW event \in Inbound,
           ~AlreadyProcessed(processed_events, event), HandleOrderCompleted(event)
    PROVE  IInv'
<1>1. /\ inventory \in [Products -> Stock]
      /\ reservations \in Seq(Reservations(OrderIDs))
      /\ processed_events \subseteq {e.event_id : e \in Inbound}
  BY DEF IInv, TypeOK, OrderIDs
<1>2. PICK C \in SUBSET Held(event.order_id) :
         /\ inventory' = [p \in DOMAIN inventory |-> Commit(inventory[p], Quantity(C, p))]
         /\ reservations' = SetStatus(C, ReservationStatusCommitted)
  BY DEF HandleOrderCompleted
<1> DEFINE X(p) == Total(reservations, OfProduct(reservations, C, p))
<1>3. /\ processed_events' = MarkProcessed(processed_events, event)
      /\ inventory' = [p \in DOMAIN inventory |-> Commit(inventory[p], X(p))]
      /\ reservations' = [i \in DOMAIN reservations |->
                            IF i \in C
                            THEN [reservations[i] EXCEPT !.status = ReservationStatusCommitted]
                            ELSE reservations[i]]
  BY <1>2 DEF HandleOrderCompleted, SetStatus, Quantity
<1>4. C \subseteq WithStatus(reservations, ReservationStatusReserved)
  BY DEF Held, WithStatus, IsReserved
<1>5. ASSUME NEW p
      PROVE  /\ reservations' \in Seq(Reservations(OrderIDs))
             /\ X(p) \in Nat
             /\ StatusTotal(reservations, ReservationStatusReserved, p) \in Nat
             /\ StatusTotal(reservations', ReservationStatusReserved, p) \in Nat
             /\ StatusTotal(reservations, ReservationStatusCommitted, p) \in Nat
             /\ StatusTotal(reservations, ReservationStatusReserved, p)
                   = StatusTotal(reservations', ReservationStatusReserved, p) + X(p)
             /\ StatusTotal(reservations', ReservationStatusCommitted, p)
                   = StatusTotal(reservations, ReservationStatusCommitted, p) + X(p)
  <2>1. SettleResult(OrderIDs, reservations, C, ReservationStatusCommitted, reservations', p)
    BY <1>1, <1>3, <1>4, SettleTotal
  <2> QED BY <2>1 DEF SettleResult
<1> HIDE DEF X
<1>6. ASSUME NEW p \in Products
      PROVE  /\ inventory'[p] \in Stock
             /\ inventory'[p].reserved_quantity
                    = StatusTotal(reservations', ReservationStatusReserved, p)
             /\ inventory'[p].reserved_quantity <= inventory'[p].quantity
             /\ inventory'[p].quantity
                    + StatusTotal(reservations', ReservationStatusCommitted, p)
                    = InitialStock[p]
  <2>1. /\ inventory[p].reserved_quantity
               = StatusTotal(reservations, ReservationStatusReserved, p)
        /\ inventory[p].reserved_quantity <= inventory[p].quantity
        /\ inventory[p].quantity
               + StatusTotal(reservations, ReservationStatusCommitted, p) = InitialStock[p]
    BY AccountingTotals DEF IInv
  <2>2. inventory[p] \in Stock /\ inventory'[p] = Commit(inventory[p], X(p))
    BY <1>1, <1>3
  <2>3. X(p) \in Nat /\ X(p) <= inventory[p].reserved_quantity BY <1>5, <2>1
  <2>4. /\ inventory'[p].quantity = inventory[p].quantity - X(p)
        /\ inventory'[p].reserved_quantity = inventory[p].reserved_quantity - X(p)
        /\ inventory[p].quantity \in Nat /\ inventory[p].reserved_quantity \in Nat
    BY <2>2 DEF Commit, Stock
  <2>5. inventory[p].quantity - X(p) \in Nat /\ inventory[p].reserved_quantity - X(p) \in Nat
    BY <2>1, <2>3, <2>4
  <2>6. inventory'[p] \in Stock BY <2>2, <2>5 DEF Commit, Stock
  <2>7. inventory'[p].reserved_quantity <= inventory'[p].quantity BY <2>1, <2>3, <2>4
  <2> QED BY <1>5, <2>1, <2>3, <2>4, <2>6, <2>7
<1>7. TypeOK'
  <2>1. inventory' \in [Products -> Stock] BY <1>1, <1>3, <1>6
  <2>2. processed_events' \subseteq {e.event_id : e \in Inbound}
    BY <1>1, <1>3 DEF MarkProcessed
  <2> QED BY <1>5, <2>1, <2>2 DEF TypeOK, OrderIDs
<1>8. StockAccounting' BY <1>6 DEF StockAccounting, Quantity, StatusTotal
<1> QED BY <1>7, <1>8 DEF IInv

(* Every step of the service keeps the invariant.                          *)
LEMMA StepIInv == IInv /\ [Next]_vars => IInv'
<1> SUFFICES ASSUME IInv, [Next]_vars PROVE IInv' OBVIOUS
<1>1. CASE UNCHANGED vars
  BY <1>1 DEF vars, IInv, TypeOK, StockAccounting, Quantity
<1>2. CASE Next
  <2>1. PICK event \in Inbound : Handle(event) BY <1>2 DEF Next
  <2>2. CASE AlreadyProcessed(processed_events, event)
    <3>1. UNCHANGED vars
      BY <2>1, <2>2
      DEF Handle, HandleOrderCreated, HandleOrderCancelled, HandleOrderCompleted
    <3> QED BY <1>1, <3>1
  <2>3. CASE ~AlreadyProcessed(processed_events, event)
    <3>1. CASE event.event_type = EventTypeOrderCreated /\ HandleOrderCreated(event)
      <4>1. processed_events' = MarkProcessed(processed_events, event)
        BY <2>3, <3>1 DEF HandleOrderCreated
      <4>2. CASE Reservable(inventory, event)
        <5>1. ReserveStock(inventory, event) BY <2>3, <3>1, <4>2 DEF HandleOrderCreated
        <5> QED BY <3>1, <4>1, <4>2, <5>1, ReserveStockIInv
      <4>3. CASE ~Reservable(inventory, event)
        <5>1. UNCHANGED <<inventory, reservations>>
          BY <2>3, <3>1, <4>3 DEF HandleOrderCreated, RejectReservation
        <5> QED BY <4>1, <5>1 DEF IInv, TypeOK, StockAccounting, Quantity, MarkProcessed
      <4> QED BY <4>2, <4>3
    <3>2. CASE HandleOrderCancelled(event) BY <2>3, <3>2, CancelledIInv
    <3>3. CASE HandleOrderCompleted(event) BY <2>3, <3>3, CompletedIInv
    <3> QED BY <2>1, <3>1, <3>2, <3>3 DEF Handle
  <2> QED BY <2>2, <2>3
<1> QED BY <1>1, <1>2

-----------------------------------------------------------------------------
(* Answers and what they answer *)

Answers(type, id) ==
    {i \in DOMAIN outbox : /\ outbox[i].payload.event_type = type
                           /\ outbox[i].payload.order_id = id}

ReservationsOf(id) == {i \in DOMAIN reservations : reservations[i].order_id = id}

(* The OrderCreated events of an order that were handled. *)
Created(id) ==
    {event \in Inbound : /\ event.event_type = EventTypeOrderCreated
                         /\ event.order_id = id
                         /\ event.event_id \in processed_events}

(* The outbox holds nothing but answers to OrderCreated events. *)
StockReservedReply(e, n) ==
    NewStockReservedEvent(<<"inventory", n>>, e.order_id, e.product_id, e.quantity,
                          e.total_amount)
StockReserveFailedReply(e, n) ==
    NewStockReserveFailedEvent(<<"inventory", n>>, e.order_id, e.product_id, e.quantity)

Replies == {StockReservedReply(e, n) : e \in Inbound, n \in Nat}
             \cup {StockReserveFailedReply(e, n) : e \in Inbound, n \in Nat}

(* As many rows in SR as reservations, as many in SR and SF as events.     *)
Balanced(SR, SF, R, C) ==
    /\ IsFiniteSet(SR) /\ IsFiniteSet(SF) /\ IsFiniteSet(R) /\ IsFiniteSet(C)
    /\ Cardinality(SR) = Cardinality(R)
    /\ Cardinality(SR \cup SF) = Cardinality(C)

AnswerCount(id) ==
    Balanced(Answers(EventTypeStockReserved, id), Answers(EventTypeStockReserveFailed, id),
             ReservationsOf(id), Created(id))

AnswerInv ==
    /\ IInv
    /\ outbox \in Seq(Rows(Replies))
    /\ \A id \in OrderIDs : AnswerCount(id)
    /\ AnswersTellDemand

(* Answers that match the marks, counted per order, are answers given once. *)
LEMMA CountedIsAnswered == AnswerInv => AnsweredOnce
<1> SUFFICES ASSUME AnswerInv PROVE AnswersTellDemand /\ AnswersAreCounted BY DEF AnsweredOnce
<1>1. \A id \in OrderIDs :
         /\ Cardinality(Answers(EventTypeStockReserved, id)) = Cardinality(ReservationsOf(id))
         /\ Cardinality(Answers(EventTypeStockReserved, id)
                           \cup Answers(EventTypeStockReserveFailed, id))
               = Cardinality(Created(id))
  BY DEF AnswerInv, AnswerCount, Balanced
<1>2. AnswersAreCounted BY <1>1 DEF AnswersAreCounted, Answers, ReservationsOf, Created, OrderIDs
<1> QED BY <1>2 DEF AnswerInv

(* Nothing was asked and nothing answered at the start. *)
LEMMA InitAnswers == Init => AnswerInv
<1> SUFFICES ASSUME Init PROVE AnswerInv OBVIOUS
<1>1. outbox = <<>> /\ reservations = <<>> /\ processed_events = {} BY DEF Init
<1>2. \A type, id : Answers(type, id) = {} /\ ReservationsOf(id) = {} /\ Created(id) = {}
  BY <1>1 DEF Answers, ReservationsOf, Created
<1>3. {} \cup {} = {} OBVIOUS
<1>4. \A id : AnswerCount(id) BY <1>2, <1>3, FS_EmptySet DEF AnswerCount, Balanced
<1>5. AnswersTellDemand BY <1>1 DEF AnswersTellDemand
<1> QED BY <1>1, <1>4, <1>5, InitIInv DEF AnswerInv

(* Handling event e, new so far, adds it to the handled ones of its kind.  *)
LEMMA CreatedGrows ==
    ASSUME NEW e \in Inbound, ~AlreadyProcessed(processed_events, e),
           processed_events' = MarkProcessed(processed_events, e)
    PROVE  \A id :
              /\ e \notin Created(id)
              /\ e.event_type = EventTypeOrderCreated /\ e.order_id = id
                    => Created(id)' = Created(id) \cup {e}
              /\ e.event_type # EventTypeOrderCreated \/ e.order_id # id
                    => Created(id)' = Created(id)
BY InventoryAssumption DEF Created, MarkProcessed, AlreadyProcessed

(* The step adds row n to the answers of type ty to order o, and only to   *)
(* those.                                                                  *)
AnswerAdded(n, ty, o) ==
    \A type, id :
       /\ n \notin Answers(type, id)
       /\ (type = ty /\ id = o) => Answers(type, id)' = Answers(type, id) \cup {n}
       /\ (type # ty \/ id # o) => Answers(type, id)' = Answers(type, id)

(* Storing an answer adds one row to the answers of its kind.              *)
LEMMA AnswersGrow ==
    ASSUME outbox \in Seq(Rows(Replies)), NEW a \in Replies, outbox' = PublishInTx(outbox, a),
           NEW ty, NEW o, ty = a.event_type, o = a.order_id
    PROVE  /\ outbox' \in Seq(Rows(Replies))
           /\ \E n : AnswerAdded(n, ty, o)
<1> DEFINE row == [payload |-> a, status |-> StatusPending, retry_count |-> 0]
<1> PICK n : n = Len(outbox) + 1 OBVIOUS
<1>1. row \in Rows(Replies) /\ row.payload = a BY DEF Rows
<1>2. outbox' = Append(outbox, row) BY DEF PublishInTx
<1> HIDE DEF row
<1>3. Len(outbox) \in Nat /\ DOMAIN outbox = 1 .. Len(outbox) OBVIOUS
<1>4. /\ outbox' \in Seq(Rows(Replies)) /\ Len(outbox') = n /\ outbox'[n] = row
      /\ \A i \in 1 .. Len(outbox) : outbox'[i] = outbox[i]
  BY <1>1, <1>2, <1>3, AppendProperties
<1>5. /\ n \notin DOMAIN outbox /\ DOMAIN outbox' = DOMAIN outbox \cup {n}
      /\ outbox'[n].payload = a /\ \A i \in DOMAIN outbox : outbox'[i] = outbox[i]
  BY <1>1, <1>3, <1>4
<1>6. AnswerAdded(n, ty, o)
  BY <1>5 DEF AnswerAdded, Answers
<1> QED BY <1>4, <1>6

(* A row is added to the answers and to what is answered, or to neither.   *)
LEMMA CountsGrow ==
    ASSUME NEW SR, NEW SF, NEW R, NEW C, NEW n, NEW m, NEW e,
           Balanced(SR, SF, R, C), n \notin SR, n \notin SF, e \notin C
    PROVE  /\ m \notin R => Balanced(SR \cup {n}, SF, R \cup {m}, C \cup {e})
           /\ Balanced(SR, SF \cup {n}, R, C \cup {e})
<1>1. IsFiniteSet(SR \cup SF) BY FS_Union DEF Balanced
<1>2. /\ IsFiniteSet(SR \cup {n}) /\ Cardinality(SR \cup {n}) = Cardinality(SR) + 1
      /\ IsFiniteSet(SF \cup {n})
      /\ IsFiniteSet(C \cup {e}) /\ Cardinality(C \cup {e}) = Cardinality(C) + 1
      /\ m \notin R => /\ IsFiniteSet(R \cup {m})
                       /\ Cardinality(R \cup {m}) = Cardinality(R) + 1
  BY FS_AddElement DEF Balanced
<1>3. Cardinality((SR \cup SF) \cup {n}) = Cardinality(SR \cup SF) + 1
  BY <1>1, FS_AddElement
<1>4. (SR \cup {n}) \cup SF = (SR \cup SF) \cup {n} /\ SR \cup (SF \cup {n}) = (SR \cup SF) \cup {n}
  OBVIOUS
<1> QED BY <1>2, <1>3, <1>4 DEF Balanced

(* An OrderCreated event is answered. *)
LEMMA CreatedAnswers ==
    ASSUME AnswerInv, NEW e \in Inbound, e.event_type = EventTypeOrderCreated,
           ~AlreadyProcessed(processed_events, e),
           processed_events' = MarkProcessed(processed_events, e),
           ReserveStock(inventory, e) \/ RejectReservation(e)
    PROVE  outbox' \in Seq(Rows(Replies)) /\ \A id \in OrderIDs : AnswerCount(id)'
<1>1. /\ outbox \in Seq(Rows(Replies)) /\ Len(outbox) + 1 \in Nat
      /\ reservations \in Seq(Reservations(OrderIDs))
      /\ Len(reservations) \in Nat /\ DOMAIN reservations = 1 .. Len(reservations)
  BY DEF AnswerInv, IInv, TypeOK, OrderIDs
<1>2. EventTypeStockReserved # EventTypeStockReserveFailed
  BY DEF EventTypeStockReserved, EventTypeStockReserveFailed
<1>3. \A id \in OrderIDs : AnswerCount(id) BY DEF AnswerInv
<1>4. CASE ReserveStock(inventory, e)
  <2> PICK a, m : a = StockReservedReply(e, Len(outbox) + 1) /\ m = Len(reservations) + 1
    OBVIOUS
  <2>0. a \in Replies BY <1>1 DEF Replies
  <2>1. a \in Replies /\ a.event_type = EventTypeStockReserved /\ a.order_id = e.order_id
    BY <2>0 DEF StockReservedReply, NewStockReservedEvent
  <2>2. outbox' = PublishInTx(outbox, a)
    BY <1>4 DEF ReserveStock, StockReservedReply, NewEventID
  <2>3. PICK n : AnswerAdded(n, EventTypeStockReserved, e.order_id)
    BY <1>1, <2>1, <2>2, AnswersGrow
  <2>4. outbox' \in Seq(Rows(Replies)) BY <1>1, <2>1, <2>2, AnswersGrow
  <2>5. /\ DOMAIN reservations' = DOMAIN reservations \cup {m} /\ m \notin DOMAIN reservations
        /\ reservations'[m].order_id = e.order_id
        /\ \A i \in DOMAIN reservations : reservations'[i] = reservations[i]
    <3> PICK row : row = NewReservation(e.order_id, e.product_id, e.quantity) OBVIOUS
    <3>1. row.order_id = e.order_id BY DEF NewReservation
    <3>2. reservations' = Append(reservations, row) BY <1>4 DEF ReserveStock
    <3> QED BY <1>1, <3>1, <3>2
  <2>6. \A id : /\ m \notin ReservationsOf(id)
                /\ id = e.order_id => ReservationsOf(id)' = ReservationsOf(id) \cup {m}
                /\ id # e.order_id => ReservationsOf(id)' = ReservationsOf(id)
    BY <2>5 DEF ReservationsOf
  <2>7. ASSUME NEW id \in OrderIDs PROVE AnswerCount(id)'
    <3>1. CASE id = e.order_id
      <4>1. /\ Answers(EventTypeStockReserved, id)'
                  = Answers(EventTypeStockReserved, id) \cup {n}
            /\ Answers(EventTypeStockReserveFailed, id)' = Answers(EventTypeStockReserveFailed, id)
            /\ n \notin Answers(EventTypeStockReserved, id)
            /\ n \notin Answers(EventTypeStockReserveFailed, id)
        BY <1>2, <2>3, <3>1 DEF AnswerAdded
      <4>2. ReservationsOf(id)' = ReservationsOf(id) \cup {m} /\ m \notin ReservationsOf(id)
        BY <2>6, <3>1
      <4>3. Created(id)' = Created(id) \cup {e} /\ e \notin Created(id) BY <3>1, CreatedGrows
      <4> PICK SR, SF, R, C :
             /\ SR = Answers(EventTypeStockReserved, id)
             /\ SF = Answers(EventTypeStockReserveFailed, id)
             /\ R = ReservationsOf(id) /\ C = Created(id)
        OBVIOUS
      <4>4. Balanced(SR, SF, R, C) /\ n \notin SR /\ n \notin SF /\ m \notin R /\ e \notin C
        BY <1>3, <4>1, <4>2, <4>3 DEF AnswerCount
      <4>5. Balanced(SR \cup {n}, SF, R \cup {m}, C \cup {e})
        BY <4>4, CountsGrow
      <4> QED BY <4>5, <4>1, <4>2, <4>3 DEF AnswerCount
    <3>2. CASE id # e.order_id
      <4>1. /\ Answers(EventTypeStockReserved, id)' = Answers(EventTypeStockReserved, id)
            /\ Answers(EventTypeStockReserveFailed, id)' = Answers(EventTypeStockReserveFailed, id)
            /\ ReservationsOf(id)' = ReservationsOf(id)
            /\ Created(id)' = Created(id)
        BY <2>3, <2>6, <3>2, CreatedGrows DEF AnswerAdded
      <4> QED BY <1>3, <4>1 DEF AnswerCount
    <3> QED BY <3>1, <3>2
  <2> QED BY <2>4, <2>7
<1>5. CASE RejectReservation(e)
  <2> PICK a : a = StockReserveFailedReply(e, Len(outbox) + 1) OBVIOUS
  <2>0. a \in Replies BY <1>1 DEF Replies
  <2>1. a \in Replies /\ a.event_type = EventTypeStockReserveFailed /\ a.order_id = e.order_id
    BY <2>0 DEF StockReserveFailedReply, NewStockReserveFailedEvent
  <2>2. outbox' = PublishInTx(outbox, a) /\ reservations' = reservations
    BY <1>5 DEF RejectReservation, StockReserveFailedReply, NewEventID
  <2>3. PICK n : AnswerAdded(n, EventTypeStockReserveFailed, e.order_id)
    BY <1>1, <2>1, <2>2, AnswersGrow
  <2>4. outbox' \in Seq(Rows(Replies)) BY <1>1, <2>1, <2>2, AnswersGrow
  <2>5. \A id : ReservationsOf(id)' = ReservationsOf(id) BY <2>2 DEF ReservationsOf
  <2>6. ASSUME NEW id \in OrderIDs PROVE AnswerCount(id)'
    <3>1. CASE id = e.order_id
      <4>1. /\ Answers(EventTypeStockReserved, id)' = Answers(EventTypeStockReserved, id)
            /\ Answers(EventTypeStockReserveFailed, id)'
                  = Answers(EventTypeStockReserveFailed, id) \cup {n}
            /\ n \notin Answers(EventTypeStockReserved, id)
            /\ n \notin Answers(EventTypeStockReserveFailed, id)
        BY <1>2, <2>3, <3>1 DEF AnswerAdded
      <4>2. Created(id)' = Created(id) \cup {e} /\ e \notin Created(id) BY <3>1, CreatedGrows
      <4> PICK SR, SF, R, C :
             /\ SR = Answers(EventTypeStockReserved, id)
             /\ SF = Answers(EventTypeStockReserveFailed, id)
             /\ R = ReservationsOf(id) /\ C = Created(id)
        OBVIOUS
      <4>4. Balanced(SR, SF, R, C) /\ n \notin SR /\ n \notin SF /\ e \notin C
        BY <1>3, <4>1, <4>2 DEF AnswerCount
      <4>5. Balanced(SR, SF \cup {n}, R, C \cup {e})
        BY <4>4, CountsGrow
      <4> QED BY <4>5, <2>5, <4>1, <4>2 DEF AnswerCount
    <3>2. CASE id # e.order_id
      <4>1. /\ Answers(EventTypeStockReserved, id)' = Answers(EventTypeStockReserved, id)
            /\ Answers(EventTypeStockReserveFailed, id)' = Answers(EventTypeStockReserveFailed, id)
            /\ Created(id)' = Created(id)
        BY <2>3, <3>2, CreatedGrows DEF AnswerAdded
      <4> QED BY <1>3, <2>5, <4>1 DEF AnswerCount
    <3> QED BY <3>1, <3>2
  <2> QED BY <2>4, <2>6
<1> QED BY <1>4, <1>5

(* What was answered and reserved before a step stays so: rows stay, and   *)
(* of a reservation only the status changes.                               *)
LEMMA DemandStays ==
    ASSUME AnswersTellDemand,
           processed_events \subseteq processed_events',
           DOMAIN outbox \subseteq DOMAIN outbox',
           \A j \in DOMAIN outbox : outbox'[j] = outbox[j],
           DOMAIN reservations \subseteq DOMAIN reservations',
           \A i \in DOMAIN reservations : SameDemand(reservations'[i], reservations[i])
    PROVE  /\ \A i \in DOMAIN reservations : \E j \in DOMAIN outbox' :
                 /\ outbox'[j].payload.event_type = EventTypeStockReserved
                 /\ SameDemand(outbox'[j].payload, reservations'[i])
           /\ \A j \in DOMAIN outbox :
                 /\ \E event \in Inbound :
                       /\ event.event_type = EventTypeOrderCreated
                       /\ event.event_id \in processed_events'
                       /\ SameDemand(outbox'[j].payload, event)
                 /\ outbox'[j].payload.event_type = EventTypeStockReserved
                       => \E i \in DOMAIN reservations' :
                             SameDemand(outbox'[j].payload, reservations'[i])
BY DEF AnswersTellDemand, SameDemand

(* The answer to an OrderCreated event repeats its demand, and so does the *)
(* reservation that goes with it.                                          *)
LEMMA CreatedTells ==
    ASSUME AnswerInv, NEW e \in Inbound, e.event_type = EventTypeOrderCreated,
           processed_events' = MarkProcessed(processed_events, e),
           ReserveStock(inventory, e) \/ RejectReservation(e)
    PROVE  AnswersTellDemand'
<1> PICK n : n = Len(outbox) + 1 OBVIOUS
<1> PICK m : m = Len(reservations) + 1 OBVIOUS
<1>1. /\ outbox \in Seq(Rows(Replies)) /\ Len(outbox) \in Nat /\ DOMAIN outbox = 1 .. Len(outbox)
      /\ reservations \in Seq(Reservations(OrderIDs))
      /\ Len(reservations) \in Nat /\ DOMAIN reservations = 1 .. Len(reservations)
  BY DEF AnswerInv, IInv, TypeOK, OrderIDs
<1>2. ASSUME NEW a, outbox' = PublishInTx(outbox, a)
      PROVE  /\ DOMAIN outbox' = DOMAIN outbox \cup {n} /\ outbox'[n].payload = a
             /\ \A j \in DOMAIN outbox : outbox'[j] = outbox[j]
  <2> PICK row : row = [payload |-> a, status |-> StatusPending, retry_count |-> 0] OBVIOUS
  <2>1. outbox' = Append(outbox, row) /\ row.payload = a BY <1>2 DEF PublishInTx
  <2> QED BY <1>1, <2>1
<1>3. processed_events \subseteq processed_events' /\ e.event_id \in processed_events'
  BY DEF MarkProcessed
<1>4. AnswersTellDemand /\ \A i \in DOMAIN reservations : SameDemand(reservations[i], reservations[i])
  BY DEF AnswerInv, SameDemand
<1>5. CASE ReserveStock(inventory, e)
  <2> PICK a : a = StockReservedReply(e, n) OBVIOUS
  <2> PICK row : row = NewReservation(e.order_id, e.product_id, e.quantity) OBVIOUS
  <2>1. outbox' = PublishInTx(outbox, a) /\ reservations' = Append(reservations, row)
    BY <1>5 DEF ReserveStock, StockReservedReply, NewEventID
  <2>2. /\ a.event_type = EventTypeStockReserved
        /\ SameDemand(a, e) /\ SameDemand(a, row)
    BY DEF StockReservedReply, NewStockReservedEvent, NewReservation, SameDemand
  <2>3. /\ DOMAIN reservations' = DOMAIN reservations \cup {m} /\ reservations'[m] = row
        /\ \A i \in DOMAIN reservations : reservations'[i] = reservations[i]
    BY <1>1, <2>1
  <2>4. /\ DOMAIN outbox' = DOMAIN outbox \cup {n} /\ outbox'[n].payload = a
        /\ \A j \in DOMAIN outbox : outbox'[j] = outbox[j]
    BY <1>2, <2>1
  <2>5. \A i \in DOMAIN reservations : SameDemand(reservations'[i], reservations[i]) BY <1>4, <2>3
  <2> QED BY <1>3, <1>4, <2>2, <2>3, <2>4, <2>5, DemandStays DEF AnswersTellDemand
<1>6. CASE RejectReservation(e)
  <2> PICK a : a = StockReserveFailedReply(e, n) OBVIOUS
  <2>1. outbox' = PublishInTx(outbox, a) /\ reservations' = reservations
    BY <1>6 DEF RejectReservation, StockReserveFailedReply, NewEventID
  <2>2. a.event_type # EventTypeStockReserved /\ SameDemand(a, e)
    BY DEF StockReserveFailedReply, NewStockReserveFailedEvent, SameDemand,
           EventTypeStockReserved, EventTypeStockReserveFailed
  <2>3. /\ DOMAIN outbox' = DOMAIN outbox \cup {n} /\ outbox'[n].payload = a
        /\ \A j \in DOMAIN outbox : outbox'[j] = outbox[j]
    BY <1>2, <2>1
  <2> QED BY <1>3, <1>4, <2>1, <2>2, <2>3, DemandStays DEF AnswersTellDemand
<1> QED BY <1>5, <1>6

(* Every handler keeps answers, reservations and marks in step. *)
LEMMA StepAnswers == AnswerInv /\ [Next]_vars => AnswerInv'
<1> SUFFICES ASSUME AnswerInv, [Next]_vars PROVE AnswerInv' OBVIOUS
<1>1. IInv' BY StepIInv DEF AnswerInv
<1>2. ASSUME UNCHANGED outbox,
             \A id : ReservationsOf(id)' = ReservationsOf(id) /\ Created(id)' = Created(id),
             AnswersTellDemand'
      PROVE  AnswerInv'
  <2>1. \A type, id : Answers(type, id)' = Answers(type, id) BY <1>2 DEF Answers
  <2> QED BY <1>1, <1>2, <2>1 DEF AnswerInv, AnswerCount
<1>3. CASE UNCHANGED vars
  <2>1. AnswersTellDemand' BY <1>3 DEF vars, AnswerInv, AnswersTellDemand
  <2> QED BY <1>2, <1>3, <2>1 DEF vars, ReservationsOf, Created
<1>4. ASSUME NEW e \in Inbound, Handle(e), ~UNCHANGED vars PROVE AnswerInv'
  <2>1. ~AlreadyProcessed(processed_events, e)
        /\ processed_events' = MarkProcessed(processed_events, e)
    BY <1>4 DEF Handle, HandleOrderCreated, HandleOrderCancelled, HandleOrderCompleted
  <2>2. CASE e.event_type = EventTypeOrderCreated
    <3>1. ReserveStock(inventory, e) \/ RejectReservation(e)
      BY <1>4, <2>2 DEF Handle, HandleOrderCreated, EventTypeOrderCreated,
                        EventTypeOrderCancelled, EventTypeOrderCompleted
    <3>2. AnswersTellDemand' BY <2>1, <2>2, <3>1, CreatedTells
    <3> QED BY <1>1, <2>1, <2>2, <3>1, <3>2, CreatedAnswers DEF AnswerInv
  <2>3. CASE e.event_type # EventTypeOrderCreated
    <3>1. /\ UNCHANGED outbox
          /\ \E I, status : reservations' = SetStatus(I, status)
      BY <1>4, <2>3 DEF Handle, HandleOrderCancelled, HandleOrderCompleted
    <3>2. reservations \in Seq(Reservations(OrderIDs)) BY DEF AnswerInv, IInv, TypeOK, OrderIDs
    <3>3. /\ DOMAIN reservations' = DOMAIN reservations
          /\ \A i \in DOMAIN reservations :
                /\ reservations'[i].order_id = reservations[i].order_id
                /\ SameDemand(reservations'[i], reservations[i])
      <4>1. \A i \in DOMAIN reservations : reservations[i] \in Reservations(OrderIDs) BY <3>2
      <4> QED BY <3>1, <4>1 DEF SetStatus, Reservations, SameDemand
    <3>4. \A id : ReservationsOf(id)' = ReservationsOf(id) BY <3>3 DEF ReservationsOf
    <3>5. \A id : Created(id)' = Created(id) BY <2>1, <2>3, CreatedGrows
    <3>6. processed_events \subseteq processed_events' BY <2>1 DEF MarkProcessed
    <3>7. AnswersTellDemand' BY <3>1, <3>3, <3>6, DemandStays DEF AnswerInv, AnswersTellDemand
    <3> QED BY <1>2, <3>1, <3>4, <3>5, <3>7
  <2> QED BY <2>2, <2>3
<1> QED BY <1>3, <1>4 DEF Next

-----------------------------------------------------------------------------
(* Theorems *)

(* For every stock and every stream of events, the rows of inventory-db    *)
(* are well formed: the CHECK constraints of the schema never fire.        *)
THEOREM TypeCorrect == Spec => []TypeOK
<1>1. IInv => TypeOK BY DEF IInv
<1> QED BY <1>1, InitIInv, StepIInv, PTL DEF Spec

(* For every stock and every stream of events, the books balance: the      *)
(* service never oversells, releases twice or loses a unit.                *)
THEOREM StockConserved == Spec => []StockAccounting
<1>1. IInv => StockAccounting BY DEF IInv
<1> QED BY <1>1, InitIInv, StepIInv, PTL DEF Spec

(* For every stock and every stream of events, with every repetition, an   *)
(* order is answered once, and what is announced as reserved is reserved,  *)
(* for the product and the quantity that was asked for.                    *)
THEOREM OrdersAnsweredOnce == Spec => []AnsweredOnce
BY CountedIsAnswered, InitAnswers, StepAnswers, PTL DEF Spec

(* For every stock and every stream of events, a reservation is settled    *)
(* once: the handlers only touch reservations that are still held.         *)
THEOREM ReservationsSettleOnce == Spec => SettledOnce
<1>1. ASSUME IInv, [Next]_vars PROVE SettledStays \/ UNCHANGED vars
  <2>1. reservations \in Seq(Reservations(OrderIDs)) BY <1>1 DEF IInv, TypeOK, OrderIDs
  <2>2. CASE UNCHANGED vars BY <2>2
  <2>3. CASE Next
    <3>1. PICK event \in Inbound : Handle(event) BY <2>3 DEF Next
    <3>2. CASE UNCHANGED reservations BY <3>2 DEF SettledStays
    <3>3. CASE ReserveStock(inventory, event)
      <4>1. PICK row : reservations' = Append(reservations, row)
        BY <3>3 DEF ReserveStock
      <4> QED BY <2>1, <4>1 DEF SettledStays
    <3>4. ASSUME NEW I \in SUBSET Held(event.order_id), NEW status,
                 reservations' = SetStatus(I, status)
          PROVE  SettledStays
      BY <3>4 DEF SetStatus, Held, IsReserved, SettledStays
    <3>5. \/ UNCHANGED reservations
          \/ ReserveStock(inventory, event)
          \/ \E I \in SUBSET Held(event.order_id) :
                \/ reservations' = SetStatus(I, ReservationStatusReleased)
                \/ reservations' = SetStatus(I, ReservationStatusCommitted)
      BY <3>1 DEF Handle, HandleOrderCreated, HandleOrderCancelled, HandleOrderCompleted,
                  RejectReservation, vars
    <3> QED BY <3>2, <3>3, <3>4, <3>5
  <2> QED BY <1>1, <2>2, <2>3
<1>2. IInv /\ [Next]_vars => [SettledStays]_vars BY <1>1
<1> QED BY <1>2, InitIInv, StepIInv, PTL DEF Spec, SettledOnce
=============================================================================

----------------------------- MODULE Fulfilment -----------------------------
(***************************************************************************)
(* What the three services promise together, without events, outboxes,     *)
(* relays or a broker: the life of each order, of the stock held for it    *)
(* and of its payment, as if one database held all three.                  *)
(***************************************************************************)
EXTENDS Naturals, Sequences, FiniteSets

CONSTANTS
    ProductIDs, Quantities, Amounts, MaxOrders,   \* the orders as they are stored
    InitialStock                                  \* product id -> quantity

VARIABLES
    orders,   \* the orders placed: their data and status
    stock,    \* order -> what happened to the stock it asks for
    charge    \* order -> what happened to its payment

vars == <<orders, stock, charge>>

Ids == DOMAIN orders

Init == orders = <<>> /\ stock = <<>> /\ charge = <<>>

(* The units of a product that open and completed orders do not hold.      *)
HeldUnits(p) ==
    UNION {{id} \X (1 .. orders[id].quantity) :
              id \in {i \in Ids : /\ orders[i].product_id = p
                                  /\ stock[i] \in {"RESERVED", "COMMITTED"}}}

InStock(id) ==
    LET order == orders[id] IN
    /\ order.product_id \in DOMAIN InitialStock
    /\ Cardinality(HeldUnits(order.product_id)) + order.quantity
           <= InitialStock[order.product_id]

-----------------------------------------------------------------------------
Place(p, q, a) ==
    /\ Len(orders) < MaxOrders
    /\ orders' = Append(orders, [product_id |-> p, quantity |-> q, total_amount |-> a,
                                 status |-> "PENDING"])
    /\ stock' = Append(stock, "ASKED")
    /\ charge' = Append(charge, "NONE")

(* Stock is reserved exactly when there is enough of it. *)
Reserve(id) ==
    /\ stock[id] = "ASKED"
    /\ InStock(id)
    /\ stock' = [stock EXCEPT ![id] = "RESERVED"]
    /\ UNCHANGED <<orders, charge>>

Refuse(id) ==
    /\ stock[id] = "ASKED"
    /\ ~InStock(id)
    /\ stock' = [stock EXCEPT ![id] = "REFUSED"]
    /\ UNCHANGED <<orders, charge>>

(* Reserved stock is charged for once. *)
Charge(id, outcome) ==
    /\ charge[id] = "NONE"
    /\ stock[id] = "RESERVED"
    /\ charge' = [charge EXCEPT ![id] = outcome]
    /\ UNCHANGED <<orders, stock>>

Confirm(id) ==
    /\ orders[id].status = "PENDING"
    /\ stock[id] = "RESERVED"
    /\ orders' = [orders EXCEPT ![id].status = "CONFIRMED"]
    /\ UNCHANGED <<stock, charge>>

Complete(id) ==
    /\ orders[id].status = "CONFIRMED"
    /\ charge[id] = "COMPLETED"
    /\ orders' = [orders EXCEPT ![id].status = "COMPLETED"]
    /\ UNCHANGED <<stock, charge>>

Cancel(id) ==
    /\ orders[id].status \in {"PENDING", "CONFIRMED"}
    /\ charge[id] = "FAILED" \/ stock[id] = "REFUSED"
    /\ orders' = [orders EXCEPT ![id].status = "CANCELLED"]
    /\ UNCHANGED <<stock, charge>>

Settle(id, status, outcome) ==
    /\ orders[id].status = status
    /\ stock[id] = "RESERVED"
    /\ stock' = [stock EXCEPT ![id] = outcome]
    /\ UNCHANGED <<orders, charge>>

Next ==
    \/ \E p \in ProductIDs, q \in Quantities \ {0}, a \in Amounts : Place(p, q, a)
    \/ \E id \in Ids :
          \/ Reserve(id) \/ Refuse(id)
          \/ \E outcome \in {"COMPLETED", "FAILED"} : Charge(id, outcome)
          \/ Confirm(id) \/ Complete(id) \/ Cancel(id)
          \/ Settle(id, "CANCELLED", "RELEASED")
          \/ Settle(id, "COMPLETED", "COMMITTED")

Spec == Init /\ [][Next]_vars
=============================================================================

----------------------------- MODULE MCOrderTx ------------------------------
(***************************************************************************)
(* The order service alone, two goroutines handling every order of arrival *)
(* and every repetition of two deliveries of each kind of event, also for  *)
(* an order that does not exist (yet).                                     *)
(***************************************************************************)
EXTENDS OrderTx

CONSTANT MaxDeliverable   \* bound: events are about orders 1..MaxDeliverable

MCInbound ==
    LET ids == 1 .. MaxDeliverable IN
         {NewStockReservedEvent(<<"inventory", id>>, id, "p", 1, 1006) : id \in ids}
    \cup {NewStockReserveFailedEvent(<<"inventory", id + 10>>, id, "p", 1) : id \in ids}
    \cup {NewPaymentCompletedEvent(<<"payment", id>>, id, 1006) : id \in ids}
    \cup {NewPaymentCompletedEvent(<<"payment", id + 30>>, id, 1006) : id \in ids}
    \cup {NewPaymentFailedEvent(<<"payment", id + 10>>, id) : id \in ids}
    \cup {NewPaymentFailedEvent(<<"payment", id + 20>>, id) : id \in ids}
=============================================================================

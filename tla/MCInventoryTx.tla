--------------------------- MODULE MCInventoryTx ----------------------------
(***************************************************************************)
(* The inventory service alone: orders that compete for three units of "p",*)
(* one for a product that is not stocked, and cancellations and            *)
(* completions, contradictory and repeated ones too, in every order and    *)
(* handled by two goroutines at once.                                      *)
(***************************************************************************)
EXTENDS InventoryTx

MCInitialStock == [p |-> 3]

MCInbound ==
         {NewOrderCreatedEvent(<<"order", 1>>, 1, "p", 2, 1000),
          NewOrderCreatedEvent(<<"order", 2>>, 2, "p", 1, 1000),
          NewOrderCreatedEvent(<<"order", 3>>, 3, "p", 2, 1000),
          NewOrderCreatedEvent(<<"order", 4>>, 4, "unknown", 1, 1000)}
    \cup {NewOrderCancelledEvent(<<"order", id + 10>>, id) : id \in 1 .. 2}
    \cup {NewOrderCompletedEvent(<<"order", id + 30>>, id) : id \in {1, 3}}
=============================================================================

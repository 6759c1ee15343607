-------------------------- MODULE MCPaymentService --------------------------
(***************************************************************************)
(* The payment service alone: orders of 1.00, of 99.99, which the .99 rule *)
(* declines, of 19.99, which it misses, and of 0.004, and an event with a  *)
(* negative amount; one or two cancellations each; every order of arrival, *)
(* every repetition.                                                       *)
(***************************************************************************)
EXTENDS PaymentService

MCInbound ==
         {NewStockReservedEvent(<<"inventory", 1>>, 1, "p", 1, 1000),
          NewStockReservedEvent(<<"inventory", 2>>, 2, "p", 1, 99990),
          NewStockReservedEvent(<<"inventory", 3>>, 3, "p", 1, 19990),
          NewStockReservedEvent(<<"inventory", 4>>, 4, "p", 1, 4),
          NewStockReservedEvent(<<"inventory", 5>>, 5, "p", 1, -54)}
    \cup {NewOrderCancelledEvent(<<"order", id + 10>>, id) : id \in 1 .. 4}
    \cup {NewOrderCancelledEvent(<<"order", 21>>, 1)}
=============================================================================

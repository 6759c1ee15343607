------------------------------- MODULE MCSaga -------------------------------
(* The composed system, for TLC. *)
EXTENDS Saga

ScarceStock == [p |-> 1]
=============================================================================

------------------------------- MODULE Money --------------------------------
(***************************************************************************)
(* How an amount is stored.  Requests and events carry a float64, written  *)
(* here in tenths of a cent, which is enough to tell an amount from the    *)
(* nearest one that a column of type DECIMAL(10, 2) can hold.  The tables  *)
(* hold cents: pgx writes the shortest decimal that reads back as the      *)
(* float, and PostgreSQL rounds it, a half away from zero.                 *)
(***************************************************************************)
LOCAL INSTANCE Integers

(* The amount, which is positive, in cents as an INSERT stores it. *)
Decimal(amount) == (amount + 5) \div 10

=============================================================================

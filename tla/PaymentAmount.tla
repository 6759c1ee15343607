---------------------------- MODULE PaymentAmount ---------------------------
(***************************************************************************)
(* The float64 arithmetic of shouldFailPayment (services/payment):         *)
(*                                                                         *)
(*     int(amount*100) % 100 == 99                                         *)
(*                                                                         *)
(* An amount that is not a whole number of cents is truncated to the cents *)
(* below it: the rounding errors are far smaller than what is cut off.  For*)
(* one of a whole number c of cents they matter.  TLC has no 64-bit        *)
(* integers, so the two roundings (of c/100 to the double amount, and of   *)
(* amount*100 to a double) are followed by their error alone, which is     *)
(* exact:                                                                  *)
(*                                                                         *)
(*   - amount = m / 2^k with the 53-bit integer m nearest to c * 2^k / 100;*)
(*     100 * m = c * 2^k + RoundingError, so 100 * amount is off c by      *)
(*     RoundingError / 2^k;                                                *)
(*   - the product is rounded to a double again.  It falls below c, and is *)
(*     truncated to c - 1, only when the error is negative and larger than *)
(*     half the distance from c to the double before it.                   *)
(***************************************************************************)
EXTENDS Integers

(* Bound: amounts in cents, below 200 * 2^17 (262143.99). *)
MaxExponent == 17

Pow2Mod100[n \in Nat] == IF n = 0 THEN 1 ELSE (2 * Pow2Mod100[n - 1]) % 100

(* The exponent of the double nearest to c/100: 2^s <= c/100 < 2^(s+1). *)
AmountExponent(c) ==
    CHOOSE s \in -7 .. MaxExponent :
        IF s >= 0 THEN 100 * 2^s <= c /\ c < 200 * 2^s
                  ELSE 100 <= c * 2^(-s) /\ c * 2^(-s) < 200

(* The exponent of the double just before c. *)
ExponentBelow(c) == CHOOSE e \in -1 .. MaxExponent + 7 :
                        IF e >= 0 THEN 2^e < c /\ c <= 2^(e + 1) ELSE c = 1

RoundingError(c) ==
    LET t == ((c % 100) * Pow2Mod100[52 - AmountExponent(c)]) % 100
    IN  IF t < 50 THEN -t ELSE 100 - t

(* int(amount*100), for c cents *)
Truncated(c) ==
    LET error    == RoundingError(c)
        halfStep == 2^(52 - AmountExponent(c) + ExponentBelow(c) - 53)
    IN  IF error < 0 /\ -error > halfStep THEN c - 1 ELSE c

(* int(amount*100) of an amount in tenths of a cent *)
Cents(amount) == IF amount % 10 = 0 THEN Truncated(amount \div 10) ELSE amount \div 10

EndsIn99(amount) == Cents(amount) % 100 = 99
=============================================================================

--------------------------- MODULE MCIdempotency ---------------------------
(***************************************************************************)
(* Model of Idempotency for TLC: two deliveries over one key, and the      *)
(* lease of the code, 30 seconds renewed every 10.                         *)
(***************************************************************************)
EXTENDS Idempotency

CONSTANTS d1, d2

TwoDeliveries == {d1, d2}
ThreeIntervals == 30 \div 10
=============================================================================

---------------------------- MODULE MCDeadReplay ----------------------------
(***************************************************************************)
(* Model of DeadReplay for TLC: deliveries of the original job and of the  *)
(* replays, one or two operators.                                          *)
(***************************************************************************)
EXTENDS DeadReplay, TLC

OperatorSymmetry == Permutations(Operators)
=============================================================================

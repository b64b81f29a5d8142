--------------------------- MODULE MCMemoryDriver ---------------------------
(***************************************************************************)
(* Model of MemoryDriver for TLC: interchangeable job objects, whose runs  *)
(* are the deliveries over the key.                                        *)
(***************************************************************************)
EXTENDS MemoryDriver, TLC

JobSymmetry == Permutations(Jobs \ Keyed)

AllRuns == Keyed \X (1..MaxStarts)
=============================================================================

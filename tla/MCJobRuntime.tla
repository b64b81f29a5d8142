---------------------------- MODULE MCJobRuntime ----------------------------
(***************************************************************************)
(* Model of JobRuntime for TLC: one or two worker processes that take the  *)
(* hand-outs of one job.                                                   *)
(***************************************************************************)
EXTENDS JobRuntime, TLC

WorkerSymmetry == Permutations(Workers)
=============================================================================

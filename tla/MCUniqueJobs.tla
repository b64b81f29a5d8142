---------------------------- MODULE MCUniqueJobs ----------------------------
(***************************************************************************)
(* Model of UniqueJobs for TLC: every mode, with a window and without, and *)
(* a delay longer than the window, or none.                                *)
(***************************************************************************)
EXTENDS UniqueJobs, TLC

EveryPolicy == [mode : Modes, ttlMs : {0, 2}, delayMs : {0, 3}]

JobSymmetry == Permutations(Jobs)
=============================================================================

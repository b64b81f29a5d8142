--------------------------- MODULE MCStartRuntime ---------------------------
(***************************************************************************)
(* Model of StartRuntime for TLC: the first process has handlers on both  *)
(* queues, the second on `reports`, the third on `billing` alone; `digest` *)
(* and `close` are declared wherever their queue is, `trial` by the second *)
(* only, `gone` by none, and `theirs` belongs to another tool.             *)
(***************************************************************************)
EXTENDS StartRuntime, TLC

CONSTANTS p1, p2, p3, reports, billing, digest, close, trial, gone, theirs

Placed == (digest :> reports) @@ (close :> billing) @@ (trial :> reports)
            @@ (gone :> billing) @@ (theirs :> reports)
Handlers == (p1 :> {digest, close}) @@ (p2 :> {digest, trial}) @@ (p3 :> {close})
Consumed == (p1 :> {reports, billing}) @@ (p2 :> {reports}) @@ (p3 :> {billing})
=============================================================================

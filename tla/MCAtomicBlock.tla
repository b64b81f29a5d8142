--------------------------- MODULE MCAtomicBlock ---------------------------
(***************************************************************************)
(* Model of AtomicBlock for TLC: a block inside a block, and one with a tx *)
(* that may be opened inside the first, or after it ended.                 *)
(***************************************************************************)
EXTENDS AtomicBlock, TLC

CONSTANTS outer, inner, writer, a, b, c, d

Nesting == (outer :> NoBlock) @@ (inner :> outer) @@ (writer :> outer)
Making  == (a :> outer) @@ (b :> inner) @@ (c :> writer) @@ (d :> writer)
=============================================================================

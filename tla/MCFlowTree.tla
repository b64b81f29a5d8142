----------------------------- MODULE MCFlowTree -----------------------------
(***************************************************************************)
(* Model of FlowTree for TLC: the flow of docs/flows.md, a root over one   *)
(* node, which is itself a parent of two in one slot.  Two retries put a   *)
(* death at the bottom and the one it caused above it right again; the     *)
(* node in the middle may be found stalled once too often.                 *)
(***************************************************************************)
EXTENDS FlowTree, TLC

CONSTANTS mail, build, fetch1, fetch2, report, rows

FourNodes == {mail, build, fetch1, fetch2}
UpToMail  == (build :> mail) @@ (fetch1 :> build) @@ (fetch2 :> build)
BelowOf   == (mail :> {build, fetch1, fetch2}) @@ (build :> {fetch1, fetch2})
             @@ (fetch1 :> {}) @@ (fetch2 :> {})
Declared  == (mail :> {report}) @@ (build :> {rows}) @@ (fetch1 :> {}) @@ (fetch2 :> {})
Filled    == (build :> report) @@ (fetch1 :> rows) @@ (fetch2 :> rows)
TwoForBuild == (mail :> 1) @@ (build :> 2) @@ (fetch1 :> 1) @@ (fetch2 :> 1)
StallsAllowed == (mail :> 1) @@ (build :> 2) @@ (fetch1 :> 0) @@ (fetch2 :> 0)
=============================================================================

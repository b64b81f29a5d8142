------------------------- MODULE MCPayloadVersions -------------------------
(***************************************************************************)
(* Model of PayloadVersions for TLC: a chain of builds that raise the      *)
(* version, leave a step out, take up a schedule and then children, one    *)
(* that does not register the job and one that defineJob refuses.          *)
(***************************************************************************)
EXTENDS PayloadVersions, TLC

CONSTANTS one, two, three, flow, bare, stray

Plain == [registered |-> TRUE, version |-> 1, migrations |-> {}, slots |-> {},
          unique |-> "no", keyed |-> FALSE, scheduled |-> FALSE]

Declared ==
  (one :> Plain)
    @@ (two :> [Plain EXCEPT !.version = 2, !.scheduled = TRUE])
    @@ (three :> [Plain EXCEPT !.version = 3, !.migrations = {1, 2}])
    @@ (flow :> [Plain EXCEPT !.version = 3, !.migrations = {1, 2}, !.slots = Slots])
    @@ (bare :> [Plain EXCEPT !.registered = FALSE])
    @@ (stray :> [Plain EXCEPT !.version = 2, !.migrations = {2}])

WorkersAndJobs == Permutations(Workers) \cup Permutations(Jobs)
=============================================================================

----------------------------- MODULE MemoryKey -----------------------------
(***************************************************************************)
(* The idempotency store of memoryDriver (testing/index.ts): one key in    *)
(* its two maps, `leased` and `kept`, and the calls of runUnderKey a test  *)
(* makes over it.  The driver lives in the test's own process: a call of   *)
(* the store is never lost, nobody crashes, no lease or result expires.    *)
(*                                                                         *)
(* The store in Redis keeps one value where this one keeps two maps, and   *)
(* tells leases apart by a prefix where this one asks two maps in an order *)
(* of its own: that every behaviour here is one of Idempotency is what     *)
(* makes a test of a keyed job say something about Redis.                  *)
(***************************************************************************)
EXTENDS Naturals

CONSTANTS
  Deliveries,   \* calls of runUnderKey over the key
  Nobody

ASSUME DeliveriesAssumption == Nobody \notin Deliveries

VARIABLES
  leased,       \* the token under the key in `leased`, or Nobody
  kept,         \* whose result is under the key in `kept`, or Nobody
  pc, outcome, answer,   \* as in Idempotency
  forgotten     \* history: a kept result was forgotten

vars == <<leased, kept, pc, outcome, answer, forgotten>>

Init ==
  /\ leased = Nobody /\ kept = Nobody
  /\ pc = [d \in Deliveries |-> "idle"]
  /\ outcome = [d \in Deliveries |-> "none"]
  /\ answer = [d \in Deliveries |-> Nobody]
  /\ forgotten = FALSE

Goes(d, to) == pc' = [pc EXCEPT ![d] = to]

Returned(d) == outcome[d] = "returned"

Deliver(d) ==
  /\ pc[d] = "idle"
  /\ Goes(d, "acquiring")
  /\ UNCHANGED <<leased, kept, outcome, answer, forgotten>>

\* acquire asks `kept` first, then `leased`.
Acquire(d) ==
  /\ pc[d] = "acquiring"
  /\ \/ /\ kept # Nobody
        /\ answer' = [answer EXCEPT ![d] = kept]
        /\ Goes(d, "answered")
        /\ UNCHANGED leased
     \/ /\ kept = Nobody /\ leased # Nobody
        /\ Goes(d, "held")
        /\ UNCHANGED <<leased, answer>>
     \/ /\ kept = Nobody /\ leased = Nobody
        /\ leased' = d
        /\ Goes(d, "granted")
        /\ UNCHANGED answer
  /\ UNCHANGED <<kept, outcome, forgotten>>

BodyStarts(d) ==
  /\ pc[d] = "granted"
  /\ Goes(d, "running")
  /\ UNCHANGED <<leased, kept, outcome, answer, forgotten>>

\* timeoutMs expires: the key stays leased until the body ends.
Timeout(d) ==
  /\ pc[d] = "running"
  /\ Goes(d, "detached")
  /\ UNCHANGED <<leased, kept, outcome, answer, forgotten>>

\* The body returns or throws; what keptResultOf keeps of a result is left out.
BodyEnds(d, how) ==
  /\ pc[d] \in {"running", "detached"}
  /\ Goes(d, IF pc[d] = "running" THEN "settling" ELSE "trailing")
  /\ outcome' = [outcome EXCEPT ![d] = how]
  /\ UNCHANGED <<leased, kept, answer, forgotten>>

\* complete refuses a key leased to another token, and writes otherwise, over a
\* kept result too.
Complete(d) ==
  IF leased \notin {Nobody, d} THEN UNCHANGED <<leased, kept>>
  ELSE leased' = Nobody /\ kept' = d

Release(d) ==
  /\ leased' = IF leased = d THEN Nobody ELSE leased
  /\ UNCHANGED kept

Settle(d) ==
  /\ pc[d] \in {"settling", "trailing"}
  /\ IF Returned(d) THEN Complete(d) ELSE Release(d)
  /\ Goes(d, IF pc[d] = "trailing" THEN "ended"
             ELSE IF Returned(d) THEN "returned" ELSE "failed")
  /\ UNCHANGED <<outcome, answer, forgotten>>

Forget_TakesLease ==
  /\ leased # Nobody \/ kept # Nobody
  /\ leased' = Nobody /\ kept' = Nobody
  /\ forgotten' = (forgotten \/ kept # Nobody)
  /\ UNCHANGED <<pc, outcome, answer>>

\* forget asks `leased` first: a held key is refused, a kept result goes.
Forget ==
  /\ leased = Nobody /\ kept # Nobody
  /\ kept' = Nobody
  /\ forgotten' = TRUE
  /\ UNCHANGED <<leased, pc, outcome, answer>>

Next ==
  \/ \E d \in Deliveries :
       \/ Deliver(d) \/ Acquire(d) \/ BodyStarts(d) \/ Timeout(d) \/ Settle(d)
       \/ \E how \in {"returned", "threw"} : BodyEnds(d, how)
  \/ Forget

Spec == Init /\ [][Next]_vars

-----------------------------------------------------------------------------
\* The one value Redis would hold: the prefix says running, anything else is a
\* kept result.  A lease that never ages is one just set.
Key == INSTANCE Idempotency WITH
  LeaseTicks <- 1,
  keyState <- IF kept # Nobody THEN "complete"
              ELSE IF leased # Nobody THEN "running" ELSE "absent",
  token <- leased,
  ttl <- IF leased # Nobody THEN 1 ELSE 0,
  due <- [d \in Deliveries |-> FALSE],
  missed <- [d \in Deliveries |-> 0],
  lapsed <- [d \in Deliveries |-> FALSE],
  troubled <- forgotten

\* The store of memoryDriver does what the Lua scripts do: every behaviour of a
\* test's keyed jobs is one the store in Redis allows, so no test passes on an
\* answer (a kept result, a held key, a forget) Redis would not give.
MemoryImplementsKey == Key!Spec

-----------------------------------------------------------------------------
\* The key is in one map at a time, and whoever runs or settles a body holds the
\* lease: the second map and complete's overwriting make no difference then.
IndInv ==
  /\ leased \in Deliveries \cup {Nobody}
  /\ kept \in Deliveries \cup {Nobody}
  /\ pc \in [Deliveries -> Key!Live \cup Key!Ends \cup {"idle"}]
  /\ outcome \in [Deliveries -> {"none", "returned", "threw"}]
  /\ leased = Nobody \/ kept = Nobody
  /\ \A d \in Deliveries :
       pc[d] \in {"granted", "running", "detached", "settling", "trailing"} => leased = d

=============================================================================

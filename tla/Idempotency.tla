---------------------------- MODULE Idempotency ----------------------------
(***************************************************************************)
(* One idempotency key of jubs: the store that keeps it in Redis (the Lua  *)
(* scripts of RedisDriver.ts) and the calls of `runUnderKey`               *)
(* (Idempotency.ts) that compete for it.                                   *)
(*                                                                         *)
(* A member of Deliveries is one call of `runUnderKey`, that is one        *)
(* delivery of a job whose payload names the key.  Every call draws a      *)
(* fresh token (randomUUID), so the delivery itself stands for its token.  *)
(* Time passes in renewal intervals (IDEMPOTENCY_RENEW_MS): a lease set at *)
(* the store lives for LeaseTicks of them.                                 *)
(***************************************************************************)
EXTENDS Naturals

CONSTANTS
  Deliveries,   \* calls of runUnderKey over the key
  LeaseTicks,   \* IDEMPOTENCY_LEASE_MS / IDEMPOTENCY_RENEW_MS, 3 in the code
  Nobody        \* no token, no result

ASSUME DeliveriesAssumption == Nobody \notin Deliveries
ASSUME LeaseTicksAssumption == LeaseTicks \in Nat \ {0}

VARIABLES
  keyState,     \* what the Redis key holds: nothing, a lease, a kept result
  token,        \* whose `running:<token>` the key holds
  kept,         \* which delivery's result a complete key keeps
  ttl,          \* renewal intervals until a lease expires
  pc,           \* where each call of runUnderKey stands
  outcome,      \* how the handler's body of each delivery ended
  answer,       \* the result a call took from a complete key
  due,          \* a renewal of the delivery was sent and has not landed
  missed,       \* renewal intervals in a row without a renewal landing
  lapsed,       \* history: the lease expired under the running body
  troubled      \* history: something freed the key of a body that returned

storeVars == <<keyState, token, kept, ttl>>
callVars  == <<pc, outcome, answer>>
vars == <<keyState, token, kept, ttl, pc, outcome, answer, due, missed, lapsed,
          troubled>>

(***************************************************************************)
(* Where a call of runUnderKey stands.  "acquiring": the acquire script is *)
(* sent.  "granted": it set the lease, its reply is on the way.            *)
(* "running": the body runs and the call awaits it.  "detached": the       *)
(* attempt failed with an error that carries `running`, the body goes on.  *)
(* "settling": the body ended, the call awaits complete or release.        *)
(* "trailing": a detached body ended, its complete or release is sent.     *)
(* The others are ends: LeaseHeldError, a kept result, the body's own      *)
(* result, an error, a detached body settled, the worker process died.     *)
(***************************************************************************)
Live     == {"acquiring", "granted", "running", "detached", "settling", "trailing"}
Ends     == {"held", "answered", "returned", "failed", "ended", "crashed"}
Outcomes == {"none", "returned", "unkeepable", "threw"}

BodyRuns(d) == pc[d] \in {"running", "detached"}
Returned(d) == outcome[d] \in {"returned", "unkeepable"}
HeldBy(d)   == keyState = "running" /\ token = d

Renewing_StopsAtTimeout(d) == pc[d] = "running"
Renewing_NeverStops(d) == pc[d] \in {"running", "detached", "trailing", "ended", "failed"}

\* setInterval of renewWhileRunning is armed until stop() is called; on the
\* detached path stop() is the last thing settleWhenBodyEnds does.
Renewing(d) == pc[d] \in {"running", "detached", "trailing"}

TypeOK ==
  /\ keyState \in {"absent", "running", "complete"}
  /\ token \in Deliveries \cup {Nobody}
  /\ kept \in Deliveries \cup {Nobody}
  /\ ttl \in 0..LeaseTicks
  /\ pc \in [Deliveries -> {"idle"} \cup Live \cup Ends]
  /\ outcome \in [Deliveries -> Outcomes]
  /\ answer \in [Deliveries -> Deliveries \cup {Nobody}]
  /\ due \in [Deliveries -> BOOLEAN]
  /\ missed \in [Deliveries -> 0..LeaseTicks]
  /\ lapsed \in [Deliveries -> BOOLEAN]
  /\ troubled \in BOOLEAN

Init ==
  /\ keyState = "absent" /\ token = Nobody /\ kept = Nobody /\ ttl = 0
  /\ pc = [d \in Deliveries |-> "idle"]
  /\ outcome = [d \in Deliveries |-> "none"]
  /\ answer = [d \in Deliveries |-> Nobody]
  /\ due = [d \in Deliveries |-> FALSE]
  /\ missed = [d \in Deliveries |-> 0]
  /\ lapsed = [d \in Deliveries |-> FALSE]
  /\ troubled = FALSE

-----------------------------------------------------------------------------
(* What the scripts do to the key.  Each one is atomic in Redis.           *)

SetLease_TooLong(d) ==
  keyState' = "running" /\ token' = d /\ kept' = Nobody /\ ttl' = LeaseTicks + 1

SetLease(d) ==
  keyState' = "running" /\ token' = d /\ kept' = Nobody /\ ttl' = LeaseTicks

DeleteKey ==
  keyState' = "absent" /\ token' = Nobody /\ kept' = Nobody /\ ttl' = 0

\* Refuses a key another token or a kept result occupies; writes over an
\* absent one, "because nobody holds it then".
CompleteLua(d) ==
  IF keyState = "absent" \/ HeldBy(d)
  THEN keyState' = "complete" /\ token' = Nobody /\ kept' = d /\ ttl' = 0
  ELSE UNCHANGED storeVars

ReleaseLua(d) == IF HeldBy(d) THEN DeleteKey ELSE UNCHANGED storeVars

ForgetLua_TakesLease == IF keyState # "absent" THEN DeleteKey ELSE UNCHANGED storeVars

\* An absent key answers not_found, a held one running, a complete one goes.
ForgetLua == IF keyState = "complete" THEN DeleteKey ELSE UNCHANGED storeVars

-----------------------------------------------------------------------------
(* runUnderKey, step by step.                                              *)

\* dispatch calls runUnderKey, which sends the acquire script.
Deliver(d) ==
  /\ pc[d] = "idle"
  /\ pc' = [pc EXCEPT ![d] = "acquiring"]
  /\ UNCHANGED <<storeVars, outcome, answer, due, missed, lapsed, troubled>>

\* The acquire script runs: it takes an absent key, and answers held or
\* complete for one that is there.
AcquireApplies_StealsComplete(d) ==
  /\ pc[d] = "acquiring"
  /\ \/ /\ keyState # "running"
        /\ SetLease(d)
        /\ pc' = [pc EXCEPT ![d] = "granted"]
        /\ UNCHANGED answer
     \/ /\ keyState = "running"
        /\ pc' = [pc EXCEPT ![d] = "held"]
        /\ UNCHANGED <<storeVars, answer>>
  /\ UNCHANGED <<outcome, due, missed, lapsed, troubled>>

AcquireApplies(d) ==
  /\ pc[d] = "acquiring"
  /\ \/ /\ keyState = "absent"
        /\ SetLease(d)
        /\ pc' = [pc EXCEPT ![d] = "granted"]
        /\ UNCHANGED answer
     \/ /\ keyState = "running"
        /\ pc' = [pc EXCEPT ![d] = "held"]
        /\ UNCHANGED <<storeVars, answer>>
     \/ /\ keyState = "complete"
        /\ pc' = [pc EXCEPT ![d] = "answered"]
        /\ answer' = [answer EXCEPT ![d] = kept]
        /\ UNCHANGED storeVars
  /\ UNCHANGED <<outcome, due, missed, lapsed, troubled>>

\* The acquire call rejects: the command never reached Redis, or it was
\* applied and its reply was lost, which leaves a lease nobody renews.
AcquireFails(d) ==
  /\ pc[d] = "acquiring"
  /\ \/ UNCHANGED storeVars
     \/ keyState = "absent" /\ SetLease(d)
  /\ pc' = [pc EXCEPT ![d] = "failed"]
  /\ UNCHANGED <<outcome, answer, due, missed, lapsed, troubled>>

\* The reply arrives: renewWhileRunning arms its timer and run() is called.
BodyStarts(d) ==
  /\ pc[d] = "granted"
  /\ pc' = [pc EXCEPT ![d] = "running"]
  /\ UNCHANGED <<storeVars, outcome, answer, due, missed, lapsed, troubled>>

\* The attempt fails with an error that carries `running` (a timeoutMs that
\* expired): settleWhenBodyEnds takes the lease over and the call throws.
Timeout_Releases(d) ==
  /\ pc[d] = "running"
  /\ pc' = [pc EXCEPT ![d] = "detached"]
  /\ ReleaseLua(d)
  /\ UNCHANGED <<outcome, answer, due, missed, lapsed, troubled>>

Timeout(d) ==
  /\ pc[d] = "running"
  /\ pc' = [pc EXCEPT ![d] = "detached"]
  /\ UNCHANGED <<storeVars, outcome, answer, due, missed, lapsed, troubled>>

\* `missed` and `lapsed` are about a body that runs; they go with it.
ForgetHistory(d) ==
  missed' = [missed EXCEPT ![d] = 0] /\ lapsed' = [lapsed EXCEPT ![d] = FALSE]

\* The body ends: with a result keptResultOf keeps, with one too large or
\* unserialisable, or with an error.
BodyEnds(d, how) ==
  /\ BodyRuns(d)
  /\ how \in Outcomes \ {"none"}
  /\ pc' = [pc EXCEPT ![d] = IF pc[d] = "running" THEN "settling" ELSE "trailing"]
  /\ outcome' = [outcome EXCEPT ![d] = how]
  /\ ForgetHistory(d)
  /\ UNCHANGED <<storeVars, answer, due, troubled>>

\* Where the call ends once its complete or release came back.
AfterSettling(d, answered) ==
  IF pc[d] = "trailing" THEN "ended"
  ELSE IF Returned(d) /\ answered THEN "returned" ELSE "failed"

SettleApplies_CompletesThrown(d, answered) ==
  /\ pc[d] \in {"settling", "trailing"}
  /\ CompleteLua(d)
  /\ pc' = [pc EXCEPT ![d] = AfterSettling(d, answered)]
  /\ UNCHANGED <<outcome, answer, due, missed, lapsed, troubled>>

\* store.complete for a body that returned, store.release for one that threw.
\* The reply may be lost after the script ran: the call then rejects.
SettleApplies(d, answered) ==
  /\ pc[d] \in {"settling", "trailing"}
  /\ IF Returned(d) THEN CompleteLua(d) ELSE ReleaseLua(d)
  /\ pc' = [pc EXCEPT ![d] = AfterSettling(d, answered)]
  /\ UNCHANGED <<outcome, answer, due, missed, lapsed, troubled>>

\* The command never reached Redis: the key stays held until it expires.
SettleLost(d) ==
  /\ pc[d] \in {"settling", "trailing"}
  /\ pc' = [pc EXCEPT ![d] = AfterSettling(d, FALSE)]
  /\ UNCHANGED <<storeVars, outcome, answer, due, missed, lapsed, troubled>>

\* The worker process dies: the body and the timer die with it, the key stays.
Crash(d) ==
  /\ pc[d] \in Live
  /\ pc' = [pc EXCEPT ![d] = "crashed"]
  /\ ForgetHistory(d)
  /\ UNCHANGED <<storeVars, outcome, answer, due, troubled>>

-----------------------------------------------------------------------------
(* Time, renewals and the operator.                                        *)

OneMore(n) == IF n < LeaseTicks THEN n + 1 ELSE n

\* A renewal lands: it prolongs the lease only while the key holds its token.
RenewArrives(d) ==
  /\ due[d]
  /\ due' = [due EXCEPT ![d] = FALSE]
  /\ IF HeldBy(d)
     THEN ttl' = LeaseTicks /\ missed' = [missed EXCEPT ![d] = 0]
     ELSE UNCHANGED <<ttl, missed>>
  /\ UNCHANGED <<keyState, token, kept, callVars, lapsed, troubled>>

\* store.renew rejects; the error is logged and the body goes on.
RenewLost(d) ==
  /\ due[d]
  /\ due' = [due EXCEPT ![d] = FALSE]
  /\ missed' = [missed EXCEPT ![d] = IF BodyRuns(d) THEN OneMore(missed[d]) ELSE 0]
  /\ UNCHANGED <<storeVars, callVars, lapsed, troubled>>

\* One renewal interval passes.  A lease loses a tick and goes with its last
\* one; every armed timer sends a renewal.  An interval without a landing is
\* missed: the renewal before is still on its way, or the acquire reply is.
Tick ==
  /\ keyState = "running" \/ \E d \in Deliveries : Renewing(d) /\ ~due[d]
  /\ IF keyState = "running" /\ ttl > 1
     THEN ttl' = ttl - 1 /\ UNCHANGED <<keyState, token, kept, lapsed, troubled>>
     ELSE IF keyState = "running"
     THEN /\ DeleteKey
          /\ lapsed' = [d \in Deliveries |->
               lapsed[d] \/ (d = token /\ (BodyRuns(d) \/ pc[d] = "granted"))]
          /\ troubled' = (troubled \/ BodyRuns(token) \/ pc[token] = "granted"
                                   \/ Returned(token))
     ELSE UNCHANGED <<storeVars, lapsed, troubled>>
  /\ due' = [d \in Deliveries |-> due[d] \/ Renewing(d)]
  /\ missed' = [d \in Deliveries |->
       IF (BodyRuns(d) /\ due[d]) \/ pc[d] = "granted"
       THEN OneMore(missed[d]) ELSE missed[d]]
  /\ UNCHANGED callVars

\* IDEMPOTENCY_RESULT_RETENTION_MS passed.
ResultExpires ==
  /\ keyState = "complete"
  /\ DeleteKey
  /\ troubled' = TRUE
  /\ UNCHANGED <<callVars, due, missed, lapsed>>

\* An operator calls jobs.idempotency.forget, or jobs.dead.replay does.
Forget ==
  /\ keyState # "absent"
  /\ ForgetLua
  /\ troubled' = (troubled \/ keyState = "complete")
  /\ UNCHANGED <<callVars, due, missed, lapsed>>

-----------------------------------------------------------------------------
Step(d) ==
  \/ Deliver(d) \/ AcquireApplies(d) \/ AcquireFails(d) \/ BodyStarts(d)
  \/ Timeout(d)
  \/ \E how \in Outcomes : BodyEnds(d, how)
  \/ \E answered \in BOOLEAN : SettleApplies(d, answered)
  \/ SettleLost(d) \/ Crash(d) \/ RenewArrives(d) \/ RenewLost(d)

Next ==
  \/ \E d \in Deliveries : Step(d)
  \/ Tick \/ ResultExpires \/ Forget

(***************************************************************************)
(* Redis' clock runs on, whatever the workers do; and a command sent by a  *)
(* live process comes back, with a reply or with an error.  A body may     *)
(* never end, an operator may never call, a process may die at any time.   *)
(***************************************************************************)
Fairness ==
  /\ WF_vars(Tick)
  /\ \A d \in Deliveries :
       WF_vars(SettleLost(d) \/ \E answered \in BOOLEAN : SettleApplies(d, answered))

Spec == Init /\ [][Next]_vars
FairSpec == Spec /\ Fairness

-----------------------------------------------------------------------------
(* Properties                                                              *)

\* While a handler body runs, whether its delivery still waits for it or was
\* failed by timeoutMs, and its lease has not expired under it, the key holds
\* that delivery's token: the lease follows the body (settleWhenBodyEnds).
LeaseFollowsBody ==
  \A d \in Deliveries : BodyRuns(d) /\ ~lapsed[d] => HeldBy(d)

\* Two bodies of one key run side by side only if the lease of one expired
\* under it: the double execution the store's tokens exist to prevent.
NoSecondBody ==
  \A d, e \in Deliveries :
    d # e /\ BodyRuns(d) /\ BodyRuns(e) => lapsed[d] \/ lapsed[e]

\* A lease expires under a body only when LeaseTicks - 1 renewals in a row
\* failed to land: with the three intervals of the code, two in a row.
LapseNeedsMissedRenewals ==
  \A d \in Deliveries :
    BodyRuns(d) /\ lapsed[d] => missed[d] >= LeaseTicks - 1

\* A result handed back in place of a run was returned by a body of this key:
\* never one of a body that threw or still runs.
AnsweredResultIsReal ==
  \A d \in Deliveries :
    pc[d] = "answered" => answer[d] \in Deliveries /\ Returned(answer[d])

\* Unless a lease expired under a body or before its result was kept, the
\* retention passed or an operator forgot the key, at most one body of the key
\* ever returns: retries, redeliveries and crashes run no second one.
ReturnsOnce ==
  \A d, e \in Deliveries : d # e /\ Returned(d) /\ Returned(e) => troubled

\* A lease leaves the key only by its own delivery settling or by expiring: a
\* late renewal, complete or release of another delivery, or a forget, never
\* takes it away.
LeaseTakenOnlyByHolder ==
  [][\A d \in Deliveries :
       HeldBy(d) /\ ~HeldBy(d)' => pc'[d] # pc[d] \/ ttl = 1]_vars

\* A lease no body needs any more frees itself, with nobody cleaning up: the
\* worker died, the acquire reply was lost, or the settling command was.
SpentLeaseGoes ==
  \A d \in Deliveries :
    (pc[d] \in Ends \cup {"settling", "trailing"} /\ HeldBy(d)) ~> ~HeldBy(d)

-----------------------------------------------------------------------------
(***************************************************************************)
(* The inductive invariant behind the safety properties.                   *)
(***************************************************************************)

\* From the script that granted the lease to the end of the body.
NeedsLease(d) == pc[d] \in {"granted", "running", "detached"}

KeyShape ==
  /\ keyState = "running" => token \in Deliveries /\ ttl >= 1
  /\ keyState = "complete" => kept \in Deliveries /\ Returned(kept)

BodyNotEnded(d) == pc[d] \in {"idle", "acquiring", "granted", "running", "detached"}

\* What has to hold of one delivery for the properties to be inductive: its
\* lease is there or lapsed, its body's end is recorded once, no renewal is
\* sent before the body starts, ticks are accounted for by missed renewals,
\* and a returned body's key is its own until something troubles it.
DeliveryInv(d) ==
  /\ NeedsLease(d) /\ ~lapsed[d] => HeldBy(d)
  /\ BodyNotEnded(d) => outcome[d] = "none"
  /\ pc[d] \in {"idle", "acquiring", "granted"} => ~due[d]
  /\ NeedsLease(d) /\ HeldBy(d) =>
       ttl + missed[d] + (IF due[d] THEN 1 ELSE 0) >= LeaseTicks
  /\ lapsed[d] =>
       NeedsLease(d) /\ ~HeldBy(d) /\ missed[d] >= LeaseTicks - 1 /\ troubled
  /\ Returned(d) /\ ~troubled =>
       HeldBy(d) \/ (keyState = "complete" /\ kept = d)
  /\ pc[d] = "answered" => answer[d] \in Deliveries /\ Returned(answer[d])

IndInv == TypeOK /\ KeyShape /\ \A d \in Deliveries : DeliveryInv(d)

=============================================================================

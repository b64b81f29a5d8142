------------------------- MODULE IdempotencyProofs -------------------------
(***************************************************************************)
(* The safety properties of Idempotency, proved for any set of deliveries  *)
(* and any lease length: IndInv is inductive, the properties are read off  *)
(* it.  Then its composition with replays (DeadReplay), for any number of  *)
(* operators: it implements the key, so all of this carries over, and no   *)
(* replay loses a job or is answered from before it.                       *)
(***************************************************************************)
EXTENDS DeadReplay, TLAPS

USE DeliveriesAssumption, LeaseTicksAssumption

\* The key starts absent and no call has started, which satisfies every part
\* of the inductive invariant.
LEMMA InitIndInv == Init => IndInv
<1> SUFFICES ASSUME Init PROVE IndInv
  OBVIOUS
<1>1. TypeOK
  <2>1. due \in [Deliveries -> BOOLEAN] /\ lapsed \in [Deliveries -> BOOLEAN]
        /\ troubled \in BOOLEAN
    BY Zenon DEF Init
  <2> QED
    BY <2>1 DEF Init, TypeOK, Live, Ends, Outcomes
<1>2. KeyShape
  BY DEF Init, KeyShape
<1>3. ASSUME NEW d \in Deliveries PROVE DeliveryInv(d)
  BY DEF Init, DeliveryInv, NeedsLease, HeldBy, Returned, BodyNotEnded
<1> QED
  BY <1>1, <1>2, <1>3 DEF IndInv

\* Every step of a call of runUnderKey, of its renewals, of the clock and of the
\* operator keeps the types.
LEMMA TypeStep == TypeOK /\ KeyShape /\ [Next]_vars => TypeOK'
<1> SUFFICES ASSUME TypeOK, KeyShape, [Next]_vars PROVE TypeOK'
  OBVIOUS
<1> USE DEF TypeOK, KeyShape, storeVars, callVars, Live, Ends, Outcomes
<1>1. ASSUME NEW d \in Deliveries, Deliver(d) PROVE TypeOK'
  BY <1>1 DEF Deliver
<1>2. ASSUME NEW d \in Deliveries, AcquireApplies(d) PROVE TypeOK'
  BY <1>2 DEF AcquireApplies, SetLease
<1>3. ASSUME NEW d \in Deliveries, AcquireFails(d) PROVE TypeOK'
  BY <1>3 DEF AcquireFails, SetLease
<1>4. ASSUME NEW d \in Deliveries, BodyStarts(d) PROVE TypeOK'
  BY <1>4 DEF BodyStarts
<1>5. ASSUME NEW d \in Deliveries, Timeout(d) PROVE TypeOK'
  BY <1>5 DEF Timeout
<1>6. ASSUME NEW d \in Deliveries, NEW how \in Outcomes, BodyEnds(d, how) PROVE TypeOK'
  BY <1>6 DEF BodyEnds, ForgetHistory
<1>7. ASSUME NEW d \in Deliveries, NEW answered \in BOOLEAN, SettleApplies(d, answered)
      PROVE TypeOK'
  BY <1>7 DEF SettleApplies, AfterSettling, CompleteLua, ReleaseLua, DeleteKey
<1>8. ASSUME NEW d \in Deliveries, SettleLost(d) PROVE TypeOK'
  BY <1>8 DEF SettleLost, AfterSettling
<1>9. ASSUME NEW d \in Deliveries, Crash(d) PROVE TypeOK'
  BY <1>9 DEF Crash, ForgetHistory
<1>10. ASSUME NEW d \in Deliveries, RenewArrives(d) PROVE TypeOK'
  BY <1>10 DEF RenewArrives
<1>11. ASSUME NEW d \in Deliveries, RenewLost(d) PROVE TypeOK'
  BY <1>11 DEF RenewLost, OneMore
<1>12. CASE Tick
  <2>1. missed' \in [Deliveries -> 0..LeaseTicks] /\ ttl' \in 0..LeaseTicks
    BY <1>12 DEF Tick, DeleteKey, OneMore
  <2>2. due' \in [Deliveries -> BOOLEAN] /\ lapsed' \in [Deliveries -> BOOLEAN]
        /\ troubled' \in BOOLEAN
    BY <1>12, Zenon DEF Tick
  <2>3. /\ keyState' \in {"absent", "running", "complete"}
        /\ token' \in Deliveries \cup {Nobody} /\ kept' \in Deliveries \cup {Nobody}
        /\ UNCHANGED callVars
    BY <1>12 DEF Tick, DeleteKey
  <2> QED
    BY <2>1, <2>2, <2>3
<1>13. CASE ResultExpires
  BY <1>13 DEF ResultExpires, DeleteKey
<1>14. CASE Forget
  BY <1>14 DEF Forget, ForgetLua, DeleteKey
<1>15. CASE UNCHANGED vars
  BY <1>15 DEF vars
<1> QED
  BY <1>1, <1>2, <1>3, <1>4, <1>5, <1>6, <1>7, <1>8, <1>9, <1>10, <1>11, <1>12,
     <1>13, <1>14, <1>15 DEF Next, Step

\* A step keeps the shape of the key (a lease names a delivery, a kept result
\* is one of a body that returned) and what the invariant says of every
\* delivery.
LEMMA KeyStep == IndInv /\ [Next]_vars => KeyShape'
<1> SUFFICES ASSUME IndInv, [Next]_vars PROVE KeyShape'
  OBVIOUS
<1> USE DEF IndInv, TypeOK, KeyShape, DeliveryInv, storeVars, callVars, HeldBy, Returned,
            BodyNotEnded, Outcomes
<1>1. ASSUME NEW d \in Deliveries, Deliver(d) PROVE KeyShape'
  BY <1>1 DEF Deliver
<1>2. ASSUME NEW d \in Deliveries, AcquireApplies(d) PROVE KeyShape'
  BY <1>2 DEF AcquireApplies, SetLease
<1>3. ASSUME NEW d \in Deliveries, AcquireFails(d) PROVE KeyShape'
  BY <1>3 DEF AcquireFails, SetLease
<1>4. ASSUME NEW d \in Deliveries, BodyStarts(d) PROVE KeyShape'
  BY <1>4 DEF BodyStarts
<1>5. ASSUME NEW d \in Deliveries, Timeout(d) PROVE KeyShape'
  BY <1>5 DEF Timeout
<1>6. ASSUME NEW d \in Deliveries, NEW how \in Outcomes, BodyEnds(d, how) PROVE KeyShape'
  <2>1. outcome[d] = "none"
    BY <1>6 DEF BodyEnds, BodyRuns
  <2> QED
    BY <1>6, <2>1 DEF BodyEnds
<1>7. ASSUME NEW d \in Deliveries, NEW answered \in BOOLEAN, SettleApplies(d, answered)
      PROVE KeyShape'
  BY <1>7 DEF SettleApplies, CompleteLua, ReleaseLua, DeleteKey
<1>8. ASSUME NEW d \in Deliveries, SettleLost(d) PROVE KeyShape'
  BY <1>8 DEF SettleLost
<1>9. ASSUME NEW d \in Deliveries, Crash(d) PROVE KeyShape'
  BY <1>9 DEF Crash
<1>10. ASSUME NEW d \in Deliveries, RenewArrives(d) PROVE KeyShape'
  BY <1>10 DEF RenewArrives
<1>11. ASSUME NEW d \in Deliveries, RenewLost(d) PROVE KeyShape'
  BY <1>11 DEF RenewLost
<1>12. CASE Tick
  BY <1>12 DEF Tick, DeleteKey
<1>13. CASE ResultExpires
  BY <1>13 DEF ResultExpires, DeleteKey
<1>14. CASE Forget
  BY <1>14 DEF Forget, ForgetLua, DeleteKey
<1>15. CASE UNCHANGED vars
  BY <1>15 DEF vars
<1> QED
  BY <1>1, <1>2, <1>3, <1>4, <1>5, <1>6, <1>7, <1>8, <1>9, <1>10, <1>11, <1>12,
     <1>13, <1>14, <1>15 DEF Next, Step

\* A step of any delivery d, of the clock or of the operator keeps what the
\* invariant says of delivery e.
LEMMA DeliveryStep ==
  ASSUME NEW e \in Deliveries, IndInv, [Next]_vars
  PROVE  DeliveryInv(e)'
<1> USE DEF IndInv, TypeOK, KeyShape, DeliveryInv, NeedsLease, storeVars, callVars,
            HeldBy, Returned, BodyNotEnded, BodyRuns
<1>1. ASSUME NEW d \in Deliveries, Deliver(d) PROVE DeliveryInv(e)'
  BY <1>1 DEF Deliver
<1>2. ASSUME NEW d \in Deliveries, AcquireApplies(d) PROVE DeliveryInv(e)'
  BY <1>2 DEF AcquireApplies, SetLease
<1>3. ASSUME NEW d \in Deliveries, AcquireFails(d) PROVE DeliveryInv(e)'
  BY <1>3 DEF AcquireFails, SetLease
<1>4. ASSUME NEW d \in Deliveries, BodyStarts(d) PROVE DeliveryInv(e)'
  BY <1>4 DEF BodyStarts
<1>5. ASSUME NEW d \in Deliveries, Timeout(d) PROVE DeliveryInv(e)'
  BY <1>5 DEF Timeout
<1>6. ASSUME NEW d \in Deliveries, NEW how \in Outcomes, BodyEnds(d, how)
      PROVE DeliveryInv(e)'
  BY <1>6 DEF BodyEnds, ForgetHistory, Outcomes
<1>7. ASSUME NEW d \in Deliveries, NEW answered \in BOOLEAN, SettleApplies(d, answered)
      PROVE DeliveryInv(e)'
  BY <1>7 DEF SettleApplies, AfterSettling, CompleteLua, ReleaseLua, DeleteKey
<1>8. ASSUME NEW d \in Deliveries, SettleLost(d) PROVE DeliveryInv(e)'
  BY <1>8 DEF SettleLost, AfterSettling
<1>9. ASSUME NEW d \in Deliveries, Crash(d) PROVE DeliveryInv(e)'
  BY <1>9 DEF Crash, ForgetHistory, Live
<1>10. ASSUME NEW d \in Deliveries, RenewArrives(d) PROVE DeliveryInv(e)'
  BY <1>10 DEF RenewArrives
<1>11. ASSUME NEW d \in Deliveries, RenewLost(d) PROVE DeliveryInv(e)'
  BY <1>11 DEF RenewLost, OneMore
<1>12. CASE Tick
  <2> USE DEF Tick, DeleteKey, OneMore, Renewing
  <2>1. /\ due'[e] = (due[e] \/ Renewing(e))
        /\ missed'[e] = IF (BodyRuns(e) /\ due[e]) \/ pc[e] = "granted"
                        THEN OneMore(missed[e]) ELSE missed[e]
        /\ missed[e] \in 0..LeaseTicks /\ ttl \in 0..LeaseTicks
        /\ UNCHANGED <<pc, outcome, answer>>
    BY <1>12
  <2>2. CASE keyState = "running" /\ ttl > 1
    <3>1. ttl' = ttl - 1 /\ UNCHANGED <<keyState, token, kept, lapsed, troubled>>
      BY <1>12, <2>2
    <3>2. NeedsLease(e) /\ HeldBy(e) =>
            ttl' + missed'[e] + (IF due'[e] THEN 1 ELSE 0) >= LeaseTicks
      <4> SUFFICES ASSUME NeedsLease(e), HeldBy(e)
                   PROVE ttl' + missed'[e] + (IF due'[e] THEN 1 ELSE 0) >= LeaseTicks
        OBVIOUS
      <4>1. ttl + missed[e] + (IF due[e] THEN 1 ELSE 0) >= LeaseTicks
        OBVIOUS
      <4>2. CASE pc[e] = "granted"
        BY <2>1, <2>2, <3>1, <4>1, <4>2
      <4>3. CASE BodyRuns(e) /\ due[e]
        BY <2>1, <2>2, <3>1, <4>1, <4>3
      <4>4. CASE BodyRuns(e) /\ ~due[e]
        <5>1. due'[e] = TRUE /\ missed'[e] = missed[e]
          BY <2>1, <4>4
        <5>2. ttl + missed[e] >= LeaseTicks
          BY <4>1, <4>4
        <5> QED
          BY <2>1, <2>2, <3>1, <5>1, <5>2
      <4> QED
        BY <4>2, <4>3, <4>4
    <3>3. lapsed[e] => missed'[e] >= LeaseTicks - 1
      BY <2>1
    <3> QED
      BY <2>1, <2>2, <3>1, <3>2, <3>3
  <2>3. CASE keyState = "running" /\ ~(ttl > 1)
    <3>1. /\ keyState' = "absent" /\ ttl = 1 /\ token \in Deliveries
          /\ lapsed'[e] = (lapsed[e] \/ (e = token /\ NeedsLease(e)))
          /\ troubled' = (troubled \/ NeedsLease(token) \/ Returned(token))
      BY <1>12, <2>3
    <3>2. lapsed'[e] =>
            NeedsLease(e)' /\ missed'[e] >= LeaseTicks - 1 /\ troubled'
      <4>1. CASE lapsed[e]
        BY <2>1, <3>1, <4>1
      <4>2. CASE ~lapsed[e] /\ lapsed'[e]
        <5>1. e = token /\ NeedsLease(e) /\ HeldBy(e)
          BY <2>3, <3>1, <4>2
        <5>2. 1 + missed[e] + (IF due[e] THEN 1 ELSE 0) >= LeaseTicks
          BY <3>1, <5>1
        <5> QED
          BY <2>1, <3>1, <5>1, <5>2
      <4> QED
        BY <4>1, <4>2
    <3> QED
      BY <2>1, <2>3, <3>1, <3>2
  <2>4. CASE keyState # "running"
    <3>1. UNCHANGED <<keyState, token, kept, ttl, lapsed, troubled>>
      BY <1>12, <2>4
    <3> QED
      BY <2>1, <2>4, <3>1
  <2> QED
    BY <2>2, <2>3, <2>4
<1>13. CASE ResultExpires
  BY <1>13 DEF ResultExpires, DeleteKey
<1>14. CASE Forget
  BY <1>14 DEF Forget, ForgetLua, DeleteKey
<1>15. CASE UNCHANGED vars
  BY <1>15 DEF vars
<1> QED
  BY <1>1, <1>2, <1>3, <1>4, <1>5, <1>6, <1>7, <1>8, <1>9, <1>10, <1>11, <1>12,
     <1>13, <1>14, <1>15 DEF Next, Step

LEMMA IndInvStep == IndInv /\ [Next]_vars => IndInv'
<1> SUFFICES ASSUME IndInv, [Next]_vars PROVE IndInv'
  OBVIOUS
<1>1. TypeOK'
  BY TypeStep DEF IndInv
<1>2. KeyShape'
  BY KeyStep
<1>3. \A e \in Deliveries : DeliveryInv(e)'
  BY DeliveryStep
<1> QED
  BY <1>1, <1>2, <1>3 DEF IndInv

\* IndInv holds in every state a behaviour of the key reaches.
THEOREM IndInvHolds == Spec => []IndInv
  BY InitIndInv, IndInvStep, PTL DEF Spec

\* The store and the calls of runUnderKey keep their types.
THEOREM TypeCorrect == Spec => []TypeOK
<1>1. IndInv => TypeOK
  BY DEF IndInv
<1> QED
  BY <1>1, IndInvHolds, PTL

\* The lease follows the body: while it runs, awaited or detached, and its lease
\* has not expired under it, the key holds its token.
THEOREM LeaseFollowsBodyHolds == Spec => []LeaseFollowsBody
<1>1. IndInv => LeaseFollowsBody
  BY DEF IndInv, LeaseFollowsBody, DeliveryInv, NeedsLease, BodyRuns
<1> QED
  BY <1>1, IndInvHolds, PTL

\* Two bodies of one key never run side by side unless a lease expired under
\* one of them, for any number of deliveries.
THEOREM NoSecondBodyHolds == Spec => []NoSecondBody
<1>1. IndInv => NoSecondBody
  BY DEF IndInv, NoSecondBody, DeliveryInv, NeedsLease, BodyRuns, HeldBy
<1> QED
  BY <1>1, IndInvHolds, PTL

\* Whatever the ratio of lease to renewal interval, a lease expires under a body
\* only after that many renewals less one failed to land in a row.
THEOREM LapseNeedsMissedRenewalsHolds == Spec => []LapseNeedsMissedRenewals
<1>1. IndInv => LapseNeedsMissedRenewals
  BY DEF IndInv, LapseNeedsMissedRenewals, DeliveryInv
<1> QED
  BY <1>1, IndInvHolds, PTL

\* A result handed back in place of a run is one a body of the key returned.
THEOREM AnsweredResultIsRealHolds == Spec => []AnsweredResultIsReal
<1>1. IndInv => AnsweredResultIsReal
  BY DEF IndInv, AnsweredResultIsReal, DeliveryInv
<1> QED
  BY <1>1, IndInvHolds, PTL

\* At most one body of the key returns unless a lease expired under a body or
\* before its result was kept, the result expired, or an operator forgot it.
THEOREM ReturnsOnceHolds == Spec => []ReturnsOnce
<1>1. IndInv => ReturnsOnce
  <2> SUFFICES ASSUME IndInv, NEW d \in Deliveries, NEW e \in Deliveries,
                      d # e, Returned(d), Returned(e), ~troubled
               PROVE FALSE
    BY DEF ReturnsOnce, IndInv, TypeOK
  <2>1. HeldBy(d) \/ (keyState = "complete" /\ kept = d)
    BY DEF IndInv, DeliveryInv
  <2>2. HeldBy(e) \/ (keyState = "complete" /\ kept = e)
    BY DEF IndInv, DeliveryInv
  <2> QED
    BY <2>1, <2>2 DEF HeldBy
<1> QED
  BY <1>1, IndInvHolds, PTL

\* No step takes a lease from the key but its own delivery settling or its last
\* tick: a stale token and a forget are both refused.
THEOREM LeaseTakenOnlyByHolderHolds == Spec => LeaseTakenOnlyByHolder
<1> DEFINE Taken == \A d \in Deliveries :
                      HeldBy(d) /\ ~HeldBy(d)' => pc'[d] # pc[d] \/ ttl = 1
<1>1. IndInv /\ [Next]_vars => [Taken]_vars
  <2> SUFFICES ASSUME IndInv, Next, NEW e \in Deliveries, HeldBy(e), ~HeldBy(e)'
               PROVE pc'[e] # pc[e] \/ ttl = 1
    OBVIOUS
  <2> USE DEF IndInv, TypeOK, KeyShape, HeldBy, storeVars, callVars
  <2>1. ASSUME NEW d \in Deliveries, SettleApplies(d, TRUE) \/ SettleApplies(d, FALSE)
        PROVE pc'[e] # pc[e]
    BY <2>1 DEF SettleApplies, CompleteLua, ReleaseLua, DeleteKey, AfterSettling
  <2>2. ASSUME NEW d \in Deliveries, Step(d),
               ~(SettleApplies(d, TRUE) \/ SettleApplies(d, FALSE))
        PROVE FALSE
    BY <2>2 DEF Step, Deliver, AcquireApplies, AcquireFails, SetLease, BodyStarts,
                Timeout, BodyEnds, SettleLost, Crash, RenewArrives, RenewLost
  <2>3. CASE Tick
    BY <2>3 DEF Tick
  <2>4. CASE ResultExpires
    BY <2>4 DEF ResultExpires
  <2>5. CASE Forget
    BY <2>5 DEF Forget, ForgetLua
  <2> QED
    BY <2>1, <2>2, <2>3, <2>4, <2>5 DEF Next
<1> QED
  BY <1>1, IndInvHolds, PTL DEF Spec, LeaseTakenOnlyByHolder

-----------------------------------------------------------------------------
(* Replays of a dead job over the key.                                     *)

\* Every step of the composition is a step of the key or leaves it alone; a
\* replay's forget is an operator's Forget.
LEMMA ReplayStepIsKeyStep ==
  ASSUME TypeOK, [ReplayNext]_allVars
  PROVE  [Next]_vars
<1> USE DEF TypeOK, storeVars, callVars
<1>1. CASE KeySteps
  BY <1>1 DEF KeySteps
<1>2. ASSUME NEW d \in Deliveries, Bury(d) PROVE [Next]_vars
  BY <1>2 DEF Bury, vars
<1>3. ASSUME NEW o \in Operators, ReplayForgets(o) PROVE [Next]_vars
  <2>1. CASE keyState = "absent"
    <3>1. troubled' = troubled
      BY <1>3, <2>1 DEF ReplayForgets
    <3> QED
      BY <1>3, <2>1, <3>1 DEF ReplayForgets, ForgetLua, vars
  <2>2. CASE keyState # "absent"
    <3>1. Forget
      BY <1>3, <2>2 DEF ReplayForgets, Forget
    <3> QED
      BY <3>1 DEF Next
  <2> QED
    BY <2>1, <2>2
<1>4. ASSUME NEW o \in Operators,
             \/ ReplayReads(o) \/ ReplayDrops(o) \/ ReplayFails(o) \/ ReplayAgain(o)
             \/ \E d \in Deliveries : ReplayEnqueues(o, d)
      PROVE [Next]_vars
  BY <1>4 DEF ReplayReads, ReplayDrops, ReplayFails, ReplayAgain, ReplayEnqueues, vars
<1>5. CASE Discard
  BY <1>5 DEF Discard, vars
<1>6. CASE UNCHANGED allVars
  BY <1>6 DEF allVars, vars
<1> QED
  BY <1>1, <1>2, <1>3, <1>4, <1>5, <1>6 DEF ReplayNext

\* jobs.dead.replay and jobs.dead.discard implement the key's specification.
THEOREM ReplayImplementsKeyHolds == ReplaySpec => ReplayImplementsKey
<1>1. ReplayInit => IndInv
  BY InitIndInv DEF ReplayInit
<1>2. IndInv /\ [ReplayNext]_allVars => [Next]_vars
  BY ReplayStepIsKeyStep DEF IndInv
<1>3. ReplayInit => Init
  BY DEF ReplayInit
<1> QED
  BY <1>1, <1>2, <1>3, IndInvStep, PTL DEF ReplaySpec, ReplayImplementsKey, Spec

\* However many operators replay, discard, fail and die midway, no second body
\* of the key runs beside the first unless a lease expired under one of them.
THEOREM ReplayNoSecondBody == ReplaySpec => []NoSecondBody
  BY ReplayImplementsKeyHolds, NoSecondBodyHolds, PTL DEF ReplayImplementsKey

\* What a replay's forget left behind stays so: a delivery that settled never
\* completes the key again, whatever the key's steps are.
LEMMA LeftBehindStays ==
  ASSUME NEW S \in SUBSET Deliveries, TypeOK, LeftBehind(S), [Next]_vars
  PROVE  LeftBehind(S)'
<1> USE DEF TypeOK, LeftBehind, Settled, Returned, Ends, storeVars, callVars
<1>1. ASSUME NEW d \in Deliveries, \E answered \in BOOLEAN : SettleApplies(d, answered)
      PROVE LeftBehind(S)'
  <2>1. d \notin S
    BY <1>1 DEF SettleApplies
  <2>2. UNCHANGED outcome /\ \A e \in S : pc'[e] = pc[e]
    BY <1>1, <2>1 DEF SettleApplies
  <2>3. keyState' = "complete" => kept' = d \/ (keyState = "complete" /\ kept' = kept)
    BY <1>1 DEF SettleApplies, CompleteLua, ReleaseLua, DeleteKey
  <2> QED
    BY <2>1, <2>2, <2>3
<1>2. ASSUME NEW d \in Deliveries, Step(d),
             ~\E answered \in BOOLEAN : SettleApplies(d, answered)
      PROVE LeftBehind(S)'
  <2>1. keyState' = "complete" => keyState = "complete" /\ kept' = kept
    BY <1>2 DEF Step, Deliver, AcquireApplies, AcquireFails, SetLease, BodyStarts,
                Timeout, BodyEnds, SettleLost, Crash, RenewArrives, RenewLost
  <2>2. \A e \in S : pc'[e] = pc[e] /\ outcome'[e] = outcome[e]
    BY <1>2 DEF Step, Deliver, AcquireApplies, AcquireFails, BodyStarts, Timeout,
                BodyEnds, BodyRuns, SettleLost, Crash, Live, RenewArrives, RenewLost
  <2> QED
    BY <2>1, <2>2
<1>3. CASE Tick
  BY <1>3 DEF Tick, DeleteKey
<1>4. CASE ResultExpires
  BY <1>4 DEF ResultExpires, DeleteKey
<1>5. CASE Forget
  BY <1>5 DEF Forget, ForgetLua, DeleteKey
<1>6. CASE UNCHANGED vars
  BY <1>6 DEF vars
<1> QED
  BY <1>1, <1>2, <1>3, <1>4, <1>5, <1>6 DEF Next

LEMMA ReplayInitInv == ReplayInit => ReplayInv
  BY OriginalsAssumption
     DEF ReplayInit, Init, ReplayInv, ReplayTypeOK, ReplayOutlivesOldResult, DeadJobNotLost

\* A step of the key hands a replay only what was kept after its forget: the
\* key never again keeps what was left behind.
LEMMA KeyStepsKeep ==
  ASSUME IndInv, ReplayInv, KeySteps
  PROVE  ReplayInv'
<1> USE DEF ReplayInv, ReplayTypeOK, KeySteps, replayVars
<1>1. TypeOK
  BY DEF IndInv
<1>2. \A d \in Deliveries \ ready' : pc'[d] = "idle"
  OBVIOUS
<1>3. ASSUME NEW o \in Operators, at[o] = "forgot" PROVE LeftBehind(spent[o])'
  BY <1>1, <1>3, LeftBehindStays
<1>4. ASSUME NEW d \in replays PROVE LeftBehind(before[d])'
  BY <1>1, LeftBehindStays
<1>5. ASSUME NEW d \in replays, pc'[d] = "answered" PROVE answer'[d] \notin before[d]
  <2>1. CASE pc[d] = "answered"
    <3>1. answer'[d] = answer[d]
      BY <1>1, <2>1 DEF TypeOK, Next, Step, Deliver, AcquireApplies, AcquireFails, BodyStarts,
                        Timeout, BodyEnds, SettleApplies, SettleLost, Crash, RenewArrives,
                        RenewLost, Tick, ResultExpires, Forget, callVars
    <3> QED
      BY <2>1, <3>1 DEF ReplayOutlivesOldResult
  <2>2. CASE pc[d] # "answered"
    <3>1. keyState = "complete" /\ answer'[d] = kept
      <4>1. PICK e \in Deliveries : Step(e)
        BY <1>5, <2>2 DEF Next, Tick, ResultExpires, Forget, callVars
      <4>2. AcquireApplies(e) /\ e = d
        BY <1>1, <1>5, <2>2, <4>1
           DEF TypeOK, Step, Deliver, AcquireApplies, AcquireFails, BodyStarts, Timeout,
               BodyEnds, SettleApplies, AfterSettling, SettleLost, Crash, RenewArrives,
               RenewLost, callVars
      <4> QED
        BY <1>1, <1>5, <4>2 DEF TypeOK, AcquireApplies
    <3> QED
      BY <3>1 DEF LeftBehind
  <2> QED
    BY <2>1, <2>2
<1> QED
  BY <1>2, <1>3, <1>4, <1>5 DEF ReplayOutlivesOldResult, DeadJobNotLost

\* Every act of an operator keeps the invariant; the forget is what leaves old
\* results behind.
LEMMA OperatorKeeps ==
  ASSUME NEW o \in Operators, IndInv, ReplayInv,
         \/ ReplayReads(o) \/ ReplayForgets(o) \/ ReplayDrops(o)
         \/ ReplayFails(o) \/ ReplayAgain(o)
         \/ \E d \in Deliveries : ReplayEnqueues(o, d)
  PROVE  ReplayInv'
<1> USE DEF ReplayInv, ReplayTypeOK, ReplayOutlivesOldResult, DeadJobNotLost, LeftBehind, Settled,
            Returned, vars, callVars
<1>1. CASE ReplayReads(o)
  BY <1>1 DEF ReplayReads
<1>2. CASE ReplayForgets(o)
  <2>1. UNCHANGED callVars /\ Settled' = Settled
    BY <1>2 DEF ReplayForgets
  <2>2. keyState' = "complete" => FALSE
    BY <1>2 DEF ReplayForgets, ForgetLua, DeleteKey, storeVars
  <2> QED
    BY <1>2, <2>1, <2>2 DEF ReplayForgets
<1>3. CASE ReplayDrops(o)
  BY <1>3 DEF ReplayDrops
<1>4. CASE ReplayFails(o) \/ ReplayAgain(o)
  BY <1>4 DEF ReplayFails, ReplayAgain
<1>5. ASSUME NEW d \in Deliveries, ReplayEnqueues(o, d) PROVE ReplayInv'
  BY <1>5 DEF ReplayEnqueues
<1> QED
  BY <1>1, <1>2, <1>3, <1>4, <1>5

\* The invariant of the key and the one of the replays hold together.
THEOREM ReplayInvHolds == ReplaySpec => []ReplayInv
<1>1. ReplayInit => IndInv /\ ReplayInv
  BY InitIndInv, ReplayInitInv DEF ReplayInit
<1>2. IndInv /\ [ReplayNext]_allVars => IndInv'
  BY ReplayStepIsKeyStep, IndInvStep DEF IndInv
<1>3. IndInv /\ ReplayInv /\ [ReplayNext]_allVars => ReplayInv'
  <2> SUFFICES ASSUME IndInv, ReplayInv, [ReplayNext]_allVars PROVE ReplayInv'
    OBVIOUS
  <2>1. CASE KeySteps
    BY <2>1, KeyStepsKeep
  <2>2. ASSUME NEW d \in Deliveries, Bury(d) PROVE ReplayInv'
    BY <2>2 DEF Bury, ReplayInv, ReplayTypeOK, ReplayOutlivesOldResult, DeadJobNotLost,
                LeftBehind, Settled, Returned, vars
  <2>3. CASE Discard
    BY <2>3 DEF Discard, ReplayInv, ReplayTypeOK, ReplayOutlivesOldResult, DeadJobNotLost,
                LeftBehind, Settled, Returned, vars
  <2>4. CASE UNCHANGED allVars
    BY <2>4 DEF allVars, replayVars, ReplayInv, ReplayTypeOK, ReplayOutlivesOldResult,
                DeadJobNotLost, LeftBehind, Settled, Returned, vars
  <2> QED
    BY <2>1, <2>2, <2>3, <2>4, OperatorKeeps DEF ReplayNext
<1> QED
  BY <1>1, <1>2, <1>3, PTL DEF ReplaySpec

\* A replay is never answered with a result kept before its forget, however many
\* operators replay and however many deliveries complete the key meanwhile.
THEOREM ReplayOutlivesOldResultHolds == ReplaySpec => []ReplayOutlivesOldResult
<1>1. ReplayInv => ReplayOutlivesOldResult
  BY DEF ReplayInv
<1> QED
  BY <1>1, ReplayInvHolds, PTL

\* A dead job survives every replay that fails or dies between its acts.
THEOREM DeadJobNotLostHolds == ReplaySpec => []DeadJobNotLost
<1>1. ReplayInv => DeadJobNotLost
  BY DEF ReplayInv
<1> QED
  BY <1>1, ReplayInvHolds, PTL
=============================================================================

-------------------------- MODULE OutboxRelayProofs --------------------------
(***************************************************************************)
(* No row is marked without its job, and a row becomes a second job only   *)
(* after it was claimed again and the first was dropped: for any rows,     *)
(* relays, limits and any number of crashes and sweeps.                    *)
(***************************************************************************)
EXTENDS OutboxRelay, TLAPS

LEMMA InitIndInv == Init => IndInv
BY MaxSweepsAssumption, MaxClaimsAssumption
   DEF Init, IndInv, TypeOK, MarkedMeansStored, DeliveredMeansStored, JobsAreCounted,
       FirstClaimIsAlone

\* What `add` does to the counts of the row it is called for, and of the others.
LEMMA AddJobCounts ==
  ASSUME TypeOK, JobsAreCounted, NEW r \in Rows, AddJob(r)
  PROVE  /\ job' \in [Rows -> {"absent", "stored"}]
         /\ made' \in [Rows -> Nat] /\ sweeps' = sweeps
         /\ JobsAreCounted'
         /\ \A x \in Rows : made'[x] >= made[x] /\ (x # r => made'[x] = made[x])
         /\ made'[r] > 0
         /\ made[r] = 0 => made'[r] = 1
BY MaxSweepsAssumption DEF AddJob, Stores, TypeOK, JobsAreCounted, redisVars

\* The table, Redis and time keep the invariant.
LEMMA RowStepKeepsIndInv ==
  ASSUME IndInv, NEW r \in Rows,
         Commit(r) \/ ClaimExpires(r) \/ JobSwept(r)
  PROVE  IndInv'
<1>. USE MaxSweepsAssumption
         DEF IndInv, TypeOK, MarkedMeansStored, DeliveredMeansStored, JobsAreCounted,
             FirstClaimIsAlone, tableVars, redisVars, cycleVars
<1>1. CASE Commit(r)
  BY <1>1 DEF Commit
<1>2. CASE ClaimExpires(r)
  BY <1>2 DEF ClaimExpires
<1>3. CASE JobSwept(r)
  BY <1>3 DEF JobSwept
<1>. QED
  BY <1>1, <1>2, <1>3

\* Claiming keeps the invariant: what is claimable is leased to nobody.
LEMMA ClaimKeepsIndInv ==
  ASSUME IndInv, NEW p \in Relays, NEW S \in SUBSET Rows,
         Claim(p, S) \/ ClaimReplyLost(p, S)
  PROVE  IndInv'
<1>. USE MaxClaimsAssumption
<1>1. /\ claims' \in [Rows -> 0..MaxClaims]
      /\ leased' \subseteq Rows /\ UNCHANGED <<row, redisVars, delivered>>
      /\ \A r \in Rows : claims'[r] = claims[r] \/ (r \in S /\ claims'[r] = claims[r] + 1)
      /\ \A r \in S : claims'[r] = claims[r] + 1
  <2>1. HandsOut(S) /\ UNCHANGED <<redisVars, delivered>>
    BY DEF Claim, ClaimReplyLost, cycleVars
  <2>2. /\ claims' = [r \in Rows |-> IF r \in S THEN claims[r] + 1 ELSE claims[r]]
        /\ leased' = leased \cup S /\ UNCHANGED row
        /\ \A r \in S : claims[r] < MaxClaims
    BY <2>1 DEF HandsOut, Claimable
  <2>3. claims \in [Rows -> 0..MaxClaims] /\ leased \subseteq Rows
    BY DEF IndInv, TypeOK
  <2>4. \A r \in Rows : claims[r] \in 0..MaxClaims /\ (r \in S => claims[r] + 1 \in 0..MaxClaims)
    BY <2>2, <2>3
  <2>5. claims' \in [Rows -> 0..MaxClaims]
    BY <2>2, <2>4
  <2>. QED
    BY <2>1, <2>2, <2>3, <2>5
<1>2. wasted' \in [Rows -> Nat]
  BY DEF Claim, ClaimReplyLost, Wasted, IndInv, TypeOK
<1>3. TypeOK'
  BY <1>1, <1>2 DEF Claim, ClaimReplyLost, Ready, IndInv, TypeOK, redisVars, cycleVars
<1>4. (MarkedMeansStored /\ DeliveredMeansStored /\ JobsAreCounted)'
  BY <1>1 DEF IndInv, MarkedMeansStored, DeliveredMeansStored, JobsAreCounted, redisVars
<1>5. \A x \in Relays, r \in Rows : r \in batch'[x] => r \in batch[x] \/ (x = p /\ r \in S)
  <2>. SUFFICES ASSUME NEW x \in Relays, NEW r \in Rows, r \in batch'[x]
       PROVE  r \in batch[x] \/ (x = p /\ r \in S)
    OBVIOUS
  <2>1. batch \in [Relays -> SUBSET Rows]
    BY DEF IndInv, TypeOK
  <2>2. batch' = batch \/ batch' = [batch EXCEPT ![p] = S]
    BY DEF Claim, ClaimReplyLost, cycleVars
  <2>. QED
    BY <2>1, <2>2
<1>6. FirstClaimIsAlone'
  BY <1>1, <1>5 DEF IndInv, TypeOK, FirstClaimIsAlone, redisVars
<1>. QED
  BY <1>3, <1>4, <1>6 DEF IndInv

\* Delivering keeps the invariant: a row under its first claim has no job yet,
\* and leaves the only batch it is in.
LEMMA DeliverKeepsIndInv ==
  ASSUME IndInv, NEW p \in Relays, NEW r \in Rows, Deliver(p, r)
  PROVE  IndInv'
<1>. USE DEF IndInv, TypeOK, MarkedMeansStored, DeliveredMeansStored, FirstClaimIsAlone,
             tableVars, Delivering, RowDone, Wasted
<1>1. CASE DeliverUnprepared(p, r)
  BY <1>1 DEF DeliverUnprepared, LeftBehind, redisVars, JobsAreCounted
<1>2. CASE DeliverStores(p, r)
  <2>1. AddJob(r)
    BY <1>2 DEF DeliverStores
  <2>2. /\ job' \in [Rows -> {"absent", "stored"}]
        /\ made' \in [Rows -> Nat] /\ sweeps' = sweeps
        /\ JobsAreCounted'
        /\ \A x \in Rows : made'[x] >= made[x] /\ (x # r => made'[x] = made[x])
        /\ made'[r] > 0
        /\ made[r] = 0 => made'[r] = 1
    BY <2>1, AddJobCounts
  <2>. QED
    BY <1>2, <2>2 DEF DeliverStores
<1>3. ASSUME NEW applied \in BOOLEAN, DeliverFails(p, r, applied)
      PROVE  IndInv'
  <2>1. CASE applied
    <3>1. AddJob(r)
      BY <1>3, <2>1 DEF DeliverFails
    <3>2. /\ job' \in [Rows -> {"absent", "stored"}]
          /\ made' \in [Rows -> Nat] /\ sweeps' = sweeps
          /\ JobsAreCounted'
          /\ \A x \in Rows : made'[x] >= made[x] /\ (x # r => made'[x] = made[x])
          /\ made'[r] > 0
          /\ made[r] = 0 => made'[r] = 1
      BY <3>1, AddJobCounts
    <3>3. LeftBehind(p, r) /\ r \in batch[p]
      BY <1>3 DEF DeliverFails
    <3>. QED
      BY <3>2, <3>3 DEF LeftBehind
  <2>2. CASE ~applied
    <3>1. UNCHANGED redisVars /\ LeftBehind(p, r) /\ r \in batch[p]
      BY <1>3, <2>2 DEF DeliverFails
    <3>. QED
      BY <3>1 DEF LeftBehind, redisVars, JobsAreCounted
  <2>. QED
    BY <2>1, <2>2
<1>. QED
  BY <1>1, <1>2, <1>3 DEF Deliver

\* The end of a cycle keeps the invariant: Mark marks what was stored.
LEMMA CycleEndKeepsIndInv ==
  ASSUME IndInv, NEW p \in Relays,
         CycleEmpty(p) \/ Mark(p) \/ MarkFails(p) \/ Close(p) \/ Crash(p)
  PROVE  IndInv'
<1>. USE DEF IndInv, TypeOK, MarkedMeansStored, DeliveredMeansStored, JobsAreCounted,
             FirstClaimIsAlone, tableVars, redisVars, BatchDone, EndCycle, Wasted
<1>1. CASE CycleEmpty(p)
  BY <1>1 DEF CycleEmpty
<1>2. CASE Mark(p)
  BY <1>2 DEF Mark
<1>3. CASE MarkFails(p)
  BY <1>3 DEF MarkFails
<1>4. CASE Close(p)
  BY <1>4 DEF Close
<1>5. CASE Crash(p)
  BY <1>5 DEF Crash
<1>. QED
  BY <1>1, <1>2, <1>3, <1>4, <1>5

\* IndInv is an invariant of the outbox and its relays.
THEOREM IndInvHolds == Spec => []IndInv
<1>1. IndInv /\ [Next]_vars => IndInv'
  <2>. SUFFICES ASSUME IndInv, [Next]_vars PROVE IndInv'
    OBVIOUS
  <2>1. CASE UNCHANGED vars
    BY <2>1 DEF vars, tableVars, redisVars, cycleVars, IndInv, TypeOK, MarkedMeansStored,
                DeliveredMeansStored, JobsAreCounted, FirstClaimIsAlone
  <2>. QED
    BY <2>1, RowStepKeepsIndInv, ClaimKeepsIndInv, DeliverKeepsIndInv,
       CycleEndKeepsIndInv
       DEF Next, Runs
<1>. QED
  BY <1>1, InitIndInv, PTL DEF Spec

\* A row the table calls delivered has had its job in Redis (runRelayCycle).
THEOREM MarkedMeansStoredHolds == Spec => []MarkedMeansStored
<1>1. IndInv => MarkedMeansStored
  BY DEF IndInv
<1>. QED
  BY <1>1, IndInvHolds, PTL

\* A row becomes a second job only after it was claimed again and the first job
\* was dropped (outboxJobId and `add`).
THEOREM SecondJobNeedsSweepHolds == Spec => []SecondJobNeedsSweep
<1>1. IndInv => SecondJobNeedsSweep
  BY MaxSweepsAssumption
     DEF IndInv, TypeOK, JobsAreCounted, FirstClaimIsAlone, SecondJobNeedsSweep
<1>. QED
  BY <1>1, IndInvHolds, PTL

=============================================================================

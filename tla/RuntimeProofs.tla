--------------------------- MODULE RuntimeProofs ---------------------------
(***************************************************************************)
(* Runtime.ts.  First the safety properties of JobRuntime, for any number  *)
(* of workers, attempts, hand-outs, cancellations and retries: IndInv is   *)
(* inductive, and its parts are taken in three groups, what BullMQ and the *)
(* deliveries know of each other, what is reported, and what cancellations *)
(* name.  Then those of StartRuntime, for any processes, queues and        *)
(* schedules.                                                              *)
(***************************************************************************)
EXTENDS JobRuntime, StartRuntime, FiniteSetTheorems, TLAPS

USE MaxAttemptsAssumption, MaxDeliveriesAssumption, MaxCancelsAssumption,
    MaxRetriesAssumption, NoWorkerAssumption

-----------------------------------------------------------------------------
(* Counting deliveries.                                                    *)

\* Sets of deliveries are finite, and no larger than the bound on hand-outs.
LEMMA DeliveriesCounted ==
  ASSUME NEW S \in SUBSET Delivery
  PROVE  IsFiniteSet(S) /\ Cardinality(S) \in Nat /\ Cardinality(S) <= MaxDeliveries
<1>1. IsFiniteSet(Delivery) /\ Cardinality(Delivery) = MaxDeliveries
  BY FS_Interval DEF Delivery
<1> QED
  BY <1>1, FS_Subset, FS_CardinalityType

LEMMA MoreAreNotFewer ==
  ASSUME NEW T \in SUBSET Delivery, NEW S \in SUBSET T
  PROVE  Cardinality(S) <= Cardinality(T)
  BY DeliveriesCounted, FS_Subset

LEMMA OneMoreCounted ==
  ASSUME NEW T \in SUBSET Delivery, NEW S \in SUBSET T, NEW n \in T, n \notin S
  PROVE  Cardinality(S) + 1 <= Cardinality(T)
<1>1. S \cup {n} \in SUBSET T
  OBVIOUS
<1>2. Cardinality(S \cup {n}) = Cardinality(S) + 1
  BY DeliveriesCounted, FS_AddElement
<1> QED
  BY <1>1, <1>2, MoreAreNotFewer

-----------------------------------------------------------------------------
LEMMA InitIndInv == Init => IndInv
<1> SUFFICES ASSUME Init PROVE IndInv
  OBVIOUS
<1> USE DEF Init
<1>1. TypeOK
  BY DEF TypeOK, Phases, Errors, Alive, CancelPhases, Ways
<1>2. /\ LockFollowsJob /\ AttemptIsCurrent /\ FailingHasError /\ ReportComesFirst
      /\ DeathHasCause /\ DeadIsLast /\ CancelNamesWhatItRead
  BY DEF LockFollowsJob, AttemptIsCurrent, FailingHasError, ReportComesFirst, DeathHasCause,
         DeadIsLast, CancelNamesWhatItRead, Going, Delivery
<1>3. CountsAreOfDeliveries
  BY DeliveriesCounted DEF CountsAreOfDeliveries
<1>4. NoSilentDeath /\ SpentAttemptsAreReported /\ DeadIsFinal /\ CancelHitsItsDelivery
  BY DEF NoSilentDeath, SpentAttemptsAreReported, DeadIsFinal, CancelHitsItsDelivery
<1> QED
  BY <1>1, <1>2, <1>3, <1>4 DEF IndInv

-----------------------------------------------------------------------------
\* What the counters count: a delivery is reported on its way from failing to
\* settling, and an attempt is spent in silence as its delivery is done.
LEMMA CountsNext ==
  ASSUME TypeOK, LockFollowsJob, CountsAreOfDeliveries, [Next]_vars
  PROVE  CountsAreOfDeliveries'
<1> DEFINE Past == {n \in Delivery : phase[n] \in {"settling", "done", "lost"}}
           Done == {n \in Delivery : phase[n] = "done"}
<1>1. /\ reports \in Nat /\ silent \in Nat
      /\ reports <= Cardinality(Past) /\ silent <= Cardinality(Done)
  BY DEF TypeOK, CountsAreOfDeliveries
<1>2. Cardinality(Past) \in Nat /\ Cardinality(Done) \in Nat
      /\ Cardinality(Past') \in Nat /\ Cardinality(Done') \in Nat
  BY DeliveriesCounted
<1> SUFFICES reports' <= Cardinality(Past') /\ silent' <= Cardinality(Done')
  BY DEF CountsAreOfDeliveries
<1>3. Past \subseteq Past' /\ Done \subseteq Done'
      => Cardinality(Past) <= Cardinality(Past') /\ Cardinality(Done) <= Cardinality(Done')
  BY MoreAreNotFewer
<1>4. ASSUME NEW n \in Delivery, Report(n, TRUE) \/ Report(n, FALSE)
      PROVE reports' <= Cardinality(Past') /\ silent' <= Cardinality(Done')
  <2>1. /\ reports' = reports + 1 /\ silent' = silent
        /\ Past \in SUBSET Past' /\ n \in Past' /\ n \notin Past /\ Done' = Done
    BY <1>4 DEF Report, TypeOK, jobVars
  <2>2. Cardinality(Past) + 1 <= Cardinality(Past')
    BY <2>1, OneMoreCounted
  <2> HIDE DEF Past, Done
  <2> QED
    BY <1>1, <1>2, <2>1, <2>2
<1>5. ASSUME NEW n \in Delivery, EnvelopeUnreadable(n) \/ Settle(n) \/ RescheduleFails(n)
                                 \/ WaitRefused(n)
      PROVE reports' <= Cardinality(Past') /\ silent' <= Cardinality(Done')
  <2>1. /\ reports' = reports /\ silent' \in {silent, silent + 1}
        /\ Past \in SUBSET Past' /\ Done \in SUBSET Done' /\ n \in Done' /\ n \notin Done
    BY <1>5 DEF EnvelopeUnreadable, Settle, RescheduleFails, WaitRefused, Ended, FailJob,
                TypeOK, reportVars
  <2>2. Cardinality(Done) + 1 <= Cardinality(Done')
    BY <2>1, OneMoreCounted
  <2>3. Cardinality(Past) <= Cardinality(Past')
    BY <2>1, MoreAreNotFewer
  <2> HIDE DEF Past, Done
  <2> QED
    BY <1>1, <1>2, <2>1, <2>2, <2>3
<1>6. ASSUME UNCHANGED <<reports, silent>> \/ (reports' = 0 /\ silent' = 0),
             Past \subseteq Past' /\ Done \subseteq Done'
      PROVE reports' <= Cardinality(Past') /\ silent' <= Cardinality(Done')
  <2> HIDE DEF Past, Done
  <2> QED
    BY <1>1, <1>2, <1>3, <1>6
<1>7. ASSUME NEW n \in Delivery, DeliveryStep(n),
             ~(Report(n, TRUE) \/ Report(n, FALSE)),
             ~(EnvelopeUnreadable(n) \/ Settle(n) \/ RescheduleFails(n) \/ WaitRefused(n))
      PROVE UNCHANGED <<reports, silent>> /\ Past \subseteq Past' /\ Done \subseteq Done'
  BY <1>7 DEF DeliveryStep, PrologueEnds, BodyStarts, BodyEnds, Reject, TypeOK, jobVars,
              reportVars
<1>8. ASSUME NEW w \in Workers, WorkerStep(w)
      PROVE UNCHANGED <<reports, silent>> /\ Past \subseteq Past' /\ Done \subseteq Done'
  <2>1. CASE Deliver(w)
    BY <2>1 DEF Deliver, TypeOK, LockFollowsJob, Delivery, reportVars
  <2>2. CASE Crash(w)
    BY <2>2 DEF Crash, Runs, TypeOK, jobVars, reportVars
  <2>3. CASE Sweep(w) \/ Close(w) \/ CloseDrains(w) \/ CloseExpires(w)
    BY <2>3 DEF Sweep, SweepAsks, SweepTakes, SweepFails, SweepAborts, Close, CloseDrains,
                CloseExpires, deliveryVars, jobVars, reportVars
  <2> QED
    BY <1>8, <2>1, <2>2, <2>3 DEF WorkerStep
<1>9. ASSUME (\E c \in Cancels : CancelStep(c)) \/ Retry \/ Stall \/ MarkExpires
               \/ UNCHANGED vars
      PROVE /\ UNCHANGED <<reports, silent>> \/ (reports' = 0 /\ silent' = 0)
            /\ Past \subseteq Past' /\ Done \subseteq Done'
  BY <1>9 DEF CancelStep, CancelGets, CancelReadsState, CancelMarks, CancelRemoves, Retry,
              Stall, MarkExpires, vars, deliveryVars, jobVars, reportVars
<1> QED
  BY <1>4, <1>5, <1>6, <1>7, <1>8, <1>9 DEF Next, DeliveryStep

-----------------------------------------------------------------------------
\* Every step keeps the types.  That the counters stay within the hand-outs is
\* CountsNext; that an attempt does is AttemptIsCurrent.
LEMMA TypeNext ==
  ASSUME IndInv, [Next]_vars
  PROVE  TypeOK'
<1> USE DEF IndInv, TypeOK, Phases, Errors, CancelPhases, Ways, jobVars, deliveryVars,
            sweepVars, cancelVars, reportVars
<1>1. reports' \in Nat /\ silent' \in Nat
  BY DEF Next, DeliveryStep, EnvelopeUnreadable, PrologueEnds, BodyStarts, BodyEnds, Report, Settle,
         RescheduleFails, WaitRefused, FailJob, WorkerStep, Deliver, Sweep, SweepAsks, SweepTakes,
         SweepFails, SweepAborts, Close, CloseDrains, CloseExpires, Crash, CancelStep, CancelGets,
         CancelReadsState, CancelMarks, CancelRemoves, Retry, Stall, MarkExpires, vars
<1>2. reports' \in 0..MaxDeliveries /\ silent' \in 0..MaxDeliveries
  <2>1. CountsAreOfDeliveries'
    BY CountsNext
  <2> DEFINE Past == {n \in Delivery : phase[n] \in {"settling", "done", "lost"}}
             Done == {n \in Delivery : phase[n] = "done"}
  <2>2. /\ Cardinality(Past') \in Nat /\ Cardinality(Past') <= MaxDeliveries
        /\ Cardinality(Done') \in Nat /\ Cardinality(Done') <= MaxDeliveries
    BY DeliveriesCounted
  <2>3. reports' <= Cardinality(Past') /\ silent' <= Cardinality(Done')
    BY <2>1 DEF CountsAreOfDeliveries
  <2> HIDE DEF Past, Done
  <2> QED
    BY <1>1, <2>2, <2>3
<1>3. ASSUME NEW n \in Delivery, EnvelopeUnreadable(n) PROVE TypeOK'
  <2>1. n \in 1..MaxDeliveries /\ (lock = n => attemptsMade < MaxAttempts)
    BY DEF LockFollowsJob, AttemptIsCurrent, Delivery
  <2>2. /\ state' \in {"waiting", "active", "completed", "failed", "removed"}
        /\ attemptsMade' \in 0..MaxAttempts /\ lock' \in 0..MaxDeliveries
    BY <1>3, <2>1 DEF EnvelopeUnreadable
  <2>3. death' \in [how : Ways, by : 0..MaxDeliveries]
    BY <1>3, <2>1 DEF EnvelopeUnreadable
  <2> QED
    BY <1>2, <1>3, <2>2, <2>3 DEF EnvelopeUnreadable, Ended
<1>4. ASSUME NEW n \in Delivery, NEW kind \in Errors, PrologueEnds(n, kind) PROVE TypeOK'
  BY <1>4 DEF PrologueEnds, Reject
<1>5. ASSUME NEW n \in Delivery, BodyStarts(n) PROVE TypeOK'
  BY <1>5 DEF BodyStarts
<1>6. ASSUME NEW n \in Delivery, NEW how \in {"returned", "threw", "unrecoverable", "timeout"},
             NEW rejects \in BOOLEAN, BodyEnds(n, how, rejects)
      PROVE TypeOK'
  BY <1>6 DEF BodyEnds, Reject, RunCatch
<1>7. ASSUME NEW n \in Delivery, NEW rejects \in BOOLEAN, Report(n, rejects) PROVE TypeOK'
  BY <1>2, <1>7 DEF Report
<1>8. ASSUME NEW n \in Delivery, Settle(n) \/ RescheduleFails(n) \/ WaitRefused(n)
      PROVE TypeOK'
  <2>1. n \in 1..MaxDeliveries /\ (lock = n => attemptsMade < MaxAttempts)
    BY DEF LockFollowsJob, AttemptIsCurrent, Delivery
  <2>2. /\ state' \in {"waiting", "active", "completed", "failed", "removed"}
        /\ attemptsMade' \in 0..MaxAttempts /\ lock' \in 0..MaxDeliveries
    BY <1>8, <2>1 DEF Settle, RescheduleFails, WaitRefused, FailJob
  <2>3. death' \in [how : Ways, by : 0..MaxDeliveries]
    BY <1>8, <2>1 DEF Settle, RescheduleFails, WaitRefused, FailJob
  <2>4. /\ Ended(n)
        /\ UNCHANGED <<attemptsStarted, stalls, sweepVars, cancelVars, reportVars, retries>>
    BY <1>8 DEF Settle, RescheduleFails, WaitRefused
  <2> QED
    BY <1>2, <2>2, <2>3, <2>4 DEF Ended
<1>9. ASSUME NEW w \in Workers, Deliver(w) PROVE TypeOK'
  BY <1>9 DEF Deliver, AttemptIsCurrent, Delivery
<1>10. ASSUME NEW w \in Workers, Sweep(w) PROVE TypeOK'
  <2>1. CASE SweepAsks(w)
    BY <2>1 DEF SweepAsks, LiveOf
  <2>2. CASE SweepTakes(w)
    <3>1. taken' \in [Workers -> SUBSET Delivery] /\ mark' \in 0..MaxDeliveries
      BY <2>2 DEF SweepTakes
    <3> QED
      BY <2>2, <3>1 DEF SweepTakes
  <2>3. CASE SweepFails(w)
    <3>1. unheard' \in SUBSET Delivery
      BY <2>3 DEF SweepFails, MarkedNow
    <3>2. mark' \in 0..MaxDeliveries
      BY <2>3 DEF SweepFails
    <3> QED
      BY <2>3, <3>1, <3>2 DEF SweepFails
  <2>4. CASE SweepAborts(w)
    BY <2>4 DEF SweepAborts, Abort
  <2> QED
    BY <1>10, <2>1, <2>2, <2>3, <2>4 DEF Sweep
<1>11. ASSUME NEW w \in Workers, Close(w) \/ CloseDrains(w) \/ CloseExpires(w) PROVE TypeOK'
  <2>1. CASE Close(w)
    BY <2>1 DEF Close
  <2>2. CASE CloseDrains(w)
    BY <2>2 DEF CloseDrains
  <2>3. CASE CloseExpires(w)
    <3>1. reason' \in [Delivery -> {"none", "timeout", "cancelled", "shutdown"}]
      BY <2>3 DEF CloseExpires, Abort
    <3> QED
      BY <2>3, <3>1 DEF CloseExpires
  <2> QED
    BY <1>11, <2>1, <2>2, <2>3
<1>12. ASSUME NEW w \in Workers, Crash(w) PROVE TypeOK'
  BY <1>12 DEF Crash
<1>13. ASSUME NEW c \in Cancels, CancelStep(c) PROVE TypeOK'
  <2>1. CASE CancelGets(c)
    <3>1. cancel' \in [Cancels -> CancelPhases]
      BY <2>1 DEF CancelGets
    <3>2. seen' \in [Cancels -> 0..MaxDeliveries] /\ targets' \in SUBSET Delivery
      <4>1. CASE state = "removed"
        BY <2>1, <4>1 DEF CancelGets
      <4>2. CASE state # "removed"
        <5>1. {attemptsStarted} \ {0} \in SUBSET Delivery
          BY DEF Delivery
        <5>2. seen' = [seen EXCEPT ![c] = attemptsStarted]
              /\ targets' = targets \cup ({attemptsStarted} \ {0})
          BY <2>1, <4>2 DEF CancelGets
        <5>3. targets' \in SUBSET Delivery
          BY <5>1, <5>2
        <5> QED
          BY <5>2, <5>3
      <4> QED
        BY <4>1, <4>2
    <3> QED
      BY <2>1, <3>1, <3>2 DEF CancelGets
  <2>2. CASE CancelReadsState(c)
    BY <2>2 DEF CancelReadsState
  <2>3. CASE CancelMarks(c)
    BY <2>3 DEF CancelMarks, MarkedNow
  <2>4. CASE CancelRemoves(c)
    BY <2>4 DEF CancelRemoves
  <2> QED
    BY <1>13, <2>1, <2>2, <2>3, <2>4 DEF CancelStep
<1>14. CASE Retry
  BY <1>14 DEF Retry, Alive
<1>15. CASE Stall
  <2>1. death' \in [how : Ways, by : 0..MaxDeliveries]
    BY <1>15 DEF Stall
  <2>2. state' \in {"waiting", "failed"} /\ stalls' \in 0..2
    BY <1>15 DEF Stall
  <2> QED
    BY <1>15, <2>1, <2>2 DEF Stall
<1>16. CASE MarkExpires
  BY <1>16 DEF MarkExpires, MarkedNow
<1>17. CASE UNCHANGED vars
  BY <1>17 DEF vars
<1> QED
  BY <1>3, <1>4, <1>5, <1>6, <1>7, <1>8, <1>9, <1>10, <1>11, <1>12, <1>13, <1>14, <1>15,
     <1>16, <1>17
     DEF Next, DeliveryStep, WorkerStep, CancelStep

-----------------------------------------------------------------------------
\* What BullMQ and the deliveries know of each other: the lock is the latest
\* hand-out's, and the attempt it was handed is the one BullMQ will spend.
LEMMA LockNext ==
  ASSUME IndInv, [Next]_vars
  PROVE  LockFollowsJob' /\ AttemptIsCurrent' /\ FailingHasError'
<1> USE DEF IndInv, TypeOK, LockFollowsJob, AttemptIsCurrent, FailingHasError, Delivery, Going,
            jobVars, deliveryVars
<1> DEFINE Goal == LockFollowsJob' /\ AttemptIsCurrent' /\ FailingHasError'
<1>1. ASSUME NEW n \in Delivery, EnvelopeUnreadable(n) PROVE Goal
  BY <1>1 DEF EnvelopeUnreadable, Ended
<1>2. ASSUME NEW n \in Delivery, NEW kind \in Errors, PrologueEnds(n, kind) PROVE Goal
  BY <1>2 DEF PrologueEnds, Reject
<1>3. ASSUME NEW n \in Delivery, BodyStarts(n) PROVE Goal
  BY <1>3 DEF BodyStarts
<1>4. ASSUME NEW n \in Delivery, NEW how, NEW rejects, BodyEnds(n, how, rejects) PROVE Goal
  BY <1>4 DEF BodyEnds, Reject
<1>5. ASSUME NEW n \in Delivery, NEW rejects, Report(n, rejects) PROVE Goal
  BY <1>5 DEF Report
<1>6. ASSUME NEW n \in Delivery, Settle(n) PROVE Goal
  BY <1>6 DEF Settle, FailJob, Ended
<1>7. ASSUME NEW n \in Delivery, RescheduleFails(n) \/ WaitRefused(n) PROVE Goal
  <2>1. CASE RescheduleFails(n)
    BY <2>1 DEF RescheduleFails, FailJob, Ended
  <2>2. CASE WaitRefused(n)
    BY <2>2 DEF WaitRefused, FailJob, Ended
  <2> QED
    BY <1>7, <2>1, <2>2
<1>8. ASSUME NEW w \in Workers, Deliver(w) PROVE Goal
  BY <1>8 DEF Deliver
<1>9. ASSUME NEW w \in Workers, Crash(w) PROVE Goal
  BY <1>9 DEF Crash, Runs
<1>10. ASSUME UNCHANGED <<jobVars, phase, attempt, error>> PROVE Goal
  BY <1>10
<1>11. ASSUME NEW c \in Cancels, CancelRemoves(c) PROVE Goal
  BY <1>11 DEF CancelRemoves
<1>12. CASE Retry
  BY <1>12 DEF Retry
<1>13. CASE Stall
  BY <1>13 DEF Stall
<1>14. ASSUME NEW w \in Workers,
              Sweep(w) \/ Close(w) \/ CloseDrains(w) \/ CloseExpires(w)
       PROVE  UNCHANGED <<jobVars, phase, attempt, error>>
  BY <1>14 DEF Sweep, SweepAsks, SweepTakes, SweepFails, SweepAborts, Close, CloseDrains,
               CloseExpires
<1>15. ASSUME (\E c \in Cancels : CancelGets(c) \/ CancelReadsState(c) \/ CancelMarks(c))
                \/ MarkExpires \/ UNCHANGED vars
       PROVE  Goal
  <2>1. UNCHANGED <<jobVars, phase, attempt, error>>
    BY <1>15 DEF CancelGets, CancelReadsState, CancelMarks, MarkExpires, vars
  <2> QED
    BY <1>10, <2>1
<1> QED
  BY <1>1, <1>2, <1>3, <1>4, <1>5, <1>6, <1>7, <1>8, <1>9, <1>10, <1>11, <1>12, <1>13, <1>14,
     <1>15
     DEF Next, DeliveryStep, WorkerStep, CancelStep

-----------------------------------------------------------------------------
\* What is reported: a failure is, before BullMQ spends its attempt; onDead
\* fires for exactly the failure BullMQ will take for the last.
LEMMA ReportNext ==
  ASSUME IndInv, [Next]_vars
  PROVE  /\ ReportComesFirst' /\ DeathHasCause' /\ DeadIsLast'
         /\ NoSilentDeath' /\ SpentAttemptsAreReported' /\ DeadIsFinal'
<1> USE DEF IndInv, TypeOK, LockFollowsJob, AttemptIsCurrent, FailingHasError, ReportComesFirst,
            DeathHasCause, DeadIsLast, NoSilentDeath, SpentAttemptsAreReported, DeadIsFinal,
            Reported, IsLast, Delivery, Going, jobVars, deliveryVars, reportVars
<1> DEFINE Goal == /\ ReportComesFirst' /\ DeathHasCause' /\ DeadIsLast'
                   /\ NoSilentDeath' /\ SpentAttemptsAreReported' /\ DeadIsFinal'
<1>1. ASSUME NEW n \in Delivery, EnvelopeUnreadable(n) PROVE Goal
  BY <1>1 DEF EnvelopeUnreadable, Ended
<1>2. ASSUME NEW n \in Delivery, NEW kind \in Errors, PrologueEnds(n, kind) PROVE Goal
  BY <1>2 DEF PrologueEnds, Reject
<1>3. ASSUME NEW n \in Delivery, BodyStarts(n) PROVE Goal
  BY <1>3 DEF BodyStarts
<1>4. ASSUME NEW n \in Delivery, NEW how, NEW rejects, BodyEnds(n, how, rejects) PROVE Goal
  <2>1. PICK kind : Reject(n, kind)
    BY <1>4 DEF BodyEnds
  <2>2. phase[n] = "running" /\ UNCHANGED <<jobVars, attempt, reportVars>>
    BY <1>4 DEF BodyEnds
  <2> QED
    BY <2>1, <2>2 DEF Reject
<1>5. ASSUME NEW n \in Delivery, NEW rejects, Report(n, rejects) PROVE Goal
  <2>1. /\ phase[n] = "failing" /\ phase' = [phase EXCEPT ![n] = "settling"]
        /\ reports' = reports + 1 /\ UNCHANGED <<jobVars, attempt, error>>
    BY <1>5 DEF Report
  <2>2. deaths' = IF IsLast(n) THEN deaths \cup {n} ELSE deaths
    BY <1>5 DEF Report, BurialFor, Unrecoverable
  <2>3. ReportComesFirst'
    BY <2>1, <2>2
  <2>4. DeathHasCause' /\ NoSilentDeath' /\ SpentAttemptsAreReported'
    BY <2>1, <2>2
  <2>5. DeadIsLast' /\ DeadIsFinal'
    BY <2>1, <2>2
  <2> QED
    BY <2>3, <2>4, <2>5
<1>6. ASSUME NEW n \in Delivery, Settle(n) PROVE Goal
  BY <1>6 DEF Settle, FailJob, Ended
<1>7. ASSUME NEW n \in Delivery, RescheduleFails(n) \/ WaitRefused(n) PROVE Goal
  <2>1. CASE RescheduleFails(n)
    BY <2>1 DEF RescheduleFails, FailJob, Ended
  <2>2. CASE WaitRefused(n)
    BY <2>2 DEF WaitRefused, FailJob, Ended
  <2> QED
    BY <1>7, <2>1, <2>2
<1>8. ASSUME NEW w \in Workers, Deliver(w) PROVE Goal
  BY <1>8 DEF Deliver
<1>9. ASSUME NEW w \in Workers, Crash(w) PROVE Goal
  BY <1>9 DEF Crash, Runs
<1>10. ASSUME UNCHANGED <<jobVars, phase, attempt, error, reportVars>> PROVE Goal
  BY <1>10
<1>11. ASSUME NEW c \in Cancels, CancelRemoves(c) PROVE Goal
  BY <1>11 DEF CancelRemoves
<1>12. CASE Retry
  BY <1>12 DEF Retry
<1>13. CASE Stall
  BY <1>13 DEF Stall
<1>14. ASSUME NEW w \in Workers,
              Sweep(w) \/ Close(w) \/ CloseDrains(w) \/ CloseExpires(w)
       PROVE  UNCHANGED <<jobVars, phase, attempt, error, reportVars>>
  BY <1>14 DEF Sweep, SweepAsks, SweepTakes, SweepFails, SweepAborts, Close, CloseDrains,
               CloseExpires
<1>15. ASSUME (\E c \in Cancels : CancelGets(c) \/ CancelReadsState(c) \/ CancelMarks(c))
                \/ MarkExpires \/ UNCHANGED vars
       PROVE  Goal
  <2>1. UNCHANGED <<jobVars, phase, attempt, error, reportVars>>
    BY <1>15 DEF CancelGets, CancelReadsState, CancelMarks, MarkExpires, vars
  <2> QED
    BY <1>10, <2>1
<1> QED
  BY <1>1, <1>2, <1>3, <1>4, <1>5, <1>6, <1>7, <1>8, <1>9, <1>10, <1>11, <1>12, <1>13, <1>14,
     <1>15
     DEF Next, DeliveryStep, WorkerStep, CancelStep

-----------------------------------------------------------------------------
\* What a cancellation names: a mark, and so whatever a sweep takes and aborts,
\* is a hand-out some client read as the latest.
LEMMA CancelNext ==
  ASSUME IndInv, [Next]_vars
  PROVE  CancelNamesWhatItRead' /\ CancelHitsItsDelivery'
<1> USE DEF IndInv, TypeOK, CancelNamesWhatItRead, CancelHitsItsDelivery, Delivery, sweepVars,
            cancelVars, deliveryVars
<1> DEFINE Goal == CancelNamesWhatItRead' /\ CancelHitsItsDelivery'
<1>1. ASSUME NEW n \in Delivery, EnvelopeUnreadable(n) \/ Settle(n) \/ RescheduleFails(n)
                                 \/ WaitRefused(n)
      PROVE  Goal
  BY <1>1 DEF EnvelopeUnreadable, Settle, RescheduleFails, WaitRefused, Ended
<1>2. ASSUME NEW n \in Delivery, NEW how, NEW rejects, BodyEnds(n, how, rejects) PROVE Goal
  BY <1>2 DEF BodyEnds
<1>3. ASSUME NEW w \in Workers, SweepTakes(w) PROVE Goal
  <2>1. CASE mark \in asked[w]
    <3>1. mark \in targets
      BY <2>1
    <3>2. taken' = [taken EXCEPT ![w] = {mark}] /\ mark' = 0
      BY <1>3, <2>1 DEF SweepTakes
    <3>3. UNCHANGED <<reason, seen, targets>>
      BY <1>3 DEF SweepTakes
    <3>4. \A v \in Workers : taken'[v] \subseteq targets
      BY <3>1, <3>2
    <3> QED
      BY <3>2, <3>3, <3>4
  <2>2. CASE mark \notin asked[w]
    BY <1>3, <2>2 DEF SweepTakes
  <2> QED
    BY <2>1, <2>2
<1>4. ASSUME NEW w \in Workers, SweepFails(w) PROVE Goal
  BY <1>4 DEF SweepFails
<1>5. ASSUME NEW w \in Workers, SweepAborts(w) PROVE Goal
  BY <1>5 DEF SweepAborts, Abort
<1>6. ASSUME NEW w \in Workers, CloseExpires(w) PROVE Goal
  BY <1>6 DEF CloseExpires, Abort
<1>7. ASSUME NEW w \in Workers, Crash(w) PROVE Goal
  BY <1>7 DEF Crash
<1>8. ASSUME NEW c \in Cancels, CancelGets(c) \/ CancelMarks(c) \/ CancelRemoves(c)
      PROVE  Goal
  BY <1>8 DEF CancelGets, CancelMarks, CancelRemoves
<1>9. ASSUME NEW c \in Cancels, CancelReadsState(c) PROVE Goal
  BY <1>9 DEF CancelReadsState
<1>10. CASE MarkExpires
  BY <1>10 DEF MarkExpires
<1>11. ASSUME UNCHANGED <<reason, taken, cancelVars>> PROVE Goal
  BY <1>11
<1>12. ASSUME NEW n \in Delivery,
              \/ \E kind \in Errors : PrologueEnds(n, kind)
              \/ BodyStarts(n)
              \/ \E rejects \in BOOLEAN : Report(n, rejects)
       PROVE  UNCHANGED <<reason, taken, cancelVars>>
  BY <1>12 DEF PrologueEnds, BodyStarts, Report
<1>13. ASSUME NEW w \in Workers,
              Deliver(w) \/ SweepAsks(w) \/ Close(w) \/ CloseDrains(w)
       PROVE  UNCHANGED <<reason, taken, cancelVars>>
  BY <1>13 DEF Deliver, SweepAsks, Close, CloseDrains
<1>14. CASE Retry \/ Stall \/ UNCHANGED vars
  <2>1. UNCHANGED <<reason, taken, cancelVars>>
    BY <1>14 DEF Retry, Stall, vars
  <2> QED
    BY <1>11, <2>1
<1> QED
  BY <1>1, <1>2, <1>3, <1>4, <1>5, <1>6, <1>7, <1>8, <1>9, <1>10, <1>11, <1>12, <1>13, <1>14
     DEF Next, DeliveryStep, WorkerStep, Sweep, CancelStep

-----------------------------------------------------------------------------
\* The inductive invariant of the job, its deliveries and its cancellations.
THEOREM IndInvHolds == Spec => []IndInv
<1>1. IndInv /\ [Next]_vars => IndInv'
  <2> SUFFICES ASSUME IndInv, [Next]_vars PROVE IndInv'
    OBVIOUS
  <2>1. CountsAreOfDeliveries'
    BY CountsNext DEF IndInv
  <2> QED
    BY <2>1, TypeNext, LockNext, ReportNext, CancelNext DEF IndInv
<1> QED
  BY <1>1, InitIndInv, PTL DEF Spec

\* Every variable stays within its type: in particular, the attempts spent never
\* exceed `attempts`, and neither reports nor silent failures exceed the hand-outs.
THEOREM TypeCorrect == Spec => []TypeOK
<1>1. IndInv => TypeOK
  BY DEF IndInv
<1> QED
  BY <1>1, IndInvHolds, PTL

\* No job is failed for good without onDead having fired for the delivery that
\* failed it, the four named exceptions aside (an unreadable envelope, the stalled
\* limit, a refused reschedule, a refused move back to waiting-children): burialFor
\* and BullMQ agree on which attempt is the last one, whatever stalled or crashed
\* in between.
THEOREM NoSilentDeathHolds == Spec => []NoSilentDeath
<1>1. IndInv => NoSilentDeath
  BY DEF IndInv
<1> QED
  BY <1>1, IndInvHolds, PTL

\* onAttemptFailed fired at least once for every attempt spent since the last
\* retry, other than the ones spent in silence: on an unreadable envelope, a refused
\* reschedule or a refused move back to waiting-children.
THEOREM SpentAttemptsAreReportedHolds == Spec => []SpentAttemptsAreReported
<1>1. IndInv => SpentAttemptsAreReported
  BY DEF IndInv
<1> QED
  BY <1>1, IndInvHolds, PTL

\* Until something stalls or somebody retries it, a job onDead fired for is
\* handed out no more and does not complete.
THEOREM DeadIsFinalHolds == Spec => []DeadIsFinal
<1>1. IndInv => DeadIsFinal
  BY DEF IndInv
<1> QED
  BY <1>1, IndInvHolds, PTL

\* Only a delivery some jobs.cancel read as the latest is aborted as cancelled:
\* no mark outlives its delivery to kill the next one.
THEOREM CancelHitsItsDeliveryHolds == Spec => []CancelHitsItsDelivery
<1>1. IndInv => CancelHitsItsDelivery
  BY DEF IndInv
<1> QED
  BY <1>1, IndInvHolds, PTL

-----------------------------------------------------------------------------
(* StartRuntime: jobs.start in several processes at once.                  *)

USE OursAssumption, QueueOfAssumption, QueuesOfAssumption, DeclaredAssumption

LEMMA StartInitInv == StartInit => StartInv
<1> SUFFICES ASSUME StartInit PROVE StartInv
  OBVIOUS
<1> USE DEF StartInit
<1>1. StartTypeOK
  BY DEF StartTypeOK, StartPhases
<1>2. WorkIsOnItsOwn /\ QueuesBehindAreRight
  BY DEF WorkIsOnItsOwn, QueuesBehindAreRight, Reconciles
<1>3. ForeignSurvives /\ ConsumersAreKnown
  BY DEF ForeignSurvives, ConsumersAreKnown
<1> QED
  BY <1>1, <1>2, <1>3 DEF StartInv

LEMMA StartTypeNext ==
  ASSUME StartInv, [StartNext]_startVars
  PROVE  StartTypeOK'
<1> USE DEF StartInv, StartTypeOK, StartPhases, workVars, consumerVars, Goes
<1>1. ASSUME NEW p \in Processes, StartCalled(p) \/ StartRefused(p)
      PROVE  StartTypeOK'
  BY <1>1 DEF StartCalled, StartRefused
<1>2. ASSUME NEW p \in Processes, NEW q \in Queues, ReadsSchedulers(p, q)
      PROVE  StartTypeOK'
  BY <1>2 DEF ReadsSchedulers, Stale, On
<1>3. ASSUME NEW p \in Processes, NEW q \in Queues,
             ConsumerOpens(p, q) \/ ConsumerRefused(p, q) \/ ConsumerCloses(p, q)
      PROVE  StartTypeOK'
  BY <1>3 DEF ConsumerOpens, ConsumerRefused, ConsumerCloses
<1>4. ASSUME NEW p \in Processes, NEW s \in Schedulers,
             Removes(p, s) \/ Upserts(p, s) \/ UpsertReplyLost(p, s)
      PROVE  StartTypeOK'
  BY <1>4 DEF Removes, Upserts, UpsertReplyLost
<1>5. ASSUME NEW p \in Processes,
             Removed(p) \/ NextQueue(p) \/ ReconcileFails(p)
      PROVE  StartTypeOK'
  BY <1>5 DEF Removed, NextQueue, ReconcileFails
<1>6. ASSUME NEW p \in Processes, OpeningEnds(p) \/ StartRejects(p) \/ StarterDies(p)
      PROVE  StartTypeOK'
  BY <1>6 DEF OpeningEnds, StartRejects, StarterDies
<1>7. CASE UNCHANGED startVars
  BY <1>7 DEF startVars
<1> QED
  BY <1>1, <1>2, <1>3, <1>4, <1>5, <1>6, <1>7 DEF StartNext, StartStep

\* What a process has under way is its own: no other process' step touches it.
LEMMA StartWorkNext ==
  ASSUME StartInv, [StartNext]_startVars
  PROVE  WorkIsOnItsOwn'
<1> USE DEF StartInv, StartTypeOK, workVars, consumerVars, Goes, WorkIsOnItsOwn, Reconciles
<1>1. ASSUME NEW p \in Processes, StartCalled(p) \/ StartRefused(p) PROVE WorkIsOnItsOwn'
  <2>1. CASE StartCalled(p)
    BY <2>1 DEF StartCalled
  <2>2. CASE StartRefused(p)
    BY <2>2 DEF StartRefused
  <2> QED
    BY <1>1, <2>1, <2>2
<1>2. ASSUME NEW p \in Processes, NEW q \in Queues, ReadsSchedulers(p, q)
      PROVE  WorkIsOnItsOwn'
  BY <1>2 DEF ReadsSchedulers, Stale, On
<1>3. ASSUME NEW p \in Processes, NEW q \in Queues,
             ConsumerOpens(p, q) \/ ConsumerRefused(p, q) \/ ConsumerCloses(p, q)
      PROVE  WorkIsOnItsOwn'
  BY <1>3 DEF ConsumerOpens, ConsumerRefused, ConsumerCloses
<1>4. ASSUME NEW p \in Processes, NEW s \in Schedulers,
             Removes(p, s) \/ Upserts(p, s) \/ UpsertReplyLost(p, s)
      PROVE  WorkIsOnItsOwn'
  BY <1>4 DEF Removes, Upserts, UpsertReplyLost
<1>5. ASSUME NEW p \in Processes,
             Removed(p) \/ NextQueue(p) \/ ReconcileFails(p)
      PROVE  WorkIsOnItsOwn'
  BY <1>5 DEF Removed, NextQueue, ReconcileFails
<1>6. ASSUME NEW p \in Processes, OpeningEnds(p) \/ StartRejects(p) \/ StarterDies(p)
      PROVE  WorkIsOnItsOwn'
  <2>1. CASE OpeningEnds(p) \/ StartRejects(p)
    BY <2>1 DEF OpeningEnds, StartRejects
  <2>2. CASE StarterDies(p)
    BY <2>2 DEF StarterDies
  <2> QED
    BY <1>6, <2>1, <2>2
<1>7. CASE UNCHANGED startVars
  BY <1>7 DEF startVars
<1> QED
  BY <1>1, <1>2, <1>3, <1>4, <1>5, <1>6, <1>7 DEF StartNext, StartStep

\* What openConsumers answers for: a Worker left unclosed was refused or would not
\* close.
LEMMA StartConsumersNext ==
  ASSUME StartInv, [StartNext]_startVars
  PROVE  ConsumersAreKnown'
<1> USE DEF StartInv, StartTypeOK, workVars, consumerVars, Goes, ConsumersAreKnown
<1>1. ASSUME NEW p \in Processes,
             \/ StartCalled(p) \/ StartRefused(p) \/ Removed(p) \/ NextQueue(p)
             \/ ReconcileFails(p)
             \/ \E q \in Queues : ReadsSchedulers(p, q)
             \/ \E s \in Schedulers : Removes(p, s) \/ Upserts(p, s) \/ UpsertReplyLost(p, s)
      PROVE  ConsumersAreKnown'
  <2>1. UNCHANGED consumerVars
    BY <1>1 DEF StartCalled, StartRefused, Removed, NextQueue, ReconcileFails, ReadsSchedulers,
       Removes, Upserts, UpsertReplyLost
  <2>2. \A o \in Processes : o # p => start'[o] = start[o]
    BY <1>1 DEF StartCalled, StartRefused, Removed, NextQueue, ReconcileFails, ReadsSchedulers,
       Removes, Upserts, UpsertReplyLost
  <2>3. \/ start'[p] = start[p]
        \/ /\ start[p] \in {"idle", "reading", "removing", "upserting"}
           /\ start'[p] \in {"reading", "removing", "upserting", "opening", "failed"}
    BY <1>1 DEF StartCalled, StartRefused, Removed, NextQueue, ReconcileFails, ReadsSchedulers,
       Removes, Upserts, UpsertReplyLost
  <2> QED
    BY <2>1, <2>2, <2>3
<1>2. ASSUME NEW p \in Processes, NEW q \in Queues, ConsumerOpens(p, q)
      PROVE  ConsumersAreKnown'
  BY <1>2 DEF ConsumerOpens, Unheard
<1>3. ASSUME NEW p \in Processes, NEW q \in Queues, ConsumerRefused(p, q)
      PROVE  ConsumersAreKnown'
  BY <1>3 DEF ConsumerRefused, Unheard
<1>4. ASSUME NEW p \in Processes, NEW q \in Queues, ConsumerCloses(p, q)
      PROVE  ConsumersAreKnown'
  BY <1>4 DEF ConsumerCloses
<1>5. ASSUME NEW p \in Processes, OpeningEnds(p) \/ StartRejects(p) PROVE ConsumersAreKnown'
  <2>1. CASE OpeningEnds(p) /\ refused[p] = {}
    <3>1. start[p] = "opening" /\ opened[p] = QueuesOf[p] /\ UNCHANGED consumerVars
          /\ start' = [start EXCEPT ![p] = "started"]
      BY <2>1 DEF OpeningEnds
    <3> QED
      BY <2>1, <3>1
  <2>2. CASE OpeningEnds(p) /\ refused[p] # {}
    BY <2>2 DEF OpeningEnds
  <2>3. CASE StartRejects(p)
    BY <2>3 DEF StartRejects
  <2> QED
    BY <1>5, <2>1, <2>2, <2>3
<1>6. ASSUME NEW p \in Processes, StarterDies(p) PROVE ConsumersAreKnown'
  BY <1>6 DEF StarterDies
<1>7. CASE UNCHANGED startVars
  BY <1>7 DEF startVars
<1> QED
  BY <1>1, <1>2, <1>3, <1>4, <1>5, <1>6, <1>7 DEF StartNext, StartStep

\* What Redis keeps: nobody removes what is foreign or what all over its queue
\* declare, nobody upserts what none declares, so a queue one process went over stays right.
LEMMA StartQueuesNext ==
  ASSUME StartInv, [StartNext]_startVars
  PROVE  QueuesBehindAreRight' /\ ForeignSurvives'
<1> USE DEF StartInv, StartTypeOK, workVars, consumerVars, Goes, WorkIsOnItsOwn,
            QueuesBehindAreRight, ForeignSurvives, Reconciles, Called
<1> DEFINE Goal == QueuesBehindAreRight' /\ ForeignSurvives'
<1>1. ASSUME NEW p \in Processes, StartCalled(p) \/ StartRefused(p) PROVE Goal
  BY <1>1 DEF StartCalled, StartRefused
<1>2. ASSUME NEW p \in Processes, NEW q \in Queues, ReadsSchedulers(p, q) PROVE Goal
  BY <1>2 DEF ReadsSchedulers, Stale, On
<1>3. ASSUME NEW p \in Processes, NEW q \in Queues,
             ConsumerOpens(p, q) \/ ConsumerRefused(p, q) \/ ConsumerCloses(p, q)
      PROVE  Goal
  BY <1>3 DEF ConsumerOpens, ConsumerRefused, ConsumerCloses
<1>4. ASSUME NEW p \in Processes, NEW s \in Schedulers, Removes(p, s) PROVE Goal
  BY <1>4 DEF Removes
<1>5. ASSUME NEW p \in Processes, NEW s \in Schedulers,
             Upserts(p, s) \/ UpsertReplyLost(p, s)
      PROVE  Goal
  BY <1>5 DEF Upserts, UpsertReplyLost
<1>6. ASSUME NEW p \in Processes,
             Removed(p) \/ NextQueue(p) \/ ReconcileFails(p)
      PROVE  Goal
  BY <1>6 DEF Removed, NextQueue, ReconcileFails
<1>7. ASSUME NEW p \in Processes, OpeningEnds(p) \/ StartRejects(p) \/ StarterDies(p)
      PROVE  Goal
  BY <1>7 DEF OpeningEnds, StartRejects, StarterDies
<1>8. CASE UNCHANGED startVars
  BY <1>8 DEF startVars
<1> QED
  BY <1>1, <1>2, <1>3, <1>4, <1>5, <1>6, <1>7, <1>8 DEF StartNext, StartStep

\* The inductive invariant of concurrent starts.
THEOREM StartInvHolds == StartSpec => []StartInv
<1>1. StartInit => StartInv
  BY StartInitInv
<1>2. StartInv /\ [StartNext]_startVars => StartInv'
  BY StartTypeNext, StartWorkNext, StartQueuesNext, StartConsumersNext DEF StartInv
<1> QED
  BY <1>1, <1>2, PTL DEF StartSpec

\* A schedule that every process which called start over its queue declares is in
\* Redis from the moment one of them started, whichever start, fail or die at the
\* same time.
THEOREM StartedKeepsFiringHolds == StartSpec => []StartedKeepsFiring
<1>1. StartInv => StartedKeepsFiring
  <2> SUFFICES ASSUME StartInv, NEW p \in Processes, NEW s \in Declared[p],
                      start[p] = "started",
                      \A o \in Called : QueueOf[s] \in QueuesOf[o] => s \in Declared[o]
               PROVE  s \in stored
    BY DEF StartedKeepsFiring
  <2>1. s \in Ours /\ QueueOf[s] \in QueuesOf[p] /\ todo[p] = {} /\ left[p] = {}
    BY DEF StartInv, WorkIsOnItsOwn, Reconciles
  <2> QED
    BY <2>1 DEF StartInv, QueuesBehindAreRight, Reconciles
<1> QED
  BY <1>1, StartInvHolds, PTL

\* A schedule no process that called start declares is out of every queue a
\* started process has handlers on.
THEOREM DeletedStopsFiringHolds == StartSpec => []DeletedStopsFiring
<1>1. StartInv => DeletedStopsFiring
  <2> SUFFICES ASSUME StartInv, NEW p \in Processes, NEW s \in Ours, start[p] = "started",
                      QueueOf[s] \in QueuesOf[p], \A o \in Called : s \notin Declared[o]
               PROVE  s \notin stored
    BY DEF DeletedStopsFiring
  <2>1. todo[p] = {} /\ stale[p] = {}
    BY DEF StartInv, WorkIsOnItsOwn, Reconciles
  <2> QED
    BY <2>1 DEF StartInv, QueuesBehindAreRight, Reconciles
<1> QED
  BY <1>1, StartInvHolds, PTL

\* No start of any process removes a scheduler without the library's prefix.
THEOREM ForeignSurvivesHolds == StartSpec => []ForeignSurvives
<1>1. StartInv => ForeignSurvives
  BY DEF StartInv
<1> QED
  BY <1>1, StartInvHolds, PTL

\* A start that resolved consumes every queue of its handlers; one that rejected
\* leaves a Worker only where consume rejected or close did.
THEOREM StartIsAllOrNothingHolds == StartSpec => []StartIsAllOrNothing
<1>1. StartInv => StartIsAllOrNothing
  BY DEF StartInv, ConsumersAreKnown, StartIsAllOrNothing
<1> QED
  BY <1>1, StartInvHolds, PTL
=============================================================================

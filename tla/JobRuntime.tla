----------------------------- MODULE JobRuntime -----------------------------
(***************************************************************************)
(* One job on one queue, the worker processes whose runtimes (Runtime.ts)  *)
(* are handed its deliveries by the Redis driver (RedisDriver.ts), and the *)
(* client that cancels and retries it.                                     *)
(*                                                                         *)
(* A delivery is one hand-out of the job.  It is named by the number the   *)
(* job's attemptsStarted grew to, which is also how a cancellation mark    *)
(* names it.  BullMQ (the job hash, its lock and its stalled check) is     *)
(* external and modelled from how the driver uses it.  The idempotency key *)
(* is abstracted to what it can answer a delivery (see Idempotency).       *)
(***************************************************************************)
EXTENDS Naturals, FiniteSets

CONSTANTS
  Workers,         \* processes that called jobs.start
  MaxAttempts,     \* the job's `attempts`
  Keyed,           \* whether the definition declares an idempotencyKey
  Parent,          \* whether it declares children, read by childrenFor
  DeadQueue,       \* whether the job's queue is one of config.deadQueues
  MaxDeliveries,   \* bound: hand-outs of the job
  MaxCancels,      \* bound: calls of jobs.cancel
  MaxOpenCancels,  \* bound: calls of jobs.cancel under way at once
  MaxRetries,      \* bound: calls of jobs.retry that retried
  NoWorker

ASSUME MaxAttemptsAssumption   == MaxAttempts \in Nat \ {0}
ASSUME KeyedAssumption         == Keyed \in BOOLEAN
ASSUME DeadQueueAssumption     == DeadQueue \in BOOLEAN
ASSUME MaxDeliveriesAssumption == MaxDeliveries \in Nat
ASSUME ParentAssumption        == Parent \in BOOLEAN
ASSUME MaxCancelsAssumption    == MaxCancels \in Nat /\ MaxOpenCancels \in Nat
ASSUME MaxRetriesAssumption    == MaxRetries \in Nat
ASSUME NoWorkerAssumption      == NoWorker \notin Workers

VARIABLES
  state,           \* BullMQ: where the job is; waiting stands for delayed and for
                   \* waiting-children too (FlowTree has their releases)
  attemptsMade,    \* BullMQ: attempts spent
  attemptsStarted, \* BullMQ: hand-outs, never reset
  lock,            \* BullMQ: the delivery that holds the job's lock, 0 for none
  stalls,          \* BullMQ: times the job was found stalled
  phase,           \* where each delivery stands in runOn / consume
  worker,          \* the process each delivery runs in
  attempt,         \* delivery.attempt: attemptsMade + 1 when handed out
  error,           \* what the delivery rejects with
  reason,          \* signal.reason of the delivery's AbortController
  runtime,         \* what each process' runtime is doing
  asked,           \* the running deliveries a sweep asked about
  taken,           \* the ones takeCancelled answered with
  mark,            \* the cancellation mark in Redis, 0 for none
  cancel,          \* where each call of jobs.cancel stands
  seen,            \* attemptsStarted of the job that call read and may yet mark
  retries,
  targets,         \* history: deliveries some cancellation read as the current one
  unheard,         \* history: deliveries whose last mark left Redis before it was heard
  reports,         \* history: failures onAttemptFailed fired for since the last retry
  silent,          \* history: attempts spent unreported since the last retry
  deaths,          \* history: deliveries onDead fired for since the last retry
  buried,          \* the dead queue: deliveries it keeps a record of
  death            \* history: how, and by which delivery, the job was failed for good

jobVars    == <<state, attemptsMade, attemptsStarted, lock, stalls, death, silent>>
deliveryVars == <<phase, worker, attempt, error, reason>>
sweepVars  == <<runtime, asked, taken>>
cancelVars == <<mark, cancel, seen, targets, unheard>>
reportVars == <<reports, deaths, buried>>
vars == <<jobVars, deliveryVars, sweepVars, cancelVars, reportVars, retries>>

Delivery == 1..MaxDeliveries
\* The calls of jobs.cancel, numbered as they begin.
Cancels  == 1..MaxCancels

Phases == {"none", "prologue", "running", "failing", "settling", "done", "lost"}
Errors == {"none", "held", "shutdown", "pending", "error", "unrecoverable", "cancelled"}
\* UnrecoverableError and the classes that extend it, VersionAheadError among them.
Unrecoverable == {"unrecoverable", "cancelled"}
\* The refusals reschedule moves to delayed: LeaseHeldError, ShutdownAbortError.
Rescheduled == {"held", "shutdown"}
\* The refusals runOn does not report and the driver turns into a move, those and
\* ChildrenPendingError.
Postponed == Rescheduled \cup {"pending"}

CancelPhases == {"idle", "got", "mark", "remove", "refused", "gotAgain", "aborting",
                 "answered"}

\* How a job came to the failed set.
Ways == {"none", "failed", "unreadable", "unscheduled", "unwaited", "stalled"}

\* The job is in no failed set.
Alive == [how |-> "none", by |-> 0]

Runs(w, n) == worker[n] = w /\ phase[n] \in {"prologue", "running", "failing", "settling"}
\* The runtime's `live` set: entries between live.add and live.delete.
LiveOf(w)  == {n \in Delivery : worker[n] = w /\ phase[n] = "running"}

TypeOK ==
  /\ state \in {"waiting", "active", "completed", "failed", "removed"}
  /\ attemptsMade \in 0..MaxAttempts
  /\ attemptsStarted \in 0..MaxDeliveries
  /\ lock \in 0..MaxDeliveries
  /\ stalls \in 0..2
  /\ phase \in [Delivery -> Phases]
  /\ worker \in [Delivery -> Workers \cup {NoWorker}]
  /\ attempt \in [Delivery -> 0..MaxAttempts]
  /\ error \in [Delivery -> Errors]
  /\ reason \in [Delivery -> {"none", "timeout", "cancelled", "shutdown"}]
  /\ runtime \in [Workers -> {"open", "closing", "closed", "expired", "dead"}]
  /\ asked \in [Workers -> SUBSET Delivery]
  /\ taken \in [Workers -> SUBSET Delivery]
  /\ mark \in 0..MaxDeliveries
  /\ cancel \in [Cancels -> CancelPhases]
  /\ seen \in [Cancels -> 0..MaxDeliveries]
  /\ retries \in 0..MaxRetries
  /\ targets \in SUBSET Delivery
  /\ unheard \in SUBSET Delivery
  /\ reports \in 0..MaxDeliveries
  /\ silent \in 0..MaxDeliveries
  /\ deaths \in SUBSET Delivery
  /\ buried \in SUBSET Delivery
  /\ death \in [how : Ways, by : 0..MaxDeliveries]

Init ==
  /\ state = "waiting" /\ attemptsMade = 0 /\ attemptsStarted = 0 /\ lock = 0
  /\ stalls = 0 /\ death = Alive
  /\ phase = [n \in Delivery |-> "none"]
  /\ worker = [n \in Delivery |-> NoWorker]
  /\ attempt = [n \in Delivery |-> 0]
  /\ error = [n \in Delivery |-> "none"]
  /\ reason = [n \in Delivery |-> "none"]
  /\ runtime = [w \in Workers |-> "open"]
  /\ asked = [w \in Workers |-> {}]
  /\ taken = [w \in Workers |-> {}]
  /\ mark = 0 /\ targets = {} /\ unheard = {}
  /\ cancel = [c \in Cancels |-> "idle"]
  /\ seen = [c \in Cancels |-> 0]
  /\ retries = 0 /\ reports = 0 /\ silent = 0 /\ deaths = {} /\ buried = {}

-----------------------------------------------------------------------------
(* BullMQ, as consume uses it.                                             *)

\* A worker that still fetches takes the job: the hand-out grows
\* attemptsStarted and locks the job; consume calls runOn's callback.
Deliver(w) ==
  /\ runtime[w] = "open" /\ state = "waiting" /\ attemptsStarted < MaxDeliveries
  /\ LET n == attemptsStarted + 1
     IN /\ attemptsStarted' = n
        /\ lock' = n
        /\ phase' = [phase EXCEPT ![n] = "prologue"]
        /\ worker' = [worker EXCEPT ![n] = w]
        /\ attempt' = [attempt EXCEPT ![n] = attemptsMade + 1]
  /\ state' = "active"
  /\ UNCHANGED <<attemptsMade, stalls, death, silent, error, reason, sweepVars, cancelVars,
                 reportVars, retries>>

\* The stalled check finds an active job whose lock was not renewed: its worker
\* died, or lives with a blocked event loop and goes on as a stranger to the
\* lock.  maxStalledCount is 1: the second time the job fails unreported.
Stall ==
  /\ state = "active"
  /\ lock' = 0
  /\ \/ stalls = 0 /\ state' = "waiting" /\ UNCHANGED death
     \/ stalls > 0 /\ state' = "failed" /\ death' = [how |-> "stalled", by |-> lock]
  /\ stalls' = IF stalls < 2 THEN stalls + 1 ELSE stalls
  /\ UNCHANGED <<attemptsMade, attemptsStarted, silent, deliveryVars, sweepVars, cancelVars,
                 reportVars, retries>>

\* BullMQ ends an attempt of the job under the lock of delivery n.
FailJob(n, how) ==
  LET last == error[n] \in Unrecoverable \/ attemptsMade + 1 >= MaxAttempts
  IN /\ attemptsMade' = attemptsMade + 1
     /\ state' = IF last THEN "failed" ELSE "waiting"
     /\ death' = IF last THEN [how |-> how, by |-> n] ELSE death
     /\ silent' = IF how = "failed" THEN silent ELSE silent + 1

-----------------------------------------------------------------------------
(* runOn and dispatch: one delivery.                                       *)

Reject(n, kind) ==
  /\ error' = [error EXCEPT ![n] = kind]
  /\ phase' = [phase EXCEPT ![n] = IF kind \in Postponed \cup {"none"}
                                   THEN "settling" ELSE "failing"]

\* The processor's promise has settled; its locals are gone.
Ended(n) ==
  /\ phase' = [phase EXCEPT ![n] = "done"]
  /\ error' = [error EXCEPT ![n] = "none"]
  /\ attempt' = [attempt EXCEPT ![n] = 0]
  /\ reason' = [reason EXCEPT ![n] = "none"]
  /\ worker' = [worker EXCEPT ![n] = NoWorker]

\* envelopeOf throws before dispatch: an UnrecoverableError no hook hears of.
EnvelopeUnreadable(n) ==
  /\ phase[n] = "prologue"
  /\ Ended(n)
  /\ IF lock = n
     THEN /\ lock' = 0 /\ attemptsMade' = attemptsMade + 1
          /\ state' = "failed" /\ silent' = silent + 1
          /\ death' = [how |-> "unreadable", by |-> n]
     ELSE UNCHANGED <<lock, attemptsMade, state, death, silent>>
  /\ UNCHANGED <<attemptsStarted, stalls, sweepVars, cancelVars, reportVars, retries>>

\* dispatch ends before the body: no handler, a version ahead, a migration, a
\* payload or a child refused, a child still pending, the key held, a store call
\* that rejected, or a complete key whose kept result is returned.
PrologueEnds(n, kind) ==
  /\ phase[n] = "prologue"
  /\ kind \in {"unrecoverable", "error"}
              \cup (IF Keyed THEN {"held", "none"} ELSE {})
              \cup (IF Parent THEN {"pending"} ELSE {})
  /\ Reject(n, kind)
  /\ UNCHANGED <<jobVars, worker, attempt, reason, sweepVars, cancelVars, reportVars,
                 retries>>

\* run(): live.add(entry) and the handler is called.
BodyStarts(n) ==
  /\ phase[n] = "prologue"
  /\ phase' = [phase EXCEPT ![n] = "running"]
  /\ UNCHANGED <<jobVars, worker, attempt, error, reason, sweepVars, cancelVars,
                 reportVars, retries>>

RunCatch_AnyReason(why, thrown) == IF why # "none" THEN why ELSE thrown

\* The catch of run(): what the delivery fails with, given what the handler, its
\* result's validation or its deadline threw and why its signal was aborted.
RunCatch(why, thrown) ==
  IF why = "cancelled" THEN "cancelled"
  ELSE IF why = "shutdown" /\ thrown \notin Unrecoverable THEN "shutdown"
  ELSE thrown

\* The handler ends, or its timeoutMs expires and the attempt fails without it;
\* live.delete.  A keyed delivery still has to complete or release its key, and
\* rejects with the store's error when that call fails.
BodyEnds(n, how, keyRefused) ==
  /\ phase[n] = "running"
  /\ keyRefused => Keyed /\ how # "timeout"
  /\ LET why == IF how = "timeout" /\ reason[n] = "none" THEN "timeout" ELSE reason[n]
     IN /\ reason' = [reason EXCEPT ![n] = why]
        /\ Reject(n, IF keyRefused THEN "error"
                     ELSE CASE how = "returned" -> "none"
                            [] how = "unrecoverable" -> RunCatch(why, "unrecoverable")
                            [] OTHER -> RunCatch(why, "error"))
  /\ UNCHANGED <<jobVars, worker, attempt, sweepVars, cancelVars, reportVars, retries>>

BurialFor_OneLate(n) ==
  IF error[n] \in Unrecoverable THEN error[n]
  ELSE IF attempt[n] > MaxAttempts THEN "attempts_exhausted" ELSE "none"

BurialFor_OneEarly(n) ==
  IF error[n] \in Unrecoverable THEN error[n]
  ELSE IF attempt[n] + 1 >= MaxAttempts THEN "attempts_exhausted" ELSE "none"

\* Whether the failure of delivery n buries the job, and for what.
BurialFor(n) ==
  IF error[n] \in Unrecoverable THEN error[n]
  ELSE IF attempt[n] >= MaxAttempts THEN "attempts_exhausted" ELSE "none"

Report_OnlyWhenDead(n, refused) ==
  /\ phase[n] = "failing"
  /\ phase' = [phase EXCEPT ![n] = "settling"]
  /\ IF BurialFor(n) = "none" THEN UNCHANGED reportVars
     ELSE /\ reports' = reports + 1
          /\ deaths' = deaths \cup {n}
          /\ buried' = IF DeadQueue /\ ~refused THEN buried \cup {n} ELSE buried
  /\ UNCHANGED <<jobVars, worker, attempt, error, reason, sweepVars, cancelVars, retries>>

\* report(): onAttemptFailed, then, for a burial, the dead queue if there is one
\* (a refusal is logged and swallowed) and onDead.
Report(n, refused) ==
  /\ phase[n] = "failing"
  /\ phase' = [phase EXCEPT ![n] = "settling"]
  /\ reports' = reports + 1
  /\ IF BurialFor(n) = "none" THEN UNCHANGED <<deaths, buried>>
     ELSE /\ deaths' = deaths \cup {n}
          /\ buried' = IF DeadQueue /\ ~refused THEN buried \cup {n} ELSE buried
  /\ UNCHANGED <<jobVars, worker, attempt, error, reason, sweepVars, cancelVars, retries>>

\* The processor's promise settles and BullMQ moves the job: to completed, to
\* delayed or waiting-children for a postponed delivery, else it ends the
\* attempt.  A delivery that lost its lock moves nothing.
Settle(n) ==
  /\ phase[n] = "settling"
  /\ Ended(n)
  /\ IF lock # n THEN UNCHANGED <<lock, state, attemptsMade, death, silent>>
     ELSE /\ lock' = 0
          /\ IF error[n] = "none"
             THEN state' = "completed" /\ UNCHANGED <<attemptsMade, death, silent>>
             ELSE IF error[n] \in Postponed
             THEN state' = "waiting" /\ UNCHANGED <<attemptsMade, death, silent>>
             ELSE FailJob(n, "failed")
  /\ UNCHANGED <<attemptsStarted, stalls, sweepVars, cancelVars, reportVars, retries>>

\* moveToDelayed rejects on a postponed delivery: what reschedule throws is then
\* an ordinary failure to BullMQ, and nobody reported it.
RescheduleFails(n) ==
  /\ phase[n] = "settling" /\ error[n] \in Rescheduled /\ lock = n
  /\ Ended(n)
  /\ lock' = 0
  /\ FailJob(n, "unscheduled")
  /\ UNCHANGED <<attemptsStarted, stalls, sweepVars, cancelVars, reportVars, retries>>

\* moveToWaitingChildren answers false, for the last child settled since
\* childrenFor read them, or rejects: waitForChildren throws, and BullMQ ends an
\* attempt that runOn left unreported.
WaitRefused(n) ==
  /\ phase[n] = "settling" /\ error[n] = "pending" /\ lock = n
  /\ Ended(n)
  /\ lock' = 0
  /\ FailJob(n, "unwaited")
  /\ UNCHANGED <<attemptsStarted, stalls, sweepVars, cancelVars, reportVars, retries>>

-----------------------------------------------------------------------------
(* The runtime of one process: the sweep, close, and the process dying.    *)

\* The 250ms timer fires with something running: liveByQueue snapshots `live`.
\* A sweep changes nothing before some client began to cancel.
SweepAsks(w) ==
  /\ runtime[w] \in {"open", "closing"} /\ \E c \in Cancels : cancel[c] # "idle"
  /\ asked[w] = {} /\ taken[w] = {} /\ LiveOf(w) # {}
  /\ asked' = [asked EXCEPT ![w] = LiveOf(w)]
  /\ UNCHANGED <<jobVars, deliveryVars, runtime, taken, cancelVars, reportVars, retries>>

SweepTakes_AnyDelivery(w) ==
  /\ asked[w] # {} /\ runtime[w] # "dead"
  /\ asked' = [asked EXCEPT ![w] = {}]
  /\ IF mark # 0
     THEN taken' = [taken EXCEPT ![w] = asked[w]] /\ mark' = 0
     ELSE UNCHANGED <<taken, mark>>
  /\ UNCHANGED <<jobVars, deliveryVars, runtime, cancel, seen, targets, unheard,
                 reportVars, retries>>

SweepTakes_AnswersNothing(w) ==
  /\ asked[w] # {} /\ runtime[w] # "dead"
  /\ asked' = [asked EXCEPT ![w] = {}]
  /\ mark' = IF mark \in asked[w] THEN 0 ELSE mark
  /\ UNCHANGED <<jobVars, deliveryVars, runtime, taken, cancel, seen, targets,
                 unheard, reportVars, retries>>

\* TAKE_CANCELLED_LUA: the mark is taken by the delivery it names, and only it.
SweepTakes(w) ==
  /\ asked[w] # {} /\ runtime[w] # "dead"
  /\ asked' = [asked EXCEPT ![w] = {}]
  /\ IF mark \in asked[w]
     THEN taken' = [taken EXCEPT ![w] = {mark}] /\ mark' = 0
     ELSE UNCHANGED <<taken, mark>>
  /\ UNCHANGED <<jobVars, deliveryVars, runtime, cancel, seen, targets, unheard,
                 reportVars, retries>>

\* The delivery, still to end its body, that hears nothing if the mark goes.
MarkedNow == {n \in Delivery : n = mark /\ phase[n] \in {"prologue", "running"}}

\* takeCancelled rejects: logged, and the next sweep asks again.  The script may
\* have run before its reply was lost: its mark is then gone, nobody aborted.
SweepFails(w) ==
  /\ asked[w] # {} /\ runtime[w] # "dead"
  /\ asked' = [asked EXCEPT ![w] = {}]
  /\ \/ UNCHANGED <<mark, unheard>>
     \/ mark \in asked[w] /\ mark' = 0 /\ unheard' = unheard \cup MarkedNow
  /\ UNCHANGED <<jobVars, deliveryVars, runtime, taken, cancel, seen, targets,
                 reportVars, retries>>

\* The first abort of a controller gives signal.reason; a later one does nothing,
\* and the delivery of one that ended is past reading it.
Abort(ns, why) ==
  reason' = [n \in Delivery |->
    IF n \in ns /\ phase[n] = "running" /\ reason[n] = "none" THEN why ELSE reason[n]]

\* The reply is back: every delivery taken is aborted, ended or not.
SweepAborts(w) ==
  /\ taken[w] # {} /\ runtime[w] # "dead"
  /\ taken' = [taken EXCEPT ![w] = {}]
  /\ Abort(taken[w], "cancelled")
  /\ UNCHANGED <<jobVars, phase, worker, attempt, error, runtime, asked, cancelVars,
                 reportVars, retries>>

\* close(): the consumers stop fetching.
Close(w) ==
  /\ runtime[w] = "open"
  /\ runtime' = [runtime EXCEPT ![w] = "closing"]
  /\ UNCHANGED <<jobVars, deliveryVars, asked, taken, cancelVars, reportVars, retries>>

\* Every consumer closed: worker.close() waits for the deliveries it counts.
CloseDrains(w) ==
  /\ runtime[w] = "closing"
  /\ \A n \in Delivery : ~Runs(w, n)
  /\ runtime' = [runtime EXCEPT ![w] = "closed"]
  /\ UNCHANGED <<jobVars, deliveryVars, asked, taken, cancelVars, reportVars, retries>>

\* close({ timeoutMs }) ran out first: it aborts `live`, stops the sweep and
\* resolves; what is left in flight goes on in the background.
CloseExpires(w) ==
  /\ runtime[w] = "closing"
  /\ \E n \in Delivery : Runs(w, n)
  /\ runtime' = [runtime EXCEPT ![w] = "expired"]
  /\ Abort(LiveOf(w), "shutdown")
  /\ UNCHANGED <<jobVars, phase, worker, attempt, error, asked, taken, cancelVars,
                 reportVars, retries>>

\* The process dies with every delivery it runs; the locks stay in Redis.
Crash(w) ==
  /\ runtime[w] # "dead"
  /\ runtime' = [runtime EXCEPT ![w] = "dead"]
  /\ phase' = [n \in Delivery |-> IF Runs(w, n) THEN "lost" ELSE phase[n]]
  /\ asked' = [asked EXCEPT ![w] = {}]
  /\ taken' = [taken EXCEPT ![w] = {}]
  /\ error' = [n \in Delivery |-> IF Runs(w, n) THEN "none" ELSE error[n]]
  /\ attempt' = [n \in Delivery |-> IF Runs(w, n) THEN 0 ELSE attempt[n]]
  /\ reason' = [n \in Delivery |-> IF Runs(w, n) THEN "none" ELSE reason[n]]
  /\ worker' = [n \in Delivery |-> IF Runs(w, n) THEN NoWorker ELSE worker[n]]
  /\ UNCHANGED <<jobVars, cancelVars, reportVars, retries>>

-----------------------------------------------------------------------------
(* The client: jobs.cancel and jobs.retry.                                 *)

\* The next call may begin.
MayBegin(c) ==
  /\ \A d \in Cancels : d < c => cancel[d] # "idle"
  /\ Cardinality({d \in Cancels : cancel[d] \notin {"idle", "aborting", "answered"}})
       < MaxOpenCancels

\* getJob reads the job's hash, attemptsStarted with it; a job that is gone is
\* answered unknown_job.
CancelGets(c) ==
  /\ (cancel[c] = "idle" /\ MayBegin(c)) \/ cancel[c] = "refused"
  /\ cancel' = [cancel EXCEPT ![c] = IF state = "removed" THEN "answered"
                                     ELSE IF @ = "idle" THEN "got" ELSE "gotAgain"]
  /\ IF state = "removed" THEN UNCHANGED <<seen, targets>>
     ELSE /\ seen' = [seen EXCEPT ![c] = attemptsStarted]
          /\ targets' = targets \cup ({attemptsStarted} \ {0})
  /\ UNCHANGED <<jobVars, deliveryVars, sweepVars, mark, unheard, reportVars,
                 retries>>

\* getState is a round trip of its own, and decides which path is taken:
\* finished, the mark, the removal; after a refusal, the mark or children_running.
CancelReadsState(c) ==
  /\ cancel[c] \in {"got", "gotAgain"}
  /\ cancel' = [cancel EXCEPT ![c] =
       IF state = "active" THEN "mark"
       ELSE IF @ = "got" /\ state \notin {"completed", "failed"} THEN "remove"
       ELSE "answered"]
  /\ seen' = [seen EXCEPT ![c] = IF state = "active" THEN @ ELSE 0]
  /\ UNCHANGED <<jobVars, deliveryVars, sweepVars, mark, targets, unheard, reportVars,
                 retries>>

\* requestCancel: the mark names the delivery the call read, over whatever mark
\* the job had; aborting is answered.
CancelMarks(c) ==
  /\ cancel[c] = "mark"
  /\ mark' = seen[c]
  /\ unheard' = (unheard \cup MarkedNow) \ {seen[c]}
  /\ cancel' = [cancel EXCEPT ![c] = "aborting"]
  /\ seen' = [seen EXCEPT ![c] = 0]
  /\ UNCHANGED <<jobVars, deliveryVars, sweepVars, targets, reportVars, retries>>

\* job.remove: refused under a lock, else the job goes, settled or not.
CancelRemoves(c) ==
  /\ cancel[c] = "remove"
  /\ cancel' = [cancel EXCEPT ![c] = IF lock # 0 THEN "refused" ELSE "answered"]
  /\ state' = IF lock # 0 THEN state ELSE "removed"
  /\ UNCHANGED <<attemptsMade, attemptsStarted, lock, stalls, death, silent, deliveryVars,
                 sweepVars, mark, seen, targets, unheard, reportVars, retries>>

\* CANCEL_MARK_TTL_MS passed since the mark was set, whatever became of the
\* delivery it names.
MarkExpires ==
  /\ mark # 0
  /\ mark' = 0
  /\ unheard' = unheard \cup MarkedNow
  /\ UNCHANGED <<jobVars, deliveryVars, sweepVars, cancel, seen, targets,
                 reportVars, retries>>

\* jobs.retry: a failed job waits again, its attempts reset, its hand-outs not.
Retry ==
  /\ state = "failed" /\ retries < MaxRetries
  /\ state' = "waiting" /\ attemptsMade' = 0
  /\ reports' = 0 /\ silent' = 0 /\ deaths' = {} /\ death' = Alive
  /\ retries' = retries + 1
  /\ UNCHANGED <<attemptsStarted, lock, stalls, deliveryVars, sweepVars, cancelVars,
                 buried>>

-----------------------------------------------------------------------------
DeliveryStep(n) ==
  \/ EnvelopeUnreadable(n)
  \/ \E kind \in Errors : PrologueEnds(n, kind)
  \/ BodyStarts(n)
  \/ \E how \in {"returned", "threw", "unrecoverable", "timeout"}, refused \in BOOLEAN :
       BodyEnds(n, how, refused)
  \/ \E refused \in BOOLEAN : Report(n, refused)
  \/ Settle(n) \/ RescheduleFails(n) \/ WaitRefused(n)

Sweep(w) == SweepAsks(w) \/ SweepTakes(w) \/ SweepFails(w) \/ SweepAborts(w)

WorkerStep(w) ==
  Deliver(w) \/ Sweep(w) \/ Close(w) \/ CloseDrains(w) \/ CloseExpires(w) \/ Crash(w)

CancelStep(c) ==
  CancelGets(c) \/ CancelReadsState(c) \/ CancelMarks(c) \/ CancelRemoves(c)

Next ==
  \/ \E n \in Delivery : DeliveryStep(n)
  \/ \E w \in Workers : WorkerStep(w)
  \/ \E c \in Cancels : CancelStep(c)
  \/ Retry \/ Stall \/ MarkExpires

(***************************************************************************)
(* A runtime's interval fires, its requests come back and, once in a       *)
(* while, succeed.  Handlers need not end, nobody need close, crash or     *)
(* cancel.                                                                 *)
(***************************************************************************)
Fairness ==
  \A w \in Workers : WF_vars(SweepAsks(w) \/ SweepAborts(w)) /\ SF_vars(SweepTakes(w))

Spec == Init /\ [][Next]_vars
FairSpec == Spec /\ Fairness

-----------------------------------------------------------------------------
(* Properties                                                              *)

\* A delivery is aborted as cancelled only if some jobs.cancel read the job
\* while that delivery was its latest hand-out: a mark left behind never kills
\* the retry or the redelivery after it, whoever sweeps it and when.
CancelHitsItsDelivery ==
  \A n \in Delivery : reason[n] = "cancelled" => n \in targets

\* A job in the failed set was reported dead (onDead) by the delivery that put
\* it there, so burialFor and BullMQ agree on which attempt is the last.  The
\* exceptions are four: an unreadable envelope, the stalled limit and, on the last
\* attempt, a reschedule Redis refused or a parent's move back to
\* waiting-children that was refused for its last child settled meanwhile.
NoSilentDeath ==
  state = "failed"
    /\ death.how \notin {"unreadable", "stalled", "unscheduled", "unwaited"} =>
      death.by \in deaths

\* Every attempt the job has spent since it was last retried was reported by
\* onAttemptFailed, but those spent on an unreadable envelope, on a reschedule
\* Redis refused or on a refused move back to waiting-children: a held key, a
\* shutdown, a pending child and a redelivery spend none.
SpentAttemptsAreReported == attemptsMade <= reports + silent

\* While nothing stalled, onDead is the job's last word until somebody retries
\* it: it fired for the latest hand-out alone, and the job neither waits for
\* another nor completes.
DeadIsFinal ==
  stalls = 0 =>
    \A n \in deaths : n = attemptsStarted /\ state \in {"active", "failed", "removed"}

\* A mark that names a delivery running in an open runtime gets through: the
\* delivery is aborted, or it ends or its runtime stops first, unless the mark
\* left Redis unheard: its TTL passed, another cancel set one that names another
\* delivery, or the reply of the very script that took it was lost.
MarkLands ==
  \A n \in Delivery, w \in Workers :
    (mark = n /\ n \in LiveOf(w) /\ runtime[w] = "open")
      ~> (reason[n] # "none" \/ n \notin LiveOf(w) \/ runtime[w] # "open" \/ n \in unheard)

-----------------------------------------------------------------------------
(***************************************************************************)
(* The inductive invariant behind the properties.                          *)
(***************************************************************************)

Going == {"prologue", "running", "failing", "settling"}

\* A failure report() was called for, about to be BullMQ's.
Reported(n) == phase[n] = "settling" /\ error[n] \notin Postponed \cup {"none"}

\* What burialFor takes for the last failure of the job.
IsLast(n) == error[n] \in Unrecoverable \/ attempt[n] >= MaxAttempts

\* The lock is there exactly while the job is active, and is the latest
\* hand-out's; before anything stalled nobody else is under way.
LockFollowsJob ==
  /\ lock # 0 <=> state = "active"
  /\ lock # 0 => lock = attemptsStarted
  /\ \A n \in Delivery : phase[n] = "none" <=> n > attemptsStarted
  /\ stalls = 0 => \A n \in Delivery : phase[n] \in Going => lock = n

\* burialFor reads the attempt BullMQ is about to spend: nobody else ends one
\* while the delivery has the lock.
AttemptIsCurrent ==
  /\ state \in {"waiting", "active"} => attemptsMade < MaxAttempts
  /\ \A n \in Delivery : phase[n] \in Going /\ lock = n => attempt[n] = attemptsMade + 1

FailingHasError ==
  \A n \in Delivery : phase[n] = "failing" => error[n] \notin Postponed \cup {"none"}

\* What is about to be spent, or to kill the job, has been reported.
ReportComesFirst ==
  \A n \in Delivery : lock = n /\ Reported(n) =>
    /\ attemptsMade + 1 <= reports + silent
    /\ IsLast(n) => n \in deaths

DeathHasCause == state = "failed" => death.how # "none"

\* A delivery onDead fired for is about to fail the job, or was lost.
DeadIsLast ==
  stalls = 0 => \A n \in deaths :
    lock = n => phase[n] = "lost" \/ (Reported(n) /\ IsLast(n))

\* Whatever names a delivery in a cancellation was read by the client.
CancelNamesWhatItRead ==
  /\ \A c \in Cancels : seen[c] # 0 => seen[c] \in targets
  /\ mark # 0 => mark \in targets
  /\ \A w \in Workers : taken[w] \subseteq targets

\* Each delivery is reported at most once and spends at most one attempt.
CountsAreOfDeliveries ==
  /\ reports <= Cardinality({n \in Delivery : phase[n] \in {"settling", "done", "lost"}})
  /\ silent <= Cardinality({n \in Delivery : phase[n] = "done"})

IndInv ==
  /\ TypeOK /\ LockFollowsJob /\ AttemptIsCurrent /\ FailingHasError
  /\ ReportComesFirst /\ DeathHasCause /\ DeadIsLast /\ CancelNamesWhatItRead
  /\ CountsAreOfDeliveries
  /\ NoSilentDeath /\ SpentAttemptsAreReported /\ DeadIsFinal /\ CancelHitsItsDelivery

=============================================================================

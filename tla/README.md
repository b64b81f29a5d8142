# jubs, specified

TLA+ modules of [jubs](../src/README.md), a typed job library over BullMQ: what
happens to a job, a key, a flow, an outbox row or a schedule when workers die,
replies are lost and operators act in the middle. `src/` below is the
repository; all the code modelled is in `src/src/`.

## The system

| Part | Code | State it keeps | Operations | What is hard |
|---|---|---|---|---|
| Client | `Client.ts` | none of its own | `enqueue`, `atomic`, `retry`, `cancel`, `dead.replay`, `dead.discard`, `idempotency.forget`, `pause`, readers | several round trips that must read as one (`cancel`, `replay`) |
| Runtime | `Runtime.ts`, `Shutdown.ts`, `Dead.ts` | the set of live deliveries, an interval, consumers | `start`, a delivery (`runOn`, `dispatch`, `report`), the cancellation sweep, `close` | deliveries of one job overlap; a worker dies between report and move; close races a delivery that begins |
| Idempotency key | `Idempotency.ts`, the Lua of `RedisDriver.ts` | one Redis key: absent, leased, complete | acquire, renew, complete, release, forget | a body outlives its delivery; late commands; lost renewals and replies |
| Cancellation | `Cancellation.ts`, `RedisDriver.ts` | a mark per job in Redis, with a time to live | `cancel`, `takeCancelled` | stale reads, redeliveries, lost replies |
| Dead queue | `Dead.ts`, `RedisDriver.ts` | a BullMQ queue of records | bury, replay, discard | replay is forget, enqueue, remove |
| Flows | `Flow.ts`, `RedisDriver.ts` | BullMQ's dependencies, processed and failed collections of a parent | enqueue a tree, read the children, wait again | children settle, are retried, swept and cancelled while the parent reads |
| Atomic blocks | `Atomic.ts` | the scope of a block: held calls, closed | hold, deliver, flush, write | callbacks that outlive a block, nesting, partial flushes |
| Outbox relay | `Outbox.ts` | a cycle: batch, what it delivered | claim, deliver, mark, close | claims that expire, crashes before the mark, lost replies |
| Schedules | `Runtime.ts`, `RedisDriver.ts` | BullMQ's schedulers | reconcile at start | two builds start at once |
| Testing driver | `testing/index.ts` | jobs, pending, marks, leases, kept results, a dead map | `runNext`, `drain` and the driver interface | the same answers as Redis, without Redis |
| Uniqueness | `Delivery.ts`, `RedisDriver.ts` | BullMQ's deduplication key | `resolveUnique`, `toDeduplication`, `resolveDelayMs`, add | windows, delays, retries and replays beside a job that holds the key |
| Payload versions | `Definition.ts`, `Envelope.ts`, `Migration.ts` | the version and counts each stored envelope carries | `defineJob`, `writeEnvelope`, `migrateEnvelope` | processes of several builds over the same jobs, rows, records and templates |
| Results, failures, ids, the syntax of schedules, dashboard | the other files | none | conversions and rendering | pure data |

A client stores jobs through a driver; BullMQ hands a job to a worker's
`consume` callback, which calls the runtime's `runOn`; that calls `runUnderKey`
when the definition names a key, and the driver turns what `runOn` rejects with
into a move of the job. Client and runtime share nothing but Redis. BullMQ, the
application's outbox table and its transactions are external: they are modelled
from what the code asks of them and marked so in the map.

`PROJECT.json` lists every component, every hazard with the line where it bites
and the properties that would catch it, and which lines each definition stands
for.

## The modules

| Module | Models | State | Runs |
|---|---|---|---|
| `Idempotency` | `runUnderKey` and the store's scripts over one key | the key (`keyState`, `token`, `kept`, `ttl`), each call (`pc`, `outcome`, `answer`), renewals (`due`, `missed`) | `idempotency` |
| `DeadReplay` | bury, replay, discard of a keyed job; **composes** with `Idempotency` (EXTENDS) | the record, each operator's place in `replay` | `dead_replay` |
| `JobRuntime` | one job, its deliveries in worker processes, report and burial, cancellation, close | BullMQ's view of the job, each delivery, each runtime, the mark, each call of `cancel` | `job_runtime`, `job_runtime_cancel`, `aborting_heard` |
| `FlowTree` | a flow of any depth and the deliveries of its jobs | the three collections, each job's state, delivery, attempts, stalls and burial, the cancels under way | `flow_tree` |
| `PayloadVersions` | one job name during a rollout | each process' build, the scheduler's template, envelopes, dead records, each worker's migration loop | `payload_versions` |
| `UniqueJobs` | the jobs of one uniqueness key | each job and its delay, the key, its window, the enqueue kept behind it | `unique_jobs` |
| `OutboxRelay` | relays over one outbox table | rows, leases and claims, jobs in Redis, each relay's cycle | `outbox_relay` |
| `AtomicBlock` | atomic blocks and the calls made in them | blocks and scopes, held calls, what is in Redis, transactions | `atomic_block` |
| `StartRuntime` | `start` of several processes | schedulers in Redis, where each start stands, its open consumers | `start_runtime` |
| `MemoryDriver` | jobs of the testing driver; **composes** with `MemoryKey` (EXTENDS) | `recorded`, `pending`, marks | `memory_driver` |
| `MemoryKey` | its key store, **refining** `Idempotency` | the maps `leased` and `kept` | `memory_driver` |

Each `MC<Module>` gives the constants values, and `MCAbortingHeard` adds the history
its one property needs to `JobRuntime`; each `*Proofs` holds the theorems
of one module, or of two that belong together: `IdempotencyProofs` those of the
key and of replays over it, `RuntimeProofs` those of a running and of a starting
runtime, `MemoryDriverProofs` those of the testing driver and its store.
Definitions named `X_Something` are variants of `X` with one mistake a change of
the code could make; they are not part of any specification.

How state and actions correspond to the code:

- **Idempotency.** One action per command sent and per reply: `AcquireApplies`,
  `SettleApplies` and `RenewArrives` are the scripts running in Redis,
  `AcquireFails`, `SettleLost` and `RenewLost` the calls that reject. `Timeout`
  is `runUnderTimeout` failing the attempt with the body still going
  (`detached`); `settleWhenBodyEnds` then ends it (`trailing`). Time passes in
  renewal intervals: `Tick` ages the lease and makes every armed timer send a
  renewal. The token of a possession is the delivery itself (each call draws a
  fresh UUID). `lapsed`, `missed` and `troubled` are history.
- **DeadReplay.** `ReplayReads`, `ReplayForgets`, `ReplayEnqueues`, `ReplayDrops`
  are the four round trips of `dead.replay`; any may fail (`ReplayFails`) and
  the operator may call again. Every other step is one of `Idempotency`.
- **JobRuntime.** A delivery goes through a prologue (parse, migrate, validate,
  read children, acquire), its body (in `live`), failing (about to be
  reported) and settling (about to be moved). `attemptsStarted` numbers
  deliveries. Three refusals are not reported and become a move: a held key and
  a shutdown to delayed, a pending child back to waiting-children. Each move may
  be refused (`RescheduleFails`, `WaitRefused`), which spends an attempt in
  silence. `Stall` is BullMQ's stalled check with its limit of one; a delivery
  whose job stalled keeps running, as it does in the code, without the lock.
  `cancel` is a sequence of round trips, and several calls may be under way: a
  later one overwrites the mark of an earlier one, and a mark expires whatever
  its delivery does. `unheard` remembers the deliveries whose mark was lost.
- **FlowTree.** `Below` says what hangs below each job. Every job is delivered
  alike: `Reads` is the one atomic read of `childrenFor` and the verdict it
  leads to (run, wait, `child_dead`, `children_short`); `Waits` and `WaitFails`
  are `moveToWaitingChildren`, which answers false when the last dependency left
  in between. `CancelReads` reads that a job is not running; `CancelRemoves`, a
  round trip later, removes it with all that hangs below it whatever it came to
  since, as `removeChildren` does, and releases the parent it was the last
  dependency of; a lock below makes it `CancelRefused`. A second stall of a job
  fails it (`Stalls`).
- **PayloadVersions.** `Definition` says what each build declares; a build whose
  `defineJob` throws never comes up. Payload data is its history: the version it
  was written in and the steps applied since. `MigrateStep` is one awaited turn
  of the loop of `migrateEnvelope`. A worker that starts rewrites the scheduler's
  template. `Report` may keep no record (no dead queue, or a burial Redis
  refused). `Abandon` is what becomes of the job of a worker that stopped or died:
  it waits again or, past BullMQ's stall limit, is failed without a record
  (`stalled`); the stalls are counted in `JobRuntime`, and here any death may be
  the one too many. The round trips of `replay` are one step here, because `DeadReplay`
  takes them apart; `attempts_exhausted` counts as `unrecoverable`.
- **UniqueJobs.** The policy is resolved as `Delivery.ts` and `toDeduplication`
  resolve it; what BullMQ does with the options is external. The delay of a
  job and the window of the key run on clocks of their own (`Tick`): Redis counts
  the window from the add, BullMQ the delay from the client's timestamp by a
  worker's clock. `outrun` remembers that the delay of the `keepLast` job the key
  names ended first. A replay stores a job without uniqueness, and
  a retried job has let go of its key: these are the two excuses of
  `NoUnexcusedOverlap`. A body that goes on after `timeoutMs` is not counted as
  running; that overlap is what `Idempotency` is about.
- **OutboxRelay.** A cycle is claim, one delivery per row, mark. `CanPrepare`
  says which rows a relay's build can read (an unknown definition, a version
  ahead, an invalid payload otherwise). `claim` and `markDelivered` belong to
  the application; they are modelled by the contract `Outbox` documents, with
  leases that expire under a slow relay. That contract does not say how often a
  row is handed out; the adapter of `src/docs/outbox.md` stops at `MAX_CLAIMS`,
  and so does the model (`MaxClaims`). A claim hands out any rows it likes up to
  the limit. `wasted` counts the claims of a row that came to nothing.
- **AtomicBlock.** `Around` says which block's context a block is opened in. A
  call reaches a scope some steps after it was made, so it may find it closed. A
  block that joins another has no scope of its own: what is made in it is held by
  the outer block and goes the way of that one, even if the inner one threw.
- **StartRuntime.** `QueuesOf` says which queues the handlers of a process are on
  and `Declared` which schedules they declare; only a process that called `start`
  can have changed what is stored, and only on its own queues. A `consume` may
  reject and leave its Worker running, and a consumer opened before a refusal may
  fail to close, which `openConsumers` swallows (`ConsumerCloses`).
- **MemoryDriver / MemoryKey.** Steps are the driver's methods; they are atomic
  because JavaScript runs them on one stack. In the composition a run of a
  keyed job is one call over the key, and where that call stands decides how the
  run may end.

## What the runs show

Passing runs, with the bounds and why they are enough:

- `idempotency` (two deliveries, the code's lease of three renewal intervals): two
  bodies run side by side only after a lapse (`NoSecondBody`); a lapse takes two
  missed renewals in a row (`LapseNeedsMissedRenewals`); a result handed back is
  one a body returned (`AnsweredResultIsReal`); two bodies return only after a
  lapse, an expiry or a forget (`ReturnsOnce`); nobody takes another's lease
  (`LeaseTakenOnlyByHolder`); a lease nobody needs goes (`SpentLeaseGoes`). The
  safety properties speak of two deliveries at a time, and are proved for any
  number of them and any lease.
- `dead_replay` (one original, one replay, two operators): the job survives a
  replay that fails anywhere (`DeadJobNotLost`), is not answered by a result from
  before the replay (`ReplayOutlivesOldResult`), and the key keeps behaving as
  its specification (`ReplayImplementsKey`).
- `job_runtime` (two workers, a keyed parent with a dead queue, two attempts,
  three hand-outs, one retry): a stall needs a second worker and a redelivery, the
  limit of stalls needs a third hand-out, a refused move on the last attempt needs
  two. `NoSilentDeath` (with its four exceptions), `SpentAttemptsAreReported`,
  `DeadIsFinal`.
- `job_runtime_cancel` (one worker, two attempts, two hand-outs, two calls of
  `cancel` one after the other): a mark can meet the delivery it names and the one
  after it, be overwritten, expire and be lost with a reply; one process may hold
  both deliveries. `CancelHitsItsDelivery` is proved for any number of calls at
  once and any retries; `MarkLands` says that a mark that stays in Redis reaches
  its delivery.
- `flow_tree` (the flow of `src/docs/flows.md`: a root over one node, which is a
  parent of two in one slot; two attempts for that node, two stalls of it and one
  of the root, two retries, one cancel under way at a time): a slot can be half
  full, a death at the bottom reaches the top over two levels, two retries put it
  and the death above it right again, the second stall fails the node, and a
  cancel may remove what ended since it read it. A handler runs
  only over full slots (`HandlerSeesFullSlots`); a waiting parent has a child
  left to release it (`WaitingParentIsReleasable`); `children_short` is said only
  of a job that lost a child or kept no counts (`ShortMeansLost`); a root that
  completed stands on a tree whose every job did its work (`GreenMeansWhole`);
  `FlowSettles`.
- `payload_versions` (two workers, one client, two jobs, two deploys over six
  builds: versions 1 to 3 of which one leaves a step out, one takes up a schedule
  and one children, one does not register the job and one `defineJob` refuses):
  two deploys are a worker and a client in either order, or two workers apart; a
  second job is what a replay needs. `HandlerSeesItsVersion`,
  `HandlerSeesItsSlots`, `NothingIsAheadInOrder` (the promise of
  `src/docs/versioning.md` for a rollout with workers first) and `NothingIsLost`,
  which excuses what no dead queue took and what stalled past BullMQ's limit.
- `unique_jobs` (four jobs, five enqueues, every mode with and without a window
  and a delay): a job runs while a second holds the key, a third waits behind it
  and a fourth was replayed. `noOverlap` overlaps only with what an operator put
  there (`NoUnexcusedOverlap`), and the last enqueue of `keepLast` and `noOverlap`
  is followed by a run (`EnqueueIsFollowedByRun`), except where the delay of a
  `keepLast` job outran its window. A retried or replayed job beside the holder of
  the key is the excuse of the first, so neither says anything of it.
- `outbox_relay` (two relays, two rows of which one needs the newer build, three
  claims per row, one sweep per row, any number of crashes): `MarkedMeansStored`,
  `SecondJobNeedsSweep`, and `GoodRowIsDelivered`: a row is marked in the end, or
  each of the three claims came to nothing, or no relay is open. Three claims let
  a row fail under both relays and succeed, and be given up with the old relay
  taking every claim of the newer row.
- `atomic_block` (a block, one inside it, a writing one that joins it or comes
  after it; four calls, one no row can hold): `HeldIsNotDropped`,
  `NothingLeavesBeforeTheEnd` (of the block that holds a job, which for a joined
  one is the outer block), `FlushedIsPrefix`, `RowsFollowTheBlock`.
- `start_runtime` (three processes with handlers on both queues, on one and on the
  other; five schedulers): `StartedKeepsFiring`, which excuses a process with
  handlers on the queue that does not declare the schedule, `DeletedStopsFiring`
  (of the queues of those that started), `ForeignSurvives`, `StartIsAllOrNothing`.
- `memory_driver` (two jobs, one under the key, two hand-outs each):
  `PendingIsWaiting`, and `MemoryImplementsKey` with the driver's own runs as the
  calls over the key.

No run checks for deadlock: a job that completed, a closed relay and a test that
ran everything are states where nothing more has to happen.

Every module states a type invariant. The runs `idempotency` and `job_runtime`
check theirs; all but the one of `MemoryDriver`, of which only the lists and the
states are needed, are part of the inductive invariants proved.

One run fails, on a sentence of the repository the code does not keep:

| Run | The repository says | What happens |
|---|---|---|
| `aborting_heard` | `src/docs/operations.md:85`: "the runtime that holds the delivery aborts `context.signal`" | `cancel` got the job before it was handed out, and its state after: it answers `aborting` and marks number 0, so no sweep finds a mark for the delivery that holds the job |

Elsewhere the text says more than the code, and the models follow the code:

- `src/src/Runtime.ts:466` has "the delivery after it" read the full set when the
  last child settles between the read and the wait; on the last attempt no
  delivery follows, and the job is in the failed set with nothing reported (one
  of the exceptions of `NoSilentDeath`).
- `src/src/testing/index.ts:143` says a mark "kills no later delivery"; the
  testing driver gives an id out again after a cancel, and a mark can meet the
  job that got it.
- `src/src/Cancellation.ts:9` has the mark of a dead worker's delivery "land on
  the redelivery"; it names a number, and the redelivery has the next one
  (`CancelHitsItsDelivery` is that it does not land).
- `src/docs/operations.md:184` says `onDead` fires once; a worker lost between
  `report` and the move of the job has it fired again, which is why `DeadIsFinal`
  is stated of a job nothing stalled.
- `src/docs/delivery.md:114` has an expired `close` abort every job still
  running; a delivery in its prologue is not in `live` yet and starts its body
  afterwards.
- `src/docs/operations.md:246` has a replay run the handler or throw; a delivery
  that completes the key after the forget answers for it, so
  `ReplayOutlivesOldResult` speaks of results kept before the replay.
- `src/src/Outbox.ts:255` and `src/src/Atomic.ts:74` say that a job the driver
  failed on is not on the queue; it is when only the reply was lost.
- `src/docs/outbox.md:19` says that an `fn` that throws delivers nothing; the jobs
  of a block that joined another one, threw and was caught are the outer block's,
  which delivers them when it resolves (`src/docs/outbox.md:57`: "Only the
  outermost block delivers").
- `src/docs/operations.md:83` has cancelling a child kill the parent "whenever it
  lands"; a child that completed between the read and the removal
  (`src/docs/operations.md:77`) has left its result with the parent, which runs.
- `src/docs/scheduling.md:57` has `start` remove the schedules the code no longer
  declares; one deleted with the last handler of its queue is on a queue no
  `start` reconciles (`src/src/Runtime.ts:310`).
- `src/src/Runtime.ts:250` closes what it opened before `start` rejects; a close
  that rejects is logged, and a `consume` that rejects after it made its Worker
  leaves that one to nobody.
- `src/docs/uniqueness.md:28` has the index rebuilt from the tenth payload; where a
  worker's clock ends the delay before Redis ends the window of the same length,
  an enqueue in between is swallowed by a job that already runs.
- `src/docs/uniqueness.md:52` allows a key two jobs at most; a failed job that is
  retried comes back beside them.

## Fairness

Fairness is assumed only of what goes on by itself. `Idempotency`: the clock of
Redis runs, and a settling command sent by a live process comes back, applied or
rejected (a client never leaves a command pending for ever). `JobRuntime`: the
sweep's `setInterval` fires while the runtime is open and, because it asks again
every 250 ms, one of infinitely many requests succeeds (strong fairness of
`SweepTakes`, weak of the rest); nothing is assumed of the mark, which may expire
or be overwritten first. `FlowTree`: every job
that is ready is handed out and its delivery ends; a handler that never returned
would settle nothing, and `timeoutMs` or the stalled check ends it. `OutboxRelay`: an open
relay ticks and goes on with its cycle, and claims expire, all weakly fair. Which
relay is given which row, and whether Redis or the table ever answers, is left
open: a claim that came to nothing is in the property, not in the fairness. No fairness is given to operators, cancellations, retries,
crashes or closing.

## What is proved

TLAPS checks the theorems for every value of the constants, from the named
assumptions of the modules (`LeaseTicks` a positive natural, `Nodes` a finite
tree, `Limit` positive and the like).

- **`IdempotencyProofs`**: the type invariant, `LeaseFollowsBody` (a body whose
  lease has not lapsed holds the key, from which `NoSecondBody` follows), the
  safety invariants of the run and `LeaseTakenOnlyByHolder`. The properties are not inductive: that a body holds
  its lease says nothing of the moment before it starts, and that a lapse takes
  missed renewals needs the ticks accounted for. `IndInv` adds, for each
  delivery, that from the grant to the end of the body it holds the key or has
  lapsed; that `ttl` plus the missed renewals plus the one on its way is at
  least `LeaseTicks`; and that a returned body's key is its own until something
  troubles it. One step per action, one lemma each for types, the shape of the
  key and one delivery.
  Then `DeadReplay`: every step of the replaying system is a step of
  `Idempotency` or leaves the key alone, so `ReplaySpec => Spec` and the key's
  theorems carry over (`ReplayNoSecondBody`). `ReplayOutlivesOldResult` and
  `DeadJobNotLost` rest on `ReplayInv`: from the forget on, what had been kept
  before is left behind (`LeftBehind`: all of it has settled, and the key is not
  complete with any of it), which the key's `IndInv` preserves because only a
  body that has not settled can complete the key; and an operator past its enqueue
  left a replay there.
- **`RuntimeProofs`**, `JobRuntime`: the type invariant and the four safety
  properties, for any workers, attempts, hand-outs, cancellations and retries.
  None is inductive, because each is about what BullMQ writes from what a
  delivery read earlier. `IndInv` adds what the two know of each other: the lock
  is the latest hand-out's and, until something stalls, no other is under way
  (`LockFollowsJob`); a delivery that has the lock carries the number of the
  attempt it is about to spend (`AttemptIsCurrent`), which is why `burialFor`
  and BullMQ decide alike; a failure about to be spent was reported and, if the
  last, reported dead (`ReportComesFirst`, `DeadIsLast`); every number a
  cancellation holds, seen by any of its calls, marked or taken by a sweep, was
  read by a client
  (`CancelNamesWhatItRead`). That the counters stay within their types is a
  counting argument (`CountsAreOfDeliveries`), with three lemmas on cardinality.
- **`RuntimeProofs`**, `StartRuntime`: its four properties, for any processes,
  queues, handlers and schedules. `StartInv` adds that a process removes only what
  it does not declare, on its own queues, and upserts only what it does, with
  nothing left over between two queues (`WorkIsOnItsOwn`), that behind a process
  its queues agree with what all or none of those with handlers on them declare
  (`QueuesBehindAreRight`), and that every open Worker is held, or was refused, or
  could not be closed (`ConsumersAreKnown`).
- **`AtomicBlockProofs`**: the four properties of the run, for any nesting of
  blocks (`Around`) and any calls. `IndInv` adds that a scope's owner has run and
  that a scope not joined is closed for good (`ScopesHaveOwners`), that a held
  call is in the list of one scope once (`HeldOnce`), that what is in Redis is
  the part of the list flush has counted and perhaps the one whose reply was lost
  (`FlushFollowsBlock`), and that rows are saved only by a block that resolved
  (`SavedFollowsBlock`).
- **`FlowTreeProofs`**: the four safety properties of the run, for a flow of any
  shape (`TreeAssumption` describes `Below`). `IndInv` adds that a job's state
  says in which collection of its parent it is (`CollectionsFollowNodes`), that a
  delivery in progress is of an active job (`DeliveryIsActive`), which is why a
  removal takes no result from under a running handler, and that what
  completed stands on completed jobs down to the leaves (`DoneToTheBottom`, of
  every job, where `GreenMeansWhole` speaks of the root). The lemma on slots (equal cardinalities of
  a finite set and its subset make them equal) is where the counting rule of
  `childrenShort` is shown to suffice.
- **`PayloadVersionsProofs`**: the four properties of the run, for any builds,
  processes and jobs. `StoredIsRaw`: whoever passes an envelope on stores it as
  it was written, so no step is applied twice. `DeliveryInv` is the invariant of
  the migration loop. `InOrder`: while workers go first, `newest` bounds what is
  written from above and what workers read from below.
- **`UniqueJobsProofs`**: both properties of the run, for any policies, windows
  and delays. `IndInv` adds that a live unique job without an excuse is the one
  the key names (`KeyNamesTheJob`), that the window never outlives the delay of a
  `keepLast` job while that delay has not outrun it (`WindowWithinDelay`), and that an enqueue is kept only
  behind a job the key names (`NextIsBehindTheKey`).
- **`OutboxRelayProofs`**: `MarkedMeansStored` and `SecondJobNeedsSweep`. `IndInv`
  adds that what a cycle counts as delivered was stored, that the jobs of a row
  made so far are the dropped ones and the one stored, and that a row claimed once
  is in one batch at most and has made no job while it is there
  (`FirstClaimIsAlone`).
- **`MemoryDriverProofs`**: the testing driver's store implements the Redis store,
  under the mapping that reads the two maps as one key, for the store alone and
  with the driver's jobs as its calls (`DriverSpec`). The invariant: the key is
  in one map at a time, and whoever runs or settles holds the lease.
  `PendingIsWaiting` rests on `DriverInv`: both lists have a job once, so that the
  splices of `cancel`, the job `runNext` takes and the held one it puts back in
  front take out or add that job and no other. That an id names a recorded job
  needs the least of a set of indexes, which comes from the well-founded order of
  the naturals.

Every safety property of a passing run is proved, and so are the action property
`LeaseTakenOnlyByHolder` and the two refinements. Only model-checked: liveness
(`SpentLeaseGoes`, `MarkLands`, `FlowSettles`, `GoodRowIsDelivered`), which the
prover does not do under fairness. `MarkLands` is also the one property of
`JobRuntime` that needs a sweep to come round again.

## What is not modelled

The dashboard (rendering over client calls), the parsing of schedules, the
serialisation of results, failures and ids: pure data. Of `Definition.ts`, what
is only types, and hooks whose errors are caught. Pausing a queue in Redis: one
BullMQ call. The checks `enqueue` makes of its arguments before anything is
stored. The sweep of a *failed* child's job is left out of `FlowTree` (retention
by count keeps the last 200). Delays, priorities, limiters and concurrency
outside `UniqueJobs` only order what the models already interleave freely. So does
the delay of a held key, `2 ** n` under a `Math.min`, which no count of hand-outs
can overflow. The
testing driver's dead queue is a map on one stack.

## Plan

1. Done: the key, replay, the runtime with cancellation and close, flows of any
   depth, payload versions over a rollout, uniqueness, the relay, atomic blocks,
   start, the testing driver; proofs of every safety property of theirs.
2. Compose: `JobRuntime` over `Idempotency` (a redelivery beside a body that
   ignored its abort), with the abstract promise "one body at a time".
3. Prove: the safety half of the liveness properties (what stays enabled until
   it is taken), so that only fairness is left to TLC.
4. Model: the testing driver's dead queue.

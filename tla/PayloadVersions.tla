-------------------------- MODULE PayloadVersions --------------------------
(***************************************************************************)
(* One job name while the builds that declare it are rolled out            *)
(* (Definition.ts, Envelope.ts, Migration.ts): producers write envelopes,  *)
(* a scheduler repeats one, relays and replaying clients pass them on, and *)
(* workers raise them to the version they run, each process with the       *)
(* definition of its own build.                                            *)
(*                                                                         *)
(* Payload data is abstracted to its history: the version it was written   *)
(* in and the migration steps applied to it since.  The idempotency key,   *)
(* the attempts and the children of a flow have modules of their own; here *)
(* a flow's children are all done by the time the parent is handed out.    *)
(***************************************************************************)
EXTENDS Integers, Sequences

CONSTANTS
  Workers,       \* processes that run handlers (jobs.start)
  Clients,       \* processes that enqueue, relay and replay
  Builds,
  First,         \* the build every process runs before the rollout
  Definition,    \* what each build declares under the name
  Slots,         \* names of slots a build may declare in `awaits`
  Jobs,          \* ids of stored jobs and outbox rows
  Down,          \* a process that is not up, a job that is not there
  MaxDeploys     \* bound: processes that came up

Processes == Workers \cup Clients

Definitions == [registered : BOOLEAN, version : Int, migrations : SUBSET Int,
                slots : SUBSET Slots, unique : {"no", "declared", "computed"},
                keyed : BOOLEAN, scheduled : BOOLEAN]

ASSUME RolesAssumption == Workers \cap Clients = {}
ASSUME DefinitionAssumption == Definition \in [Builds -> Definitions]
ASSUME DownAssumption == Down \notin Builds \cup Jobs
ASSUME MaxDeploysAssumption == MaxDeploys \in Nat

-----------------------------------------------------------------------------
(* Definitions and envelopes.                                              *)

\* assertVersioning: a whole version of 1 or more, and no step that never runs.
AssertVersioning(d) ==
  d.version >= 1 /\ \A from \in d.migrations : from >= 1 /\ from < d.version

\* assertAwaits: a job that waits on children has no uniqueness, no key of its
\* payload alone and no recurrence.  A delivery that is a function is not read.
AssertAwaits(d) ==
  d.slots # {} => d.unique # "declared" /\ ~d.keyed /\ ~d.scheduled

DefineJob(d) == AssertVersioning(d) /\ AssertAwaits(d)

\* A build whose defineJob throws fails as it is loaded: no process runs it.
Loads(b) == Definition[b].registered => DefineJob(Definition[b])

ASSUME FirstAssumption == First \in Builds /\ Loads(First)

Raw(v) == [born |-> v, steps |-> <<>>]

Envelope(v, origin, slots) ==
  [v |-> v, data |-> Raw(v), origin |-> origin, slots |-> slots]

\* writeEnvelope: the version is the one of the build that writes.
WriteEnvelope(d) == Envelope(d.version, "single", {})

\* composeFlow counts what every slot of the definition was given.
ComposeFlow(d) == Envelope(d.version, "flow", d.slots)

VersionIsKnown_Strict(d, e) == e.v < d.version

VersionIsKnown(d, e) == e.v <= d.version

\* migrateEnvelope over the whole chain resolves only if no step is missing.
Migrates(d, e) == VersionIsKnown(d, e) /\ (e.v .. (d.version - 1)) \subseteq d.migrations

\* migrateEnvelope: one step, awaited before the next is looked up.
ApplyStep(dat, version) == [born |-> dat.born, steps |-> Append(dat.steps, version)]

\* childrenShort: a slot the running definition declares has no count.
ChildrenShort(d, e) == ~(d.slots \subseteq e.slots)

-----------------------------------------------------------------------------
VARIABLES
  build,        \* the build each process runs
  template,     \* the envelope the job's scheduler repeats
  state,        \* where each job is
  env,          \* the envelope each job is stored with
  record,       \* why the dead queue keeps each job, or "none"
  taken,        \* the job each worker's delivery is of
  step,         \* where that delivery stands
  data, from,   \* the loop of migrateEnvelope
  deploys,
  source,       \* history: the enqueue each job goes back to
  dropped,      \* history: enqueues an operator discarded or no dead queue took
  orderly,      \* history: every deploy so far went workers first
  newest        \* history: while orderly, the highest version anything was written in

jobVars      == <<state, env, record>>
deliveryVars == <<taken, step, data, from>>
history      == <<source, dropped>>
rollout      == <<build, template, deploys, orderly, newest>>
vars == <<rollout, jobVars, deliveryVars, history>>

Def(p)   == Definition[build[p]]
Up(p)    == build[p] # Down
Knows(p) == Up(p) /\ Def(p).registered

\* A job is "stalled" when BullMQ failed it at its stall limit.
States  == {"none", "row", "waiting", "active", "completed", "failed", "stalled"}
Reasons == {"none", "version_ahead", "children_short", "unrecoverable"}
\* `origin` is read only to tell part of a flow from the rest (Client.ts:393).
Origins == {"single", "flow"}

Datas     == [born : Int, steps : Seq(Int)]
Envelopes == [v : Int, data : Datas, origin : Origins, slots : SUBSET Slots]

TypeOK ==
  /\ build \in [Processes -> Builds \cup {Down}]
  /\ template \in Envelopes \cup {Down}
  /\ state \in [Jobs -> States]
  /\ env \in [Jobs -> Envelopes]
  /\ record \in [Jobs -> Reasons]
  /\ taken \in [Workers -> Jobs \cup {Down}]
  /\ step \in [Workers -> {"idle", "migrating", "running"}]
  /\ data \in [Workers -> Datas]
  /\ from \in [Workers -> Int]
  /\ deploys \in 0..MaxDeploys
  /\ source \in [Jobs -> Jobs]
  /\ dropped \subseteq Jobs
  /\ orderly \in BOOLEAN
  /\ newest \in Int

\* What a process of build b writes envelopes in; one that does not know the
\* job writes none.
Version(b) == IF Definition[b].registered THEN Definition[b].version ELSE 0

\* reconcileSchedules at the start of a worker: the scheduler's template is
\* rewritten with the version of that worker's build, or deleted when the build
\* declares no schedule.
Template(b) ==
  IF Definition[b].registered /\ Definition[b].scheduled
  THEN WriteEnvelope(Definition[b]) ELSE Down

Init ==
  /\ build = [p \in Processes |-> First] /\ template = Template(First)
  /\ state = [j \in Jobs |-> "none"]
  /\ env = [j \in Jobs |-> Envelope(0, "single", {})]
  /\ record = [j \in Jobs |-> "none"]
  /\ taken = [w \in Workers |-> Down] /\ step = [w \in Workers |-> "idle"]
  /\ data = [w \in Workers |-> Raw(0)] /\ from = [w \in Workers |-> 0]
  /\ deploys = 0
  /\ source = [j \in Jobs |-> j] /\ dropped = {}
  /\ orderly = TRUE /\ newest = Version(First)

-----------------------------------------------------------------------------
(* Rollouts.                                                               *)

Writes(p, b) == p \in Clients \/ Definition[b].scheduled

\* The rollout docs/versioning.md asks for: workers run the new version before
\* anything writes it, and the workers of a scheduled job stop before its
\* version is raised.
WorkersFirst(p, b) ==
  /\ p \in Workers => Version(b) >= newest
  /\ Writes(p, b) =>
       \A w \in Workers \ {p} : Up(w) => Version(build[w]) >= Version(b)

\* A process comes up.
Start(p, b) ==
  /\ ~Up(p) /\ Loads(b) /\ deploys < MaxDeploys
  /\ build' = [build EXCEPT ![p] = b]
  /\ template' = IF p \in Workers THEN Template(b) ELSE template
  /\ deploys' = deploys + 1
  /\ orderly' = (orderly /\ WorkersFirst(p, b))
  /\ newest' = IF ~orderly' THEN 0
               ELSE IF Writes(p, b) /\ Version(b) > newest THEN Version(b) ELSE newest
  /\ UNCHANGED <<jobVars, deliveryVars, history>>

\* The delivery is over; its locals go with it.
Idle(w) ==
  /\ taken' = [taken EXCEPT ![w] = Down] /\ step' = [step EXCEPT ![w] = "idle"]
  /\ data' = [data EXCEPT ![w] = Raw(0)] /\ from' = [from EXCEPT ![w] = 0]

\* Where the job a worker held goes.  A worker that stops puts it back; one that
\* dies leaves it to BullMQ's stalled check, which hands it out again, or fails it
\* once it stalled more than maxStalledCount allows: nothing is called, nothing
\* is reported and nothing is buried.  The count is JobRuntime's; here any death
\* may be the one past the limit.
Abandon(j) == \E where \in {"waiting", "stalled"} : state' = [state EXCEPT ![j] = where]

\* A process stops or dies, a worker perhaps with a job in its hands.
Stop(p) ==
  /\ Up(p)
  /\ build' = [build EXCEPT ![p] = Down]
  /\ IF p \in Workers /\ taken[p] # Down THEN Abandon(taken[p]) /\ Idle(p)
     ELSE UNCHANGED <<state, deliveryVars>>
  /\ UNCHANGED <<template, deploys, orderly, newest, env, record, history>>

-----------------------------------------------------------------------------
(* What puts an envelope somewhere.                                        *)

Store(j, e, where) ==
  /\ state[j] = "none"
  /\ state' = [state EXCEPT ![j] = where]
  /\ env' = [env EXCEPT ![j] = e]

\* jobs.enqueue of a definition that waits on nothing.
Enqueue(c, j) ==
  /\ Knows(c) /\ Def(c).slots = {}
  /\ Store(j, WriteEnvelope(Def(c)), "waiting")
  /\ UNCHANGED <<rollout, record, deliveryVars, history>>

\* jobs.enqueue of one that waits on children, or of a flow that has the job as
\* a child; composeFlow refuses uniqueness at every node.
EnqueueFlow(c, j) ==
  /\ Knows(c) /\ Def(c).unique = "no"
  /\ Store(j, ComposeFlow(Def(c)), "waiting")
  /\ UNCHANGED <<rollout, record, deliveryVars, history>>

\* jobs.enqueue inside a block with a tx: envelopeForOutbox refuses uniqueness,
\* flowRefusedByOutbox a flow.
EnqueueInBlock(c, j) ==
  /\ Knows(c) /\ Def(c).slots = {} /\ Def(c).unique = "no"
  /\ Store(j, WriteEnvelope(Def(c)), "row")
  /\ UNCHANGED <<rollout, record, deliveryVars, history>>

\* The scheduler's occurrence falls due, with the template of the moment.
Occurs(j) ==
  /\ template # Down
  /\ Store(j, template, "waiting")
  /\ UNCHANGED <<rollout, record, deliveryVars, history>>

\* What a client checks of an envelope before it passes it on.
Passes(c, e) == Knows(c) /\ Def(c).slots = {} /\ Migrates(Def(c), e)

Relay_StoresMigrated(c, j) ==
  /\ state[j] = "row" /\ Passes(c, env[j])
  /\ state' = [state EXCEPT ![j] = "waiting"]
  /\ env' = [env EXCEPT ![j].data.steps =
               [i \in 1..(Def(c).version - env[j].v) |-> env[j].v + i - 1]]
  /\ UNCHANGED <<rollout, record, deliveryVars, history>>

\* deliver of the relay: the row is migrated and validated to resolve its
\* delivery, and stored as it was written.  A row it refuses is left behind.
Relay(c, j) ==
  /\ state[j] = "row" /\ Passes(c, env[j])
  /\ state' = [state EXCEPT ![j] = "waiting"]
  /\ UNCHANGED <<rollout, env, record, deliveryVars, history>>

\* jobs.dead.replay: the record's own envelope under a new id, then the record
\* goes.  Part of a flow, unknown, waiting on children or ahead is refused.
Replay(c, j, k) ==
  /\ record[j] # "none" /\ env[j].origin # "flow" /\ Passes(c, env[j])
  /\ Store(k, env[j], "waiting")
  /\ record' = [record EXCEPT ![j] = "none"]
  /\ source' = [source EXCEPT ![k] = source[j]]
  /\ UNCHANGED <<rollout, deliveryVars, dropped>>

\* jobs.retry queues a failed job again; its dead record stays.
Retry(j) ==
  /\ state[j] \in {"failed", "stalled"}
  /\ state' = [state EXCEPT ![j] = "waiting"]
  /\ UNCHANGED <<rollout, env, record, deliveryVars, history>>

Discard(j) ==
  /\ record[j] # "none"
  /\ record' = [record EXCEPT ![j] = "none"]
  /\ dropped' = dropped \cup {source[j]}
  /\ UNCHANGED <<rollout, state, env, deliveryVars, source>>

-----------------------------------------------------------------------------
(* A delivery: dispatch up to the handler, and its end.                    *)

\* report buries the envelope as it was stored.  A queue without a dead queue
\* keeps no record, and a burial Redis refuses is logged and let go.
Report(j, why) ==
  \/ record' = [record EXCEPT ![j] = why] /\ UNCHANGED dropped
  \/ dropped' = dropped \cup {source[j]} /\ UNCHANGED record

\* The delivery fails for good.
Bury(w, why) ==
  /\ state' = [state EXCEPT ![taken[w]] = "failed"]
  /\ Report(taken[w], why)
  /\ Idle(w)
  /\ UNCHANGED <<rollout, env, source>>

Refuse_Unreported(j, why) ==
  /\ state' = [state EXCEPT ![j] = "failed"]
  /\ UNCHANGED <<rollout, env, record, deliveryVars, history>>

\* Refused before onStart.
Refuse(j, why) ==
  /\ state' = [state EXCEPT ![j] = "failed"]
  /\ Report(j, why)
  /\ UNCHANGED <<rollout, env, deliveryVars, source>>

BeginMigration(w, j) ==
  /\ state' = [state EXCEPT ![j] = "active"]
  /\ taken' = [taken EXCEPT ![w] = j]
  /\ step' = [step EXCEPT ![w] = "migrating"]
  /\ data' = [data EXCEPT ![w] = env[j].data]
  /\ from' = [from EXCEPT ![w] = env[j].v]
  /\ UNCHANGED <<rollout, env, record, history>>

\* Redis hands the job to w.  No handler of the name, then a version ahead:
\* dispatch throws on either before anything else.
Dispatch(w, j) ==
  /\ Up(w) /\ step[w] = "idle" /\ state[j] = "waiting"
  /\ IF ~Def(w).registered THEN Refuse(j, "unrecoverable")
     ELSE IF ~VersionIsKnown(Def(w), env[j]) THEN Refuse(j, "version_ahead")
     ELSE BeginMigration(w, j)

\* One turn of the loop: the step is there and resolves.
MigrateStep(w) ==
  /\ step[w] = "migrating" /\ from[w] < Def(w).version /\ from[w] \in Def(w).migrations
  /\ data' = [data EXCEPT ![w] = ApplyStep(data[w], from[w])]
  /\ from' = [from EXCEPT ![w] = from[w] + 1]
  /\ UNCHANGED <<rollout, jobVars, taken, step, history>>

\* A missing step, a step that throws, a payload its schema refuses.
Unreadable(w) == step[w] = "migrating" /\ Bury(w, "unrecoverable")

ChildrenFor_ByOrigin(w) ==
  /\ step[w] = "migrating" /\ from[w] >= Def(w).version
  /\ IF env[taken[w]].origin = "flow" /\ ChildrenShort(Def(w), env[taken[w]])
     THEN Bury(w, "children_short")
     ELSE step' = [step EXCEPT ![w] = "running"]
          /\ UNCHANGED <<rollout, jobVars, taken, data, from, history>>

\* The payload is valid; childrenFor looks at the definition of today, whatever
\* wrote the envelope, and the handler is called.
ChildrenFor(w) ==
  /\ step[w] = "migrating" /\ from[w] >= Def(w).version
  /\ IF ChildrenShort(Def(w), env[taken[w]]) THEN Bury(w, "children_short")
     ELSE step' = [step EXCEPT ![w] = "running"]
          /\ UNCHANGED <<rollout, jobVars, taken, data, from, history>>

\* The handler returns, or throws with an attempt left, or for good (what the
\* code calls attempts_exhausted is not told apart here).
HandlerEnds(w) ==
  /\ step[w] = "running"
  /\ \/ \E end \in {"completed", "waiting"} :
          /\ state' = [state EXCEPT ![taken[w]] = end]
          /\ Idle(w)
          /\ UNCHANGED <<rollout, env, record, history>>
     \/ Bury(w, "unrecoverable")

Next ==
  \/ \E p \in Processes : Stop(p) \/ \E b \in Builds : Start(p, b)
  \/ \E c \in Clients, j \in Jobs :
       \/ Enqueue(c, j) \/ EnqueueFlow(c, j) \/ EnqueueInBlock(c, j) \/ Relay(c, j)
       \/ \E k \in Jobs : Replay(c, j, k)
  \/ \E j \in Jobs : Occurs(j) \/ Retry(j) \/ Discard(j)
  \/ \E w \in Workers :
       \/ \E j \in Jobs : Dispatch(w, j)
       \/ MigrateStep(w) \/ Unreadable(w) \/ ChildrenFor(w) \/ HandlerEnds(w)

Spec == Init /\ [][Next]_vars

-----------------------------------------------------------------------------
(* Properties                                                              *)

\* data is what was written at version v, raised to version r by every step
\* between them, each once and in order.
Raised(dat, v, r) ==
  dat = [born |-> v, steps |-> [i \in 1..(r - v) |-> v + i - 1]]

\* A handler sees the payload its producer wrote, raised to exactly the version
\* its own build runs, by steps its own build declares, whichever builds
\* relayed, ran, buried, retried and replayed the envelope in between.
HandlerSeesItsVersion ==
  \A w \in Workers :
    step[w] = "running" =>
      /\ env[taken[w]].v <= Def(w).version
      /\ (env[taken[w]].v .. (Def(w).version - 1)) \subseteq Def(w).migrations
      /\ Raised(data[w], env[taken[w]].v, Def(w).version)

\* A handler that waits on children runs only over an envelope that a flow
\* wrote with a count for each slot it reads: never one a schedule, a relay, a
\* replay or a build that waited on nothing wrote.
HandlerSeesItsSlots ==
  \A w \in Workers : step[w] = "running" => Def(w).slots \subseteq env[taken[w]].slots

\* docs/versioning.md: workers first, producers second, and "nothing is ever
\* version_ahead in that order".
NothingIsAheadInOrder ==
  orderly => \A j \in Jobs : record[j] # "version_ahead"

\* What was enqueued, or committed in a row, is never lost in a rollout: it is
\* still stored, was run to its end, or is kept in the dead queue, until an
\* operator discards it.  Two cases are excused: a job no dead queue took, and
\* one whose worker died with it twice, which BullMQ fails without a word and
\* leaves in its failed set, where only jobs.retry finds it (docs/delivery.md).
Kept(j) == state[j] \in {"row", "waiting", "active", "completed"} \/ record[j] # "none"

Accounted(j) == Kept(j) \/ state[j] = "stalled"

NothingIsLost ==
  \A j \in Jobs :
    state[j] # "none" =>
      \/ source[j] \in dropped
      \/ \E k \in Jobs : source[k] = source[j] /\ Accounted(k)

-----------------------------------------------------------------------------
(***************************************************************************)
(* The inductive invariant behind the properties.                          *)
(***************************************************************************)

\* No stored envelope carries a migrated payload: whoever passes one on stores
\* it as it was written.
StoredIsRaw ==
  /\ \A j \in Jobs : env[j].data = Raw(env[j].v)
  /\ template # Down => template.data = Raw(template.v)

\* Where a delivery is in the loop of migrateEnvelope.
DeliveryInv(w) ==
  /\ step[w] = "idle" => taken[w] = Down
  /\ step[w] # "idle" =>
       /\ taken[w] \in Jobs /\ Up(w)
       /\ state[taken[w]] # "none"
       /\ env[taken[w]].v <= from[w] /\ from[w] <= Def(w).version
       /\ (env[taken[w]].v .. (from[w] - 1)) \subseteq Def(w).migrations
       /\ Raised(data[w], env[taken[w]].v, from[w])
  /\ step[w] = "running" =>
       from[w] = Def(w).version /\ Def(w).slots \subseteq env[taken[w]].slots

\* While the rollout is orderly, `newest` is a version every worker reads and
\* nothing is written above.
InOrder ==
  orderly =>
    /\ \A j \in Jobs : state[j] # "none" => env[j].v <= newest
    /\ template # Down => template.v <= newest
    /\ \A c \in Clients : Up(c) => Version(build[c]) <= newest
    /\ \A w \in Workers : Up(w) => newest <= Version(build[w])
    /\ \A j \in Jobs : record[j] # "version_ahead"

RecordsAreOfJobs == \A j \in Jobs : state[j] = "none" => record[j] = "none"

IndInv ==
  /\ TypeOK /\ StoredIsRaw /\ InOrder /\ RecordsAreOfJobs /\ NothingIsLost
  /\ \A w \in Workers : DeliveryInv(w)

=============================================================================
